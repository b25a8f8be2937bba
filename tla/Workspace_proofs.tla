-------------------------- MODULE Workspace_proofs --------------------------
(* The invariants of the workspace for every set of documents, addresses and    *)
(* ABIs, whatever the order of the calls.                                       *)
EXTENDS Workspace, TLAPS, SequenceTheorems, FiniteSetTheorems

WInv ==
    /\ TypeOK
    /\ ContextCoherent
    /\ CodeServesAccounts
    /\ LoadedRecordsValid

\* The calls that answer without touching what is loaded.
LEMMA ReplyStep ==
    ASSUME WInv, UNCHANGED <<context, accounts, code, origin>>,
           DOMAIN abis' \subseteq Addresses, Range(abis') \subseteq Abis,
           reply' \in {"none", "loaded", "batch refused", "removed", "nothing to remove",
                  "ABI set", "ABI removed", "ABI refused", "request refused", "Transaction",
                  "executed"} \cup DatabaseErrors,
           result' # {} => reply' = "executed"
    PROVE  WInv'
<1>1. accounts' = accounts /\ code' = code /\ context' = context /\ origin' = origin
  OBVIOUS
<1>2. TypeOK'
  BY <1>1 DEF WInv, TypeOK
<1>3. ContextCoherent'
  BY <1>1 DEF WInv, ContextCoherent
<1>4. CodeServesAccounts'
  BY <1>1 DEF WInv, CodeServesAccounts
<1>5. LoadedRecordsValid'
  BY <1>1 DEF WInv, LoadedRecordsValid
<1>6. QED BY <1>2, <1>3, <1>4, <1>5 DEF WInv

LEMMA AbiStep ==
    ASSUME WInv, NEW address \in Addresses \cup {Malformed}, NEW abi \in Abis \cup {NoAbi},
           SetAbi(address, abi) \/ RemoveAbi(address)
    PROVE  WInv'
<1>1. DOMAIN abis \subseteq Addresses /\ \A a \in DOMAIN abis : abis[a] \in Abis
  BY DEF WInv, TypeOK, Range
<1>2. DOMAIN abis' \subseteq Addresses /\ \A a \in DOMAIN abis' : abis'[a] \in Abis
  <2>1. CASE SetAbi(address, abi)
    BY <1>1, <2>1 DEF SetAbi, Reply
  <2>2. CASE RemoveAbi(address)
    BY <1>1, <2>2 DEF RemoveAbi, Remove, Restrict, Reply
  <2>3. QED BY <2>1, <2>2
<1>3. UNCHANGED <<context, accounts, code, origin>>
      /\ reply' \in {"ABI set", "ABI removed", "ABI refused"} /\ result' = {}
  BY DEF SetAbi, RemoveAbi, Reply
<1>4. QED BY <1>2, <1>3, ReplyStep DEF Range

\* The records of a valid document, found by address or by code hash.
LEMMA DocumentRecords ==
    ASSUME NEW doc \in Documents, SnapshotValid(doc)
    PROVE  /\ \A record \in Records(doc) : AccountRecordValid(record)
                                          /\ record.account.address \in Addresses
           /\ Records(doc) # {}
<1>1. doc.accounts \in Seq(Range(doc.accounts)) /\ doc.accounts # <<>>
  BY WorkspaceAssumption DEF SnapshotValid, AccountListValid
<1>2. Len(doc.accounts) \in Nat \ {0} /\ DOMAIN doc.accounts = 1..Len(doc.accounts)
  BY <1>1, EmptySeq, LenProperties
<1>3. \A record \in Records(doc) : \E i \in 1..Len(doc.accounts) : record = doc.accounts[i]
  BY <1>2 DEF Records, Range
<1>4. doc.accounts[1] \in Records(doc)
  BY <1>2 DEF Records, Range
<1>5. QED
  BY <1>3, <1>4, WorkspaceAssumption DEF SnapshotValid, AccountListValid

\* A valid document has one record of an address.
LEMMA RecordOfAddress ==
    ASSUME NEW doc \in Documents, SnapshotValid(doc), NEW record \in Records(doc)
    PROVE  (CHOOSE r \in Records(doc) : r.account.address = record.account.address) = record
<1> DEFINE chosen == CHOOSE r \in Records(doc) : r.account.address = record.account.address
<1>1. chosen \in Records(doc) /\ chosen.account.address = record.account.address
  OBVIOUS
<1> HIDE DEF chosen
<1>2. PICK i \in DOMAIN doc.accounts : record = doc.accounts[i]
  BY DEF Records, Range
<1>3. PICK j \in DOMAIN doc.accounts : chosen = doc.accounts[j]
  BY <1>1 DEF Records, Range
<1>4. DOMAIN doc.accounts = 1..Len(doc.accounts)
  BY WorkspaceAssumption, LenProperties
<1>5. i = j
  BY <1>1, <1>2, <1>3, <1>4 DEF SnapshotValid, AccountListValid, AddressesUnique
<1>6. QED BY <1>2, <1>3, <1>5 DEF chosen

LEMMA AddStep ==
    ASSUME WInv, NEW doc \in Documents, AddBatch(doc)
    PROVE  WInv'
<1> DEFINE At(address) == CHOOSE r \in Records(doc) : r.account.address = address
           CodeOf(hash) == (CHOOSE r \in Records(doc) : r.account.codeHash = hash).code
           new == BatchAddresses(doc)
<1>1. /\ SnapshotValid(doc) /\ (context = {} \/ context = {Context(doc)})
      /\ new \cap DOMAIN accounts = {}
      /\ accounts' = [a \in DOMAIN accounts \cup new |-> IF a \in new THEN At(a) ELSE accounts[a]]
      /\ code' = [h \in DOMAIN code \cup BatchHashes(doc) |->
                     IF h \in BatchHashes(doc) THEN CodeOf(h) ELSE code[h]]
      /\ origin' = [a \in DOMAIN origin \cup new |->
                      IF a \in new THEN Context(doc) ELSE origin[a]]
      /\ context' = {Context(doc)} /\ reply' = "loaded" /\ result' = {} /\ abis' = abis
  BY DEF AddBatch, BatchAccepted, Insert
<1>2. \A r \in Records(doc) : AccountRecordValid(r) /\ r.account.address \in Addresses
  BY <1>1, DocumentRecords
<1>3. \A a \in new : At(a) \in Records(doc) /\ At(a).account.address = a
  BY DEF BatchAddresses
<1>4. \A h \in BatchHashes(doc) : Keccak(CodeOf(h)) = h
  <2>1. \A h \in BatchHashes(doc) : \E r \in Records(doc) : r.account.codeHash = h
    BY DEF BatchHashes
  <2>2. QED BY <2>1, <1>2 DEF AccountRecordValid
<1> HIDE DEF At, CodeOf
<1>5. TypeOK'
  <2>1. new \subseteq Addresses
    BY <1>2 DEF BatchAddresses
  <2>2. QED BY <2>1, <1>1 DEF WInv, TypeOK
<1>6. ContextCoherent'
  <2>1. DOMAIN accounts' # {}
    BY <1>1, DocumentRecords DEF BatchAddresses
  <2>2. ASSUME NEW a \in DOMAIN accounts' PROVE origin'[a] = Context(doc)
    <3>1. CASE a \in new BY <3>1, <1>1 DEF WInv, TypeOK
    <3>2. CASE a \notin new
      <4>1. a \in DOMAIN accounts /\ a \in DOMAIN origin /\ origin'[a] = origin[a]
        BY <3>2, <1>1 DEF WInv, TypeOK
      <4>2. context = {origin[a]}
        BY <4>1 DEF WInv, ContextCoherent
      <4>3. QED BY <4>1, <4>2, <1>1
    <3>3. QED BY <3>1, <3>2
  <2>3. QED BY <2>1, <2>2, <1>1 DEF ContextCoherent
<1>7. LoadedRecordsValid'
  BY <1>1, <1>2, <1>3 DEF WInv, LoadedRecordsValid
<1>8. CodeServesAccounts'
  <2>1. \A a \in DOMAIN accounts : /\ accounts[a].account.codeHash \in DOMAIN code
                                   /\ code[accounts[a].account.codeHash] = accounts[a].code
                                   /\ Keccak(accounts[a].code) = accounts[a].account.codeHash
    BY DEF WInv, CodeServesAccounts, LoadedRecordsValid, AccountRecordValid
  <2>2. \A a \in new : /\ At(a).account.codeHash \in BatchHashes(doc)
                       /\ Keccak(At(a).code) = At(a).account.codeHash
    BY <1>2, <1>3 DEF BatchHashes, AccountRecordValid
  <2>3. \A x, y : Keccak(x) = Keccak(y) => x = y
    BY DEF Keccak
  <2>4. ASSUME NEW a \in DOMAIN accounts'
        PROVE code'[accounts'[a].account.codeHash] = accounts'[a].code
              /\ accounts'[a].account.codeHash \in DOMAIN code'
    <3>1. CASE a \in new
      <4>1. accounts'[a] = At(a) BY <3>1, <1>1
      <4>2. QED BY <4>1, <3>1, <2>2, <2>3, <1>1, <1>4
    <3>2. CASE a \notin new
      <4>1. a \in DOMAIN accounts /\ accounts'[a] = accounts[a] BY <3>2, <1>1
      <4>2. QED BY <4>1, <2>1, <2>3, <1>1, <1>4
    <3>3. QED BY <3>1, <3>2
  <2>5. ASSUME NEW h \in DOMAIN code'
        PROVE \E a \in DOMAIN accounts' : accounts'[a].account.codeHash = h
    <3>1. CASE h \in BatchHashes(doc)
      <4>1. PICK r \in Records(doc) : r.account.codeHash = h
        BY <3>1 DEF BatchHashes
      <4>2. r.account.address \in new
        BY DEF BatchAddresses
      <4>3. At(r.account.address) = r
        BY <1>1, RecordOfAddress DEF At
      <4>4. QED BY <4>1, <4>2, <4>3, <1>1
    <3>2. CASE h \notin BatchHashes(doc)
      <4>1. PICK a \in DOMAIN accounts : accounts[a].account.codeHash = h
        BY <3>2, <1>1 DEF WInv, CodeServesAccounts
      <4>2. QED BY <4>1, <1>1
    <3>3. QED BY <3>1, <3>2
  <2>6. QED BY <2>4, <2>5 DEF CodeServesAccounts
<1>9. QED BY <1>5, <1>6, <1>7, <1>8 DEF WInv

LEMMA RemoveStep ==
    ASSUME WInv, NEW address \in DOMAIN accounts, RemoveSnapshot(address)
    PROVE  WInv'
<1> DEFINE hash == accounts[address].account.codeHash
           remaining == Remove(accounts, address)
           used == \E a \in DOMAIN remaining : remaining[a].account.codeHash = hash
<1>1. /\ accounts' = remaining
      /\ code' = IF used THEN code ELSE Remove(code, hash)
      /\ context' = IF DOMAIN remaining = {} THEN {} ELSE context
      /\ origin' = Remove(origin, address)
      /\ reply' = "removed" /\ result' = {} /\ abis' = abis
  BY DEF RemoveSnapshot
<1>2. /\ DOMAIN remaining = DOMAIN accounts \ {address}
      /\ \A a \in DOMAIN remaining : remaining[a] = accounts[a]
  BY DEF Remove, Restrict
<1>3. /\ DOMAIN origin' = DOMAIN origin \ {address}
      /\ \A a \in DOMAIN origin' : origin'[a] = origin[a]
  BY <1>1 DEF Remove, Restrict
<1>4. /\ used => code' = code
      /\ ~used => DOMAIN code' = DOMAIN code \ {hash} /\ \A h \in DOMAIN code' : code'[h] = code[h]
  BY <1>1 DEF Remove, Restrict
<1> HIDE DEF remaining
<1>5. TypeOK'
  BY <1>1, <1>2, <1>3 DEF WInv, TypeOK
<1>6. ContextCoherent' /\ LoadedRecordsValid'
  BY <1>1, <1>2, <1>3 DEF WInv, TypeOK, ContextCoherent, LoadedRecordsValid
<1>7. CodeServesAccounts'
  <2>1. /\ DOMAIN code = {accounts[a].account.codeHash : a \in DOMAIN accounts}
        /\ \A a \in DOMAIN accounts : code[accounts[a].account.codeHash] = accounts[a].code
    BY DEF WInv, CodeServesAccounts
  <2>2. CASE used
    <3>1. PICK b \in DOMAIN remaining : remaining[b].account.codeHash = hash
      BY <2>2
    <3>2. DOMAIN code = {remaining[a].account.codeHash : a \in DOMAIN remaining}
      BY <2>1, <3>1, <1>2
    <3>3. accounts' = remaining /\ code' = code
      BY <2>2, <1>1, <1>4
    <3>4. \A a \in DOMAIN remaining : code[remaining[a].account.codeHash] = remaining[a].code
      BY <2>1, <1>2
    <3>5. QED BY <3>2, <3>3, <3>4 DEF CodeServesAccounts
  <2>3. CASE ~used
    <3>1. DOMAIN code \ {hash} = {remaining[a].account.codeHash : a \in DOMAIN remaining}
      BY <2>1, <2>3, <1>2
    <3>2. accounts' = remaining /\ DOMAIN code' = DOMAIN code \ {hash}
          /\ \A h \in DOMAIN code' : code'[h] = code[h]
      BY <2>3, <1>1, <1>4
    <3>3. \A a \in DOMAIN remaining :
             /\ remaining[a].account.codeHash \in DOMAIN code'
             /\ code[remaining[a].account.codeHash] = remaining[a].code
      BY <3>1, <3>2, <2>1, <1>2
    <3>4. QED BY <3>1, <3>2, <3>3 DEF CodeServesAccounts
  <2>4. QED BY <2>2, <2>3
<1>8. QED BY <1>5, <1>6, <1>7 DEF WInv

LEMMA WStep == WInv /\ [Next]_vars => WInv'
<1> SUFFICES ASSUME WInv, [Next]_vars PROVE WInv' OBVIOUS
<1>1. CASE \E doc \in Documents : AddBatch(doc)
  BY <1>1, AddStep
<1>2. CASE \E address \in DOMAIN accounts : RemoveSnapshot(address)
  BY <1>2, RemoveStep
<1>3. CASE \E address \in Addresses \cup {Malformed} :
              RemoveAbi(address) \/ \E abi \in Abis \cup {NoAbi} : SetAbi(address, abi)
  <2>1. PICK address \in Addresses \cup {Malformed} :
           RemoveAbi(address) \/ \E abi \in Abis \cup {NoAbi} : SetAbi(address, abi)
    BY <1>3
  <2>2. NoAbi \in Abis \cup {NoAbi}
    OBVIOUS
  <2>3. QED BY <2>1, <2>2, AbiStep
<1>4. CASE /\ UNCHANGED <<context, accounts, code, abis, origin>>
           /\ reply' \in {reply, "batch refused", "nothing to remove", "request refused",
                          "Transaction", "executed"} \cup DatabaseErrors
           /\ result' # {} => reply' = "executed"
  <2>1. DOMAIN abis' \subseteq Addresses /\ Range(abis') \subseteq Abis
    BY <1>4 DEF WInv, TypeOK
  <2>2. reply \in {"none", "loaded", "batch refused", "removed", "nothing to remove",
                  "ABI set", "ABI removed", "ABI refused", "request refused", "Transaction",
                  "executed"} \cup DatabaseErrors
    BY DEF WInv, TypeOK
  <2>3. QED BY <1>4, <2>1, <2>2, ReplyStep
<1>5. ASSUME NEW doc \in Documents, RefuseBatch(doc) PROVE WInv'
  BY <1>4, <1>5 DEF RefuseBatch, Reply
<1>6. ASSUME NEW address \in Addresses \cup {Malformed}, address \notin DOMAIN accounts,
             RemoveSnapshot(address)
      PROVE WInv'
  BY <1>4, <1>6 DEF RemoveSnapshot, Reply
<1>7. ASSUME NEW request \in Requests,
             RefuseCall(request) \/ ExecuteFails(request) \/ Execute(request)
      PROVE WInv'
  BY <1>4, <1>7 DEF RefuseCall, ExecuteFails, ReadErrors, Execute, Reply
<1>8. CASE UNCHANGED vars
  BY <1>4, <1>8 DEF vars, WInv, TypeOK
<1>9. QED
  BY <1>1, <1>2, <1>3, <1>5, <1>6, <1>7, <1>8 DEF Next

THEOREM WorkspaceInvariant == Spec => []WInv
<1>1. Init => WInv
  BY DEF Init, WInv, TypeOK, ContextCoherent, CodeServesAccounts, LoadedRecordsValid,
         EmptyMap, Range
<1>2. QED BY <1>1, WStep, PTL DEF Spec

-----------------------------------------------------------------------------
(* The theorems *)

\* The workspace's maps keep their types.
THEOREM WorkspaceTypeCorrect == Spec => []TypeOK
BY WorkspaceInvariant, PTL DEF WInv

\* Every order of loads and removals leaves the accounts of one block only.
THEOREM OneBlock == Spec => []ContextCoherent
BY WorkspaceInvariant, PTL DEF WInv

\* Every order of loads and removals leaves each account its bytecode and no
\* bytecode without an account.
THEOREM CodeMapExact == Spec => []CodeServesAccounts
BY WorkspaceInvariant, PTL DEF WInv

\* What is loaded under an address is a record of that address whose hashes hold.
THEOREM LoadedAreValid == Spec => []LoadedRecordsValid
BY WorkspaceInvariant, PTL DEF WInv

\* No call of any request ever lacks a loaded account's bytecode or a block hash
\* BLOCKHASH may ask for.
THEOREM ReadsComplete == Spec => []NoInternalError
<1>1. Init => NoInternalError
  BY DEF Init, NoInternalError
<1>2. ASSUME WInv, NEW c \in context, NEW number \in Nat
      PROVE BlockHash(c.block, c.blockHashes, number) # "MissingBlockHash"
  <2>1. PICK doc \in Documents : SnapshotValid(doc) /\ c = Context(doc)
    BY <1>2 DEF WInv, TypeOK
  <2>2. /\ BlockHashesValid(c.blockHashes, c.block) /\ c.block.number \in Nat
    BY <2>1, WorkspaceAssumption DEF SnapshotValid, Context
  <2>3. SUFFICES ASSUME number < c.block.number, c.block.number - number <= Window
                 PROVE \E i \in 1..Len(c.blockHashes) : c.blockHashes[i].number = number
    BY <2>2, FormatAssumption DEF BlockHash
  <2> DEFINE first == SaturatingSub(c.block.number, Window)
             i == number - first + 1
  <2>4. /\ first \in Nat /\ first <= number
        /\ number < first + Len(c.blockHashes) /\ Len(c.blockHashes) \in Nat
    <3>1. /\ Len(c.blockHashes) = IF c.block.number < Window THEN c.block.number ELSE Window
          /\ first = IF c.block.number < Window THEN 0 ELSE c.block.number - Window
          /\ Window \in Nat
      BY <2>2, FormatAssumption DEF BlockHashesValid, SaturatingSub
    <3> HIDE DEF first
    <3>2. \A n, w \in Nat : number < n /\ n - number <= w =>
             /\ n < w => 0 <= number /\ number < 0 + n
             /\ ~(n < w) => n - w \in Nat /\ n - w <= number /\ number < (n - w) + w
      OBVIOUS
    <3>3. CASE c.block.number < Window
      BY <3>1, <3>2, <3>3, <2>2, <2>3
    <3>4. CASE ~(c.block.number < Window)
      <4>1. first = c.block.number - Window /\ Len(c.blockHashes) = Window
        BY <3>1, <3>4
      <4>2. QED BY <4>1, <3>1, <3>2, <3>4, <2>2, <2>3
    <3>5. QED BY <3>3, <3>4
  <2>5. \A j \in 1..Len(c.blockHashes) : c.blockHashes[j].number = first + j - 1
    BY <2>2 DEF BlockHashesValid
  <2> HIDE DEF first
  <2>6. i \in 1..Len(c.blockHashes) /\ first + i - 1 = number
    BY <2>4
  <2>7. c.blockHashes[i].number = number
    BY <2>5, <2>6
  <2>8. QED BY <2>6, <2>7
<1>3. ASSUME WInv, NEW a \in DOMAIN accounts
      PROVE CodeByHash(accounts[a].account.codeHash) = "code"
  BY <1>3 DEF WInv, CodeServesAccounts, CodeByHash
<1>4. ASSUME WInv, NoInternalError, [Next]_vars PROVE NoInternalError'
  <2>1. ASSUME NEW request \in Requests, ExecuteFails(request)
        PROVE NoInternalError'
    <3>1. ASSUME NEW number \in Numbers PROVE number \in Nat
      <4>1. PICK c \in context : number \in 0..(c.block.number + 1)
        BY DEF Numbers
      <4>2. c.block.number \in Nat
        <5>1. PICK doc \in Documents : context = {Context(doc)}
          BY <1>4, <4>1 DEF WInv, TypeOK
        <5>2. c = Context(doc) /\ doc.block.number \in Nat
          BY <4>1, <5>1, WorkspaceAssumption
        <5>3. QED BY <5>2 DEF Context
      <4>3. QED BY <4>1, <4>2
    <3>2. PICK reads, emptyCaller :
             reply' \in Answers(reads, Numbers, emptyCaller) \cup {"Transaction"}
      BY <2>1 DEF ExecuteFails, ReadErrors, Reply
    <3>3. "MissingBytecode" \notin Answers(reads, Numbers, emptyCaller)
      BY <1>3, <1>4 DEF Answers, Basic, BlockHash
    <3>4. "MissingBlockHash" \notin Answers(reads, Numbers, emptyCaller)
      BY <1>2, <1>4, <3>1 DEF Answers, Basic, CodeByHash
    <3>5. QED BY <3>2, <3>3, <3>4 DEF NoInternalError
  <2>2. CASE reply' \in {reply, "loaded", "batch refused", "removed", "nothing to remove",
                         "ABI set", "ABI removed", "ABI refused", "request refused", "executed"}
    BY <2>2, <1>4 DEF NoInternalError
  <2>3. QED
    BY <2>1, <2>2, <1>4
    DEF Next, vars, AddBatch, RefuseBatch, RemoveSnapshot, SetAbi, RemoveAbi, RefuseCall,
        Execute, Reply
<1>5. QED BY <1>1, <1>4, WorkspaceInvariant, PTL DEF Spec

-----------------------------------------------------------------------------
(* A batch loads whole or not at all *)

\* Accounts come with an accepted batch, all of its records at once, and go one by
\* one with removals; whatever else is called, what stays loaded stays as it was
\* (add_batch and remove_snapshot of workspace.rs).
THEOREM BatchesAreAtomic == Spec => BatchAtomic
<1> DEFINE Kept == \A address \in DOMAIN accounts \cap DOMAIN accounts' :
                      accounts'[address] = accounts[address]
           Comes == \E doc \in Documents :
              /\ SnapshotValid(doc) /\ context' = {Context(doc)}
              /\ Added = BatchAddresses(doc)
              /\ \A record \in Records(doc) :
                    accounts'[record.account.address] = record /\ record.code \notin RefusedCode
           Goes == \E address \in Addresses : Taken = {address}
           Atomic == /\ Kept
                     /\ reply' = "batch refused" => UNCHANGED <<context, accounts, code, abis>>
                     /\ Added # {} <=> reply' = "loaded"
                     /\ Added # {} => Comes
                     /\ Taken # {} <=> reply' = "removed"
                     /\ Taken # {} => Goes
<1>1. ASSUME WInv, Next PROVE Atomic
  <2>1. ASSUME NEW doc \in Documents, AddBatch(doc) PROVE Atomic
    <3> DEFINE At(address) == CHOOSE r \in Records(doc) : r.account.address = address
               new == BatchAddresses(doc)
    <3>1. /\ reply' = "loaded" /\ SnapshotValid(doc) /\ context' = {Context(doc)}
          /\ new \cap DOMAIN accounts = {}
          /\ \A record \in Records(doc) : record.code \notin RefusedCode
          /\ accounts' = [a \in DOMAIN accounts \cup new |->
                             IF a \in new THEN At(a) ELSE accounts[a]]
      BY <2>1 DEF AddBatch, BatchAccepted, Insert
    <3>2. \A record \in Records(doc) :
             record.account.address \in new /\ At(record.account.address) = record
      BY <3>1, RecordOfAddress DEF BatchAddresses
    <3>3. new # {}
      BY <3>1, <3>2, DocumentRecords
    <3> HIDE DEF At, new
    <3>4. Kept /\ Added = new /\ Taken = {}
      BY <3>1 DEF Added, Taken
    <3>5. Comes
      BY <3>1, <3>2, <3>4 DEF new
    <3>6. QED BY <3>1, <3>3, <3>4, <3>5
  <2>2. ASSUME NEW address \in DOMAIN accounts, RemoveSnapshot(address) PROVE Atomic
    <3>1. /\ reply' = "removed" /\ accounts' = Remove(accounts, address)
          /\ address \in Addresses
      BY <1>1, <2>2 DEF RemoveSnapshot, WInv, TypeOK
    <3>2. DOMAIN accounts' = DOMAIN accounts \ {address} /\ Kept
      BY <3>1 DEF Remove, Restrict
    <3>3. Added = {} /\ Taken = {address}
      BY <3>2 DEF Added, Taken
    <3>4. QED BY <3>1, <3>2, <3>3
  <2>3. CASE /\ accounts' = accounts /\ reply' \notin {"loaded", "removed"}
             /\ reply' = "batch refused" => UNCHANGED <<context, code, abis>>
    BY <2>3 DEF Added, Taken
  <2>4. ASSUME NEW doc \in Documents, RefuseBatch(doc) PROVE Atomic
    BY <2>3, <2>4 DEF RefuseBatch, Reply
  <2>5. ASSUME NEW address \in Addresses \cup {Malformed},
               \/ address \notin DOMAIN accounts /\ RemoveSnapshot(address)
               \/ RemoveAbi(address) \/ \E abi \in Abis \cup {NoAbi} : SetAbi(address, abi)
        PROVE Atomic
    BY <2>3, <2>5 DEF RemoveSnapshot, RemoveAbi, SetAbi, Reply
  <2>6. ASSUME NEW request \in Requests,
               RefuseCall(request) \/ ExecuteFails(request) \/ Execute(request)
        PROVE Atomic
    BY <2>3, <2>6 DEF RefuseCall, ExecuteFails, Execute, ReadErrors, DatabaseErrors, Reply
  <2>7. QED BY <1>1, <2>1, <2>2, <2>4, <2>5, <2>6 DEF Next
<1>2. QED BY <1>1, WorkspaceInvariant, PTL DEF Spec, BatchAtomic

-----------------------------------------------------------------------------
(* The refinement of LoadedContracts *)

Contracts == [address \in DOMAIN accounts |-> Served(address)]

\* What the database serves is each contract's own bytecode and block.
ServedWhole ==
    \A a \in DOMAIN accounts :
        /\ Served(a) = [record |-> [accounts[a] EXCEPT !.code = {accounts[a].code}],
                        context |-> context]
        /\ context # {}

LEMMA ServedIsWhole == WInv => ServedWhole
<1> SUFFICES ASSUME WInv, NEW a \in DOMAIN accounts
             PROVE  /\ Served(a) = [record |-> [accounts[a] EXCEPT !.code = {accounts[a].code}],
                                    context |-> context]
                    /\ context # {}
  BY DEF ServedWhole
<1> DEFINE hash == accounts[a].account.codeHash
<1>1. hash \in DOMAIN code /\ code[hash] = accounts[a].code
  BY DEF WInv, CodeServesAccounts
<1>2. {code[h] : h \in {hash} \cap DOMAIN code} = {accounts[a].code}
  BY <1>1
<1>3. context # {}
  BY DEF WInv, ContextCoherent
<1> HIDE DEF hash
<1>4. QED BY <1>2, <1>3 DEF Served, hash

LEMMA LoadRefines ==
    ASSUME WInv, WInv', NEW doc \in Documents, AddBatch(doc)
    PROVE  Loaded!Load(Batch(doc)) /\ SnapshotValid(doc)
<1> DEFINE At(address) == CHOOSE r \in Records(doc) : r.account.address = address
           new == BatchAddresses(doc)
<1>1. /\ SnapshotValid(doc) /\ (context = {} \/ context = {Context(doc)})
      /\ new \cap DOMAIN accounts = {}
      /\ accounts' = [a \in DOMAIN accounts \cup new |-> IF a \in new THEN At(a) ELSE accounts[a]]
      /\ context' = {Context(doc)} /\ reply' = "loaded" /\ abis' = abis
  BY DEF AddBatch, BatchAccepted, Insert
<1>2. \A a \in DOMAIN accounts :
         Served(a) = [record |-> [accounts[a] EXCEPT !.code = {accounts[a].code}],
                      context |-> context] /\ context # {}
  BY ServedIsWhole DEF ServedWhole
<1>3. \A a \in DOMAIN accounts' :
         Served(a)' = [record |-> [accounts'[a] EXCEPT !.code = {accounts'[a].code}],
                       context |-> context']
  <2>1. ServedWhole'
    BY ServedIsWhole, PTL
  <2>2. QED BY <2>1 DEF ServedWhole
<1>4. DOMAIN Batch(doc) = new
      /\ \A a \in new : Batch(doc)[a] = [record |-> [At(a) EXCEPT !.code = {At(a).code}],
                                         context |-> {Context(doc)}]
  BY DEF Batch
<1> HIDE DEF At
<1>5. Contracts' = [a \in DOMAIN accounts \cup new |->
                       IF a \in new THEN Batch(doc)[a] ELSE Served(a)]
  <2>1. DOMAIN accounts' = DOMAIN accounts \cup new
    BY <1>1
  <2>2. ASSUME NEW a \in DOMAIN accounts \cup new
        PROVE  Served(a)' = IF a \in new THEN Batch(doc)[a] ELSE Served(a)
    <3>1. CASE a \in new
      BY <1>1, <1>3, <1>4, <2>1, <3>1
    <3>2. CASE a \notin new
      <4>1. accounts'[a] = accounts[a] /\ context' = context
        BY <1>1, <1>2, <3>2
      <4>2. QED BY <1>2, <1>3, <2>1, <3>2, <4>1
    <3>3. QED BY <3>1, <3>2
  <2>3. QED BY <2>1, <2>2 DEF Contracts
<1>6. DOMAIN Contracts = DOMAIN accounts /\ \A a \in DOMAIN accounts : Contracts[a] = Served(a)
  BY DEF Contracts
<1>7. \A a \in DOMAIN Contracts' : Contracts'[a].context = context'
  BY <1>3 DEF Contracts
<1>8. Contracts' = [a \in DOMAIN Contracts \cup DOMAIN Batch(doc) |->
                       IF a \in DOMAIN Batch(doc) THEN Batch(doc)[a] ELSE Contracts[a]]
  BY <1>4, <1>5, <1>6
<1>9. DOMAIN Batch(doc) \cap DOMAIN Contracts = {}
  BY <1>1, <1>4, <1>6
<1>10. QED BY <1>1, <1>7, <1>8, <1>9 DEF Loaded!Load, Contracts

LEMMA UnloadRefines ==
    ASSUME WInv, WInv', NEW address \in DOMAIN accounts, RemoveSnapshot(address)
    PROVE  Loaded!Unload(address)
<1>1. /\ DOMAIN accounts' = DOMAIN accounts \ {address}
      /\ \A a \in DOMAIN accounts' : accounts'[a] = accounts[a]
      /\ DOMAIN accounts' # {} => context' = context
      /\ reply' = "removed" /\ abis' = abis
  BY DEF RemoveSnapshot, Remove, Restrict
<1>2. \A a \in DOMAIN accounts :
         Served(a) = [record |-> [accounts[a] EXCEPT !.code = {accounts[a].code}],
                      context |-> context]
  BY ServedIsWhole DEF ServedWhole
<1>3. \A a \in DOMAIN accounts' :
         Served(a)' = [record |-> [accounts'[a] EXCEPT !.code = {accounts'[a].code}],
                       context |-> context']
  <2>1. ServedWhole'
    BY ServedIsWhole, PTL
  <2>2. QED BY <2>1 DEF ServedWhole
<1>4. \A a \in DOMAIN accounts' : Served(a)' = Served(a)
  BY <1>1, <1>2, <1>3
<1>5. Contracts' = [a \in DOMAIN accounts \ {address} |-> Contracts[a]]
      /\ DOMAIN Contracts = DOMAIN accounts
  BY <1>1, <1>4 DEF Contracts
<1>6. QED BY <1>1, <1>5 DEF Loaded!Unload, Loaded!Restrict, Contracts

\* The workspace implements LoadedContracts: whatever is loaded, shared and removed,
\* a call on a contract reads what the contract's own document says of it.
THEOREM WorkspaceIsLoadedContracts == Spec => ImplementsLoadedContracts
<1>1. Init => Loaded!Init
  BY DEF Init, Loaded!Init, EmptyMap
<1>2. WInv /\ WInv' /\ NoInternalError' /\ [Next]_vars => [Loaded!Next]_Loaded!vars
  <2> SUFFICES ASSUME WInv, WInv', NoInternalError', [Next]_vars
               PROVE  [Loaded!Next]_Loaded!vars
    OBVIOUS
  <2>1. DOMAIN Contracts = DOMAIN accounts /\ DOMAIN accounts \subseteq Addresses
    BY DEF Contracts, WInv, TypeOK
  <2>2. ASSUME UNCHANGED <<context, accounts, code>> PROVE Contracts' = Contracts
    BY <2>2 DEF Contracts, Served
  <2>3. ASSUME NEW answer, Reply(answer),
               answer \in {"batch refused", "nothing to remove", "ABI refused", "request refused"}
        PROVE  Loaded!Next
    BY <2>2, <2>3 DEF Reply, Loaded!Next, Loaded!Refuse, Contracts
  <2>4. ASSUME NEW doc \in Documents, AddBatch(doc) \/ RefuseBatch(doc)
        PROVE  Loaded!Next
    <3>1. CASE AddBatch(doc)
      BY <3>1, LoadRefines DEF Loaded!Next
    <3>2. CASE RefuseBatch(doc)
      BY <3>2, <2>3 DEF RefuseBatch
    <3>3. QED BY <2>4, <3>1, <3>2
  <2>5. ASSUME NEW address \in Addresses \cup {Malformed}, RemoveSnapshot(address)
        PROVE  Loaded!Next
    <3>1. CASE address \in DOMAIN accounts
      BY <2>1, <2>5, <3>1, UnloadRefines DEF Loaded!Next
    <3>2. CASE address \notin DOMAIN accounts
      BY <2>3, <2>5, <3>2 DEF RemoveSnapshot
    <3>3. QED BY <3>1, <3>2
  <2>6. ASSUME NEW address \in Addresses \cup {Malformed}, RemoveAbi(address)
        PROVE  Loaded!Next
    <3>1. CASE address = Malformed
      BY <2>3, <2>6, <3>1 DEF RemoveAbi
    <3>2. CASE address # Malformed
      BY <2>2, <2>6, <3>2
      DEF RemoveAbi, Remove, Restrict, Loaded!Next, Loaded!RemoveInterface, Loaded!Restrict, Contracts
    <3>3. QED BY <3>1, <3>2
  <2>7. ASSUME NEW address \in Addresses \cup {Malformed}, NEW abi \in Abis \cup {NoAbi},
               SetAbi(address, abi)
        PROVE  Loaded!Next
    <3>1. CASE address = Malformed \/ abi = NoAbi
      BY <2>3, <2>7, <3>1 DEF SetAbi
    <3>2. CASE address # Malformed /\ abi # NoAbi
      BY <2>2, <2>7, <3>2 DEF SetAbi, Loaded!Next, Loaded!SetInterface, Contracts
    <3>3. QED BY <3>1, <3>2
  <2>8. ASSUME NEW request \in Requests, RefuseCall(request) PROVE Loaded!Next
    BY <2>3, <2>8 DEF RefuseCall
  <2>9. ASSUME NEW request \in Requests, Execute(request) PROVE Loaded!Next
    <3>1. reply' = "executed" /\ UNCHANGED <<context, accounts, code, abis>> /\ DOMAIN accounts # {}
      BY <2>9 DEF Execute, RequestTaken
    <3>2. QED BY <2>1, <2>2, <3>1 DEF Loaded!Next, Loaded!Call, Contracts
  <2>10. ASSUME NEW request \in Requests, ExecuteFails(request) PROVE Loaded!Next
    <3> DEFINE touched == Addresses \cup {request.caller, request.target}
               emptyCaller == {request.caller} \ DOMAIN accounts
    <3>1. /\ reply' \in (DatabaseErrors \cap Answers(touched, Numbers, emptyCaller))
                       \cup {"Transaction"}
          /\ UNCHANGED <<context, accounts, code, abis>> /\ request.target \in DOMAIN accounts
      BY <2>10 DEF ExecuteFails, ReadErrors, Reply, RequestTaken
    <3> SUFFICES ASSUME reply' # "Transaction" PROVE Loaded!Next
      BY <2>1, <2>2, <3>1 DEF Loaded!Next, Loaded!Call, Contracts
    <3>2. reply' = "MissingAccount"
      BY <3>1, NoInternalError' DEF NoInternalError, DatabaseErrors
    <3>3. \E a \in touched : Basic(a, emptyCaller) = "MissingAccount"
      BY <3>1, <3>2 DEF Answers, CodeByHash, BlockHash
    <3>4. PICK a \in touched : a \notin DOMAIN accounts /\ emptyCaller # {a}
      BY <3>3 DEF Basic
    <3>5. a \in Addresses \ DOMAIN Contracts
      BY <2>1, <3>1, <3>4
    <3>6. QED BY <2>2, <3>1, <3>2, <3>5 DEF Loaded!Next, Loaded!Call, Contracts
  <2>11. CASE UNCHANGED vars
    BY <2>2, <2>11 DEF vars, Loaded!vars, Contracts
  <2>12. QED
    BY <2>4, <2>5, <2>6, <2>7, <2>8, <2>9, <2>10, <2>11 DEF Next
<1>3. QED
  BY <1>1, <1>2, WorkspaceInvariant, ReadsComplete, PTL DEF Spec, ImplementsLoadedContracts, Loaded!Spec

-----------------------------------------------------------------------------
(* What a result says *)

\* Sorting a description keeps the first function of each signature first: the
\* ranks of the functions are the places of the list, each taken once.
LEMMA FirstDescribed ==
    ASSUME NEW abi, IsAbi(abi), NEW signature
    PROVE  Function(abi, signature)
               \subseteq First(Describe(abi), Signed(Describe(abi), signature))
<1> DEFINE list == abi.functions
           n == Len(list)
           Before(i) ==
               {j \in DOMAIN list :
                   \/ list[j].signature < list[i].signature
                   \/ list[j].signature = list[i].signature /\ j < i}
           rank == [i \in 1..n |-> Cardinality(Before(i))]
           At(k) == CHOOSE i \in DOMAIN list : Cardinality(Before(i)) = k - 1
           described == Describe(abi)
<1>1. n \in Nat /\ DOMAIN list = 1..n
  BY LenProperties DEF IsAbi
<1>2. \A i \in 1..n : list[i].signature \in Nat
  BY <1>1 DEF IsAbi, Range
<1>3. DOMAIN described = 1..n /\ \A k \in 1..n : described[k] = list[At(k)]
  BY <1>1 DEF Describe
<1> HIDE DEF described, At, list, n
<1>4. \A i \in 1..n : IsFiniteSet(Before(i)) /\ Cardinality(Before(i)) \in 0..n - 1
  <2> TAKE i \in 1..n
  <2>1. Before(i) \in SUBSET (1..n \ {i})
    BY <1>1, <1>2
  <2>2. IsFiniteSet(1..n) /\ Cardinality(1..n) = n
    BY <1>1, FS_Interval
  <2>3. IsFiniteSet(1..n \ {i}) /\ Cardinality(1..n \ {i}) = n - 1
    BY <2>2, FS_RemoveElement
  <2> HIDE DEF Before
  <2>4. IsFiniteSet(Before(i)) /\ Cardinality(Before(i)) <= n - 1
    BY <2>1, <2>3, FS_Subset
  <2>5. QED BY <2>4, <1>1, FS_CardinalityType
<1>5. ASSUME NEW i \in 1..n, NEW j \in 1..n, i \in Before(j) PROVE rank[i] < rank[j]
  <2>1. Before(i) \in SUBSET (Before(j) \ {i})
    BY <1>1, <1>2, <1>5
  <2>2. i \in Before(j)
    BY <1>5
  <2> HIDE DEF Before
  <2>3. IsFiniteSet(Before(j) \ {i}) /\ Cardinality(Before(j) \ {i}) = Cardinality(Before(j)) - 1
    BY <1>4, <2>2, FS_RemoveElement
  <2>4. Cardinality(Before(i)) <= Cardinality(Before(j)) - 1
    BY <2>1, <2>3, FS_Subset
  <2>5. QED BY <2>4, <1>4
<1>6. \A i, j \in 1..n : i # j => i \in Before(j) \/ j \in Before(i)
  BY <1>1, <1>2
<1>7. rank \in [1..n -> 0..n - 1] /\ \A i, j \in 1..n : rank[i] = rank[j] => i = j
  <2>1. rank \in [1..n -> 0..n - 1]
    BY <1>4
  <2> HIDE DEF rank, Before
  <2>2. \A i \in 1..n : rank[i] \in 0..n - 1
    BY <2>1
  <2>3. \A i, j \in 1..n : i # j => rank[i] < rank[j] \/ rank[j] < rank[i]
    BY <1>5, <1>6
  <2>4. QED BY <1>1, <2>1, <2>2, <2>3
<1>8. \A k \in 1..n : \E i \in 1..n : rank[i] = k - 1
  <2> HIDE DEF rank
  <2>1. rank \in Injection(1..n, 0..n - 1)
    BY <1>7 DEF Injection, IsInjective
  <2>2. /\ IsFiniteSet(0..n - 1) /\ Cardinality(0..n - 1) = n
        /\ Cardinality(1..n) = n
    <3>1. n - 1 \in Int /\ n \in Int /\ 0 \in Int /\ 1 \in Int
      BY <1>1
    <3>2. IsFiniteSet(0..n - 1)
          /\ Cardinality(0..n - 1) = IF 0 > n - 1 THEN 0 ELSE (n - 1) - 0 + 1
      BY <3>1, FS_Interval
    <3>3. Cardinality(1..n) = IF 1 > n THEN 0 ELSE n - 1 + 1
      BY <3>1, FS_Interval
    <3>4. QED BY <1>1, <3>2, <3>3
  <2>3. rank \in Surjection(1..n, 0..n - 1)
    BY <2>1, <2>2, FS_Injection
  <2>4. \A r \in 0..n - 1 : \E i \in 1..n : rank[i] = r
    BY <2>3 DEF Surjection
  <2>5. \A k \in 1..n : k - 1 \in 0..n - 1
    BY <1>1
  <2>6. QED BY <2>4, <2>5
<1>9. \A k \in 1..n : At(k) \in 1..n /\ rank[At(k)] = k - 1
  BY <1>1, <1>8 DEF At
<1>10. \A i \in 1..n : At(rank[i] + 1) = i /\ rank[i] + 1 \in 1..n
  <2> TAKE i \in 1..n
  <2>1. rank[i] \in 0..n - 1
    BY <1>7
  <2>2. rank[i] + 1 \in 1..n /\ (rank[i] + 1) - 1 = rank[i]
    BY <2>1, <1>1
  <2> HIDE DEF rank
  <2>3. rank[At(rank[i] + 1)] = rank[i] /\ At(rank[i] + 1) \in 1..n
    BY <1>9, <2>2
  <2>4. QED BY <1>7, <2>2, <2>3
<1>11. SUFFICES ASSUME NEW j \in 1..n, list[j].signature = signature,
                       \A k \in 1..(j - 1) : list[k] \notin Signed(list, signature)
                PROVE  list[j] \in First(described, Signed(described, signature))
  <2>1. Function(abi, signature) = First(list, Signed(list, signature))
    BY DEF Function, list
  <2>2. QED BY <1>1, <1>11, <2>1 DEF First, Signed, described
<1> DEFINE place == rank[j] + 1
<1>12. place \in 1..n /\ described[place] = list[j]
  BY <1>3, <1>10
<1>13. ASSUME NEW k \in 1..(place - 1), described[k] \in Signed(described, signature)
       PROVE FALSE
  <2> DEFINE i == At(k)
  <2>1. k \in 1..n /\ k < place
    BY <1>1, <1>12, <1>13
  <2>2. i \in 1..n /\ rank[i] = k - 1 /\ list[i].signature = signature
    BY <1>3, <1>9, <1>13, <2>1 DEF Signed
  <2>3. list[i] \in Signed(list, signature)
    BY <1>1, <2>2 DEF Signed, Range
  <2>4. rank[i] < rank[j] /\ rank[i] \in Nat /\ rank[j] \in Nat
    BY <2>1, <2>2, <1>7
  <2> HIDE DEF rank, i
  <2>5. ~(i < j)
    BY <1>1, <1>11, <2>2, <2>3
  <2>6. i # j
    BY <2>4
  <2>7. j < i
    BY <2>2, <2>5, <2>6, <1>11
  <2>8. j \in Before(i)
    BY <1>1, <1>11, <2>2, <2>7
  <2> HIDE DEF Before
  <2>9. rank[j] < rank[i]
    BY <1>5, <2>2, <2>8
  <2>10. QED BY <2>4, <2>9
<1>14. list[j] \in Signed(described, signature)
  BY <1>3, <1>11, <1>12 DEF Signed, Range
<1> HIDE DEF place
<1>15. QED BY <1>3, <1>12, <1>13, <1>14 DEF First

\* Data of a standard error's selector is read as that error, or not at all.
LEMMA StandardFirst ==
    ASSUME NEW data, NEW standard \in Range(StandardErrors),
           data.selector = standard.selector, Reads(data, standard.inputs)
    PROVE  DecodeStandardRevert(data) = {standard}
<1> DEFINE selected == {error \in Range(StandardErrors) : error.selector = data.selector}
<1>1. DOMAIN StandardErrors = 1..2
      /\ StandardErrors[1].selector = "Error" /\ StandardErrors[2].selector = "Panic"
  BY DEF StandardErrors
<1>2. PICK i \in 1..2 : standard = StandardErrors[i]
  BY <1>1 DEF Range
<1>3. selected = {standard}
  BY <1>1, <1>2 DEF Range
<1> HIDE DEF selected
<1>4. \A j \in 1..2 : StandardErrors[j] \in selected <=> j = i
  BY <1>1, <1>2, <1>3
<1>5. First(StandardErrors, selected) = {standard}
  <2>1. i \in {j \in DOMAIN StandardErrors : StandardErrors[j] \in selected
                  /\ \A k \in 1..(j - 1) : StandardErrors[k] \notin selected}
    BY <1>1, <1>2, <1>4
  <2>2. QED BY <1>1, <1>2, <1>4, <2>1 DEF First
<1>6. QED BY <1>5 DEF DecodeStandardRevert, ErrorIn, selected

\* What the page is told of a call follows from how the result is formatted, and
\* no call that changes an ABI leaves a result behind (format_result and execute).
THEOREM ResultsReadAsDescribed == Spec => []ResultAsDescribed
<1>1. Init => ResultAsDescribed
  BY DEF Init, ResultAsDescribed
<1>2. ASSUME WInv, NEW request \in Requests, Execute(request)
      PROVE  ResultAsDescribed'
  <2> DEFINE target == request.target
             abi == IF target \in DOMAIN abis THEN {abis[target]} ELSE {}
             signature == request.input.signature
  <2>1. PICK status \in {"success", "revert", "halt"}, data \in Data :
           result' = {[target |-> target, signature |-> signature, status |-> status,
                       data |-> data,
                       decoded |-> Decoded(status, data, abi, signature),
                       reason |-> Reason(status, data, abi, signature)]}
    BY <1>2 DEF Execute
  <2>2. abis' = abis
    BY <1>2 DEF Execute
  <2>3. \A a \in abi : a = abis[target] /\ IsAbi(a)
    BY <1>2, WorkspaceAssumption DEF WInv, TypeOK, Range
  <2> HIDE DEF abi, signature, target
  <2>4. ASSUME NEW values \in Decoded(status, data, abi, signature)
        PROVE  /\ status = "success" /\ Reason(status, data, abi, signature) = {}
               /\ \E s \in signature :
                     LET described == Describe(abis[target])
                     IN \E function \in First(described, Signed(described, s)) :
                           function.outputs = values
    <3>1. status = "success" /\ Reason(status, data, abi, signature) = {}
      BY <2>4 DEF Decoded, Reason
    <3>2. PICK a \in abi, s \in signature : values \in DecodeOutput(a, s, data)
      BY <2>4 DEF Decoded
    <3>3. PICK function \in Function(a, s) : values = function.outputs
      BY <3>2 DEF DecodeOutput
    <3>4. function \in First(Describe(a), Signed(Describe(a), s))
      BY <2>3, <3>3, FirstDescribed
    <3>5. QED BY <2>3, <3>1, <3>3, <3>4
  <2>5. ASSUME status = "revert", NEW standard \in Range(StandardErrors),
               data.selector = standard.selector, Reads(data, standard.inputs)
        PROVE  Reason(status, data, abi, signature) = {standard}
    <3>1. DecodeStandardRevert(data) = {standard}
      BY <2>5, StandardFirst
    <3>2. \A a : DecodeRevert(a, data) = {standard}
      BY <3>1 DEF DecodeRevert
    <3>3. Reason(status, data, abi, signature)
              = IF abi = {} THEN {standard} ELSE UNION {DecodeRevert(a, data) : a \in abi}
      BY <2>5, <3>1 DEF Reason
    <3>4. abi # {} => UNION {DecodeRevert(a, data) : a \in abi} = {standard}
      BY <3>2
    <3>5. QED BY <3>3, <3>4
  <2>6. QED BY <2>1, <2>2, <2>4, <2>5 DEF ResultAsDescribed
<1>3. ASSUME ResultAsDescribed, UNCHANGED vars PROVE ResultAsDescribed'
  BY <1>3 DEF vars, ResultAsDescribed
<1>4. ASSUME WInv, ResultAsDescribed, [Next]_vars PROVE ResultAsDescribed'
  <2>1. CASE result' = {}
    BY <2>1 DEF ResultAsDescribed
  <2>2. CASE \E request \in Requests : Execute(request)
    BY <1>2, <1>4, <2>2
  <2>3. QED
    BY <1>3, <1>4, <2>1, <2>2
    DEF Next, AddBatch, RefuseBatch, RemoveSnapshot, SetAbi, RemoveAbi, RefuseCall,
        ExecuteFails, Reply
<1>5. QED BY <1>1, <1>4, WorkspaceInvariant, PTL DEF Spec
=============================================================================

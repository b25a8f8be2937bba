------------------------------ MODULE Workspace ------------------------------
(* SnapshotWorkspace and SnapshotDatabase (crates/snapshot-web/src/executor):  *)
(* the accounts a browser session has loaded, all of one block, the ABIs their *)
(* calls go through, and what an EVM call reads from them.                      *)
(*                                                                             *)
(* The workspace is driven from one worker, one call at a time, so each method *)
(* is one action.  The EVM is external: a call is known by what it asks the     *)
(* database for and, when it ends, by its status and the data it left.          *)
EXTENDS SnapshotFormat, ContractAbi

CONSTANTS Documents,      \* what a user may load: parsed documents, valid or not
          Addresses,
          Malformed,      \* a text that is no address
          RefusedCode,    \* bytecode Bytecode::new_raw_checked refuses
          Abis, NoAbi,    \* parsed ABIs; a text that is none
          Requests,       \* CallRequests: a value, gas or calldata that is refused is
                          \* "malformed", the input is calldata or a signature to encode
          Data,           \* what the EVM may return or revert with
          MaxFraction     \* u64::MAX, the largest blob fraction the EVM takes

ASSUME WorkspaceAssumption ==
    /\ Malformed \notin Addresses /\ NoAbi \notin Abis /\ MaxFraction \in Nat
    /\ \A abi \in Abis : IsAbi(abi)
    /\ \A doc \in Documents :
          /\ doc.accounts \in Seq(Range(doc.accounts)) /\ doc.block.number \in Nat
          /\ \A i \in 1..Len(doc.accounts) : doc.accounts[i].account.address \in Addresses

VARIABLES context,     \* Option<WorkspaceContext>
          accounts,    \* BTreeMap<Address, LoadedAccount>
          code,        \* BTreeMap<B256, Bytecode>
          abis,        \* BTreeMap<Address, ContractAbi>
          reply,       \* how the last call returned
          result,      \* Option<CallResult>, with what it is the result of
          origin       \* history: the context each account was loaded with

vars == <<context, accounts, code, abis, reply, result, origin>>

EmptyMap == <<>>
Remove(map, key) == Restrict(map, DOMAIN map \ {key})

Context(doc) ==
    [execution |-> doc.execution, block |-> doc.block, blockHashes |-> doc.blockHashes]
Records(doc) == Range(doc.accounts)
BatchAddresses(doc) == {record.account.address : record \in Records(doc)}
BatchHashes(doc) == {record.account.codeHash : record \in Records(doc)}

\* A call that changes nothing but its answer.
Reply(answer) ==
    reply' = answer /\ result' = {} /\ UNCHANGED <<context, accounts, code, abis, origin>>

-----------------------------------------------------------------------------
(* add_batch *)

\* [defect] a batch of another block joins the loaded accounts.
BatchAcceptedAnyContext(doc) ==
    /\ SnapshotValid(doc)
    /\ BatchAddresses(doc) \cap DOMAIN accounts = {}
    /\ \A record \in Records(doc) : record.code \notin RefusedCode

\* [defect] the document is parsed but not validated.
BatchAcceptedUnverified(doc) ==
    /\ doc.accounts # <<>>
    /\ context = {} \/ context = {Context(doc)}
    /\ BatchAddresses(doc) \cap DOMAIN accounts = {}
    /\ \A record \in Records(doc) : record.code \notin RefusedCode

\* The checks before the first insertion: the document, the shared context, the
\* addresses already present and every record's bytecode.
BatchAccepted(doc) ==
    /\ SnapshotValid(doc)
    /\ context = {} \/ context = {Context(doc)}
    /\ BatchAddresses(doc) \cap DOMAIN accounts = {}
    /\ \A record \in Records(doc) : record.code \notin RefusedCode

\* BTreeMap::insert, record after record.
Insert(map, keys, Value(_)) ==
    [key \in DOMAIN map \cup keys |-> IF key \in keys THEN Value(key) ELSE map[key]]

AddBatch(doc) ==
    /\ BatchAccepted(doc)
    /\ LET At(address) == CHOOSE r \in Records(doc) : r.account.address = address
           CodeOf(hash) == (CHOOSE r \in Records(doc) : r.account.codeHash = hash).code
           Loaded(address) == Context(doc)
       IN /\ accounts' = Insert(accounts, BatchAddresses(doc), At)
          /\ code' = Insert(code, BatchHashes(doc), CodeOf)
          /\ origin' = Insert(origin, BatchAddresses(doc), Loaded)
    /\ context' = IF context = {} THEN {Context(doc)} ELSE context
    /\ reply' = "loaded" /\ result' = {}
    /\ UNCHANGED abis

\* [defect] records are inserted as their bytecode passes, until one does not.
RefuseBatchHalfway(doc) ==
    /\ ~BatchAccepted(doc) /\ SnapshotValid(doc) /\ context \in {{}, {Context(doc)}}
    /\ BatchAddresses(doc) \cap DOMAIN accounts = {}
    /\ LET passed == {r \in Records(doc) : r.code \notin RefusedCode}
           At(address) == CHOOSE r \in passed : r.account.address = address
           Loaded(address) == Context(doc)
           added == {r.account.address : r \in passed}
       IN accounts' = Insert(accounts, added, At) /\ origin' = Insert(origin, added, Loaded)
    /\ reply' = "batch refused" /\ result' = {} /\ UNCHANGED <<context, code, abis>>

RefuseBatch(doc) ==
    /\ ~BatchAccepted(doc)
    /\ Reply("batch refused")

-----------------------------------------------------------------------------
(* remove_snapshot *)

\* [defect] the code goes with the first account that used it.
RemoveSnapshotWithCode(address) ==
    /\ address \in DOMAIN accounts
    /\ accounts' = Remove(accounts, address) /\ origin' = Remove(origin, address)
    /\ code' = Remove(code, accounts[address].account.codeHash)
    /\ context' = IF DOMAIN accounts = {address} THEN {} ELSE context
    /\ reply' = "removed" /\ result' = {} /\ UNCHANGED abis

\* [defect] an ABI goes with the account it was set for.
RemoveSnapshotWithAbi(address) ==
    IF address \notin DOMAIN accounts
    THEN Reply("nothing to remove")
    ELSE LET remaining == Remove(accounts, address)
             hashes == {remaining[a].account.codeHash : a \in DOMAIN remaining}
         IN /\ accounts' = remaining /\ code' = Restrict(code, hashes)
            /\ abis' = Remove(abis, address) /\ origin' = Remove(origin, address)
            /\ context' = IF remaining = EmptyMap THEN {} ELSE context
            /\ reply' = "removed" /\ result' = {}

RemoveSnapshot(address) ==
    IF address \notin DOMAIN accounts
    THEN Reply("nothing to remove")
    ELSE LET hash == accounts[address].account.codeHash
             remaining == Remove(accounts, address)
         IN /\ accounts' = remaining
            /\ code' = IF \E a \in DOMAIN remaining : remaining[a].account.codeHash = hash
                       THEN code
                       ELSE Remove(code, hash)
            /\ context' = IF DOMAIN remaining = {} THEN {} ELSE context
            /\ origin' = Remove(origin, address)
            /\ reply' = "removed" /\ result' = {}
            /\ UNCHANGED abis

-----------------------------------------------------------------------------
(* set_abi and remove_abi: independent of what is loaded *)

SetAbi(address, abi) ==
    IF address = Malformed \/ abi = NoAbi
    THEN Reply("ABI refused")
    ELSE /\ abis' = [a \in DOMAIN abis \cup {address} |-> IF a = address THEN abi ELSE abis[a]]
         /\ reply' = "ABI set" /\ result' = {}
         /\ UNCHANGED <<context, accounts, code, origin>>

RemoveAbi(address) ==
    IF address = Malformed
    THEN Reply("ABI refused")
    ELSE /\ abis' = Remove(abis, address)
         /\ reply' = "ABI removed" /\ result' = {}
         /\ UNCHANGED <<context, accounts, code, origin>>

-----------------------------------------------------------------------------
(* SnapshotDatabase: what the EVM reads *)

\* basic: the account, None for a caller without a snapshot, or an error.
Basic(address, emptyCaller) ==
    IF address \in DOMAIN accounts THEN "account"
    ELSE IF emptyCaller = {address} THEN "none" ELSE "MissingAccount"

CodeByHash(hash) == IF hash \in DOMAIN code THEN "code" ELSE "MissingBytecode"

\* [defect] the block one past the window is looked up too.
BlockHashPastWindow(block, hashes, number) ==
    IF number >= block.number \/ block.number - number > Window + 1 THEN "zero"
    ELSE IF \E i \in 1..Len(hashes) : hashes[i].number = number THEN "hash"
    ELSE "MissingBlockHash"

\* block_hash: zero outside BLOCKHASH's reach, the recorded hash inside it.
BlockHash(block, hashes, number) ==
    IF number >= block.number \/ block.number - number > Window
    THEN "zero"
    ELSE IF \E i \in 1..Len(hashes) : hashes[i].number = number
         THEN "hash"
         ELSE "MissingBlockHash"

\* The answers a call meets that asks for these accounts, with the code of each
\* one that is loaded, and for these blocks' hashes.
Answers(touched, numbers, emptyCaller) ==
    {Basic(address, emptyCaller) : address \in touched}
    \cup {CodeByHash(accounts[address].account.codeHash) :
             address \in touched \cap DOMAIN accounts}
    \cup {BlockHash(c.block, c.blockHashes, number) : c \in context, number \in numbers}

DatabaseErrors == {"MissingAccount", "MissingBytecode", "MissingBlockHash"}

-----------------------------------------------------------------------------
(* execute *)

\* Calldata parses or not; a call by signature is encoded with the ABI of the target.
InputTaken(request) ==
    IF request.input.signature = {} THEN request.input.calldata # "malformed"
    ELSE /\ request.target \in DOMAIN abis
         /\ \A signature \in request.input.signature :
               Encodes(abis[request.target], signature, request.input.arguments)

RequestTaken(request) ==
    /\ context # {}
    /\ Malformed \notin {request.target, request.caller}
    /\ "malformed" \notin {request.value, request.gas}
    /\ request.target \in DOMAIN accounts
    /\ request.value = "positive" => request.caller \in DOMAIN accounts
    /\ InputTaken(request)
    /\ \A c \in context : \A fraction \in c.execution.blobFraction : fraction <= MaxFraction

RefuseCall(request) == ~RequestTaken(request) /\ Reply("request refused")

\* The errors of a call that asks for these accounts and block hashes besides the
\* two accounts every call reads.
ReadErrors(request, touched, numbers) ==
    DatabaseErrors \cap Answers(touched \cup {request.caller, request.target}, numbers,
                               {request.caller} \ DOMAIN accounts)

\* The block numbers a call may ask for: the block itself, and back past genesis.
Numbers == UNION {0..(c.block.number + 1) : c \in context}

\* The EVM may ask for any of them; the first query that fails ends the call.  Or it
\* refuses the transaction itself, say for gas below what its calldata costs.
ExecuteFails(request) ==
    /\ RequestTaken(request)
    /\ \E error \in ReadErrors(request, Addresses, Numbers) \cup {"Transaction"} : Reply(error)

\* format_result's decoded and reason, each an Option.
Decoded(status, data, abi, signature) ==
    IF status # "success" THEN {} ELSE UNION {DecodeOutput(a, s, data) : a \in abi, s \in signature}

Reason(status, data, abi, signature) ==
    CASE status = "success" -> IF signature = {} \/ Decoded(status, data, abi, signature) # {}
                               THEN {} ELSE {"DecodeOutput"}
      [] status = "revert" -> IF abi = {} THEN DecodeStandardRevert(data)
                              ELSE UNION {DecodeRevert(a, data) : a \in abi}
      [] status = "halt" -> {"halt"}

\* A call whose queries were answered returns; the workspace is only borrowed.
Execute(request) ==
    /\ RequestTaken(request)
    /\ ReadErrors(request, {}, {}) = {}
    /\ \E status \in {"success", "revert", "halt"}, data \in Data :
          LET target == request.target
              abi == IF target \in DOMAIN abis THEN {abis[target]} ELSE {}
              signature == request.input.signature
          IN result' = {[target |-> target, signature |-> signature, status |-> status,
                         data |-> data,
                         decoded |-> Decoded(status, data, abi, signature),
                         reason |-> Reason(status, data, abi, signature)]}
    /\ reply' = "executed"
    /\ UNCHANGED <<context, accounts, code, abis, origin>>

-----------------------------------------------------------------------------
Init ==
    /\ context = {} /\ accounts = EmptyMap /\ code = EmptyMap /\ abis = EmptyMap
    /\ reply = "none" /\ result = {} /\ origin = EmptyMap

Next ==
    \/ \E doc \in Documents : AddBatch(doc) \/ RefuseBatch(doc)
    \/ \E address \in Addresses \cup {Malformed} :
          RemoveSnapshot(address) \/ RemoveAbi(address)
          \/ \E abi \in Abis \cup {NoAbi} : SetAbi(address, abi)
    \/ \E request \in Requests : RefuseCall(request) \/ ExecuteFails(request) \/ Execute(request)

Spec == Init /\ [][Next]_vars
-----------------------------------------------------------------------------
(* What is loaded, as LoadedContracts has it: each contract with the bytecode   *)
(* that the database serves for it and with the workspace's context.           *)

Served(address) ==
    LET hash == accounts[address].account.codeHash
    IN [record |-> [accounts[address] EXCEPT !.code = {code[h] : h \in {hash} \cap DOMAIN code}],
        context |-> context]

Batch(doc) ==
    [address \in BatchAddresses(doc) |->
        LET record == CHOOSE r \in Records(doc) : r.account.address = address
        IN [record |-> [record EXCEPT !.code = {@}], context |-> {Context(doc)}]]

Loaded == INSTANCE LoadedContracts WITH
    contracts <- [address \in DOMAIN accounts |-> Served(address)],
    interfaces <- abis, answer <- reply, Interfaces <- Abis,
    Batches <- {Batch(doc) : doc \in {d \in Documents : SnapshotValid(d)}}

-----------------------------------------------------------------------------
(* Properties *)

\* Every map has the domain and the values its Rust type gives it, and the
\* context is that of a valid document.
TypeOK ==
    /\ context = {} \/ \E doc \in Documents : SnapshotValid(doc) /\ context = {Context(doc)}
    /\ DOMAIN accounts \subseteq Addresses
    /\ DOMAIN origin = DOMAIN accounts
    /\ DOMAIN abis \subseteq Addresses /\ Range(abis) \subseteq Abis
    /\ reply \in {"none", "loaded", "batch refused", "removed", "nothing to remove",
                  "ABI set", "ABI removed", "ABI refused", "request refused", "Transaction",
                  "executed"} \cup DatabaseErrors
    /\ result # {} => reply = "executed"

\* All loaded accounts are of the one block a call executes in, through every
\* order of loads and removals: an account never meets a context it was not
\* exported with, and the context goes exactly with the last account.
ContextCoherent ==
    /\ \A address \in DOMAIN accounts : context = {origin[address]}
    /\ DOMAIN accounts = {} => context = {}

\* The shared code map serves every loaded account its own bytecode and holds
\* nothing else, although accounts that share a code hash come and go in any
\* order (remove_snapshot's code_is_still_used).
CodeServesAccounts ==
    /\ DOMAIN code = {accounts[address].account.codeHash : address \in DOMAIN accounts}
    /\ \A address \in DOMAIN accounts :
          LET record == accounts[address]
          IN code[record.account.codeHash] = record.code

\* What is loaded under an address is that address's record, hashes verified.
LoadedRecordsValid ==
    \A address \in DOMAIN accounts :
        /\ accounts[address].account.address = address
        /\ AccountRecordValid(accounts[address])

\* Accounts come only with a batch that is accepted, all of them or none: the
\* records of one valid document of the workspace's block, under their addresses.
\* They go only by a removal, one at a time.  No call changes an account that stays,
\* and a refused batch, whose bytecode is checked record by record, leaves no trace.
Added == DOMAIN accounts' \ DOMAIN accounts
Taken == DOMAIN accounts \ DOMAIN accounts'
BatchAtomic == [][
    /\ \A address \in DOMAIN accounts \cap DOMAIN accounts' :
          accounts'[address] = accounts[address]
    /\ reply' = "batch refused" => UNCHANGED <<context, accounts, code, abis>>
    /\ Added # {} <=> reply' = "loaded"
    /\ Added # {} => \E doc \in Documents :
          /\ SnapshotValid(doc) /\ context' = {Context(doc)}
          /\ Added = BatchAddresses(doc)
          /\ \A record \in Records(doc) :
                accounts'[record.account.address] = record /\ record.code \notin RefusedCode
    /\ Taken # {} <=> reply' = "removed"
    /\ Taken # {} => \E address \in Addresses : Taken = {address}
    ]_vars

\* Though bytecode is shared, the context is the workspace's and a batch is checked
\* record by record, what is loaded behaves as contracts each whole by itself: no
\* load or removal changes what a call on another contract reads (workspace.rs,
\* database.rs).
ImplementsLoadedContracts == Loaded!Spec

\* A call never fails for what the workspace should have: the bytecode of a
\* loaded account, or a block hash BLOCKHASH may ask for (the window the format
\* demands is the window the database serves).
NoInternalError == reply \notin {"MissingBytecode", "MissingBlockHash"}

\* A result reads as the page describes it.  Values come only of a successful call
\* by signature and are, one for one, the outputs of the first function that the
\* sorted description of the target's ABI has under that signature, among
\* overloads, repeated signatures and ABIs that come and go.  What the compiler
\* itself reverts with reads the same under every ABI, also one that declares an
\* error of its selector.
ResultAsDescribed ==
    \A r \in result :
        /\ \A values \in r.decoded :
              /\ r.status = "success" /\ r.reason = {}
              /\ \E signature \in r.signature :
                    LET described == Describe(abis[r.target])
                    IN \E function \in First(described, Signed(described, signature)) :
                          function.outputs = values
        /\ r.status = "revert" =>
              \A standard \in Range(StandardErrors) :
                 r.data.selector = standard.selector /\ Reads(r.data, standard.inputs)
                    => r.reason = {standard}
=============================================================================

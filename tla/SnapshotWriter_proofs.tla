----------------------- MODULE SnapshotWriter_proofs -----------------------
(* The safety of write_accounts for every request, anchor, page size, source   *)
(* and set of pages, and the successor of a key of any length: proofs of the   *)
(* invariants SnapshotWriter and KeySuccessor state.                           *)
EXTENDS SnapshotWriter, KeySuccessor, TLAPS, SequenceTheorems

-----------------------------------------------------------------------------
(* What a page does to the entries *)

\* The leaves of two runs of entries are the leaves of their concatenation.
LEMMA RangeConcat ==
    ASSUME NEW T, NEW s \in Seq(T), NEW t \in Seq(T)
    PROVE  Range(s \o t) = Range(s) \cup Range(t)
<1>1. ASSUME NEW x \in Range(s \o t) PROVE x \in Range(s) \cup Range(t)
  <2>1. PICK i \in 1..Len(s \o t) : (s \o t)[i] = x
    BY <1>1, ConcatProperties DEF Range
  <2>2. CASE i <= Len(s)
    BY <2>1, <2>2, ConcatProperties DEF Range
  <2>3. CASE i > Len(s)
    <3>1. i - Len(s) \in 1..Len(t) /\ t[i - Len(s)] = x
      BY <2>1, <2>3, ConcatProperties
    <3>2. QED BY <3>1 DEF Range
  <2>4. QED BY <2>2, <2>3, LenProperties
<1>2. ASSUME NEW x \in Range(s) PROVE x \in Range(s \o t)
  <2>1. PICK i \in 1..Len(s) : s[i] = x
    BY <1>2 DEF Range
  <2>2. i \in 1..Len(s \o t) /\ (s \o t)[i] = x
    BY <2>1, ConcatProperties, LenProperties
  <2>3. QED BY <2>2, ConcatProperties, LenProperties DEF Range
<1>3. ASSUME NEW x \in Range(t) PROVE x \in Range(s \o t)
  <2>1. PICK i \in 1..Len(t) : t[i] = x
    BY <1>3 DEF Range
  <2>2. Len(s) + i \in 1..Len(s \o t) /\ (s \o t)[Len(s) + i] = x
    BY <2>1, ConcatProperties, LenProperties
  <2>3. QED BY <2>2, ConcatProperties, LenProperties DEF Range
<1>4. QED BY <1>1, <1>2, <1>3

\* Entries stay valid when a page that starts after the last key is appended:
\* the incremental check of validate_entry is the whole-vector check of
\* StorageEntries::validate.
LEMMA ValidConcat ==
    ASSUME NEW s \in Seq(Entry), NEW t \in Seq(Entry),
           StorageEntriesValid(s), StorageEntriesValid(t),
           s # <<>> /\ t # <<>> => s[Len(s)].key < t[1].key
    PROVE  StorageEntriesValid(s \o t)
<1> DEFINE u == s \o t
<1>1. /\ Len(u) = Len(s) + Len(t) /\ Len(s) \in Nat /\ Len(t) \in Nat
      /\ \A i \in 1..Len(s) : u[i] = s[i]
      /\ \A i \in 1..Len(u) : i > Len(s) => u[i] = t[i - Len(s)]
  BY ConcatProperties, LenProperties
<1> HIDE DEF u
<1>2. ASSUME NEW i \in 1..Len(u) PROVE u[i].word # 0
  <2>1. CASE i <= Len(s) BY <1>1, <2>1 DEF StorageEntriesValid
  <2>2. CASE i > Len(s)
    <3>1. i - Len(s) \in 1..Len(t) /\ u[i] = t[i - Len(s)] BY <1>1, <2>2
    <3>2. QED BY <3>1 DEF StorageEntriesValid
  <2>3. QED BY <2>1, <2>2, <1>1
<1>3. ASSUME NEW i \in 2..Len(u) PROVE u[i - 1].key < u[i].key
  <2>1. CASE i <= Len(s) BY <1>1, <2>1 DEF StorageEntriesValid
  <2>2. CASE i = Len(s) + 1
    <3>1. u[i - 1] = s[Len(s)] /\ u[i] = t[1] BY <1>1, <2>2
    <3>2. s # <<>> /\ t # <<>> BY <1>1, <2>2
    <3>3. QED BY <3>1, <3>2
  <2>3. CASE i > Len(s) + 1
    <3>1. i - Len(s) \in 2..Len(t) /\ (i - 1) - Len(s) = (i - Len(s)) - 1
      BY <1>1, <2>3
    <3>2. u[i - 1] = t[(i - Len(s)) - 1] /\ u[i] = t[i - Len(s)]
      BY <1>1, <2>3, <3>1
    <3>3. QED BY <3>1, <3>2 DEF StorageEntriesValid
  <2>4. QED BY <2>1, <2>2, <2>3, <1>1
<1>4. QED BY <1>2, <1>3 DEF StorageEntriesValid, u

-----------------------------------------------------------------------------
(* The inductive invariant *)

\* What collect_account's locals hold between two pages of the account it is at.
LocalsConsistent ==
    /\ Len(records) < Len(accounts)
    /\ Keccak(account.code) = account.account.codeHash
    /\ leaves = Range(entries)
    /\ StorageEntriesValid(entries)
    /\ previousKey = IF entries = <<>> THEN None ELSE entries[Len(entries)].key

IInv ==
    /\ TypeOK
    /\ RecordsFaithful
    /\ phase \in {"account", "page", "finish", "done"} => ArgumentsValid
    /\ output # "empty" =>
          phase \in {"done", "failed"} /\ ArgumentsValid /\ Len(records) = Len(accounts)
    /\ phase \in {"page", "finish"} => LocalsConsistent

LEMMA InitIInv == Init => IInv
<1> SUFFICES ASSUME Init PROVE IInv OBVIOUS
<1>1. TypeOK
  BY FormatAssumption, WriterAssumption, EmptySeq
  DEF Init, TypeOK, Keys, Entry, None
<1>2. RecordsFaithful
  BY DEF Init, RecordsFaithful
<1>3. QED BY <1>1, <1>2 DEF Init, IInv

LEMMA BeginStep == IInv /\ Begin => IInv'
<1> SUFFICES ASSUME IInv, Begin PROVE IInv' OBVIOUS
<1>1. TypeOK'
  BY DEF IInv, Begin, TypeOK, Fail, Errors, arguments, locals, account
<1>2. RecordsFaithful' /\ (ArgumentsValid' <=> ArgumentsValid)
  BY DEF IInv, Begin, RecordsFaithful, ArgumentsValid, arguments
<1>3. QED
  BY <1>1, <1>2 DEF IInv, Begin, Fail, arguments, locals

\* The account being collected is one of the arguments.
LEMMA StartAccountStep == IInv /\ StartAccount => IInv'
<1> SUFFICES ASSUME IInv, StartAccount PROVE IInv' OBVIOUS
<1>1. TypeOK'
  BY FormatAssumption, EmptySeq
  DEF IInv, StartAccount, TypeOK, Fail, Errors, arguments, Keys, None, Entry
<1>2. RecordsFaithful' /\ (ArgumentsValid' <=> ArgumentsValid)
  BY DEF IInv, StartAccount, RecordsFaithful, ArgumentsValid, arguments
<1>3. phase' = "page" => LocalsConsistent'
  BY DEF StartAccount, LocalsConsistent, Fail, arguments, account, Range,
         StorageEntriesValid
<1>4. QED
  BY <1>1, <1>2, <1>3 DEF IInv, StartAccount, Fail, arguments

LEMMA RejectStep == IInv /\ (RejectPage \/ SourceFails) => IInv'
<1> SUFFICES ASSUME IInv, RejectPage \/ SourceFails PROVE IInv' OBVIOUS
<1>1. /\ phase = "page" /\ phase' = "failed" /\ error' \in Errors
      /\ UNCHANGED <<arguments, records, locals, stats, output>>
  BY DEF RejectPage, SourceFails, Fail, Errors
<1>2. TypeOK'
  BY <1>1 DEF IInv, TypeOK, Errors, arguments, locals
<1>3. RecordsFaithful' /\ (ArgumentsValid' <=> ArgumentsValid)
  BY <1>1 DEF IInv, RecordsFaithful, ArgumentsValid, arguments
<1>4. QED BY <1>1, <1>2, <1>3 DEF IInv, arguments

LEMMA WriteStep == IInv /\ WriteEnvelope => IInv'
<1> SUFFICES ASSUME IInv, WriteEnvelope PROVE IInv' OBVIOUS
<1>1. TypeOK'
  BY DEF IInv, WriteEnvelope, TypeOK, Fail, Errors, arguments, locals
<1>2. RecordsFaithful' /\ (ArgumentsValid' <=> ArgumentsValid)
  BY DEF IInv, WriteEnvelope, RecordsFaithful, ArgumentsValid, arguments
<1>3. QED
  BY <1>1, <1>2 DEF IInv, WriteEnvelope, Fail, arguments

LEMMA FinishStep == IInv /\ FinishAccount => IInv'
<1> SUFFICES ASSUME IInv, FinishAccount PROVE IInv' OBVIOUS
<1>1. LocalsConsistent BY DEF IInv, FinishAccount
<1>2. records \in Seq(Range(records)) /\ accounts \in Seq(Range(accounts))
  BY WriterAssumption DEF IInv, TypeOK
<1>3. CASE ~Collected
  <2>1. records' = records /\ phase' = "failed" /\ error' \in Errors
    BY <1>3 DEF FinishAccount, Fail, Errors
  <2>2. TypeOK'
    BY <2>1 DEF IInv, FinishAccount, TypeOK, Errors, arguments, locals
  <2>3. RecordsFaithful' /\ (ArgumentsValid' <=> ArgumentsValid)
    BY <2>1 DEF IInv, FinishAccount, RecordsFaithful, ArgumentsValid, arguments
  <2>4. QED BY <2>1, <2>2, <2>3 DEF IInv, FinishAccount, arguments
<1>4. CASE Collected
  <2> DEFINE record == [account |-> account.account, code |-> account.code,
                        storage |-> entries]
  <2>1. /\ records' = Append(records, record) /\ phase' = "account" /\ error' = error
        /\ UNCHANGED <<arguments, locals, stats, output>>
    BY <1>4 DEF FinishAccount, Fail
  <2>2. /\ Len(records') = Len(records) + 1 /\ Len(records) \in Nat
        /\ \A i \in 1..Len(records) : records'[i] = records[i]
        /\ records'[Len(records) + 1] = record
    BY <2>1, <1>2, AppendProperties
  <2>3. records' \in Seq(Range(records'))
    <3>1. records' \in Seq(Range(records) \cup {record})
      <4>1. records \in Seq(Range(records) \cup {record})
        BY <1>2
      <4>2. QED BY <4>1, <2>1, AppendProperties
    <3>2. QED BY <3>1, SeqOfRange
  <2>4. Len(records') <= Len(accounts')
    BY <2>1, <2>2, <1>1, <1>2 DEF LocalsConsistent, arguments
  <2>5. TypeOK'
    BY <2>1, <2>3, <2>4 DEF IInv, FinishAccount, TypeOK, arguments, locals
  <2>6. AccountRecordValid(record)
    BY <1>1, <1>4 DEF LocalsConsistent, Collected, AccountRecordValid, StorageRoot
  <2>7. RecordsFaithful'
    <3>1. SUFFICES ASSUME NEW i \in 1..Len(records')
                   PROVE /\ records'[i].account = accounts[i].account
                         /\ records'[i].code = accounts[i].code
                         /\ AccountRecordValid(records'[i])
      BY <2>1 DEF RecordsFaithful, arguments, AccountRecordValid, StorageRoot,
                  StorageEntriesValid, Keccak, Range
    <3>2. CASE i \in 1..Len(records)
      BY <3>2, <2>2 DEF IInv, RecordsFaithful
    <3>3. CASE i = Len(records) + 1
      BY <3>3, <2>2, <2>6 DEF account
    <3>4. QED BY <3>2, <3>3, <2>2
  <2>8. ArgumentsValid'
    BY <2>1 DEF IInv, FinishAccount, ArgumentsValid, arguments
  <2>9. QED BY <2>1, <2>5, <2>7, <2>8 DEF IInv, FinishAccount
<1>5. QED BY <1>3, <1>4

\* The one step that moves the pagination: an accepted page keeps the locals
\* consistent, and the next start key is a key.
LEMMA AcceptStep == IInv /\ AcceptPage => IInv'
<1> SUFFICES ASSUME IInv, AcceptPage PROVE IInv' OBVIOUS
<1>1. PICK page \in SourcePages :
        LET es == page.entries IN
        /\ ShapeValid(page) /\ EntriesValid(es) /\ Len(es) <= Room
        /\ entries' = entries \o es
        /\ leaves' = leaves \cup Range(es)
        /\ previousKey' = IF es = <<>> THEN previousKey ELSE LastKey(page)
        /\ stats' = [pages |-> stats.pages + 1, entries |-> stats.entries + Len(es)]
        /\ Continue(page)
  BY DEF AcceptPage
<1> DEFINE es == page.entries
<1>2. /\ phase = "page" /\ UNCHANGED <<arguments, records, output>>
      /\ LocalsConsistent /\ TypeOK /\ RecordsFaithful /\ ArgumentsValid /\ output = "empty"
  BY DEF AcceptPage, IInv
<1>3. page \in Page /\ es \in Seq(Entry) /\ Len(es) \in Nat /\ entries \in Seq(Entry)
      /\ Len(entries) \in Nat
  BY <1>2, WriterAssumption, LenProperties DEF SourcePages, Page, TypeOK
<1>4. /\ \A i \in 1..Len(es) : es[i] \in Entry /\ es[i].key \in Nat /\ es[i].key <= MaxKey
      /\ \A i \in 1..Len(entries) : entries[i].key \in Nat
  <2>1. \A i \in 1..Len(es) : es[i] \in Entry
    BY <1>3, ElementOfSeq
  <2>2. \A i \in 1..Len(entries) : entries[i] \in Entry
    BY <1>3, ElementOfSeq
  <2>3. \A e \in Entry : e.key \in Nat /\ e.key <= MaxKey
    BY FormatAssumption DEF Entry, Keys
  <2>4. QED BY <2>1, <2>2, <2>3
<1>5. es # <<>> => Len(es) \in 1..Len(es) /\ LastKey(page) = es[Len(es)].key
                   /\ LastKey(page) \in Keys
  BY <1>3, <1>4, EmptySeq, FormatAssumption DEF LastKey, Keys
<1>6. StorageEntriesValid(es)
  <2>1. \A i \in 1..Len(es) : EntryValid(es, i)
    BY <1>1 DEF EntriesValid
  <2>2. \A i \in 1..Len(es) : es[i].word # 0
    BY <2>1 DEF EntryValid
  <2>3. ASSUME NEW i \in 2..Len(es) PROVE es[i - 1].key < es[i].key
    <3>1. i \in 1..Len(es) /\ i # 1 /\ i - 1 \in 1..Len(es)
      BY <1>3
    <3>2. es[i].key > es[i - 1].key
      BY <2>1, <3>1 DEF EntryValid
    <3>3. QED BY <3>1, <3>2, <1>4
  <2>4. QED BY <2>2, <2>3 DEF StorageEntriesValid
<1>7. StorageEntriesValid(entries') /\ leaves' = Range(entries')
  <2>1. entries # <<>> /\ es # <<>> => entries[Len(entries)].key < es[1].key
    <3>1. SUFFICES ASSUME entries # <<>>, es # <<>>
                   PROVE entries[Len(entries)].key < es[1].key
      OBVIOUS
    <3>2. 1 \in 1..Len(es) /\ Len(entries) \in 1..Len(entries)
      BY <1>3, <3>1, EmptySeq
    <3>3. EntryValid(es, 1)
      BY <1>1, <3>2 DEF EntriesValid
    <3>4. previousKey = entries[Len(entries)].key
      BY <1>2, <3>1 DEF LocalsConsistent
    <3>5. QED BY <3>2, <3>3, <3>4, <1>4 DEF EntryValid
  <2>2. StorageEntriesValid(entries \o es)
    BY <2>1, <1>2, <1>3, <1>6, ValidConcat DEF LocalsConsistent
  <2>3. QED BY <2>2, <1>1, <1>2, <1>3, RangeConcat DEF LocalsConsistent
<1>8. previousKey' = IF entries' = <<>> THEN None ELSE entries'[Len(entries')].key
  <2>1. CASE es = <<>>
    BY <2>1, <1>1, <1>2, <1>3, ConcatEmptySeq DEF LocalsConsistent
  <2>2. CASE es # <<>>
    <3>1. Len(entries') = Len(entries) + Len(es) /\ Len(es) > 0
      BY <2>2, <1>1, <1>3, ConcatProperties, EmptySeq
    <3>2. entries'[Len(entries')] = es[Len(es)]
      BY <3>1, <1>1, <1>3, ConcatProperties
    <3>3. entries' # <<>>
      BY <3>1, <1>3, EmptySeq
    <3>4. QED BY <3>2, <3>3, <2>2, <1>1, <1>5
  <2>3. QED BY <2>1, <2>2
<1>9. LocalsConsistent'
  BY <1>2, <1>7, <1>8 DEF LocalsConsistent, arguments, account
<1>10. /\ start' \in Keys /\ phase' \in {"page", "finish", "failed"}
       /\ error' \in Errors \cup {"none"} /\ (phase' = "failed") = (error' # "none")
  <2>1. page.end = "ByteLimit" => LastKey(page) \in Keys
    BY <1>1, <1>5 DEF ShapeValid
  <2>2. page.end \in RangeEnd
    BY <1>3 DEF Page
  <2>3. start \in Keys /\ error = "none"
    BY <1>2 DEF TypeOK
  <2>4. CASE page.end = "Exhausted"
    BY <2>3, <2>4, <1>1 DEF Continue
  <2>5. CASE page.end = "HashLimit"
    BY <2>3, <2>5, <1>1 DEF Continue, Fail, Errors
  <2>6. CASE page.end = "ByteLimit"
    <3> DEFINE next == KeySuccessor(LastKey(page))
    <3>1. next \in Keys \cup {None}
      BY <2>1, <2>6, FormatAssumption DEF KeySuccessor, Keys, None
    <3>2. CASE next > start
      <4>1. start' = next /\ phase' = "page" /\ error' = error
        BY <3>2, <3>1, <2>3, <2>6, <1>1, <1>2, FormatAssumption
        DEF Continue, Keys, None, Fail
      <4>2. QED BY <4>1, <3>1, <3>2, <2>3, FormatAssumption DEF Keys, None
    <3>3. CASE ~(next > start)
      <4>1. start' = start /\ phase' = "failed"
            /\ error' \in {"ContinuationOverflow", "NoPaginationProgress"}
        BY <3>3, <2>6, <1>1 DEF Continue, Fail
      <4>2. QED BY <4>1, <2>3 DEF Errors
    <3>4. QED BY <3>2, <3>3
  <2>7. QED BY <2>2, <2>4, <2>5, <2>6 DEF RangeEnd
<1>11. TypeOK'
  <2>1. stats' \in [pages : Nat, entries : 0..CountLimit]
    BY <1>1, <1>2, <1>3, WriterAssumption DEF TypeOK, Room
  <2>2. entries' \in Seq(Entry)
    BY <1>1, <1>3, ConcatProperties
  <2>3. leaves' \subseteq Entry
    BY <2>2, <1>7, LenProperties DEF Range
  <2>4. previousKey' \in Keys \cup {None}
    BY <1>1, <1>2, <1>5 DEF TypeOK
  <2>5. QED
    BY <1>2, <1>10, <2>1, <2>2, <2>3, <2>4 DEF TypeOK, arguments
<1>12. RecordsFaithful' /\ ArgumentsValid'
  BY <1>2 DEF RecordsFaithful, ArgumentsValid, arguments
<1>13. QED BY <1>2, <1>9, <1>10, <1>11, <1>12 DEF IInv

LEMMA StutterStep == IInv /\ UNCHANGED vars => IInv'
<1> SUFFICES ASSUME IInv, UNCHANGED vars PROVE IInv' OBVIOUS
<1>1. TypeOK' /\ RecordsFaithful' /\ (ArgumentsValid' <=> ArgumentsValid)
  BY DEF IInv, TypeOK, RecordsFaithful, ArgumentsValid, vars, arguments, locals
<1>2. LocalsConsistent' <=> LocalsConsistent
  BY DEF LocalsConsistent, vars, arguments, locals, account
<1>3. QED BY <1>1, <1>2 DEF IInv, vars, arguments

THEOREM InductiveInvariant == Spec => []IInv
<1>1. IInv /\ [Next]_vars => IInv'
  BY BeginStep, StartAccountStep, AcceptStep, RejectStep, FinishStep, WriteStep,
     StutterStep
  DEF Next, Returned
<1>2. QED BY <1>1, InitIInv, PTL DEF Spec

-----------------------------------------------------------------------------
(* The theorems *)

\* Every variable of the writer keeps its type, whatever the source answers.
THEOREM TypeCorrect == Spec => []TypeOK
BY InductiveInvariant, PTL DEF IInv

\* Whatever pages a source answers with, a collected record is the requested
\* account with exactly the storage its root commits to.
THEOREM RecordsAreFaithful == Spec => []RecordsFaithful
BY InductiveInvariant, PTL DEF IInv

\* What write_accounts wrote in full loads: it passes Snapshot::validate, which
\* the writer never calls.
THEOREM WrittenSnapshotLoads == Spec => []OutputLoads
<1>1. ASSUME IInv, output = "complete" PROVE SnapshotValid(Envelope)
  <2>1. /\ ArgumentsValid /\ Len(records) = Len(accounts) /\ RecordsFaithful /\ TypeOK
    BY <1>1 DEF IInv
  <2>2. records # <<>> /\ AddressesUnique(records)
    <3>1. Len(accounts) # 0
      BY <2>1, WriterAssumption, EmptySeq DEF ArgumentsValid, TypeOK
    <3>2. records # <<>>
      BY <3>1, <2>1
    <3>3. AddressesUnique(records)
      BY <2>1 DEF ArgumentsValid, AddressesUnique, RecordsFaithful
    <3>4. QED BY <3>2, <3>3
  <2>3. AccountListValid(records)
    BY <2>1, <2>2 DEF AccountListValid, RecordsFaithful
  <2>4. QED
    BY <2>1, <2>3 DEF SnapshotValid, Envelope, ArgumentsValid
<1>2. IInv => OutputLoads
  BY <1>1 DEF IInv, OutputLoads
<1>3. QED BY <1>2, InductiveInvariant, PTL

-----------------------------------------------------------------------------
(* The number of source calls *)

\* A call of write_accounts asks its source for at most MaxKey + 1 pages per
\* account, so it returns as soon as each call of the source does.
THEOREM SourceCallsBounded == Spec => []CallsBounded
<1> DEFINE M == MaxKey + 1
           N == Len(records)
<1>1. Init => CallsBounded
  BY FormatAssumption DEF Init, CallsBounded
<1>2. ASSUME IInv, CallsBounded, [Next]_vars PROVE CallsBounded'
  <2>1. /\ N \in Nat /\ stats.pages \in Nat /\ start \in 0..MaxKey /\ MaxKey \in Nat
        /\ (N + 1) * M = N * M + M /\ ((N + 1) + 1) * M = (N + 1) * M + M /\ N * M \in Nat
    <3>1. N \in Nat /\ stats.pages \in Nat /\ start \in 0..MaxKey /\ MaxKey \in Nat
      BY <1>2, FormatAssumption, LenProperties DEF IInv, TypeOK, Keys
    <3>2. \A a, b \in Nat : (a + 1) * b = a * b + b /\ a * b \in Nat
      OBVIOUS
    <3>3. QED BY <3>1, <3>2
  <2>2. /\ phase \in {"begin", "account"} => stats.pages <= N * M
        /\ phase = "page" => stats.pages <= N * M + start
        /\ stats.pages <= (N + 1) * M
    BY <1>2 DEF CallsBounded
  <2> HIDE DEF N
  <2>3. CASE Begin \/ RejectPage \/ SourceFails \/ WriteEnvelope \/ Returned
            \/ UNCHANGED vars
    <3>1. records' = records /\ stats' = stats /\ start' = start
          /\ phase' \in {"account", "failed", "done", phase}
          /\ (phase' = "account" => phase \in {"begin", "account"})
      BY <2>3 DEF Begin, RejectPage, SourceFails, WriteEnvelope, Returned, Fail,
                  vars, locals
    <3>2. QED BY <3>1, <2>1, <2>2 DEF CallsBounded, N
  <2>4. CASE StartAccount
    <3>1. records' = records /\ stats' = stats /\ start' = 0 /\ phase = "account"
          /\ phase' \in {"page", "failed"}
      BY <2>4 DEF StartAccount, Fail
    <3>2. QED BY <3>1, <2>1, <2>2 DEF CallsBounded, N
  <2>5. CASE AcceptPage
    <3>1. PICK page \in SourcePages :
            stats'.pages = stats.pages + 1 /\ Continue(page)
      BY <2>5 DEF AcceptPage
    <3>2. /\ records' = records /\ phase = "page"
          /\ phase' \in {"page", "finish", "failed"}
          /\ phase' = "page" => start' > start
      BY <3>1, <2>5 DEF AcceptPage, Continue, Fail, SourcePages
    <3>3. start' \in Keys
      BY <1>2, <2>5, AcceptStep DEF IInv, TypeOK
    <3>4. QED BY <3>1, <3>2, <3>3, <2>1, <2>2 DEF CallsBounded, N, Keys
  <2>6. CASE FinishAccount
    <3>1. stats' = stats /\ phase' \in {"account", "failed"}
          /\ (phase' = "account" => Len(records') = N + 1)
          /\ (phase' = "failed" => records' = records)
      BY <2>6, <1>2, AppendProperties
      DEF FinishAccount, Fail, IInv, TypeOK, N
    <3>2. QED BY <3>1, <2>1, <2>2 DEF CallsBounded, N
  <2>7. QED BY <1>2, <2>3, <2>4, <2>5, <2>6 DEF Next
<1>3. QED BY <1>1, <1>2, InductiveInvariant, PTL DEF Spec

-----------------------------------------------------------------------------
(* A trie as the source *)

\* The strengthening of PagesTile and NoSpuriousFailure: it also says what is
\* collected once the trie reports exhaustion.
TrieInv ==
    /\ PagesTile
    /\ NoSpuriousFailure
    /\ trusted /\ phase = "finish" => Range(entries) = Committed

\* The leaves of the current account are entries.
LEMMA CommittedEntries ==
    ASSUME IInv, trusted, Len(records) < Len(accounts)
    PROVE  Committed \subseteq Entry /\ Keccak(Committed) = account.account.storageRoot
<1>1. accounts \in AccountLists /\ Len(records) + 1 \in 1..Len(accounts)
  <2>1. Len(records) \in Nat /\ accounts \in Seq(Range(accounts))
    BY WriterAssumption, LenProperties DEF IInv, TypeOK
  <2>2. Len(accounts) \in Nat
    BY <2>1, LenProperties
  <2>3. QED BY <2>1, <2>2 DEF IInv, TypeOK
<1>2. QED BY <1>1 DEF IInv, TypeOK, RootsComputed, Committed, account

\* One page of a trie: nothing in it is refused, and with what was collected
\* before it holds every leaf up to its end.
LEMMA TriePageAccepted ==
    ASSUME IInv, TrieInv, trusted, phase = "page", NEW page \in SourcePages
    PROVE  /\ ShapeValid(page)
           /\ EntriesValid(page.entries)
           /\ page.end = "Exhausted" =>
                Range(entries) \cup Range(page.entries) = Committed
           /\ page.end # "Exhausted" =>
                /\ LastKey(page) \in Keys /\ LastKey(page) >= start
                /\ \E leaf \in Committed : leaf.key = LastKey(page)
                /\ Range(entries) \cup Range(page.entries) =
                     {leaf \in Committed : leaf.key < LastKey(page) + 1}
<1> DEFINE es == page.entries
<1>1. /\ Committed \subseteq Entry /\ start \in Keys
      /\ Range(entries) = {leaf \in Committed : leaf.key < start} /\ previousKey < start
      /\ previousKey \in Keys \cup {None}
  BY CommittedEntries DEF IInv, TrieInv, PagesTile, LocalsConsistent, TypeOK
<1>2. /\ TriePage(page) /\ page \in Page /\ es \in Seq(Entry) /\ Len(es) \in Nat
      /\ DOMAIN es = 1..Len(es)
  BY WriterAssumption, LenProperties DEF SourcePages, Page
<1>3. \A e \in Entry : e.key \in Nat /\ e.key <= MaxKey
  BY FormatAssumption DEF Entry, Keys
<1>4. \A i \in 1..Len(es) : es[i] \in Entry /\ es[i] \in Committed /\ es[i].key >= start
  <2>1. \A i \in 1..Len(es) : es[i] \in Range(es)
    BY <1>2 DEF Range
  <2>2. Range(es) \subseteq {leaf \in Committed : leaf.key >= start}
    BY <1>2 DEF TriePage
  <2>3. QED BY <2>1, <2>2, <1>1
<1>5. ShapeValid(page)
  BY <1>2 DEF TriePage, ShapeValid
<1>6. EntriesValid(es)
  <2>1. SUFFICES ASSUME NEW i \in 1..Len(es) PROVE EntryValid(es, i)
    BY DEF EntriesValid
  <2>2. es[i].word # 0 /\ (i \in 2..Len(es) => es[i - 1].key < es[i].key)
    BY <1>2 DEF TriePage, StorageEntriesValid
  <2>3. es[i].key >= start /\ es[i].key \in Nat
    BY <1>3, <1>4
  <2>4. CASE i = 1
    BY <2>2, <2>3, <2>4, <1>1, FormatAssumption DEF EntryValid, LeafAccepted, Keys, None
  <2>5. CASE i # 1
    <3>1. es[i - 1].key \in Nat BY <2>5, <1>2, <1>3, <1>4
    <3>2. QED BY <2>2, <2>3, <2>5, <3>1, <1>2 DEF EntryValid, LeafAccepted
  <2>6. QED BY <2>4, <2>5
<1>7. CASE page.end = "Exhausted"
  <2>1. Range(es) = {leaf \in Committed : leaf.key >= start}
    BY <1>2, <1>7 DEF TriePage
  <2>2. \A leaf \in Committed : leaf.key < start \/ leaf.key >= start
    BY <1>1, <1>3 DEF Keys
  <2>3. Range(entries) \cup Range(es) = Committed
    BY <2>1, <2>2, <1>1
  <2>4. QED BY <2>3, <1>5, <1>6, <1>7
<1>8. CASE page.end # "Exhausted"
  <2>1. /\ es # <<>>
        /\ Range(es) = {leaf \in Committed : leaf.key >= start /\ leaf.key <= LastKey(page)}
    BY <1>2, <1>8 DEF TriePage
  <2>2. Len(es) \in 1..Len(es) /\ LastKey(page) = es[Len(es)].key
    BY <2>1, <1>2, EmptySeq DEF LastKey
  <2>3. /\ LastKey(page) \in Keys /\ LastKey(page) >= start
        /\ es[Len(es)] \in Committed
    BY <2>2, <1>3, <1>4 DEF Keys, Entry
  <2>4. Range(entries) \cup Range(es) = {leaf \in Committed : leaf.key < LastKey(page) + 1}
    <3>1. \A leaf \in Committed :
            leaf.key < LastKey(page) + 1 <=>
              leaf.key < start \/ (leaf.key >= start /\ leaf.key <= LastKey(page))
      BY <1>1, <1>3, <2>3, FormatAssumption DEF Keys
    <3>2. QED BY <3>1, <2>1, <1>1
  <2>5. QED BY <2>2, <2>3, <2>4, <1>5, <1>6, <1>8
<1>9. QED BY <1>7, <1>8

LEMMA TrieInvariant == Spec => []TrieInv
<1>1. Init => TrieInv
  BY DEF Init, TrieInv, PagesTile, NoSpuriousFailure
<1>2. ASSUME IInv, TrieInv, [Next]_vars PROVE TrieInv'
  <2>a. trusted' = trusted
    BY <1>2 DEF Next, Begin, StartAccount, AcceptPage, RejectPage, SourceFails, FinishAccount,
       WriteEnvelope, Returned, vars, arguments
  <2> SUFFICES ASSUME trusted PROVE TrieInv'
    BY <2>a DEF TrieInv, PagesTile, NoSpuriousFailure
  <2>1. CASE Begin
    BY <2>1 DEF Begin, Fail, TrieInv, PagesTile, NoSpuriousFailure
  <2>2. CASE StartAccount
    <3>1. phase' = "page" => Range(entries') = {leaf \in Committed' : leaf.key < start'}
                             /\ previousKey' < start'
      <4>1. Committed' = Committed /\ Committed \subseteq Entry
        BY <2>2, <1>2, CommittedEntries DEF StartAccount, Committed, account, arguments
      <4>2. \A leaf \in Committed : ~(leaf.key < 0)
        BY <4>1, FormatAssumption DEF Entry, Keys
      <4>3. QED BY <2>2, <4>1, <4>2 DEF StartAccount, Range, None
    <3>2. QED BY <2>2, <3>1 DEF StartAccount, Fail, TrieInv, PagesTile, NoSpuriousFailure
  <2>3. CASE AcceptPage
    <3>1. PICK page \in SourcePages :
            /\ entries' = entries \o page.entries
            /\ previousKey' = IF page.entries = <<>> THEN previousKey ELSE LastKey(page)
            /\ Continue(page)
      BY <2>3 DEF AcceptPage
    <3>2. phase = "page" /\ UNCHANGED <<arguments, records>> /\ Committed' = Committed
      BY <2>3 DEF AcceptPage, Committed, account, arguments
    <3>3. Range(entries') = Range(entries) \cup Range(page.entries)
      BY <3>1, <1>2, RangeConcat, WriterAssumption DEF IInv, TypeOK, SourcePages, Page
    <3>4. /\ page.end \in RangeEnd
          /\ page.end = "Exhausted" => Range(entries') = Committed
          /\ page.end # "Exhausted" =>
                /\ page.entries # <<>> /\ LastKey(page) \in Keys /\ LastKey(page) >= start
                /\ \E leaf \in Committed : leaf.key = LastKey(page)
                /\ Range(entries') = {leaf \in Committed : leaf.key < LastKey(page) + 1}
      <4>1. /\ page.end \in RangeEnd /\ ShapeValid(page)
        BY <1>2, <3>2, TriePageAccepted, WriterAssumption DEF SourcePages, Page
      <4>2. QED BY <4>1, <1>2, <3>2, <3>3, TriePageAccepted DEF ShapeValid
    <3>5. start \in Keys
      BY <1>2 DEF IInv, TypeOK
    <3>6. CASE page.end = "Exhausted"
      BY <3>1, <3>2, <3>4, <3>6 DEF Continue, TrieInv, PagesTile, NoSpuriousFailure
    <3>7. CASE page.end = "HashLimit"
      <4>1. LastKey(page) = MaxKey
        BY <3>7, <2>3 DEF SourcePages, TriePage
      <4>2. phase' = "failed" /\ error' = "MaximumKeyWithoutExhaustion"
        BY <3>1, <3>7, <4>1 DEF Continue, Fail
      <4>3. QED BY <4>1, <4>2, <3>2, <3>4, <3>7
                DEF TrieInv, PagesTile, NoSpuriousFailure
    <3>8. CASE page.end = "ByteLimit" /\ LastKey(page) = MaxKey
      <4>1. phase' = "failed" /\ error' = "ContinuationOverflow"
        BY <3>1, <3>5, <3>8, FormatAssumption DEF Continue, Fail, KeySuccessor, None, Keys
      <4>2. QED BY <4>1, <3>2, <3>4, <3>8 DEF TrieInv, PagesTile, NoSpuriousFailure
    <3>9. CASE page.end = "ByteLimit" /\ LastKey(page) # MaxKey
      <4>1. phase' = "page" /\ start' = LastKey(page) + 1
        BY <3>1, <3>2, <3>4, <3>5, <3>9, FormatAssumption
        DEF Continue, Fail, KeySuccessor, None, Keys
      <4>2. previousKey' < start'
        BY <3>1, <3>4, <3>9, <4>1, FormatAssumption DEF Keys
      <4>3. QED BY <4>1, <4>2, <3>2, <3>4, <3>9 DEF TrieInv, PagesTile, NoSpuriousFailure
    <3>10. QED BY <3>4, <3>6, <3>7, <3>8, <3>9 DEF RangeEnd
  <2>4. CASE RejectPage
    <3>1. PICK page \in SourcePages :
            \/ ~ShapeValid(page)
            \/ \E i \in 1..Len(page.entries) : ~EntryValid(page.entries, i)
            \/ error' = "EntryCountOverflow"
      BY <2>4 DEF RejectPage, Fail
    <3>2. phase = "page" /\ phase' = "failed"
      BY <2>4 DEF RejectPage, Fail
    <3>3. ShapeValid(page) /\ EntriesValid(page.entries)
      BY <3>2, <1>2, TriePageAccepted
    <3>4. error' = "EntryCountOverflow"
      BY <3>1, <3>3 DEF EntriesValid
    <3>5. QED BY <3>2, <3>4 DEF TrieInv, PagesTile, NoSpuriousFailure
  <2>5. CASE SourceFails
    BY <2>5 DEF SourceFails, Fail, TrieInv, PagesTile, NoSpuriousFailure
  <2>6. CASE FinishAccount
    <3>1. Collected
      BY <2>6, <1>2, CommittedEntries
      DEF FinishAccount, Collected, IInv, LocalsConsistent, TrieInv
    <3>2. phase' = "account"
      BY <2>6, <3>1 DEF FinishAccount
    <3>3. QED BY <3>2 DEF TrieInv, PagesTile, NoSpuriousFailure
  <2>7. CASE WriteEnvelope
    BY <2>7 DEF WriteEnvelope, Fail, TrieInv, PagesTile, NoSpuriousFailure
  <2>8. CASE Returned \/ UNCHANGED vars
    <3>1. UNCHANGED vars
      BY <2>8 DEF Returned
    <3>2. QED BY <3>1, <1>2
      DEF TrieInv, PagesTile, NoSpuriousFailure, Committed, account, vars, arguments, locals
  <2>9. QED BY <1>2, <2>1, <2>2, <2>3, <2>4, <2>5, <2>6, <2>7, <2>8 DEF Next
<1>3. QED BY <1>1, <1>2, InductiveInvariant, PTL DEF Spec

\* Read from a trie, the pages taken tile the account's storage: what is collected
\* is every committed leaf below the next start key (collect_account).
THEOREM PagesAreTiled == Spec => []PagesTile
BY TrieInvariant, PTL DEF TrieInv

\* Read from a trie no consistency check ever fires: only the node, the counter or
\* the maximum key can fail an export.
THEOREM TrieIsAccepted == Spec => []NoSpuriousFailure
BY TrieInvariant, PTL DEF TrieInv

-----------------------------------------------------------------------------
(* Refinement *)

\* The oracle's record check is the format's.
LEMMA SameRecordCheck ==
    ASSUME NEW record, AccountRecordValid(record)
    PROVE  Oracle!AccountRecordValid(record)
BY DEF AccountRecordValid, StorageEntriesValid, StorageRoot, Keccak,
       Oracle!AccountRecordValid, Oracle!StorageEntriesValid, Oracle!StorageRoot,
       Oracle!Keccak, Range, Oracle!Range

\* The writer implements ExportOracle: seen from outside it takes whole
\* accounts, in order, and it is written only when all of them are there.
THEOREM WriterImplementsOracle == Spec => ImplementsOracle
<1>1. Init => Oracle!Init
  BY DEF Init, Oracle!Init, Outcome
<1>2. ASSUME IInv, IInv', [Next]_vars PROVE [Oracle!Next]_Oracle!vars
  <2>1. CASE UNCHANGED <<accounts, records>> /\ Outcome' = Outcome
    BY <2>1 DEF Oracle!vars
  <2>2. CASE UNCHANGED <<accounts, records>> /\ Outcome = "pending" /\ Outcome' = "failed"
    BY <2>2 DEF Oracle!Next, Oracle!Abandon
  <2>3. CASE Begin \/ StartAccount \/ RejectPage \/ SourceFails
    BY <2>1, <2>2, <2>3
    DEF Begin, StartAccount, RejectPage, SourceFails, Fail, Outcome, arguments
  <2>4. CASE AcceptPage
    <3>1. UNCHANGED <<accounts, records>> /\ phase = "page"
          /\ phase' \in {"page", "finish", "failed"}
      BY <2>4 DEF AcceptPage, Continue, Fail, arguments
    <3>2. QED BY <2>1, <2>2, <3>1 DEF Outcome
  <2>5. CASE FinishAccount /\ ~Collected
    BY <2>2, <2>5 DEF FinishAccount, Fail, Outcome, arguments
  <2>6. CASE FinishAccount /\ Collected
    <3>1. /\ records' = Append(records, [account |-> account.account,
                                         code |-> account.code, storage |-> entries])
          /\ UNCHANGED accounts /\ Outcome = "pending" /\ Outcome' = Outcome
          /\ Len(records) < Len(accounts) /\ records \in Seq(Range(records))
      BY <2>6, <1>2
      DEF FinishAccount, Fail, Outcome, arguments, IInv, LocalsConsistent, TypeOK
    <3>2. /\ Len(records) \in Nat /\ Len(records') = Len(records) + 1
          /\ \A i \in 1..Len(records) : records'[i] = records[i]
          /\ records'[Len(records) + 1].account = account.account
          /\ records'[Len(records) + 1].code = account.code
      BY <3>1, AppendProperties, LenProperties
    <3>3. Oracle!AccountRecordValid(records'[Len(records) + 1])
      <4>1. Len(records) + 1 \in 1..Len(records')
        BY <3>2
      <4>2. AccountRecordValid(records'[Len(records) + 1])
        BY <4>1, <1>2 DEF IInv, RecordsFaithful
      <4>3. QED BY <4>2, SameRecordCheck
    <3>4. Oracle!Collect
      BY <3>1, <3>2, <3>3 DEF Oracle!Collect, account
    <3>5. QED BY <3>4 DEF Oracle!Next
  <2>7. CASE WriteEnvelope /\ phase' = "failed"
    BY <2>2, <2>7 DEF WriteEnvelope, Fail, Outcome, arguments
  <2>8. CASE WriteEnvelope /\ phase' # "failed"
    <3>1. /\ Outcome = "pending" /\ Outcome' = "written" /\ Len(records) = Len(accounts)
          /\ UNCHANGED <<accounts, records>> /\ ArgumentsValid
      BY <2>8, <1>2 DEF WriteEnvelope, Fail, Outcome, arguments, IInv
    <3>2. /\ accounts # <<>> /\ AddressesUnique(accounts)
          /\ Len(accounts) \in Nat /\ Len(accounts) # 0
      BY <3>1, <1>2, WriterAssumption, EmptySeq, LenProperties
      DEF ArgumentsValid, IInv, TypeOK
    <3>3. Oracle!AddressesUnique(records) /\ records # <<>>
      BY <3>1, <3>2, <1>2 DEF IInv, RecordsFaithful, AddressesUnique, Oracle!AddressesUnique
    <3>4. \A i \in 1..Len(records) : Oracle!AccountRecordValid(records[i])
      BY <1>2, SameRecordCheck DEF IInv, RecordsFaithful
    <3>5. Oracle!Write
      BY <3>1, <3>3, <3>4 DEF Oracle!Write, Oracle!AccountListValid
    <3>6. QED BY <3>5 DEF Oracle!Next
  <2>9. CASE Returned \/ UNCHANGED vars
    BY <2>1, <2>9 DEF Returned, vars, arguments, Outcome
  <2>10. QED
    BY <1>2, <2>3, <2>4, <2>5, <2>6, <2>7, <2>8, <2>9 DEF Next
<1>3. QED
  BY <1>1, <1>2, InductiveInvariant, PTL DEF Spec, ImplementsOracle, Oracle!Spec

-----------------------------------------------------------------------------
(* key_successor, for every width of a key and of a byte *)

\* The bytes passed so far were all at their largest, and are zero now.
CarryInv ==
    /\ key \in ByteKeys /\ place \in 0..Bytes
    /\ successor = {} =>
          /\ bytes = [j \in 1..Bytes |-> IF j > place THEN 0 ELSE key[j]]
          /\ \A j \in 1..Bytes : j > place => key[j] = Values - 1

\* One byte grows by one, and the largest bytes behind it become zero: no key
\* lies between (writer.rs:218-228).
LEMMA NothingBetween ==
    ASSUME NEW k \in ByteKeys, NEW p \in 1..Bytes, NEW r,
           k[p] + 1 < Values,
           \A j \in 1..Bytes : j > p => k[j] = Values - 1,
           \A j \in 1..Bytes : j < p => r[j] = k[j],
           r[p] = k[p] + 1,
           \A j \in 1..Bytes : j > p => r[j] = 0
    PROVE  Less(k, r) /\ \A other \in ByteKeys : Less(k, other) => ~Less(other, r)
<1> USE KeyAssumption
<1>0. \A j \in 1..Bytes : k[j] \in Int /\ k[j] <= Values - 1
  BY DEF ByteKeys
<1>1. Less(k, r)
  <2>1. k[p] < r[p]
    BY <1>0
  <2>2. \A j \in 1..p - 1 : k[j] = r[j]
    BY <1>0
  <2> QED BY <2>1, <2>2 DEF Less
<1>2. ASSUME NEW other \in ByteKeys, Less(k, other), Less(other, r) PROVE FALSE
  <2>1. PICK i \in 1..Bytes : k[i] < other[i] /\ \A j \in 1..i - 1 : k[j] = other[j]
    BY <1>2 DEF Less
  <2>2. PICK m \in 1..Bytes : other[m] < r[m] /\ \A j \in 1..m - 1 : other[j] = r[j]
    BY <1>2 DEF Less
  <2>3. \A j \in 1..Bytes : other[j] \in Nat /\ other[j] <= Values - 1
    BY DEF ByteKeys
  <2>4. i <= p
    <3>1. ASSUME i > p PROVE FALSE
      <4>1. k[i] = Values - 1
        BY <3>1
      <4>2. other[i] \in Nat /\ other[i] <= Values - 1
        BY <2>3
      <4> QED BY <2>1, <4>1, <4>2
    <3> QED BY <3>1
  <2>5. m <= p
    <3>1. ASSUME m > p PROVE FALSE
      <4>1. r[m] = 0
        BY <1>0, <3>1
      <4>2. other[m] \in Nat
        BY <2>3
      <4> QED BY <2>2, <4>1, <4>2
    <3> QED BY <3>1
  <2>6. k[i] \in Int /\ k[m] \in Int /\ other[i] \in Int /\ other[m] \in Int
    BY <1>0, <2>3
  <2>7. CASE m < i
    <3>1. other[m] = k[m]
      BY <2>1, <2>7
    <3>2. r[m] = k[m]
      BY <1>0, <2>4, <2>7
    <3> QED BY <2>2, <2>6, <3>1, <3>2
  <2>8. CASE m = i
    <3>1. r[i] = k[i] \/ r[i] = k[i] + 1
      BY <1>0, <2>4
    <3> QED BY <3>1, <2>1, <2>2, <2>6, <2>8
  <2>9. CASE i < m
    <3>1. other[i] = r[i]
      BY <2>2, <2>9
    <3>2. r[i] = k[i]
      BY <1>0, <2>5, <2>9
    <3> QED BY <2>1, <2>6, <3>1, <3>2
  <2> QED BY <2>7, <2>8, <2>9
<1> QED BY <1>1, <1>2

\* A key of largest bytes only is the greatest.
LEMMA NothingAbove ==
    ASSUME NEW k \in ByteKeys, \A j \in 1..Bytes : k[j] = Values - 1
    PROVE  \A other \in ByteKeys : ~Less(k, other)
<1> SUFFICES ASSUME NEW other \in ByteKeys, NEW i \in 1..Bytes, k[i] < other[i] PROVE FALSE
  BY DEF Less
<1>1. other[i] \in 0..Values - 1
  BY DEF ByteKeys
<1> QED BY <1>1, KeyAssumption

\* key_successor returns the next key in the order pages are read in, for keys of
\* any length: what SnapshotWriter assumes when it counts keys (writer.rs:206-228).
THEOREM SuccessorCorrect == CarrySpec => []SuccessorIsNext
<1> USE KeyAssumption
<1>1. CarryInit => CarryInv /\ SuccessorIsNext
  <2> SUFFICES ASSUME CarryInit PROVE CarryInv /\ SuccessorIsNext
    OBVIOUS
  <2>1. key = [j \in 1..Bytes |-> IF j > place THEN 0 ELSE key[j]]
    BY DEF CarryInit, ByteKeys
  <2> QED BY <2>1 DEF CarryInit, CarryInv, SuccessorIsNext
<1>2. CarryInv /\ SuccessorIsNext /\ [CarryNext]_carryVars => CarryInv' /\ SuccessorIsNext'
  <2> SUFFICES ASSUME CarryInv, SuccessorIsNext, [CarryNext]_carryVars
               PROVE  CarryInv' /\ SuccessorIsNext'
    OBVIOUS
  <2>1. CASE Increment
    <3>1. /\ place \in 1..Bytes /\ place' = place - 1 /\ key' = key /\ key \in ByteKeys
          /\ bytes = [j \in 1..Bytes |-> IF j > place THEN 0 ELSE key[j]]
          /\ \A j \in 1..Bytes : j > place => key[j] = Values - 1
      BY <2>1 DEF CarryInv, Increment
    <3>2. bytes[place] = key[place] /\ key[place] \in 0..Values - 1
      BY <3>1 DEF ByteKeys
    <3>3. bytes' = [j \in 1..Bytes |-> IF j = place THEN (key[place] + 1) % Values
                                       ELSE IF j > place THEN 0 ELSE key[j]]
      BY <2>1, <3>1, <3>2 DEF Increment
    <3>4. CASE key[place] + 1 < Values
      <4>1. successor' = {bytes'}
        BY <2>1, <3>2, <3>4 DEF Increment
      <4>2. (key[place] + 1) % Values = key[place] + 1
        BY <3>2, <3>4
      <4>3. bytes' = [j \in 1..Bytes |-> IF j > place THEN 0
                                         ELSE IF j = place THEN key[place] + 1 ELSE key[j]]
        BY <3>1, <3>3, <4>2
      <4>4. /\ \A j \in 1..Bytes : j < place => bytes'[j] = key[j]
            /\ bytes'[place] = key[place] + 1
            /\ \A j \in 1..Bytes : j > place => bytes'[j] = 0
        BY <3>1, <4>3
      <4>5. Less(key, bytes') /\ \A other \in ByteKeys : Less(key, other) => ~Less(other, bytes')
        BY <3>1, <3>4, <4>4, NothingBetween
      <4>6. bytes' # NoKey
        BY <4>3 DEF NoKey
      <4>7. CarryInv'
        BY <3>1, <4>1 DEF CarryInv
      <4>8. SuccessorIsNext'
        BY <3>1, <4>1, <4>5, <4>6 DEF SuccessorIsNext, Less
      <4> QED BY <4>7, <4>8
    <3>5. CASE ~(key[place] + 1 < Values)
      <4>1. successor' = {}
        BY <2>1, <3>2, <3>5 DEF Increment
      <4>2. key[place] = Values - 1 /\ (key[place] + 1) % Values = 0
        BY <3>2, <3>5
      <4>3. bytes' = [j \in 1..Bytes |-> IF j > place' THEN 0 ELSE key[j]]
        BY <3>1, <3>3, <4>2
      <4> QED BY <3>1, <4>1, <4>2, <4>3 DEF CarryInv, SuccessorIsNext
    <3> QED BY <3>4, <3>5
  <2>2. CASE Exhausted
    <3>1. \A j \in 1..Bytes : key[j] = Values - 1
      BY <2>2 DEF CarryInv, Exhausted
    <3>2. \A other \in ByteKeys : ~Less(key, other)
      BY <3>1, NothingAbove DEF CarryInv
    <3> QED BY <2>2, <3>2 DEF CarryInv, Exhausted, SuccessorIsNext, Less
  <2>3. CASE UNCHANGED carryVars
    BY <2>3 DEF carryVars, CarryInv, SuccessorIsNext, Less
  <2> QED BY <2>1, <2>2, <2>3 DEF CarryNext
<1> QED BY <1>1, <1>2, PTL DEF CarrySpec
=============================================================================

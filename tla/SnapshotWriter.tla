--------------------------- MODULE SnapshotWriter ---------------------------
(* write_accounts (crates/reth-contract-snapshot/src/snapshot/writer.rs):      *)
(* reads every requested account's storage page by page from a                 *)
(* ContractStateSource, checks each page, each key and the final root, and     *)
(* writes one envelope.  The steps are the points where the code leaves        *)
(* itself: each storage_range call and the write of the output.                *)
(*                                                                             *)
(* A trusted source answers with the pages a Merkle-Patricia trie can answer   *)
(* with (what the Reth provider relies on); from any other one a page is        *)
(* anything in Pages, in any order.  The call may fail in either case.         *)
(*                                                                             *)
(* An operator marked [defect] is a plausible mistake in the definition after  *)
(* it; substituted for it, it breaks the property PROJECT.json names.          *)
EXTENDS SnapshotFormat

CONSTANTS AccountLists,   \* the account lists a caller may pass
          Anchors,        \* the anchors a caller may pass
          PageSizes,      \* the page_bytes a caller may pass
          Pages,          \* the pages a source can answer with
          CountLimit      \* u64::MAX, where stats.entries overflows

RangeEnd == {"Exhausted", "HashLimit", "ByteLimit"}
Page == [entries : Seq(Entry), end : RangeEnd]

ASSUME WriterAssumption ==
    /\ \A list \in AccountLists : list \in Seq(Range(list))
    /\ PageSizes \subseteq Nat
    /\ Pages \subseteq Page
    /\ CountLimit \in Nat

VARIABLES accounts, anchor, pageBytes,   \* the arguments
          trusted,                       \* the source is a trie
          phase, error,                  \* where the call is, and its Err
          records,                       \* the records collected so far
          start, previousKey, leaves, entries,   \* collect_account's locals
          stats,                         \* SnapshotStats
          output                         \* what the Write has received

arguments == <<accounts, anchor, pageBytes, trusted>>
locals == <<start, previousKey, leaves, entries>>
vars == <<arguments, phase, error, records, locals, stats, output>>

None == -1   \* previous_key before the first key
account == accounts[Len(records) + 1]

Envelope ==
    [version |-> 1, execution |-> anchor.execution, block |-> anchor.block,
     blockHashes |-> anchor.blockHashes, accounts |-> records]

Fail(reason) == phase' = "failed" /\ error' = reason

-----------------------------------------------------------------------------
(* write_accounts up to its loop, and collect_account up to its loop *)

\* [defect] the window is not checked against the block.
ArgumentsValidAnyWindow ==
    /\ pageBytes # 0 /\ accounts # <<>> /\ AddressesUnique(accounts)
    /\ ValidForBlock(anchor.execution, anchor.block)

ArgumentsValid ==
    /\ pageBytes # 0
    /\ accounts # <<>>
    /\ AddressesUnique(accounts)
    /\ BlockHashesValid(anchor.blockHashes, anchor.block)
    /\ ValidForBlock(anchor.execution, anchor.block)

Begin ==
    /\ phase = "begin"
    /\ \/ ArgumentsValid /\ phase' = "account" /\ error' = error
       \/ ~ArgumentsValid /\ Fail("InvalidArguments")
    /\ UNCHANGED <<arguments, records, locals, stats, output>>

\* [defect] the entry vector outlives its account.
StartAccountKeepingEntries ==
    /\ phase = "account" /\ Len(records) < Len(accounts)
    /\ IF Keccak(account.code) = account.account.codeHash
       THEN phase' = "page" /\ error' = error ELSE Fail("BytecodeHashMismatch")
    /\ start' = 0 /\ previousKey' = None /\ leaves' = {}
    /\ UNCHANGED <<arguments, records, entries, stats, output>>

StartAccount ==
    /\ phase = "account"
    /\ Len(records) < Len(accounts)
    /\ \/ /\ Keccak(account.code) = account.account.codeHash
          /\ phase' = "page" /\ error' = error
       \/ /\ Keccak(account.code) # account.account.codeHash
          /\ Fail("BytecodeHashMismatch")
    /\ start' = 0
    /\ previousKey' = None
    /\ leaves' = {}
    /\ entries' = <<>>
    /\ UNCHANGED <<arguments, records, stats, output>>

-----------------------------------------------------------------------------
(* The source *)

\* The leaves the account's storage root commits to.
Committed == account.account.storageRoot[2]

LastKey(page) == page.entries[Len(page.entries)].key

\* A page of a trie walk: the committed leaves from `start` on, in key order and
\* without a gap, cut after at most pageBytes of them.  Exhausted only when no
\* leaf is left; HashLimit only at the limit the caller passed, the maximum key.
TriePage(page) ==
    /\ StorageEntriesValid(page.entries)
    /\ Len(page.entries) <= pageBytes
    /\ LET ahead == {leaf \in Committed : leaf.key >= start}
       IN IF page.end = "Exhausted"
          THEN Range(page.entries) = ahead
          ELSE /\ page.entries # <<>>
               /\ Range(page.entries) = {leaf \in ahead : leaf.key <= LastKey(page)}
               /\ page.end = "HashLimit" => LastKey(page) = MaxKey

SourcePages == {page \in Pages : trusted => TriePage(page)}

\* A trusted source answers for accounts whose roots the node computed.
RootsComputed(list) ==
    \A i \in 1..Len(list) :
        LET root == list[i].account.storageRoot
        IN root[2] \subseteq Entry /\ root = Keccak(root[2])

-----------------------------------------------------------------------------
(* One turn of collect_account's loop *)

\* validate_page_shape
ShapeValid(page) == page.entries = <<>> => page.end = "Exhausted"

\* [defect] a key must be past the start key instead of at or past it.
EntryValidPastStart(es, i) ==
    /\ es[i].word # 0 /\ es[i].key > start
    /\ es[i].key > IF i = 1 THEN previousKey ELSE es[i - 1].key

\* validate_entry, StorageRootBuilder::push and the counter, for the i-th entry
\* of a page whose earlier entries passed.
EntryValid(es, i) ==
    LET previous == IF i = 1 THEN previousKey ELSE es[i - 1].key IN
    /\ es[i].word # 0 /\ es[i].key > previous /\ es[i].key >= start
    /\ LeafAccepted(es[i], previous)

\* [defect] the counter is only checked against the current page.
RoomPerPage == CountLimit

Room == CountLimit - stats.entries

EntriesValid(es) == \A i \in 1..Len(es) : EntryValid(es, i)

\* [defect] continue at the last key instead of after it.
KeySuccessorInclusive(key) == key

\* key_successor: None at the maximum key.
KeySuccessor(key) == IF key = MaxKey THEN None ELSE key + 1

\* [defect] a page that ends early is answered again from the same start key.
ContinueAtStart(page) ==
    /\ phase' = IF page.end = "Exhausted" THEN "finish" ELSE phase
    /\ UNCHANGED <<error, start>>

\* What follows a page whose entries were all accepted.
Continue(page) ==
    \/ /\ page.end = "Exhausted"
       /\ phase' = "finish" /\ UNCHANGED <<error, start>>
    \/ /\ page.end = "HashLimit"
       /\ Fail(IF LastKey(page) # MaxKey THEN "HashLimitBeforeMaximum"
                                         ELSE "MaximumKeyWithoutExhaustion")
       /\ start' = start
    \/ /\ page.end = "ByteLimit"
       /\ LET next == KeySuccessor(LastKey(page)) IN
          \/ /\ next = None \/ next <= start
             /\ Fail(IF next = None THEN "ContinuationOverflow" ELSE "NoPaginationProgress")
             /\ start' = start
          \/ next > start /\ start' = next /\ UNCHANGED <<phase, error>>

AcceptPage ==
    /\ phase = "page"
    /\ \E page \in SourcePages :
          LET es == page.entries IN
          /\ ShapeValid(page)
          /\ EntriesValid(es)
          /\ Len(es) <= Room
          /\ entries' = entries \o es
          /\ leaves' = leaves \cup Range(es)
          /\ previousKey' = IF es = <<>> THEN previousKey ELSE LastKey(page)
          /\ stats' = [pages |-> stats.pages + 1, entries |-> stats.entries + Len(es)]
          /\ Continue(page)
    /\ UNCHANGED <<arguments, records, output>>

\* A page the loop returns an error for.  Nothing but the error survives: the
\* locals and the statistics are dropped with the call.
RejectPage ==
    /\ phase = "page"
    /\ \E page \in SourcePages :
          LET es == page.entries IN
          \/ ~ShapeValid(page) /\ Fail("EmptyNonExhaustedPage")
          \/ /\ \E i \in 1..Len(es) : i <= Room + 1 /\ ~EntryValid(es, i)
             /\ Fail("InvalidEntry")
          \/ /\ Len(es) > Room
             /\ \A i \in 1..(Room + 1) : EntryValid(es, i)
             /\ Fail("EntryCountOverflow")
    /\ UNCHANGED <<arguments, records, locals, stats, output>>

SourceFails ==
    /\ phase = "page"
    /\ Fail("StoragePage")
    /\ UNCHANGED <<arguments, records, locals, stats, output>>

-----------------------------------------------------------------------------
(* The root check, StorageEntries::new and the output *)

\* [defect] the root is not compared.
CollectedAnyRoot == StorageEntriesValid(entries)

Collected ==
    /\ Keccak(leaves) = account.account.storageRoot
    /\ StorageEntriesValid(entries)

FinishAccount ==
    /\ phase = "finish"
    /\ \/ /\ ~Collected
          /\ Fail(IF Keccak(leaves) # account.account.storageRoot THEN "StorageRootMismatch"
                                                         ELSE "Format")
          /\ records' = records
       \/ /\ Collected
          /\ records' = Append(records,
                [account |-> account.account, code |-> account.code, storage |-> entries])
          /\ phase' = "account" /\ error' = error
    /\ UNCHANGED <<arguments, locals, stats, output>>

\* serde_json::to_writer streams the document: a failing Write keeps a prefix,
\* and a failing flush may come after the last byte.
WriteEnvelope ==
    /\ phase = "account"
    /\ Len(records) = Len(accounts)
    /\ \/ output' = "complete" /\ phase' = "done" /\ error' = error
       \/ output' \in {"empty", "partial", "complete"} /\ Fail("Io")
    /\ UNCHANGED <<arguments, records, locals, stats>>

-----------------------------------------------------------------------------
Init ==
    /\ accounts \in AccountLists /\ anchor \in Anchors /\ pageBytes \in PageSizes
    /\ trusted \in {choice \in BOOLEAN : choice => RootsComputed(accounts)}
    /\ phase = "begin" /\ error = "none"
    /\ records = <<>>
    /\ start = 0 /\ previousKey = None /\ leaves = {} /\ entries = <<>>
    /\ stats = [pages |-> 0, entries |-> 0]
    /\ output = "empty"

Returned == phase \in {"done", "failed"} /\ UNCHANGED vars

Next ==
    \/ Begin \/ StartAccount \/ AcceptPage \/ RejectPage \/ SourceFails
    \/ FinishAccount \/ WriteEnvelope \/ Returned

Spec == Init /\ [][Next]_vars
-----------------------------------------------------------------------------
(* Properties *)

Errors == {"InvalidArguments", "BytecodeHashMismatch", "StoragePage",
           "EmptyNonExhaustedPage", "InvalidEntry", "EntryCountOverflow",
           "HashLimitBeforeMaximum", "MaximumKeyWithoutExhaustion",
           "ContinuationOverflow", "NoPaginationProgress", "StorageRootMismatch",
           "Format", "Io"}

\* Every variable keeps its shape; the error is set exactly when the call failed.
TypeOK ==
    /\ accounts \in AccountLists /\ anchor \in Anchors /\ pageBytes \in PageSizes
    /\ trusted \in BOOLEAN /\ (trusted => RootsComputed(accounts))
    /\ phase \in {"begin", "account", "page", "finish", "done", "failed"}
    /\ error \in Errors \cup {"none"} /\ (phase = "failed") = (error # "none")
    /\ records \in Seq(Range(records)) /\ Len(records) <= Len(accounts)
    /\ start \in Keys /\ previousKey \in Keys \cup {None}
    /\ leaves \subseteq Entry /\ entries \in Seq(Entry)
    /\ stats \in [pages : Nat, entries : 0..CountLimit]
    /\ output \in {"empty", "partial", "complete"}

\* The i-th record is the i-th requested account with exactly the storage its
\* root commits to, each leaf once and in key order, whatever the source
\* answered: no entry of another account, none lost or repeated at a page
\* boundary (collect_account resets and threads its four locals).
RecordsFaithful ==
    \A i \in 1..Len(records) :
        /\ records[i].account = accounts[i].account
        /\ records[i].code = accounts[i].code
        /\ AccountRecordValid(records[i])

\* write_accounts serializes without ever calling Snapshot::validate, yet what it
\* wrote in full passes the validation every reader runs in from_slice; and not
\* one byte is written before the last account is collected and root-checked.
OutputLoads ==
    /\ output = "complete" => SnapshotValid(Envelope)
    /\ output # "empty" => Len(records) = Len(accounts)

\* Between two pages of a trie the entries taken are exactly the committed leaves
\* below the next start key: the inclusive start and key_successor leave neither
\* a gap nor an overlap.
PagesTile ==
    trusted /\ phase = "page" =>
        /\ Range(entries) = {leaf \in Committed : leaf.key < start}
        /\ previousKey < start

\* A trie answered by the node never trips a consistency check: the export of an
\* account can only fail when the node does, when the count overflows, or when
\* the account uses the maximum key (the one start key has no successor for).
NoSpuriousFailure ==
    trusted /\ phase = "failed" =>
        \/ error \in {"InvalidArguments", "BytecodeHashMismatch", "StoragePage",
                      "EntryCountOverflow", "Io"}
        \/ /\ error \in {"MaximumKeyWithoutExhaustion", "ContinuationOverflow"}
           /\ \E leaf \in Committed : leaf.key = MaxKey

\* The number of storage_range calls is bounded whatever the source answers:
\* each page that asks to be continued moves the start key strictly up.
CallsBounded ==
    LET perAccount == MaxKey + 1 IN
    /\ phase \in {"begin", "account"} => stats.pages <= Len(records) * perAccount
    /\ phase = "page" => stats.pages <= Len(records) * perAccount + start
    /\ stats.pages <= (Len(records) + 1) * perAccount

\* The writer keeps the promise of ExportOracle: pages, entries and checks are
\* stutters of an export that takes whole accounts.
Outcome == IF phase = "done" THEN "written" ELSE IF phase = "failed" THEN "failed" ELSE "pending"
Oracle == INSTANCE ExportOracle WITH outcome <- Outcome
ImplementsOracle == Oracle!Spec
=============================================================================

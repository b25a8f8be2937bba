------------------------------ MODULE RethSource ------------------------------
(* RethStateSource (crates/reth-contract-snapshot/src/provider/reth.rs): an     *)
(* export reads its anchor, its accounts and their storage pages from the       *)
(* database of a node that goes on importing, reorganising and pruning.         *)
(*                                                                             *)
(* One read of the database is one step and the node may move between any two;  *)
(* the code reads within a transaction, which only removes behaviours.  What    *)
(* the range provider answers is taken on trust from nobody: it may be anything *)
(* in RangeReads.  The historical state of a block is the state the block       *)
(* commits to.  A block is [number, hash, parentHash, stateRoot].               *)
EXTENDS SnapshotFormat

CONSTANTS Chains,        \* the canonical chains the node may have, from genesis
          Requested,     \* the addresses asked for, in order
          BlockArguments, \* what --block may be: {} or {a number}
          State(_, _),        \* a root and an address to {} or {the account}
          RangeReads(_, _),   \* what the range provider may answer for them
          MaxPages       \* bound on the pages read

IsOption(set) == \A x, y \in set : x = y

\* Chains are linked from genesis on.
ASSUME ChainsAssumption ==
    \A chain \in Chains :
        /\ chain # <<>> /\ chain \in Seq(Range(chain))
        /\ \A i \in 1..Len(chain) : chain[i].number = i - 1
        /\ \A i \in 2..Len(chain) : chain[i].parentHash = chain[i - 1].hash

\* A hash names one block of one chain, and so its ancestors.
ASSUME HashAssumption ==
    \A one, two \in Chains : \A i \in 1..Len(one), j \in 1..Len(two) :
        one[i].hash = two[j].hash => i = j /\ SubSeq(one, 1, i) = SubSeq(two, 1, i)

\* A state, and an answer of the range provider, has an account or none; its fields
\* and its storage root are all there is to an account.
ASSUME StateAssumption ==
    \A chain \in Chains : \A i \in 1..Len(chain) : \A address \in Range(Requested) :
        LET state == State(chain[i].stateRoot, address)
            answers == RangeReads(chain[i].stateRoot, address)
        IN /\ IsOption(state) /\ \A answer \in answers : IsOption(answer)
           /\ \A account \in state \cup UNION answers :
                 account = [fields |-> account.fields, storageRoot |-> account.storageRoot]

ASSUME ArgumentsAssumption ==
    /\ Requested # <<>> /\ Requested \in Seq(Range(Requested))
    /\ \A argument \in BlockArguments : argument \subseteq Nat /\ IsOption(argument)
    /\ MaxPages \in Nat

VARIABLES
    blockArgument,              \* --block of this export
    canonical,                  \* the node's chain
    reorganised, misread,       \* history: the chain was not only extended; a range read was wrong
    pc, best, header,           \* where the export is; chain_info and the header read
    anchor,                     \* the resolved anchor
    paging,                     \* the account a page is being read of
    ranged,                     \* what the range view of the current account answered
    taken, pages,               \* what has been returned to main and to write_accounts
    failure                     \* the error that ended the export

nodeVars == <<blockArgument, canonical, reorganised>>
vars == <<nodeVars, misread, pc, best, header, anchor, paging, ranged, taken, pages, failure>>

BlockAt(number) == {canonical[i] : i \in {j \in DOMAIN canonical : j = number + 1}}
Tip == canonical[Len(canonical)]

Extends(new, old) == DOMAIN old \subseteq DOMAIN new /\ \A i \in DOMAIN old : new[i] = old[i]

Fail(error) ==
    /\ pc' = "failed" /\ failure' = error
    /\ UNCHANGED <<nodeVars, misread, best, header, anchor, paging, ranged, taken, pages>>

-----------------------------------------------------------------------------
(* The node *)

NodeMoves ==
    /\ canonical' \in Chains \ {canonical}
    /\ reorganised' = (reorganised \/ ~Extends(canonical', canonical))
    /\ UNCHANGED <<blockArgument, misread, pc, best, header, anchor, paging, ranged, taken, pages, failure>>

\* Any read may fail, or find that the node has pruned what it asks for.
ReadFails ==
    /\ pc \notin {"failed", "done"} /\ Fail("ReadFailed")

-----------------------------------------------------------------------------
(* resolve_anchor *)

ReadChainInfo ==
    /\ pc = "chain info"
    /\ best' = {Tip}
    /\ IF \E number \in blockArgument : number > Tip.number
       THEN pc' = "failed" /\ failure' = "RequestedBlockAhead"
       ELSE pc' = "header" /\ UNCHANGED failure
    /\ UNCHANGED <<nodeVars, misread, header, anchor, paging, ranged, taken, pages>>

BlockNumber == IF blockArgument = {} THEN {block.number : block \in best} ELSE blockArgument

ReadHeader ==
    /\ pc = "header"
    /\ header' = UNION {BlockAt(number) : number \in BlockNumber}
    /\ IF header' = {}
       THEN pc' = "failed" /\ failure' = "CanonicalHeaderMissing"
       ELSE IF \E block \in header', tip \in best :
                  block.number = tip.number /\ block.hash # tip.hash
       THEN pc' = "failed" /\ failure' = "CanonicalHeadMismatch"
       ELSE pc' = "window" /\ UNCHANGED failure
    /\ UNCHANGED <<nodeVars, misread, best, anchor, paging, ranged, taken, pages>>

\* canonical_hashes_range, as numbered hashes, up to the block itself.
CanonicalHashes(number) ==
    LET start == SaturatingSub(number, Window)
        end == IF number < Len(canonical) THEN number ELSE Len(canonical)
    IN [i \in 1..(IF end < start THEN 0 ELSE end - start) |->
            [number |-> start + i - 1, hash |-> canonical[start + i].hash]]

\* [defect] the window is not checked against the header it was read after.
WindowFitsAnyHeader(hashes, block) ==
    NumbersAscend(hashes) /\ Len(hashes) <= Window

WindowFits(hashes, block) == BlockHashesValid(hashes, block)

\* The rest of resolve_anchor.  The fork fields are left to ForkRules.
ReadWindow ==
    /\ pc = "window"
    /\ \E block \in header :
          LET hashes == CanonicalHashes(block.number)
              expected == IF block.number < Window THEN block.number ELSE Window
          IN IF Len(hashes) # expected
             THEN Fail("BlockHashWindowIncomplete")
             ELSE IF ~WindowFits(hashes, block)
             THEN Fail("Format")
             ELSE /\ anchor' = {[block |-> block, blockHashes |-> hashes]}
                  /\ pc' = "verify"
                  /\ UNCHANGED <<nodeVars, misread, best, header, paging, ranged, taken, pages, failure>>

-----------------------------------------------------------------------------
(* verify_anchor and pinned_view *)

\* [defect] a canonical block of the anchor's number is enough.
AnchorErrorByNumber ==
    IF \E a \in anchor : BlockAt(a.block.number) = {} THEN "AnchorHeaderUnavailable" ELSE "none"

\* [defect] the anchor is compared with the head of the chain.
AnchorErrorAtHead ==
    IF \A a \in anchor : a.block = Tip THEN "none" ELSE "AnchorNotCanonical"

AnchorError ==
    LET found == UNION {BlockAt(a.block.number) : a \in anchor}
    IN IF found = {} THEN "AnchorHeaderUnavailable"
       ELSE IF \E a \in anchor, block \in found : block.hash # a.block.hash
       THEN "AnchorNotCanonical"
       ELSE IF \E a \in anchor, block \in found : block.stateRoot # a.block.stateRoot
       THEN "AnchorStateRootChanged"
       ELSE "none"

Goto(next) ==
    pc' = next /\ UNCHANGED <<nodeVars, misread, best, header, anchor, paging, ranged, taken, pages, failure>>

-----------------------------------------------------------------------------
(* account *)

Address == Requested[Len(taken) + 1]

Verify ==
    /\ pc = "verify"
    /\ IF AnchorError # "none" THEN Fail(AnchorError) ELSE Goto("range")

\* account_range and storage_root_by_hash on the view of the anchor's state root.
\* The range starts and ends at the address, so another account is no answer.
ReadRange ==
    /\ pc = "range"
    /\ \E a \in anchor : \E answer \in RangeReads(a.block.stateRoot, Address) :
          /\ ranged' = answer
          /\ misread' = (misread \/ answer # State(a.block.stateRoot, Address))
    /\ IF ranged' = {}
       THEN pc' = "failed" /\ failure' = "AccountNotFound"
       ELSE pc' = "history" /\ UNCHANGED failure
    /\ UNCHANGED <<nodeVars, best, header, anchor, paging, taken, pages>>

\* [defect] the two storage roots are not compared.
AgreesOnFields(state, range) == state.fields = range.fields

\* basic_account, and the storage root computed from the historical state.
Agrees(state, range) == state.fields = range.fields /\ state.storageRoot = range.storageRoot

ReadHistory ==
    /\ pc = "history"
    /\ \E a \in anchor :
          LET state == State(a.block.stateRoot, Address)
          IN IF state = {} THEN Fail("AccountDisappeared")
             ELSE IF \E s \in state, r \in ranged : ~Agrees(s, r) THEN Fail("AccountMismatch")
             ELSE Goto("confirm")

\* The anchor is verified again, and the account returned to run.
Confirm ==
    /\ pc = "confirm"
    /\ IF AnchorError # "none" THEN Fail(AnchorError) ELSE
          /\ \E r \in ranged : taken' = Append(taken, [address |-> Address, account |-> r])
          /\ ranged' = {}
          /\ pc' = IF Len(taken') = Len(Requested) THEN "done" ELSE "verify"
          /\ UNCHANGED <<nodeVars, misread, best, header, anchor, paging, pages, failure>>

-----------------------------------------------------------------------------
(* storage_range, called by write_accounts for one account after the other *)

StartPage(address) ==
    /\ pc = "done" /\ Len(pages) < MaxPages
    /\ IF AnchorError # "none" THEN Fail(AnchorError) ELSE
          /\ pc' = "page" /\ paging' = {address}
          /\ UNCHANGED <<nodeVars, misread, best, header, anchor, ranged, taken, pages, failure>>

\* What the page holds is SnapshotWriter's matter; the account is there.
ReadPage ==
    /\ pc = "page" /\ misread' \in {misread, TRUE}
    /\ IF misread' # misread
       THEN pc' = "failed" /\ failure' = "AccountAbsentFromTrie"
       ELSE pc' = "confirm page" /\ UNCHANGED failure
    /\ UNCHANGED <<nodeVars, best, header, anchor, paging, ranged, taken, pages>>

ConfirmPage ==
    /\ pc = "confirm page"
    /\ IF AnchorError # "none" THEN Fail(AnchorError) ELSE
          /\ \E address \in paging, a \in anchor :
                pages' = Append(pages, [address |-> address, root |-> a.block.stateRoot])
          /\ pc' = "done" /\ paging' = {}
          /\ UNCHANGED <<nodeVars, misread, best, header, anchor, ranged, taken, failure>>

-----------------------------------------------------------------------------

Init ==
    /\ blockArgument \in BlockArguments
    /\ canonical \in Chains /\ reorganised = FALSE /\ misread = FALSE
    /\ pc = "chain info" /\ best = {} /\ header = {} /\ anchor = {}
    /\ paging = {} /\ ranged = {} /\ taken = <<>> /\ pages = <<>> /\ failure = "none"

Next ==
    \/ NodeMoves \/ ReadFails
    \/ ReadChainInfo \/ ReadHeader \/ ReadWindow
    \/ Verify \/ ReadRange \/ ReadHistory \/ Confirm
    \/ \E address \in Range(Requested) : StartPage(address)
    \/ ReadPage \/ ConfirmPage

Spec == Init /\ [][Next]_vars

-----------------------------------------------------------------------------
(* Properties *)

\* Though the head, the header and the window are read one after the other while
\* the node may switch chains, the anchor's block and its BLOCKHASH window are of
\* one chain (reth.rs:104-193).
AnchorOfOneChain ==
    \A a \in anchor : \E chain \in Chains :
        LET number == a.block.number
        IN /\ number < Len(chain) /\ chain[number + 1] = a.block
           /\ \A i \in 1..Len(a.blockHashes) :
                 a.blockHashes[i].hash = chain[a.blockHashes[i].number + 1].hash
           /\ {a.blockHashes[i].number : i \in 1..Len(a.blockHashes)}
                 = SaturatingSub(number, Window)..number - 1

\* Every account returned is the requested one as the anchor's block has it,
\* whatever the range provider answered (reth.rs:207-282).
TakenAsAnchored ==
    \A i \in 1..Len(taken), a \in anchor :
        /\ taken[i].address = Requested[i]
        /\ {taken[i].account} = State(a.block.stateRoot, Requested[i])

\* No account and no page is returned once the anchor has left the chain, though
\* it may have left and come back while it was read (reth.rs:270, 301).
ReturnedWhileCanonical ==
    [][taken' # taken \/ pages' # pages => \A a \in anchor : a.block \in Range(canonical)]_vars

\* Unless the node reorganised or answered wrongly, only a failing read or what
\* was asked for can end an export (reth.rs:116-143, 77-92, 217-257).
NoFalseAlarm ==
    ~reorganised /\ ~misread =>
        failure \in {"none", "ReadFailed", "RequestedBlockAhead", "AccountNotFound"}
===============================================================================

------------------------- MODULE SnapshotPublication -------------------------
(* What an export with --output promises to whoever reads the destination,     *)
(* whatever the node, the filesystem and the machine do meanwhile: the file is *)
(* what it was before, or the whole snapshot of one block that was canonical   *)
(* when the export committed itself to it, with every requested account as     *)
(* that block has it (README.md:3-5 and 45-49, cli.rs:18 and 55).              *)
EXTENDS SnapshotFormat

CONSTANTS Chains, Requested, State(_, _),   \* as in RethSource
          Previous                          \* what the destination held before

VARIABLES canonical,     \* the node's chain
          pinned,        \* the block the export committed itself to, if any yet
          destination,   \* what the destination holds
          outcome        \* how the export ended

vars == <<canonical, pinned, destination, outcome>>

\* The hashes are those of the block's ancestors; valid documents list them all.
WindowOf(document, block) ==
    \E chain \in Chains :
        /\ block \in Range(chain)
        /\ \A i \in 1..Len(document.blockHashes) :
              LET entry == document.blockHashes[i]
              IN \E ancestor \in Range(chain) :
                    ancestor.number = entry.number /\ ancestor.hash = entry.hash

AccountAt(record, address, block) ==
    \E account \in State(block.stateRoot, address) :
        /\ record.account.address = address
        /\ record.code = account.fields
        /\ record.account.storageRoot = account.storageRoot

\* A document that loads; its hashes commit it to the contents of the state.
IsSnapshotOf(document, block) ==
    /\ SnapshotValid(document)
    /\ document.block.hash = block.hash /\ document.block.number = block.number
    /\ WindowOf(document, block)
    /\ Len(document.accounts) = Len(Requested)
    /\ \A i \in DOMAIN Requested : AccountAt(document.accounts[i], Requested[i], block)

-----------------------------------------------------------------------------

Init ==
    /\ canonical \in Chains /\ pinned = {}
    /\ destination = Previous /\ outcome = "running"

NodeMoves == canonical' \in Chains /\ UNCHANGED <<pinned, destination, outcome>>

Pin ==
    /\ outcome = "running" /\ pinned = {}
    /\ \E block \in Range(canonical) : pinned' = {block}
    /\ UNCHANGED <<canonical, destination, outcome>>

Publish ==
    /\ outcome = "running" /\ outcome' = "published"
    /\ \E block \in pinned : IsSnapshotOf(destination', block)
    /\ UNCHANGED <<canonical, pinned>>

Abandon ==
    /\ outcome = "running" /\ outcome' = "failed"
    /\ UNCHANGED <<canonical, pinned, destination>>

\* An outage may undo what was published and not yet on disk.
Undo == destination' = Previous /\ UNCHANGED <<canonical, pinned, outcome>>

Next == NodeMoves \/ Pin \/ Publish \/ Abandon \/ Undo

Spec == Init /\ [][Next]_vars

\* An export ends, however often the node moves and whatever a page holds.
Ends == <>(outcome # "running")
===============================================================================

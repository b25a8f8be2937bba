-------------------------------- MODULE Export --------------------------------
(* The whole export command with --output (crates/reth-contract-snapshot,      *)
(* main.rs): RethStateSource answers write_accounts, whose document is staged  *)
(* and committed by StagedSnapshot, while the node moves, a call fails, the    *)
(* process is killed or the machine is lost.                                   *)
(*                                                                             *)
(* The three components are those of RethSource, SnapshotWriter and            *)
(* StagedOutput; the actions below say which of their steps are one step of    *)
(* the command and which result ends which caller.  A storage page may hold    *)
(* anything: the source only vouches for the anchor.                           *)
EXTENDS SnapshotFormat

CONSTANTS Chains, Requested, BlockArguments, State(_, _), RangeReads(_, _),
          Pages, CountLimit,     \* as in SnapshotWriter
          command, Previous      \* the run; what its destination held before

VARIABLES blockArgument, canonical, reorganised, misread, pc, best, header, anchor,
          paging, ranged, taken, pages, failure
sourceVars == <<blockArgument, canonical, reorganised, misread, pc, best, header, anchor,
                paging, ranged, taken, pages, failure>>

VARIABLES phase, error, records, start, previousKey, leaves, entries, stats, output
writerVars == <<phase, error, records, start, previousKey, leaves, entries, stats, output>>

VARIABLES status, file, disk, dir, diskDir, stdout, outage
stageVars == <<status, file, disk, dir, diskDir, stdout, outage>>

vars == <<sourceVars, writerVars, stageVars>>

Source == INSTANCE RethSource WITH MaxPages <- Len(Requested) * (MaxKey + 1)
Stage == INSTANCE StagedOutput WITH Runs <- {command}, ToFile <- {command}

-----------------------------------------------------------------------------
(* What run passes to write_accounts *)

\* The SnapshotAnchor of resolve_anchor, with the execution rules of a first fork:
\* ForkRules has the others.
SnapshotAnchor ==
    LET a == CHOOSE a \in anchor : TRUE
    IN [execution |-> [hardfork |-> 0, blobFraction |-> {}],
        block |-> [number |-> a.block.number, hash |-> a.block.hash,
                   parentHash |-> a.block.parentHash, stateRoot |-> a.block.stateRoot,
                   gasLimit |-> 1, baseFee |-> {}, prevRandao |-> {}, excessBlobGas |-> {},
                   slotNumber |-> {}],
        blockHashes |-> a.blockHashes]

\* The SnapshotAccounts of account: its fields stand for nonce, balance and code.
SnapshotAccounts ==
    [i \in DOMAIN taken |->
        [account |-> [address |-> taken[i].address,
                      codeHash |-> Keccak(taken[i].account.fields),
                      storageRoot |-> taken[i].account.storageRoot],
         code |-> taken[i].account.fields]]

\* Its source is not trusted (TLC can prime ~TRUE, but not the literal FALSE).
Writer == INSTANCE SnapshotWriter WITH
    accounts <- SnapshotAccounts, anchor <- SnapshotAnchor, pageBytes <- 1, trusted <- ~TRUE,
    AccountLists <- {}, Anchors <- {}, PageSizes <- {}

\* What the three components assume of their constants.
ASSUME ExportAssumption ==
    /\ Source!ChainsAssumption /\ Source!HashAssumption
    /\ Source!StateAssumption /\ Source!ArgumentsAssumption
    /\ Writer!WriterAssumption /\ Stage!RunsAssumption

-----------------------------------------------------------------------------
(* run *)

\* anchor or anchor_at, and account for every address.
ReadAccounts ==
    /\ status[command] = "idle"
    /\ \/ Source!ReadChainInfo \/ Source!ReadHeader \/ Source!ReadWindow
       \/ Source!Verify \/ Source!ReadRange \/ Source!ReadHistory \/ Source!Confirm
       \/ Source!ReadFails
    /\ UNCHANGED <<writerVars, stageVars>>

AccountsRead ==
    /\ pc = "done" /\ Stage!Resolve(command)
    /\ UNCHANGED <<sourceVars, writerVars>>

StageFile == Stage!Stage(command) /\ UNCHANGED <<sourceVars, writerVars>>

-----------------------------------------------------------------------------
(* prepare_snapshot *)

\* write_accounts between two calls of its source.
Write ==
    /\ status[command] = "staged"
    /\ UNCHANGED <<sourceVars, stageVars>>
    /\ Writer!Begin \/ Writer!StartAccount \/ Writer!FinishAccount

\* storage_range: verify the anchor, read, verify it again.
ReadPage ==
    \/ Source!StartPage(SnapshotAccounts[Len(records) + 1].account.address)
    \/ Source!ReadPage \/ Source!ConfirmPage
    \/ pc # "done" /\ Source!ReadFails

\* What storage_range returns, once it returns, is what collect_account goes on with.
Paging ==
    /\ status[command] = "staged" /\ phase = "page"
    /\ ReadPage
    /\ CASE pc' = "failed" -> Writer!SourceFails
         [] pc' = "done" -> Writer!AcceptPage \/ Writer!RejectPage
         [] OTHER -> UNCHANGED writerVars
    /\ UNCHANGED stageVars

\* The document goes through a buffer into the staged file.
WriteSome ==
    /\ phase = "account" /\ Len(records) = Len(Requested)
    /\ Stage!WriteSome(command) /\ UNCHANGED <<sourceVars, writerVars>>

\* The result of write_accounts, and of the flush, decides on the rest.
WriteOut ==
    /\ status[command] = "staged"
    /\ UNCHANGED sourceVars /\ Writer!WriteEnvelope
    /\ IF phase' = "done" THEN Stage!WriteAll(command) ELSE UNCHANGED stageVars

Commit == (Stage!Sync(command) \/ Stage!Persist(command)) /\ UNCHANGED <<sourceVars, writerVars>>

\* [defect] an error of the writer is not passed on.
ReturnWithoutWriter ==
    /\ pc = "failed" \/ status[command] \in {"resolved", "written", "synced"}
    /\ Stage!Fail(command) /\ UNCHANGED <<sourceVars, writerVars>>

\* The first error ends run: the source's, the writer's, or one of the file's.
Return ==
    /\ pc = "failed" \/ phase = "failed" \/ status[command] \in {"resolved", "written", "synced"}
    /\ Stage!Fail(command) /\ UNCHANGED <<sourceVars, writerVars>>

-----------------------------------------------------------------------------
(* The environment *)

NodeMoves == Source!NodeMoves /\ UNCHANGED <<writerVars, stageVars>>

Interrupt ==
    /\ Stage!Kill(command) \/ Stage!WriteBack(command) \/ Stage!WriteBackDirectory
       \/ Stage!PowerLoss
    /\ UNCHANGED <<sourceVars, writerVars>>

-----------------------------------------------------------------------------

Init ==
    /\ Source!Init /\ Stage!Init
    /\ phase = "begin" /\ error = "none" /\ records = <<>>
    /\ start = 0 /\ previousKey = Writer!None /\ leaves = {} /\ entries = <<>>
    /\ stats = [pages |-> 0, entries |-> 0] /\ output = "empty"

Step ==
    \/ ReadAccounts \/ AccountsRead \/ StageFile
    \/ Write \/ Paging \/ WriteSome \/ WriteOut \/ Commit \/ Return

Next == Step \/ NodeMoves \/ Interrupt

\* The command runs on: the calls it makes return, well or not.
Spec == Init /\ [][Next]_vars /\ WF_vars(Step)

-----------------------------------------------------------------------------
(* Properties *)

\* What a reader of the destination finds: a file that is cut short has no account.
AtDestination ==
    IF dir.destination # command THEN Previous
    ELSE IF file[command] = "complete" /\ output = "complete" THEN Writer!Envelope
    ELSE [Writer!Envelope EXCEPT !.accounts = <<>>]

Pinned == IF taken = <<>> THEN {} ELSE {a.block : a \in anchor}

Outcome == CASE status[command] = "ok" -> "published"
             [] status[command] \in {"failed", "killed"} -> "failed"
             [] OTHER -> "running"

Publication == INSTANCE SnapshotPublication WITH
    pinned <- Pinned, destination <- AtDestination, outcome <- Outcome

\* From its first read to the rename the command keeps its promise: through
\* reorganisations between any two reads, pages that lie, failures at each step,
\* signals and outages the destination holds what it held or a snapshot of one
\* canonical block that loads (run, main.rs:29-94).
ImplementsPublication == Publication!Spec

\* The command ends, whatever the node and its pages do: every page that asks to
\* be continued advances, no error is retried, each ends its caller (main.rs:46-94,
\* writer.rs:95-131).
ExportEnds == Publication!Ends
===============================================================================

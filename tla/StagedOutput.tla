----------------------------- MODULE StagedOutput -----------------------------
(* How an export reaches its destination (crates/reth-contract-snapshot,       *)
(* main.rs and command/output.rs): the envelope is staged in a temporary file  *)
(* that is renamed over the destination, or copied to stdout, once it is whole.*)
(*                                                                             *)
(* Several runs may write to one destination.  A run may fail at any point, be *)
(* killed, or lose the machine: the page cache and the directory then go back  *)
(* to what had reached the disk.  What a run writes is its own, so a file is   *)
(* known by the run that wrote it and by how much of it is there.              *)
EXTENDS Naturals, FiniteSets

CONSTANTS Runs, ToFile,   \* the runs; those given --output
          Previous        \* what was at the destination before, if anything

ASSUME RunsAssumption == ToFile \subseteq Runs /\ Previous \notin Runs

VARIABLES status,         \* how far each run has come
          file, disk,     \* per run, its staging file in memory and on disk
          dir, diskDir,   \* the output directory in memory and on disk
          stdout,         \* per run, what it has written to stdout
          outage          \* history: the machine has been lost

vars == <<status, file, disk, dir, diskDir, stdout, outage>>

Contents == {"none", "empty", "partial", "complete"}
Directories == [destination : Runs \cup {Previous}, temporaries : SUBSET ToFile]
Over == {"ok", "failed", "killed"}

-----------------------------------------------------------------------------
(* run *)

\* The arguments are checked, the datadir opened, the anchor and the accounts read.
Resolve(run) ==
    /\ status[run] = "idle" /\ status' = [status EXCEPT ![run] = "resolved"]
    /\ UNCHANGED <<file, disk, dir, diskDir, stdout, outage>>

\* [defect] the destination itself is opened for writing.
StageInPlace(run) ==
    /\ status[run] = "resolved" /\ status' = [status EXCEPT ![run] = "staged"]
    /\ file' = [file EXCEPT ![run] = "empty"]
    /\ dir' = IF run \in ToFile THEN [dir EXCEPT !.destination = run] ELSE dir
    /\ UNCHANGED <<disk, diskDir, stdout, outage>>

\* StagedSnapshot::new: a file without a name for stdout, else one beside the destination.
Stage(run) ==
    /\ status[run] = "resolved" /\ status' = [status EXCEPT ![run] = "staged"]
    /\ file' = [file EXCEPT ![run] = "empty"]
    /\ dir' = IF run \in ToFile
              THEN [dir EXCEPT !.temporaries = @ \cup {run}] ELSE dir
    /\ UNCHANGED <<disk, diskDir, stdout, outage>>

\* write_accounts: the buffered writer passes bytes on as it fills.
WriteSome(run) ==
    /\ status[run] = "staged" /\ file' = [file EXCEPT ![run] = "partial"]
    /\ UNCHANGED <<status, disk, dir, diskDir, stdout, outage>>

\* write_accounts returns Ok and the buffer is flushed.
WriteAll(run) ==
    /\ status[run] = "staged" /\ status' = [status EXCEPT ![run] = "written"]
    /\ file' = [file EXCEPT ![run] = "complete"]
    /\ UNCHANGED <<disk, dir, diskDir, stdout, outage>>

-----------------------------------------------------------------------------
(* StagedSnapshot::commit *)

\* [defect] the file's data is not synced.
SyncSkipped(run) ==
    /\ run \in ToFile
    /\ status[run] = "written" /\ status' = [status EXCEPT ![run] = "synced"]
    /\ UNCHANGED <<file, disk, dir, diskDir, stdout, outage>>

Sync(run) ==
    /\ run \in ToFile
    /\ status[run] = "written" /\ status' = [status EXCEPT ![run] = "synced"]
    /\ disk' = [disk EXCEPT ![run] = file[run]]
    /\ UNCHANGED <<file, dir, diskDir, stdout, outage>>

\* rename(2): the temporary name goes and the destination changes, at once.
Persist(run) ==
    /\ status[run] = "synced" /\ status' = [status EXCEPT ![run] = "ok"]
    /\ dir' = [destination |-> run, temporaries |-> dir.temporaries \ {run}]
    /\ UNCHANGED <<file, disk, diskDir, stdout, outage>>

Copy(run) ==
    /\ run \notin ToFile
    /\ \/ /\ status[run] = "written" /\ status' = [status EXCEPT ![run] = "copying"]
          /\ stdout' = [stdout EXCEPT ![run] = "partial"]
       \/ /\ status[run] = "copying" /\ status' = [status EXCEPT ![run] = "ok"]
          /\ stdout' = [stdout EXCEPT ![run] = file[run]]
    /\ UNCHANGED <<file, disk, dir, diskDir, outage>>

-----------------------------------------------------------------------------
(* Failures *)

\* [defect] the staging file is kept when its run fails.
FailKeepingFile(run) ==
    /\ status[run] \notin Over /\ status' = [status EXCEPT ![run] = "failed"]
    /\ UNCHANGED <<file, disk, dir, diskDir, stdout, outage>>

\* An error returns from run: the staged file is dropped and with it its name.
Fail(run) ==
    /\ status[run] \notin Over /\ status' = [status EXCEPT ![run] = "failed"]
    /\ file' = [file EXCEPT ![run] = "none"]
    /\ dir' = [dir EXCEPT !.temporaries = @ \ {run}]
    /\ UNCHANGED <<disk, diskDir, stdout, outage>>

\* A signal ends the process: nothing is dropped.
Kill(run) ==
    /\ status[run] \notin Over \cup {"idle"}
    /\ status' = [status EXCEPT ![run] = "killed"]
    /\ UNCHANGED <<file, disk, dir, diskDir, stdout, outage>>

\* The system writes back a file or the directory whenever it likes; a journal
\* keeps the directory whole.
WriteBack(run) ==
    /\ disk' = [disk EXCEPT ![run] = file[run]]
    /\ UNCHANGED <<status, file, dir, diskDir, stdout, outage>>
WriteBackDirectory ==
    /\ diskDir' = dir /\ UNCHANGED <<status, file, disk, dir, stdout, outage>>

PowerLoss ==
    /\ status' = [run \in Runs |-> IF status[run] \in Over \cup {"idle"} THEN status[run]
                                   ELSE "killed"]
    /\ file' = disk /\ dir' = diskDir /\ outage' = TRUE
    /\ UNCHANGED <<disk, diskDir, stdout>>

-----------------------------------------------------------------------------

Init ==
    /\ status = [run \in Runs |-> "idle"]
    /\ file = [run \in Runs |-> "none"] /\ disk = file
    /\ dir = [destination |-> Previous, temporaries |-> {}] /\ diskDir = dir
    /\ stdout = [run \in Runs |-> "none"] /\ outage = FALSE

RunStep(run) ==
    \/ Resolve(run) \/ Stage(run) \/ WriteSome(run) \/ WriteAll(run)
    \/ Sync(run) \/ Persist(run) \/ Copy(run) \/ Fail(run)

Next ==
    \/ \E run \in Runs : RunStep(run) \/ Kill(run) \/ WriteBack(run)
    \/ WriteBackDirectory \/ PowerLoss

Spec == Init /\ [][Next]_vars

-----------------------------------------------------------------------------
(* Properties *)

TypeOK ==
    /\ status \in [Runs -> Over \cup {"idle", "resolved", "staged", "written", "synced", "copying"}]
    /\ file \in [Runs -> Contents] /\ disk \in [Runs -> Contents]
    /\ dir \in Directories /\ diskDir \in Directories
    /\ stdout \in [Runs -> {"none", "partial", "complete"}]
    /\ outage \in BOOLEAN
    /\ \A run \in Runs : status[run] \in {"idle", "resolved"} => run \notin dir.temporaries

\* The destination is replaced atomically: at every moment, after a crash of the
\* machine too, it holds what was there before or the whole envelope of one run
\* (cli.rs:18, 55; output.rs:55-56).
DestinationWhole ==
    dir.destination \in Runs => dir.destination \in ToFile /\ file[dir.destination] = "complete"

\* A run that ended by itself has left no staging file (README.md:48-49), unless
\* an outage put its name back, and one that succeeded has written everything to
\* where it was asked to.
NothingLeftBehind ==
    \A run \in Runs :
        /\ status[run] \in {"failed", "ok"} /\ ~outage => run \notin dir.temporaries
        /\ status[run] = "ok" /\ run \notin ToFile => stdout[run] = "complete"

\* Only a run that succeeds changes the destination, and only in memory: a
\* crash of the machine may undo it but puts back an earlier destination.
OnlySuccessReplaces ==
    [][dir'.destination # dir.destination =>
          \/ dir'.destination = diskDir.destination
          \/ dir'.destination \in Runs /\ status'[dir'.destination] = "ok"]_vars

\* "A failed run never leaves a partial or stale file behind" (README.md:49).
NoStaleFile == \A run \in Runs : status[run] \in Over => run \notin dir.temporaries
===============================================================================

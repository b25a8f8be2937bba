-------------------------- MODULE StagedOutput_proofs --------------------------
(* What holds of staged output for any number of runs, failures and outages.   *)
EXTENDS StagedOutput, TLAPS

-----------------------------------------------------------------------------
(* The destination *)

\* A file is on disk before its name is: what stands at the destination, in
\* memory or on disk, is whole in both and nobody writes to it any more.
WholeAt(destination) ==
    destination \in Runs =>
        /\ destination \in ToFile /\ status[destination] = "ok"
        /\ file[destination] = "complete" /\ disk[destination] = "complete"

DestinationInv ==
    /\ WholeAt(dir.destination) /\ WholeAt(diskDir.destination)
    /\ \A run \in Runs :
          status[run] = "synced" => run \in ToFile /\ disk[run] = "complete"

\* A run that has staged nothing has no temporary file, and what a run commits
\* it has written in full.
TypeInv ==
    /\ TypeOK
    /\ \A run \in Runs :
          /\ status[run] \in {"idle", "resolved"} => run \notin diskDir.temporaries
          /\ status[run] \in {"written", "synced", "copying"} => file[run] = "complete"

\* A run that ended by itself dropped or renamed its file; only stdout is copied to.
CleanInv ==
    \A run \in Runs :
        /\ status[run] \in {"failed", "ok"} /\ ~outage => run \notin dir.temporaries
        /\ status[run] = "copying" => run \notin ToFile
        /\ status[run] = "ok" /\ run \notin ToFile => stdout[run] = "complete"
        /\ status[run] = "synced" => run \in ToFile

-----------------------------------------------------------------------------

LEMMA TypeInvInit == Init => TypeInv
<1> SUFFICES ASSUME Init PROVE TypeInv
  OBVIOUS
<1>1. /\ status \in [Runs -> {"idle"}] /\ stdout \in [Runs -> {"none"}]
      /\ file \in [Runs -> {"none"}] /\ disk \in [Runs -> {"none"}]
  BY DEF Init
<1>2. dir \in Directories /\ diskDir \in Directories /\ outage \in BOOLEAN
  BY DEF Init, Directories
<1>3. dir.temporaries = {} /\ diskDir.temporaries = {} /\ \A run \in Runs : status[run] = "idle"
  BY DEF Init
<1> QED BY <1>1, <1>2, <1>3 DEF TypeInv, TypeOK, Contents, Over

LEMMA TypeInvNext == TypeInv /\ [Next]_vars => TypeInv'
<1> SUFFICES ASSUME TypeInv, [Next]_vars PROVE TypeInv'
  OBVIOUS
<1> USE RunsAssumption DEF TypeInv, TypeOK, Contents, Directories, Over
<1>1. ASSUME NEW run \in Runs, Resolve(run) PROVE TypeInv'
  BY <1>1 DEF Resolve
<1>2. ASSUME NEW run \in Runs, Stage(run) PROVE TypeInv'
  BY <1>2 DEF Stage
<1>3. ASSUME NEW run \in Runs, WriteSome(run) PROVE TypeInv'
  BY <1>3 DEF WriteSome
<1>4. ASSUME NEW run \in Runs, WriteAll(run) PROVE TypeInv'
  BY <1>4 DEF WriteAll
<1>5. ASSUME NEW run \in Runs, Sync(run) PROVE TypeInv'
  BY <1>5 DEF Sync
<1>6. ASSUME NEW run \in Runs, Persist(run) PROVE TypeInv'
  BY <1>6 DEF Persist
<1>7. ASSUME NEW run \in Runs, Copy(run) PROVE TypeInv'
  BY <1>7 DEF Copy
<1>8. ASSUME NEW run \in Runs, Fail(run) PROVE TypeInv'
  BY <1>8 DEF Fail
<1>9. ASSUME NEW run \in Runs, Kill(run) PROVE TypeInv'
  BY <1>9 DEF Kill
<1>10. ASSUME NEW run \in Runs, WriteBack(run) PROVE TypeInv'
  BY <1>10 DEF WriteBack
<1>11. CASE WriteBackDirectory
  BY <1>11 DEF WriteBackDirectory
<1>12. CASE PowerLoss
  BY <1>12 DEF PowerLoss
<1>13. CASE UNCHANGED vars
  BY <1>13 DEF vars
<1> QED BY <1>1, <1>2, <1>3, <1>4, <1>5, <1>6, <1>7, <1>8, <1>9, <1>10, <1>11, <1>12, <1>13
        DEF Next, RunStep

\* Type correctness of staged output.
THEOREM StagedTypeCorrect == Spec => []TypeOK
<1>1. TypeInv => TypeOK
  BY DEF TypeInv
<1> QED BY <1>1, TypeInvInit, TypeInvNext, PTL DEF Spec

LEMMA DestinationInvNext == TypeInv /\ DestinationInv /\ [Next]_vars => DestinationInv'
<1> SUFFICES ASSUME TypeInv, DestinationInv, [Next]_vars PROVE DestinationInv'
  OBVIOUS
<1> USE DEF TypeInv, TypeOK, Contents, Directories, Over, DestinationInv, WholeAt
<1>1. ASSUME NEW run \in Runs, Resolve(run) PROVE DestinationInv'
  BY <1>1 DEF Resolve
<1>2. ASSUME NEW run \in Runs, Stage(run) PROVE DestinationInv'
  BY <1>2 DEF Stage
<1>3. ASSUME NEW run \in Runs, WriteSome(run) PROVE DestinationInv'
  BY <1>3 DEF WriteSome
<1>4. ASSUME NEW run \in Runs, WriteAll(run) PROVE DestinationInv'
  BY <1>4 DEF WriteAll
<1>5. ASSUME NEW run \in Runs, Sync(run) PROVE DestinationInv'
  BY <1>5 DEF Sync
<1>6. ASSUME NEW run \in Runs, Persist(run) PROVE DestinationInv'
  BY <1>6 DEF Persist
<1>7. ASSUME NEW run \in Runs, Copy(run) PROVE DestinationInv'
  BY <1>7 DEF Copy
<1>8. ASSUME NEW run \in Runs, Fail(run) PROVE DestinationInv'
  BY <1>8 DEF Fail
<1>9. ASSUME NEW run \in Runs, Kill(run) PROVE DestinationInv'
  BY <1>9 DEF Kill
<1>10. ASSUME NEW run \in Runs, WriteBack(run) PROVE DestinationInv'
  BY <1>10 DEF WriteBack
<1>11. CASE WriteBackDirectory
  BY <1>11 DEF WriteBackDirectory
<1>12. CASE PowerLoss
  BY <1>12 DEF PowerLoss
<1>13. CASE UNCHANGED vars
  BY <1>13 DEF vars
<1> QED BY <1>1, <1>2, <1>3, <1>4, <1>5, <1>6, <1>7, <1>8, <1>9, <1>10, <1>11, <1>12, <1>13
        DEF Next, RunStep

\* The destination holds what was there before or one whole envelope, at every
\* moment and after any outage, for any number of runs (output.rs:41-65).
THEOREM DestinationAlwaysWhole == Spec => []DestinationWhole
<1>1. Init => DestinationInv
  BY RunsAssumption DEF Init, DestinationInv, WholeAt
<1>2. DestinationInv => DestinationWhole
  BY DEF DestinationInv, WholeAt, DestinationWhole
<1> QED BY <1>1, <1>2, TypeInvInit, TypeInvNext, DestinationInvNext, PTL DEF Spec

LEMMA CleanInvNext == TypeInv /\ DestinationInv /\ CleanInv /\ [Next]_vars => CleanInv'
<1> SUFFICES ASSUME TypeInv, DestinationInv, CleanInv, [Next]_vars PROVE CleanInv'
  OBVIOUS
<1> USE DEF TypeInv, TypeOK, Contents, Directories, Over, DestinationInv, CleanInv
<1>1. ASSUME NEW run \in Runs, Resolve(run) PROVE CleanInv'
  BY <1>1 DEF Resolve
<1>2. ASSUME NEW run \in Runs, Stage(run) PROVE CleanInv'
  BY <1>2 DEF Stage
<1>3. ASSUME NEW run \in Runs, WriteSome(run) PROVE CleanInv'
  BY <1>3 DEF WriteSome
<1>4. ASSUME NEW run \in Runs, WriteAll(run) PROVE CleanInv'
  BY <1>4 DEF WriteAll
<1>5. ASSUME NEW run \in Runs, Sync(run) PROVE CleanInv'
  BY <1>5 DEF Sync
<1>6. ASSUME NEW run \in Runs, Persist(run) PROVE CleanInv'
  BY <1>6 DEF Persist
<1>7. ASSUME NEW run \in Runs, Copy(run) PROVE CleanInv'
  BY <1>7 DEF Copy
<1>8. ASSUME NEW run \in Runs, Fail(run) PROVE CleanInv'
  BY <1>8 DEF Fail
<1>9. ASSUME NEW run \in Runs, Kill(run) PROVE CleanInv'
  BY <1>9 DEF Kill
<1>10. ASSUME NEW run \in Runs, WriteBack(run) PROVE CleanInv'
  BY <1>10 DEF WriteBack
<1>11. CASE WriteBackDirectory
  BY <1>11 DEF WriteBackDirectory
<1>12. CASE PowerLoss
  BY <1>12 DEF PowerLoss
<1>13. CASE UNCHANGED vars
  BY <1>13 DEF vars
<1> QED BY <1>1, <1>2, <1>3, <1>4, <1>5, <1>6, <1>7, <1>8, <1>9, <1>10, <1>11, <1>12, <1>13
        DEF Next, RunStep

\* A run that ended by itself left no staging file, and one that succeeded wrote
\* everything to stdout when that was its output (main.rs:29-56).
THEOREM NothingIsLeftBehind == Spec => []NothingLeftBehind
<1>1. Init => DestinationInv /\ CleanInv
  BY RunsAssumption DEF Init, DestinationInv, WholeAt, CleanInv
<1>2. CleanInv => NothingLeftBehind
  BY DEF CleanInv, NothingLeftBehind
<1> QED BY <1>1, <1>2, TypeInvInit, TypeInvNext, DestinationInvNext, CleanInvNext, PTL DEF Spec

\* The destination changes when a run succeeds or an outage undoes it, and at no
\* other step (output.rs:55-56).
THEOREM OnlySuccessChangesDestination == Spec => OnlySuccessReplaces
<1> DEFINE Change == dir'.destination # dir.destination =>
                        \/ dir'.destination = diskDir.destination
                        \/ dir'.destination \in Runs /\ status'[dir'.destination] = "ok"
<1>1. TypeInv /\ [Next]_vars => [Change]_vars
  <2> SUFFICES ASSUME TypeInv, [Next]_vars PROVE Change
    OBVIOUS
  <2> USE DEF TypeInv, TypeOK, Directories
  <2>1. ASSUME NEW run \in Runs, RunStep(run) \/ Kill(run) \/ WriteBack(run) PROVE Change
    <3>1. CASE Persist(run)
      BY <3>1 DEF Persist
    <3>2. CASE ~Persist(run)
      BY <2>1, <3>2 DEF RunStep, Resolve, Stage, WriteSome, WriteAll, Sync, Copy, Fail, Kill, WriteBack
    <3> QED BY <3>1, <3>2
  <2>2. CASE WriteBackDirectory \/ PowerLoss
    BY <2>2 DEF WriteBackDirectory, PowerLoss
  <2>3. CASE UNCHANGED vars
    BY <2>3 DEF vars
  <2> QED BY <2>1, <2>2, <2>3 DEF Next
<1> QED BY <1>1, TypeInvInit, TypeInvNext, PTL DEF Spec, OnlySuccessReplaces
===============================================================================

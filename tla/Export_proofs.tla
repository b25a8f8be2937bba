----------------------------- MODULE Export_proofs -----------------------------
(* The export keeps its promise to whoever reads the destination, for any       *)
(* chains, states, pages, requests and failures: from the invariants of its     *)
(* source and of its staged file, and what write_accounts collects.             *)
EXTENDS Export, TLAPS, SequenceTheorems

SourceProofs == INSTANCE RethSource_proofs WITH MaxPages <- Len(Requested) * (MaxKey + 1)
StageProofs == INSTANCE StagedOutput_proofs WITH Runs <- {command}, ToFile <- {command}

-----------------------------------------------------------------------------
(* The components are those the proofs are about *)

LEMMA SourceAssumed ==
    /\ SourceProofs!ChainsAssumption /\ SourceProofs!HashAssumption
    /\ SourceProofs!StateAssumption /\ SourceProofs!ArgumentsAssumption
BY ExportAssumption
DEF Source!ChainsAssumption, Source!HashAssumption, Source!StateAssumption,
    Source!ArgumentsAssumption, Source!Range, Source!IsOption,
    SourceProofs!ChainsAssumption, SourceProofs!HashAssumption, SourceProofs!StateAssumption,
    SourceProofs!ArgumentsAssumption, SourceProofs!Range, SourceProofs!IsOption

LEMMA StageAssumed == StageProofs!RunsAssumption
BY ExportAssumption DEF Stage!RunsAssumption, StageProofs!RunsAssumption

\* A call of the source, or a move of the node, is a step of RethSource.
LEMMA SameAnchorError == Source!AnchorError = SourceProofs!AnchorError
BY DEF Source!AnchorError, SourceProofs!AnchorError, Source!BlockAt, SourceProofs!BlockAt

LEMMA SameResolve ==
    Source!ReadChainInfo \/ Source!ReadHeader \/ Source!ReadWindow => SourceProofs!Next
<1> USE DEF Source!Fail, SourceProofs!Fail, Source!nodeVars, SourceProofs!nodeVars,
            SourceProofs!Next
<1>1. Source!ReadChainInfo => SourceProofs!ReadChainInfo
  BY DEF Source!ReadChainInfo, SourceProofs!ReadChainInfo, Source!Tip, SourceProofs!Tip
<1>2. Source!ReadHeader => SourceProofs!ReadHeader
  BY DEF Source!ReadHeader, SourceProofs!ReadHeader, Source!BlockNumber,
         SourceProofs!BlockNumber, Source!BlockAt, SourceProofs!BlockAt
<1>3. Source!ReadWindow => SourceProofs!ReadWindow
  BY DEF Source!ReadWindow, SourceProofs!ReadWindow, Source!CanonicalHashes,
         SourceProofs!CanonicalHashes, Source!WindowFits, SourceProofs!WindowFits,
         Source!BlockHashesValid, SourceProofs!BlockHashesValid, Source!NumbersAscend,
         SourceProofs!NumbersAscend, Source!SaturatingSub, SourceProofs!SaturatingSub
<1>4. QED BY <1>1, <1>2, <1>3

LEMMA SameAccount ==
    /\ Source!Confirm => SourceProofs!Confirm
    /\ Source!Verify \/ Source!ReadRange \/ Source!ReadHistory \/ Source!Confirm
          => SourceProofs!Next
<1> USE SameAnchorError
    DEF Source!Fail, SourceProofs!Fail, Source!Goto, SourceProofs!Goto,
        Source!nodeVars, SourceProofs!nodeVars, Source!Address, SourceProofs!Address
<1>1. Source!Verify => SourceProofs!Verify
  BY DEF Source!Verify, SourceProofs!Verify
<1>2. Source!ReadRange => SourceProofs!ReadRange
  BY DEF Source!ReadRange, SourceProofs!ReadRange
<1>3. Source!ReadHistory => SourceProofs!ReadHistory
  BY DEF Source!ReadHistory, SourceProofs!ReadHistory, Source!Agrees, SourceProofs!Agrees
<1>4. Source!Confirm => SourceProofs!Confirm
  BY DEF Source!Confirm, SourceProofs!Confirm
<1>5. QED BY <1>1, <1>2, <1>3, <1>4 DEF SourceProofs!Next

LEMMA SamePage ==
    /\ \A address \in Range(Requested) : Source!StartPage(address) => SourceProofs!Next
    /\ Source!ReadPage \/ Source!ConfirmPage \/ Source!ReadFails \/ Source!NodeMoves
          => SourceProofs!Next
<1> USE SameAnchorError
    DEF Source!Fail, SourceProofs!Fail, Source!nodeVars, SourceProofs!nodeVars
<1>1. ASSUME NEW address \in Range(Requested), Source!StartPage(address)
      PROVE  SourceProofs!Next
  <2>1. SourceProofs!StartPage(address) /\ address \in SourceProofs!Range(Requested)
    BY <1>1 DEF Source!StartPage, SourceProofs!StartPage, Range, SourceProofs!Range
  <2>2. QED BY <2>1 DEF SourceProofs!Next
<1>2. Source!ReadPage => SourceProofs!ReadPage
  BY DEF Source!ReadPage, SourceProofs!ReadPage
<1>3. Source!ConfirmPage => SourceProofs!ConfirmPage
  BY DEF Source!ConfirmPage, SourceProofs!ConfirmPage
<1>4. Source!ReadFails => SourceProofs!ReadFails
  BY DEF Source!ReadFails, SourceProofs!ReadFails
<1>5. Source!NodeMoves => SourceProofs!NodeMoves
  BY DEF Source!NodeMoves, SourceProofs!NodeMoves, Source!Extends, SourceProofs!Extends
<1>6. QED BY <1>1, <1>2, <1>3, <1>4, <1>5 DEF SourceProofs!Next

\* So is a step of the staged file.
LEMMA SameStage ==
    ASSUME \/ Stage!Resolve(command) \/ Stage!Stage(command) \/ Stage!WriteSome(command)
           \/ Stage!WriteAll(command) \/ Stage!Sync(command) \/ Stage!Persist(command)
           \/ Stage!Fail(command) \/ Stage!Kill(command) \/ Stage!WriteBack(command)
           \/ Stage!WriteBackDirectory \/ Stage!PowerLoss
    PROVE  StageProofs!Next
<1> USE DEF Stage!Over, StageProofs!Over, StageProofs!Next, StageProofs!RunStep
<1>1. Stage!Resolve(command) => StageProofs!Resolve(command)
  BY DEF Stage!Resolve, StageProofs!Resolve
<1>2. Stage!Stage(command) => StageProofs!Stage(command)
  BY DEF Stage!Stage, StageProofs!Stage
<1>3. Stage!WriteSome(command) => StageProofs!WriteSome(command)
  BY DEF Stage!WriteSome, StageProofs!WriteSome
<1>4. Stage!WriteAll(command) => StageProofs!WriteAll(command)
  BY DEF Stage!WriteAll, StageProofs!WriteAll
<1>5. Stage!Sync(command) => StageProofs!Sync(command)
  BY DEF Stage!Sync, StageProofs!Sync
<1>6. Stage!Persist(command) => StageProofs!Persist(command)
  BY DEF Stage!Persist, StageProofs!Persist
<1>7. Stage!Fail(command) => StageProofs!Fail(command)
  BY DEF Stage!Fail, StageProofs!Fail
<1>8. Stage!Kill(command) => StageProofs!Kill(command)
  BY DEF Stage!Kill, StageProofs!Kill
<1>9. Stage!WriteBack(command) => StageProofs!WriteBack(command)
  BY DEF Stage!WriteBack, StageProofs!WriteBack
<1>10. Stage!WriteBackDirectory => StageProofs!WriteBackDirectory
  BY DEF Stage!WriteBackDirectory, StageProofs!WriteBackDirectory
<1>11. Stage!PowerLoss => StageProofs!PowerLoss
  BY DEF Stage!PowerLoss, StageProofs!PowerLoss
<1>12. QED BY <1>1, <1>2, <1>3, <1>4, <1>5, <1>6, <1>7, <1>8, <1>9, <1>10, <1>11

\* What a step of the staged file does to what a reader may find.
LEMMA StageSteps ==
    ASSUME StageProofs!TypeInv
    PROVE
    /\ Stage!Resolve(command) =>
          status[command] = "idle" /\ status'[command] = "resolved"
          /\ UNCHANGED <<file, disk, dir, diskDir>>
    /\ Stage!Stage(command) =>
          /\ status[command] = "resolved" /\ status'[command] = "staged"
          /\ file'[command] = "empty" /\ dir'.destination = dir.destination
          /\ UNCHANGED <<disk, diskDir>>
    /\ Stage!WriteSome(command) =>
          status[command] = "staged" /\ file'[command] = "partial"
          /\ UNCHANGED <<status, disk, dir, diskDir>>
    /\ Stage!WriteAll(command) =>
          status[command] = "staged" /\ status'[command] = "written"
          /\ UNCHANGED <<disk, dir, diskDir>>
    /\ Stage!Sync(command) =>
          /\ status[command] = "written" /\ status'[command] = "synced"
          /\ disk'[command] = file[command] /\ UNCHANGED <<file, dir, diskDir>>
    /\ Stage!Persist(command) =>
          /\ status[command] = "synced" /\ status'[command] = "ok"
          /\ dir'.destination = command /\ UNCHANGED <<file, disk, diskDir>>
    /\ Stage!Fail(command) =>
          /\ status[command] \notin {"ok", "failed", "killed"} /\ status'[command] = "failed"
          /\ file'[command] = "none" /\ dir'.destination = dir.destination
          /\ UNCHANGED <<disk, diskDir>>
    /\ Stage!Kill(command) =>
          /\ status[command] \notin {"ok", "failed", "killed", "idle"}
          /\ status'[command] = "killed" /\ UNCHANGED <<file, disk, dir, diskDir>>
    /\ Stage!WriteBack(command) =>
          disk'[command] = file[command] /\ UNCHANGED <<status, file, dir, diskDir>>
    /\ Stage!PowerLoss =>
          /\ status'[command] = IF status[command] \in {"ok", "failed", "killed", "idle"}
                                THEN status[command] ELSE "killed"
          /\ file' = disk /\ dir' = diskDir /\ UNCHANGED <<disk, diskDir>>
<1> USE DEF StageProofs!TypeInv, StageProofs!TypeOK, StageProofs!Directories
<1>1. /\ status = [run \in {command} |-> status[run]] /\ file = [run \in {command} |-> file[run]]
      /\ disk = [run \in {command} |-> disk[run]]
      /\ dir = [destination |-> dir.destination, temporaries |-> dir.temporaries]
  OBVIOUS
<1> HIDE DEF StageProofs!TypeInv
<1>2. /\ \A value : [status EXCEPT ![command] = value][command] = value
      /\ \A value : [file EXCEPT ![command] = value][command] = value
      /\ \A value : [disk EXCEPT ![command] = value][command] = value
      /\ \A value : [dir EXCEPT !.temporaries = value].destination = dir.destination
  BY <1>1
<1>3. Stage!Resolve(command) =>
          status[command] = "idle" /\ status'[command] = "resolved"
          /\ UNCHANGED <<file, disk, dir, diskDir>>
  BY <1>2 DEF Stage!Resolve
<1>4. Stage!Stage(command) =>
          /\ status[command] = "resolved" /\ status'[command] = "staged"
          /\ file'[command] = "empty" /\ dir'.destination = dir.destination
          /\ UNCHANGED <<disk, diskDir>>
  BY <1>2 DEF Stage!Stage
<1>5. Stage!WriteSome(command) =>
          status[command] = "staged" /\ file'[command] = "partial"
          /\ UNCHANGED <<status, disk, dir, diskDir>>
  BY <1>2 DEF Stage!WriteSome
<1>6. Stage!WriteAll(command) =>
          status[command] = "staged" /\ status'[command] = "written"
          /\ UNCHANGED <<disk, dir, diskDir>>
  BY <1>2 DEF Stage!WriteAll
<1>7. Stage!Sync(command) =>
          /\ status[command] = "written" /\ status'[command] = "synced"
          /\ disk'[command] = file[command] /\ UNCHANGED <<file, dir, diskDir>>
  BY <1>2 DEF Stage!Sync
<1>8. Stage!Persist(command) =>
          /\ status[command] = "synced" /\ status'[command] = "ok"
          /\ dir'.destination = command /\ UNCHANGED <<file, disk, diskDir>>
  BY <1>2 DEF Stage!Persist
<1>9. Stage!Fail(command) =>
          /\ status[command] \notin {"ok", "failed", "killed"} /\ status'[command] = "failed"
          /\ file'[command] = "none" /\ dir'.destination = dir.destination
          /\ UNCHANGED <<disk, diskDir>>
  BY <1>2 DEF Stage!Fail, Stage!Over
<1>10. Stage!Kill(command) =>
          /\ status[command] \notin {"ok", "failed", "killed", "idle"}
          /\ status'[command] = "killed" /\ UNCHANGED <<file, disk, dir, diskDir>>
  BY <1>2 DEF Stage!Kill, Stage!Over
<1>11. Stage!WriteBack(command) =>
          disk'[command] = file[command] /\ UNCHANGED <<status, file, dir, diskDir>>
  BY <1>2 DEF Stage!WriteBack
<1>12. Stage!PowerLoss =>
          /\ status'[command] = IF status[command] \in {"ok", "failed", "killed", "idle"}
                                THEN status[command] ELSE "killed"
          /\ file' = disk /\ dir' = diskDir /\ UNCHANGED <<disk, diskDir>>
  BY <1>2 DEF Stage!PowerLoss, Stage!Over
<1>13. QED BY <1>3, <1>4, <1>5, <1>6, <1>7, <1>8, <1>9, <1>10, <1>11, <1>12

-----------------------------------------------------------------------------
(* What write_accounts has collected *)

\* The records so far are those of the accounts read, each with the storage its root
\* commits to; the locals of collect_account are those of the account it is at.
Collecting ==
    /\ Len(records) < Len(taken)
    /\ leaves = Range(entries)
    /\ Keccak(Writer!account.code) = Writer!account.account.codeHash

WriterInv ==
    /\ records \in Seq(Range(records)) /\ Len(records) <= Len(taken)
    /\ entries \in Seq(Entry)
    /\ phase = "begin" => records = <<>> /\ output = "empty"
    /\ phase \in {"account", "page", "finish", "done"} => Writer!ArgumentsValid
    /\ phase \in {"page", "finish"} => Collecting
    /\ output # "empty" => phase \in {"done", "failed"}
    /\ output = "complete" => Writer!ArgumentsValid /\ Len(records) = Len(taken)
    /\ \A i \in 1..Len(records) :
          /\ records[i].account = SnapshotAccounts[i].account
          /\ records[i].code = SnapshotAccounts[i].code
          /\ AccountRecordValid(records[i])

LEMMA AccountsTaken ==
    ASSUME SourceProofs!SourceInv
    PROVE  /\ Len(taken) \in Nat /\ Len(SnapshotAccounts) = Len(taken)
           /\ \A i \in 1..Len(taken) : SnapshotAccounts[i] =
                 [account |-> [address |-> taken[i].address,
                               codeHash |-> Keccak(taken[i].account.fields),
                               storageRoot |-> taken[i].account.storageRoot],
                  code |-> taken[i].account.fields]
<1>1. taken \in Seq(SourceProofs!Returned)
  BY DEF SourceProofs!SourceInv, SourceProofs!SourceTypes
<1>2. Len(taken) \in Nat /\ DOMAIN taken = 1..Len(taken)
  BY <1>1
<1>3. QED BY <1>2 DEF SnapshotAccounts

LEMMA ArgumentsStay ==
    ASSUME UNCHANGED <<anchor, taken>>
    PROVE  /\ Writer!ArgumentsValid' <=> Writer!ArgumentsValid
           /\ SnapshotAccounts' = SnapshotAccounts /\ SnapshotAnchor' = SnapshotAnchor
<1>1. SnapshotAccounts' = SnapshotAccounts
  BY DEF SnapshotAccounts
<1>2. SnapshotAnchor' = SnapshotAnchor
  BY DEF SnapshotAnchor
<1>3. QED BY <1>1, <1>2 DEF Writer!ArgumentsValid

\* Nothing but the output and the end of the call: the records stay.
LEMMA RecordsStay ==
    ASSUME WriterInv, UNCHANGED <<anchor, taken, records>>
    PROVE  /\ records' \in Seq(Range(records')) /\ Len(records') <= Len(taken')
           /\ \A i \in 1..Len(records') :
                 /\ records'[i].account = SnapshotAccounts'[i].account
                 /\ records'[i].code = SnapshotAccounts'[i].code
                 /\ AccountRecordValid(records'[i])
<1>1. SnapshotAccounts' = SnapshotAccounts
  BY ArgumentsStay
<1>2. QED BY <1>1 DEF WriterInv

LEMMA FailingStep ==
    ASSUME WriterInv, UNCHANGED <<anchor, taken, records, entries, output>>,
           phase' = "failed", output = "empty"
    PROVE  WriterInv'
<1>1. entries' \in Seq(Entry) /\ output' = "empty"
  BY DEF WriterInv
<1>2. QED BY <1>1, RecordsStay DEF WriterInv

LEMMA BeginStep ==
    ASSUME WriterInv, Writer!Begin, UNCHANGED <<anchor, taken>>
    PROVE  WriterInv'
<1>1. /\ phase = "begin" /\ UNCHANGED <<records, entries, output>> /\ output = "empty"
      /\ \/ Writer!ArgumentsValid /\ phase' = "account"
         \/ phase' = "failed"
  BY DEF Writer!Begin, Writer!Fail, Writer!locals, WriterInv
<1>2. CASE phase' = "failed"
  BY <1>1, <1>2, FailingStep
<1>3. CASE Writer!ArgumentsValid /\ phase' = "account"
  BY <1>1, <1>3, RecordsStay, ArgumentsStay DEF WriterInv
<1>4. QED BY <1>1, <1>2, <1>3

LEMMA StartAccountStep ==
    ASSUME WriterInv, SourceProofs!SourceInv, Writer!StartAccount, UNCHANGED <<anchor, taken>>
    PROVE  WriterInv'
<1>1. /\ phase = "account" /\ Len(records) < Len(taken) /\ output = "empty"
      /\ UNCHANGED <<records, output>> /\ leaves' = {} /\ entries' = <<>>
      /\ \/ phase' = "failed"
         \/ phase' = "page" /\ Keccak(Writer!account.code) = Writer!account.account.codeHash
  BY AccountsTaken DEF Writer!StartAccount, Writer!Fail, Writer!Keccak, Keccak, WriterInv
<1>2. Writer!account' = Writer!account /\ (Writer!ArgumentsValid' <=> Writer!ArgumentsValid)
  BY <1>1, ArgumentsStay DEF Writer!account
<1>3. entries' \in Seq(Entry) /\ leaves' = Range(entries')
  BY <1>1 DEF Range
<1>4. phase' = "page" => Collecting'
  BY <1>1, <1>2, <1>3 DEF Collecting, Keccak
<1>5. QED BY <1>1, <1>2, <1>3, <1>4, RecordsStay DEF WriterInv

LEMMA RangeConcat ==
    ASSUME NEW T, NEW s \in Seq(T), NEW t \in Seq(T)
    PROVE  Range(s \o t) = Range(s) \cup Range(t)
<1>1. /\ Len(s) \in Nat /\ Len(t) \in Nat /\ Len(s \o t) = Len(s) + Len(t)
      /\ DOMAIN s = 1..Len(s) /\ DOMAIN t = 1..Len(t)
      /\ DOMAIN (s \o t) = 1..Len(s) + Len(t)
      /\ \A i \in 1..Len(s) : (s \o t)[i] = s[i]
      /\ \A i \in 1..Len(t) : (s \o t)[Len(s) + i] = t[i]
  BY ConcatProperties, LenProperties
<1>2. ASSUME NEW i \in 1..Len(s) + Len(t) PROVE (s \o t)[i] \in Range(s) \cup Range(t)
  <2>1. CASE i <= Len(s)
    BY <1>1, <2>1 DEF Range
  <2>2. CASE i > Len(s)
    <3>1. i - Len(s) \in 1..Len(t) /\ Len(s) + (i - Len(s)) = i
      BY <1>1, <2>2
    <3>2. QED BY <1>1, <3>1 DEF Range
  <2>3. QED BY <1>1, <2>1, <2>2
<1>3. \A i \in 1..Len(s) : s[i] \in Range(s \o t)
  BY <1>1 DEF Range
<1>4. ASSUME NEW i \in 1..Len(t) PROVE t[i] \in Range(s \o t)
  <2>1. Len(s) + i \in 1..Len(s) + Len(t)
    BY <1>1
  <2>2. QED BY <1>1, <2>1 DEF Range
<1>5. QED BY <1>1, <1>2, <1>3, <1>4 DEF Range

\* A page that is accepted adds its entries and its leaves alike.
LEMMA AcceptStep ==
    ASSUME WriterInv, Writer!AcceptPage, UNCHANGED <<anchor, taken>>
    PROVE  WriterInv'
<1>1. PICK page \in Pages :
          /\ entries' = entries \o page.entries
          /\ leaves' = leaves \cup Range(page.entries)
          /\ Writer!Continue(page)
  BY DEF Writer!AcceptPage, Writer!SourcePages, Writer!Range, Range
<1>2. /\ phase = "page" /\ UNCHANGED <<records, output>> /\ output = "empty"
      /\ Collecting /\ Writer!ArgumentsValid
  BY DEF Writer!AcceptPage, WriterInv
<1>3. phase' \in {"page", "finish", "failed"}
  BY <1>1, <1>2 DEF Writer!Continue, Writer!Fail
<1>4. page.entries \in Seq(Entry) /\ entries \in Seq(Entry)
  BY ExportAssumption
  DEF Writer!WriterAssumption, Writer!Page, Writer!Entry, Writer!Keys, Writer!Words,
      Entry, Keys, Words, WriterInv
<1>5. entries' \in Seq(Entry) /\ leaves' = Range(entries')
  BY <1>1, <1>2, <1>4, RangeConcat, ConcatProperties DEF Collecting
<1>6. Writer!account' = Writer!account /\ (Writer!ArgumentsValid' <=> Writer!ArgumentsValid)
  BY <1>2, ArgumentsStay DEF Writer!account
<1>7. Collecting'
  BY <1>2, <1>5, <1>6 DEF Collecting, Keccak
<1>8. QED BY <1>2, <1>3, <1>5, <1>6, <1>7, RecordsStay DEF WriterInv

LEMMA RejectStep ==
    ASSUME WriterInv, Writer!RejectPage \/ Writer!SourceFails, UNCHANGED <<anchor, taken>>
    PROVE  WriterInv'
<1>1. /\ phase = "page" /\ phase' = "failed" /\ UNCHANGED <<records, entries, output>>
  BY DEF Writer!RejectPage, Writer!SourceFails, Writer!Fail, Writer!locals
<1>2. QED BY <1>1, FailingStep DEF WriterInv

\* A record is added once its leaves have the root of its account.
LEMMA FinishStep ==
    ASSUME WriterInv, SourceProofs!SourceInv, Writer!FinishAccount, UNCHANGED <<anchor, taken>>
    PROVE  WriterInv'
<1> DEFINE record == [account |-> Writer!account.account, code |-> Writer!account.code,
                      storage |-> entries]
<1>1. /\ phase = "finish" /\ UNCHANGED <<entries, output>> /\ output = "empty" /\ Collecting
      /\ \/ phase' = "failed" /\ records' = records
         \/ Writer!Collected /\ records' = Append(records, record) /\ phase' = "account"
  BY DEF Writer!FinishAccount, Writer!Fail, Writer!locals, WriterInv
<1>2. CASE phase' = "failed" /\ records' = records
  BY <1>1, <1>2, FailingStep
<1>3. CASE Writer!Collected /\ records' = Append(records, record) /\ phase' = "account"
  <2>1. records \in Seq(Range(records)) /\ Len(records) \in Nat /\ Len(taken) \in Nat
    BY AccountsTaken DEF WriterInv
  <2>2. /\ records' \in Seq(Range(records) \cup {record}) /\ Len(records') = Len(records) + 1
        /\ \A i \in 1..Len(records) : records'[i] = records[i]
        /\ records'[Len(records) + 1] = record
    BY <1>3, <2>1, AppendProperties
  <2>3. records' \in Seq(Range(records')) /\ Len(records') <= Len(taken)
    BY <1>1, <2>1, <2>2, SeqOfRange DEF Collecting
  <2>4. AccountRecordValid(record)
    BY <1>1, <1>3
    DEF AccountRecordValid, Collecting, Writer!Collected, Writer!StorageEntriesValid,
        StorageEntriesValid, StorageRoot, Writer!Keccak, Keccak
  <2>5. record.account = SnapshotAccounts[Len(records) + 1].account
        /\ record.code = SnapshotAccounts[Len(records) + 1].code
    BY DEF Writer!account
  <2>6. ASSUME NEW i \in 1..Len(records')
        PROVE  /\ records'[i].account = SnapshotAccounts[i].account
               /\ records'[i].code = SnapshotAccounts[i].code
               /\ AccountRecordValid(records'[i])
    <3>1. CASE i \in 1..Len(records)
      BY <2>2, <3>1 DEF WriterInv
    <3>2. CASE i = Len(records) + 1
      BY <2>2, <2>4, <2>5, <3>2
    <3>3. QED BY <2>1, <2>2, <3>1, <3>2
  <2> HIDE DEF record
  <2>7. Writer!ArgumentsValid' /\ SnapshotAccounts' = SnapshotAccounts
    BY <1>1, ArgumentsStay DEF WriterInv
  <2>8. QED BY <1>1, <1>3, <2>3, <2>6, <2>7 DEF WriterInv
<1>4. QED BY <1>1, <1>2, <1>3

LEMMA EnvelopeStep ==
    ASSUME WriterInv, SourceProofs!SourceInv, Writer!WriteEnvelope, UNCHANGED <<anchor, taken>>
    PROVE  WriterInv' /\ phase' \in {"done", "failed"} /\ (phase' = "done" => output' = "complete")
<1>1. /\ phase = "account" /\ Len(records) = Len(taken) /\ UNCHANGED <<records, entries>>
      /\ \/ phase' = "done" /\ output' = "complete"
         \/ phase' = "failed" /\ output' \in {"empty", "partial", "complete"}
  BY AccountsTaken DEF Writer!WriteEnvelope, Writer!Fail, Writer!locals
<1>2. Writer!ArgumentsValid' /\ entries' \in Seq(Entry)
  BY <1>1, ArgumentsStay DEF WriterInv
<1>3. QED BY <1>1, <1>2, RecordsStay DEF WriterInv

-----------------------------------------------------------------------------
(* The inductive invariant *)

\* The writer starts, and the file is staged, once all accounts have been read.
ReadFirst ==
    /\ status[command] = "idle" => phase = "begin"
    /\ \/ pc \in {"done", "page", "confirm page"}
       \/ status[command] \in {"resolved", "staged", "written", "synced", "ok"}
       \/ phase # "begin"
       => Len(taken) = Len(Requested) /\ anchor # {}

\* A file that is whole, in memory or on disk, has all of the document; and the
\* destination is on disk only after it was in memory.
FileInv ==
    /\ file[command] = "complete" \/ disk[command] = "complete" => output = "complete"
    /\ diskDir.destination = command => dir.destination = command

StageInv == StageProofs!TypeInv /\ StageProofs!DestinationInv

ExportInv == SourceProofs!SourceInv /\ StageInv /\ WriterInv /\ ReadFirst /\ FileInv

LEMMA ExportInit == Init => ExportInv
<1> SUFFICES ASSUME Init PROVE ExportInv
  OBVIOUS
<1>1. SourceProofs!SourceInv
  <2>1. SourceProofs!Init
    BY DEF Init, Source!Init, SourceProofs!Init
  <2>2. QED BY <2>1, SourceProofs!SourceInit, SourceAssumed, FormatAssumption
<1>2. StageInv
  <2>1. StageProofs!Init
    BY DEF Init, Stage!Init, StageProofs!Init
  <2>2. StageProofs!TypeInv
    BY <2>1, StageProofs!TypeInvInit, StageAssumed
  <2>3. Previous # command
    BY StageAssumed DEF StageProofs!RunsAssumption
  <2>4. StageProofs!DestinationInv
    BY <2>3 DEF Init, Stage!Init, StageProofs!DestinationInv, StageProofs!WholeAt
  <2>5. QED BY <2>2, <2>4 DEF StageInv
<1>3. /\ taken = <<>> /\ pc = "chain info" /\ phase = "begin" /\ records = <<>>
      /\ entries = <<>> /\ output = "empty" /\ status[command] = "idle"
      /\ file[command] = "none" /\ disk[command] = "none"
      /\ dir.destination = Previous /\ diskDir.destination = Previous
  BY DEF Init, Source!Init, Stage!Init
<1>4. WriterInv
  <2>1. records \in Seq(Range(records)) /\ entries \in Seq(Entry)
    BY <1>3, EmptySeq
  <2>2. Len(records) = 0 /\ Len(taken) = 0
    BY <1>3
  <2>3. 1..Len(records) = {}
    BY <2>2
  <2>4. phase = "begin" /\ output = "empty" /\ (phase = "begin" => records = <<>>)
    BY <1>3
  <2>5. QED BY <2>1, <2>2, <2>3, <2>4 DEF WriterInv
<1>5. ReadFirst /\ FileInv
  BY <1>3, StageAssumed DEF ReadFirst, FileInv, StageProofs!RunsAssumption
<1>6. QED BY <1>1, <1>2, <1>4, <1>5 DEF ExportInv

\* What each action of the command does to its components.
LEMMA SourceKept ==
    ASSUME SourceProofs!SourceInv, SourceProofs!Next \/ UNCHANGED sourceVars
    PROVE  SourceProofs!SourceInv'
<1>1. UNCHANGED sourceVars => UNCHANGED SourceProofs!vars
  BY DEF sourceVars, SourceProofs!vars, SourceProofs!nodeVars
<1>2. QED BY <1>1, SourceProofs!SourceNext, SourceAssumed, FormatAssumption

LEMMA StageKept ==
    ASSUME StageInv, StageProofs!Next \/ UNCHANGED stageVars
    PROVE  StageInv'
<1>1. UNCHANGED stageVars => UNCHANGED StageProofs!vars
  BY DEF stageVars, StageProofs!vars
<1>2. QED
  BY <1>1, StageProofs!TypeInvNext, StageProofs!DestinationInvNext, StageAssumed DEF StageInv

LEMMA WriterKept ==
    ASSUME WriterInv, UNCHANGED <<anchor, taken>>, UNCHANGED writerVars
    PROVE  WriterInv'
<1>1. /\ UNCHANGED <<phase, records, leaves, entries, output>>
      /\ Writer!account' = Writer!account
  BY ArgumentsStay DEF writerVars, Writer!account
<1>2. (Writer!ArgumentsValid' <=> Writer!ArgumentsValid) /\ Collecting' = Collecting
  BY <1>1, ArgumentsStay DEF Collecting, Keccak
<1>3. QED BY <1>1, <1>2, RecordsStay DEF WriterInv

-----------------------------------------------------------------------------
(* Steps *)

\* A call for the anchor or an account: what is taken is counted, and the anchor
\* is there before anything is.
LEMMA ReadingSteps ==
    ASSUME SourceProofs!SourceInv, ReadAccounts
    PROVE  /\ SourceProofs!Next /\ UNCHANGED canonical
           /\ pc' \notin {"page", "confirm page"}
           /\ pc' = "done" => Len(taken') = Len(Requested)
           /\ taken' # taken => Source!Confirm /\ UNCHANGED anchor
           /\ anchor' # anchor => taken = <<>>
<1> USE DEF Source!Fail, Source!Goto, Source!nodeVars
<1>1. CASE Source!ReadChainInfo \/ Source!ReadHeader \/ Source!ReadWindow
  <2>1. SourceProofs!Next
    BY <1>1, SameResolve
  <2>2. pc = "window" => taken = <<>>
    BY DEF SourceProofs!SourceInv, SourceProofs!Progress
  <2>3. CASE Source!ReadChainInfo
    BY <2>1, <2>3 DEF Source!ReadChainInfo
  <2>4. CASE Source!ReadHeader
    BY <2>1, <2>4 DEF Source!ReadHeader
  <2>5. CASE Source!ReadWindow
    BY <2>1, <2>2, <2>5 DEF Source!ReadWindow
  <2>6. QED BY <1>1, <2>3, <2>4, <2>5
<1>2. CASE Source!Verify \/ Source!ReadRange \/ Source!ReadHistory
  BY <1>2, SameAccount DEF Source!Verify, Source!ReadRange, Source!ReadHistory
<1>3. CASE Source!Confirm
  BY <1>3, SameAccount DEF Source!Confirm
<1>4. CASE Source!ReadFails
  BY <1>4, SamePage DEF Source!ReadFails
<1>5. QED BY <1>1, <1>2, <1>3, <1>4 DEF ReadAccounts

LEMMA ReadAccountsStep == ExportInv /\ ReadAccounts => ExportInv'
<1> SUFFICES ASSUME ExportInv, ReadAccounts PROVE ExportInv'
  OBVIOUS
<1>1. /\ SourceProofs!Next /\ UNCHANGED <<writerVars, stageVars>> /\ status[command] = "idle"
      /\ pc' \notin {"page", "confirm page"}
      /\ pc' = "done" => Len(taken') = Len(Requested)
  BY ReadingSteps DEF ReadAccounts, ExportInv
<1>2. SourceProofs!SourceInv' /\ StageInv'
  BY <1>1, SourceKept, StageKept DEF ExportInv
<1>3. /\ phase = "begin" /\ records = <<>> /\ output = "empty" /\ entries \in Seq(Entry)
      /\ UNCHANGED <<phase, records, output, entries, status, file, disk, dir, diskDir>>
  BY <1>1 DEF ExportInv, ReadFirst, WriterInv, writerVars, stageVars
<1>4. WriterInv'
  <2>1. Len(taken') \in Nat
    <3>1. taken' \in Seq(SourceProofs!Returned')
      BY <1>2 DEF SourceProofs!SourceInv, SourceProofs!SourceTypes
    <3>2. QED BY <3>1, LenProperties
  <2>2. records' \in Seq(Range(records')) /\ entries' \in Seq(Entry)
    BY <1>3, EmptySeq
  <2>3. Len(records') = 0 /\ 1..Len(records') = {}
    BY <1>3
  <2>4. QED BY <1>3, <2>1, <2>2, <2>3 DEF WriterInv
<1>5. ReadFirst'
  <2>1. pc' = "done" => anchor' # {}
    BY <1>2 DEF SourceProofs!SourceInv, SourceProofs!Progress, SourceProofs!InPages
  <2>2. QED BY <1>1, <1>3, <2>1 DEF ReadFirst
<1>6. FileInv'
  BY <1>3 DEF ExportInv, FileInv
<1>7. QED BY <1>2, <1>4, <1>5, <1>6 DEF ExportInv

\* A step of the staging, with source and writer at rest.
LEMMA StagingSteps ==
    ASSUME ExportInv, UNCHANGED <<sourceVars, writerVars>>, StageProofs!Next,
           \/ Stage!Resolve(command) /\ pc = "done"
           \/ Stage!Stage(command) \/ Stage!WriteSome(command) \/ Stage!Sync(command)
           \/ Stage!Persist(command) \/ Stage!Fail(command) \/ Stage!Kill(command)
           \/ Stage!WriteBack(command) \/ Stage!WriteBackDirectory \/ Stage!PowerLoss
    PROVE  ExportInv'
<1>1. /\ UNCHANGED <<pc, taken, anchor, phase, output>>
      /\ SourceProofs!SourceInv' /\ StageInv' /\ WriterInv'
  BY SourceKept, StageKept, WriterKept DEF ExportInv, sourceVars, writerVars
<1>2. /\ StageProofs!TypeInv
      /\ ReadFirst /\ FileInv
  BY DEF ExportInv, StageInv
<1>3. /\ status[command] = "idle" => phase = "begin"
      /\ pc = "done" => Len(taken) = Len(Requested) /\ anchor # {}
      /\ status[command] \in {"resolved", "staged", "written", "synced", "ok"} =>
            Len(taken) = Len(Requested) /\ anchor # {}
  BY <1>2 DEF ReadFirst
<1>4. CASE Stage!Resolve(command) /\ pc = "done"
  BY <1>1, <1>2, <1>3, <1>4, StageSteps DEF ExportInv, ReadFirst, FileInv
<1>5. CASE Stage!Stage(command)
  BY <1>1, <1>2, <1>3, <1>5, StageSteps DEF ExportInv, ReadFirst, FileInv
<1>6. CASE Stage!WriteSome(command)
  BY <1>1, <1>2, <1>3, <1>6, StageSteps DEF ExportInv, ReadFirst, FileInv
<1>7. CASE Stage!Sync(command)
  BY <1>1, <1>2, <1>3, <1>7, StageSteps DEF ExportInv, ReadFirst, FileInv
<1>8. CASE Stage!Persist(command)
  BY <1>1, <1>2, <1>3, <1>8, StageSteps DEF ExportInv, ReadFirst, FileInv
<1>9. CASE Stage!Fail(command)
  BY <1>1, <1>2, <1>3, <1>9, StageSteps DEF ExportInv, ReadFirst, FileInv
<1>10. CASE Stage!Kill(command)
  BY <1>1, <1>2, <1>3, <1>10, StageSteps DEF ExportInv, ReadFirst, FileInv
<1>11. CASE Stage!WriteBack(command)
  BY <1>1, <1>2, <1>3, <1>11, StageSteps DEF ExportInv, ReadFirst, FileInv
<1>12. CASE Stage!WriteBackDirectory
  BY <1>1, <1>2, <1>3, <1>12 DEF ExportInv, ReadFirst, FileInv, Stage!WriteBackDirectory
<1>13. CASE Stage!PowerLoss
  BY <1>1, <1>2, <1>3, <1>13, StageSteps DEF ExportInv, ReadFirst, FileInv
<1>14. QED
  BY <1>4, <1>5, <1>6, <1>7, <1>8, <1>9, <1>10, <1>11, <1>12, <1>13

LEMMA StagingStep ==
    ASSUME ExportInv,
           AccountsRead \/ StageFile \/ WriteSome \/ Commit \/ Return \/ Interrupt
    PROVE  ExportInv'
<1>1. UNCHANGED <<sourceVars, writerVars>>
  BY DEF AccountsRead, StageFile, WriteSome, Commit, Return, Interrupt
<1>2. \/ Stage!Resolve(command) /\ pc = "done"
      \/ Stage!Stage(command) \/ Stage!WriteSome(command) \/ Stage!Sync(command)
      \/ Stage!Persist(command) \/ Stage!Fail(command) \/ Stage!Kill(command)
      \/ Stage!WriteBack(command) \/ Stage!WriteBackDirectory \/ Stage!PowerLoss
  BY DEF AccountsRead, StageFile, WriteSome, Commit, Return, Interrupt
<1>3. StageProofs!Next
  BY <1>2, SameStage
<1>4. QED BY <1>1, <1>2, <1>3, StagingSteps

\* A node that moves leaves what has been read and written alone.
LEMMA NodeStep == ExportInv /\ NodeMoves => ExportInv'
<1> SUFFICES ASSUME ExportInv, NodeMoves PROVE ExportInv'
  OBVIOUS
<1>1. SourceProofs!Next /\ UNCHANGED <<writerVars, stageVars, pc, taken, anchor>>
  BY SamePage DEF NodeMoves, Source!NodeMoves
<1>2. SourceProofs!SourceInv' /\ StageInv' /\ WriterInv'
  BY <1>1, SourceKept, StageKept, WriterKept DEF ExportInv
<1>3. QED
  BY <1>1, <1>2 DEF ExportInv, ReadFirst, FileInv, writerVars, stageVars

LEMMA WriteStep == ExportInv /\ Write => ExportInv'
<1> SUFFICES ASSUME ExportInv, Write PROVE ExportInv'
  OBVIOUS
<1>1. /\ status[command] = "staged" /\ UNCHANGED <<sourceVars, stageVars>>
      /\ UNCHANGED <<pc, taken, anchor, status, file, disk, dir, diskDir>>
      /\ output' = output
  BY DEF Write, sourceVars, stageVars, Writer!Begin, Writer!StartAccount, Writer!FinishAccount
<1>2. SourceProofs!SourceInv' /\ StageInv'
  BY <1>1, SourceKept, StageKept DEF ExportInv
<1>3. WriterInv'
  BY <1>1, BeginStep, StartAccountStep, FinishStep DEF Write, ExportInv
<1>4. QED BY <1>1, <1>2, <1>3 DEF ExportInv, ReadFirst, FileInv

\* storage_range reads what it was asked for and touches nothing that was taken.
LEMMA PagingSteps ==
    ASSUME ExportInv, phase = "page", ReadPage
    PROVE  /\ SourceProofs!Next /\ UNCHANGED <<canonical, anchor, taken>>
           /\ pc \in {"done", "page", "confirm page"} \/ pc' = "failed"
<1>1. CASE Source!StartPage(SnapshotAccounts[Len(records) + 1].account.address)
  <2> DEFINE i == Len(records) + 1
  <2>1. Len(records) < Len(taken) /\ Len(records) \in Nat
    BY DEF ExportInv, WriterInv, Collecting
  <2>2. i \in 1..Len(taken)
    BY <2>1, AccountsTaken DEF ExportInv
  <2> HIDE DEF i
  <2>3. SnapshotAccounts[i].account.address = taken[i].address
    <3>1. SnapshotAccounts[i] =
             [account |-> [address |-> taken[i].address,
                           codeHash |-> Keccak(taken[i].account.fields),
                           storageRoot |-> taken[i].account.storageRoot],
              code |-> taken[i].account.fields]
      BY <2>2, AccountsTaken DEF ExportInv
    <3>2. QED BY <3>1
  <2>4. taken \in Seq(SourceProofs!Returned)
    BY DEF ExportInv, SourceProofs!SourceInv, SourceProofs!SourceTypes
  <2>5. taken[i] \in SourceProofs!Returned
    BY <2>2, <2>4, ElementOfSeq
  <2>6. taken[i].address \in Range(Requested)
    BY <2>5 DEF SourceProofs!Returned, SourceProofs!Range, Range
  <2>7. SourceProofs!Next
    BY <1>1, <2>3, <2>6, SamePage DEF i
  <2>8. QED BY <1>1, <2>7 DEF Source!StartPage, Source!Fail, Source!nodeVars
<1>2. CASE Source!ReadPage
  BY <1>2, SamePage DEF Source!ReadPage, Source!nodeVars
<1>3. CASE Source!ConfirmPage
  BY <1>3, SamePage DEF Source!ConfirmPage, Source!Fail, Source!nodeVars
<1>4. CASE pc # "done" /\ Source!ReadFails
  BY <1>4, SamePage DEF Source!ReadFails, Source!Fail, Source!nodeVars
<1>5. QED BY <1>1, <1>2, <1>3, <1>4 DEF ReadPage

LEMMA PagingStep == ExportInv /\ Paging => ExportInv'
<1> SUFFICES ASSUME ExportInv, Paging PROVE ExportInv'
  OBVIOUS
<1>1. /\ SourceProofs!Next /\ UNCHANGED <<canonical, anchor, taken>>
      /\ status[command] = "staged" /\ UNCHANGED stageVars
  BY PagingSteps DEF Paging
<1>2. SourceProofs!SourceInv' /\ StageInv'
  BY <1>1, SourceKept, StageKept DEF ExportInv
<1>3. WriterInv' /\ output' = output
  <2>1. CASE Writer!SourceFails \/ Writer!RejectPage
    BY <1>1, <2>1, RejectStep DEF ExportInv, Writer!SourceFails, Writer!RejectPage
  <2>2. CASE Writer!AcceptPage
    BY <1>1, <2>2, AcceptStep DEF ExportInv, Writer!AcceptPage
  <2>3. CASE UNCHANGED writerVars
    BY <1>1, <2>3, WriterKept DEF ExportInv, writerVars
  <2>4. QED BY <2>1, <2>2, <2>3 DEF Paging
<1>4. QED BY <1>1, <1>2, <1>3 DEF ExportInv, ReadFirst, FileInv, stageVars

LEMMA WriteOutStep == ExportInv /\ WriteOut => ExportInv'
<1> SUFFICES ASSUME ExportInv, WriteOut PROVE ExportInv'
  OBVIOUS
<1>1. /\ UNCHANGED sourceVars /\ UNCHANGED <<pc, anchor, taken>>
      /\ Writer!WriteEnvelope /\ status[command] = "staged"
  BY DEF WriteOut, sourceVars
<1>2. /\ WriterInv' /\ phase' \in {"done", "failed"}
      /\ phase' = "done" => output' = "complete"
  BY <1>1, EnvelopeStep DEF ExportInv
<1>3. output = "empty"
  BY DEF ExportInv, WriterInv, WriteOut, Writer!WriteEnvelope
<1>4. file[command] # "complete" /\ disk[command] # "complete"
  BY <1>3 DEF ExportInv, FileInv
<1>5. CASE phase' = "done"
  <2>1. Stage!WriteAll(command)
    BY <1>5 DEF WriteOut
  <2>2. SourceProofs!SourceInv' /\ StageInv'
    BY <1>1, <2>1, SameStage, SourceKept, StageKept DEF ExportInv
  <2>3. status'[command] = "written" /\ UNCHANGED <<disk, dir, diskDir>>
    BY <2>1, StageSteps DEF ExportInv, StageInv
  <2>4. ReadFirst' /\ FileInv'
    BY <1>1, <1>2, <1>5, <2>3 DEF ExportInv, ReadFirst, FileInv
  <2>5. QED BY <1>2, <2>2, <2>4 DEF ExportInv
<1>6. CASE phase' # "done"
  <2>1. UNCHANGED stageVars
    BY <1>6 DEF WriteOut
  <2>2. SourceProofs!SourceInv' /\ StageInv'
    BY <1>1, <2>1, SourceKept, StageKept DEF ExportInv
  <2>3. ReadFirst' /\ FileInv'
    BY <1>1, <1>2, <1>4, <2>1 DEF ExportInv, ReadFirst, FileInv, stageVars
  <2>4. QED BY <1>2, <2>2, <2>3 DEF ExportInv
<1>7. QED BY <1>5, <1>6

LEMMA ExportNext == ExportInv /\ [Next]_vars => ExportInv'
<1>1. ExportInv /\ UNCHANGED vars => ExportInv'
  <2> SUFFICES ASSUME ExportInv, UNCHANGED vars PROVE ExportInv'
    OBVIOUS
  <2>1. UNCHANGED <<sourceVars, writerVars, stageVars>>
    BY DEF vars
  <2>2. SourceProofs!SourceInv' /\ StageInv'
    BY <2>1, SourceKept, StageKept DEF ExportInv
  <2>3. UNCHANGED <<anchor, taken>>
    BY <2>1 DEF sourceVars
  <2>4. WriterInv'
    BY <2>1, <2>3, WriterKept DEF ExportInv
  <2>5. QED
    BY <2>1, <2>2, <2>4 DEF ExportInv, ReadFirst, FileInv, sourceVars, writerVars, stageVars
<1>2. QED
  BY <1>1, ReadAccountsStep, StagingStep, NodeStep, WriteStep, PagingStep, WriteOutStep
  DEF Next, Step

LEMMA ExportInvariant == Spec => []ExportInv
BY ExportInit, ExportNext, PTL DEF Spec

-----------------------------------------------------------------------------
(* The document *)

\* The one anchor, as write_accounts is given it.
LEMMA AnchorGiven ==
    ASSUME ExportInv, NEW a \in anchor
    PROVE  /\ anchor = {a}
           /\ SnapshotAnchor.block.number = a.block.number
           /\ SnapshotAnchor.block.hash = a.block.hash
           /\ SnapshotAnchor.blockHashes = a.blockHashes
<1>1. anchor = {a}
  BY DEF ExportInv, SourceProofs!SourceInv, SourceProofs!SourceTypes, SourceProofs!IsOption
<1>2. (CHOOSE b \in anchor : TRUE) = a
  BY <1>1
<1>3. QED BY <1>1, <1>2 DEF SnapshotAnchor

\* Its hashes are those of the block's ancestors.
LEMMA WindowGiven ==
    ASSUME ExportInv, NEW a \in anchor
    PROVE  Publication!WindowOf(Writer!Envelope, a.block)
<1> DEFINE number == a.block.number
           hashes == a.blockHashes
<1>1. PICK chain \in Chains :
         /\ number < Len(chain) /\ chain[number + 1] = a.block
         /\ \A i \in 1..Len(hashes) : hashes[i].hash = chain[hashes[i].number + 1].hash
         /\ {hashes[i].number : i \in 1..Len(hashes)}
               = SourceProofs!SaturatingSub(number, Window)..number - 1
  BY DEF ExportInv, SourceProofs!SourceInv, SourceProofs!AnchorOfOneChain
<1>2. number \in Nat /\ Len(chain) \in Nat
  <2>1. PICK other \in Chains : a.block \in SourceProofs!Range(other)
    BY DEF ExportInv, SourceProofs!SourceInv, SourceProofs!SourceTypes, SourceProofs!Blocks
  <2>2. /\ a.block.number \in 0..Len(other) - 1 /\ Len(other) \in Nat
        /\ Len(chain) \in Nat
    BY <2>1, SourceProofs!BlockPosition, SourceProofs!ChainLength, SourceAssumed,
       FormatAssumption
  <2>3. QED BY <2>2
<1>3. \A i \in 1..Len(chain) : chain[i] \in Range(chain) /\ chain[i].number = i - 1
  BY SourceProofs!BlockOfChain, SourceAssumed, FormatAssumption
  DEF SourceProofs!Range, Range
<1>4. a.block \in Range(chain)
  <2>1. number + 1 \in 1..Len(chain)
    BY <1>1, <1>2
  <2>2. QED BY <1>1, <1>3, <2>1
<1>5. ASSUME NEW i \in 1..Len(hashes)
      PROVE  \E ancestor \in Range(chain) :
                ancestor.number = hashes[i].number /\ ancestor.hash = hashes[i].hash
  <2>1. hashes[i].number \in SourceProofs!SaturatingSub(number, Window)..number - 1
    BY <1>1
  <2>2. hashes[i].number \in Nat /\ hashes[i].number < number
    BY <1>2, <2>1, FormatAssumption DEF SourceProofs!SaturatingSub
  <2>3. hashes[i].number + 1 \in 1..Len(chain)
    BY <1>1, <1>2, <2>2
  <2>4. chain[hashes[i].number + 1].number = hashes[i].number
    BY <1>3, <2>2, <2>3
  <2>5. QED BY <1>1, <1>3, <2>3, <2>4
<1>6. Writer!Envelope.blockHashes = hashes
  BY AnchorGiven DEF Writer!Envelope
<1>7. QED BY <1>4, <1>5, <1>6 DEF Publication!WindowOf, Publication!Range, Range

\* A document with as many records as accounts were read, whose arguments passed, is
\* one a reader loads: every record was checked before it was collected.
LEMMA DocumentValid ==
    ASSUME ExportInv, output = "complete"
    PROVE  Publication!SnapshotValid(Writer!Envelope)
<1>1. /\ Writer!ArgumentsValid /\ Len(records) = Len(taken) /\ Len(taken) \in Nat
      /\ Len(SnapshotAccounts) = Len(taken) /\ records \in Seq(Range(records))
      /\ \A i \in 1..Len(records) :
            records[i].account = SnapshotAccounts[i].account /\ AccountRecordValid(records[i])
  BY AccountsTaken DEF ExportInv, WriterInv
<1>2. /\ Writer!Envelope.version = 1 /\ Writer!Envelope.accounts = records
      /\ Writer!Envelope.execution = SnapshotAnchor.execution
      /\ Writer!Envelope.block = SnapshotAnchor.block
      /\ Writer!Envelope.blockHashes = SnapshotAnchor.blockHashes
  BY DEF Writer!Envelope
<1>3. records # <<>>
  <2>1. Len(SnapshotAccounts) # 0
    <3>1. taken \in Seq(SourceProofs!Returned)
      BY DEF ExportInv, SourceProofs!SourceInv, SourceProofs!SourceTypes
    <3>2. SnapshotAccounts # <<>>
      BY <1>1 DEF Writer!ArgumentsValid
    <3>3. Len(taken) = 0 => SnapshotAccounts = <<>>
      BY <3>1 DEF SnapshotAccounts
    <3>4. QED BY <1>1, <3>2, <3>3
  <2>2. QED BY <1>1, <2>1
<1>4. Publication!AddressesUnique(records)
  <2>1. Writer!AddressesUnique(SnapshotAccounts)
    BY <1>1 DEF Writer!ArgumentsValid
  <2>2. QED BY <1>1, <2>1 DEF Writer!AddressesUnique, Publication!AddressesUnique
<1>5. \A i \in 1..Len(records) : Publication!AccountRecordValid(records[i])
  BY <1>1
  DEF AccountRecordValid, Publication!AccountRecordValid, StorageEntriesValid,
      Publication!StorageEntriesValid, StorageRoot, Publication!StorageRoot,
      Keccak, Publication!Keccak, Range, Publication!Range
<1>6. Publication!BlockHashesValid(SnapshotAnchor.blockHashes, SnapshotAnchor.block)
  <2>1. Writer!BlockHashesValid(SnapshotAnchor.blockHashes, SnapshotAnchor.block)
    BY <1>1 DEF Writer!ArgumentsValid
  <2>2. QED
    BY <2>1
    DEF Writer!BlockHashesValid, Publication!BlockHashesValid, Writer!NumbersAscend,
        Publication!NumbersAscend, Writer!SaturatingSub, Publication!SaturatingSub
<1>7. Publication!ValidForBlock(SnapshotAnchor.execution, SnapshotAnchor.block)
  <2>1. Writer!ValidForBlock(SnapshotAnchor.execution, SnapshotAnchor.block)
    BY <1>1 DEF Writer!ArgumentsValid
  <2>2. QED
    BY <2>1
    DEF Writer!ValidForBlock, Publication!ValidForBlock, Writer!ForkFieldsValid,
        Publication!ForkFieldsValid, Writer!FieldFits, Publication!FieldFits,
        Writer!London, Publication!London, Writer!Paris, Publication!Paris,
        Writer!Cancun, Publication!Cancun, Writer!Amsterdam, Publication!Amsterdam
<1>8. QED
  BY <1>2, <1>3, <1>4, <1>5, <1>6, <1>7
  DEF Publication!SnapshotValid, Publication!AccountListValid

\* A record has the account that was read, which is the account of the anchor's state.
LEMMA RecordsAsAnchored ==
    ASSUME ExportInv, output = "complete", Len(taken) = Len(Requested), NEW a \in anchor,
           NEW i \in DOMAIN Requested
    PROVE  Publication!AccountAt(records[i], Requested[i], a.block)
<1>1. i \in 1..Len(taken) /\ i \in 1..Len(records)
  <2>1. Requested \in Seq(SourceProofs!Range(Requested))
    BY SourceAssumed DEF SourceProofs!ArgumentsAssumption
  <2>2. QED BY <2>1 DEF ExportInv, WriterInv
<1>2. /\ taken[i].address = Requested[i]
      /\ taken[i].account \in State(a.block.stateRoot, Requested[i])
  BY <1>1 DEF ExportInv, SourceProofs!SourceInv, SourceProofs!TakenAsAnchored
<1>3. /\ SnapshotAccounts[i].account.address = taken[i].address
      /\ SnapshotAccounts[i].account.storageRoot = taken[i].account.storageRoot
      /\ SnapshotAccounts[i].code = taken[i].account.fields
  <2>1. SnapshotAccounts[i] =
           [account |-> [address |-> taken[i].address,
                         codeHash |-> Keccak(taken[i].account.fields),
                         storageRoot |-> taken[i].account.storageRoot],
            code |-> taken[i].account.fields]
    BY <1>1, AccountsTaken DEF ExportInv
  <2>2. QED BY <2>1
<1>4. /\ records[i].account = SnapshotAccounts[i].account
      /\ records[i].code = SnapshotAccounts[i].code
  BY <1>1 DEF ExportInv, WriterInv
<1>5. QED BY <1>2, <1>3, <1>4 DEF Publication!AccountAt

LEMMA DocumentOfAnchor ==
    ASSUME ExportInv, output = "complete", Len(taken) = Len(Requested), NEW a \in anchor
    PROVE  Publication!IsSnapshotOf(Writer!Envelope, a.block)
<1>1. /\ Writer!Envelope.block = SnapshotAnchor.block
      /\ Writer!Envelope.accounts = records
  BY DEF Writer!Envelope
<1>2. Len(records) = Len(Requested)
  BY DEF ExportInv, WriterInv
<1>3. QED
  BY <1>1, <1>2, AnchorGiven, DocumentValid, WindowGiven, RecordsAsAnchored
  DEF Publication!IsSnapshotOf

-----------------------------------------------------------------------------
(* What a reader sees of the command *)

\* The steps of SnapshotPublication, by what they do to the four.
LEMMA ReaderSees ==
    ASSUME \/ UNCHANGED <<canonical, Pinned, AtDestination, Outcome>>
           \/ canonical' \in Chains /\ UNCHANGED <<Pinned, AtDestination, Outcome>>
           \/ /\ Outcome = "running" /\ Pinned = {}
              /\ \E block \in Range(canonical) : Pinned' = {block}
              /\ UNCHANGED <<canonical, AtDestination, Outcome>>
           \/ /\ Outcome = "running" /\ Outcome' = "published"
              /\ \E block \in Pinned : Publication!IsSnapshotOf(AtDestination', block)
              /\ UNCHANGED <<canonical, Pinned>>
           \/ /\ Outcome = "running" /\ Outcome' = "failed"
              /\ UNCHANGED <<canonical, Pinned, AtDestination>>
           \/ AtDestination' = Previous /\ UNCHANGED <<canonical, Pinned, Outcome>>
    PROVE  [Publication!Next]_(Publication!vars)
<1>1. CASE UNCHANGED <<canonical, Pinned, AtDestination, Outcome>>
  BY <1>1 DEF Publication!vars
<1>2. CASE canonical' \in Chains /\ UNCHANGED <<Pinned, AtDestination, Outcome>>
  BY <1>2 DEF Publication!NodeMoves, Publication!Next
<1>3. CASE /\ Outcome = "running" /\ Pinned = {}
           /\ \E block \in Range(canonical) : Pinned' = {block}
           /\ UNCHANGED <<canonical, AtDestination, Outcome>>
  BY <1>3 DEF Publication!Pin, Publication!Range, Range, Publication!Next
<1>4. CASE /\ Outcome = "running" /\ Outcome' = "published"
           /\ \E block \in Pinned : Publication!IsSnapshotOf(AtDestination', block)
           /\ UNCHANGED <<canonical, Pinned>>
  BY <1>4 DEF Publication!Publish, Publication!Next
<1>5. CASE /\ Outcome = "running" /\ Outcome' = "failed"
           /\ UNCHANGED <<canonical, Pinned, AtDestination>>
  BY <1>5 DEF Publication!Abandon, Publication!Next
<1>6. CASE AtDestination' = Previous /\ UNCHANGED <<canonical, Pinned, Outcome>>
  BY <1>6 DEF Publication!Undo, Publication!Next
<1>7. QED BY <1>1, <1>2, <1>3, <1>4, <1>5, <1>6

\* Until the command succeeds the destination, in memory and on disk, is the old one;
\* then it is the document, unless an outage took it back.
LEMMA DestinationBySuccess ==
    ASSUME ExportInv
    PROVE  /\ dir.destination = command =>
                 /\ status[command] = "ok" /\ AtDestination = Writer!Envelope
                 /\ output = "complete"
           /\ dir.destination # command => AtDestination = Previous
           /\ diskDir.destination = command => disk[command] = "complete"
<1>1. /\ dir.destination = command => status[command] = "ok" /\ file[command] = "complete"
      /\ diskDir.destination = command => disk[command] = "complete"
  BY DEF ExportInv, StageInv, StageProofs!DestinationInv, StageProofs!WholeAt
<1>2. file[command] = "complete" => output = "complete"
  BY DEF ExportInv, FileInv
<1>3. QED BY <1>1, <1>2 DEF AtDestination

\* What is pinned, and the document, change only while the source is read and written.
LEMMA ViewStays ==
    ASSUME UNCHANGED <<anchor, taken>>
    PROVE  Pinned' = Pinned /\ (records' = records => Writer!Envelope' = Writer!Envelope)
<1>1. Pinned' = Pinned
  BY DEF Pinned
<1>2. SnapshotAnchor' = SnapshotAnchor
  BY ArgumentsStay
<1>3. QED BY <1>1, <1>2 DEF Writer!Envelope

-----------------------------------------------------------------------------
(* Every step of the command is one a reader may see, or none *)

\* The first account returned commits the command to the anchor's block, which is
\* canonical when it is returned.
LEMMA ReadAccountsSeen ==
    ASSUME ExportInv, ExportInv', ReadAccounts
    PROVE  [Publication!Next]_(Publication!vars)
<1>1. /\ UNCHANGED canonical /\ status[command] = "idle"
      /\ UNCHANGED <<status, file, dir>>
      /\ taken' # taken => Source!Confirm /\ UNCHANGED anchor
      /\ anchor' # anchor => taken = <<>>
  BY ReadingSteps DEF ReadAccounts, ExportInv, stageVars
<1>2. Outcome = "running" /\ Outcome' = "running"
  BY <1>1 DEF Outcome
<1>3. dir.destination # command /\ dir'.destination # command
  BY <1>1, DestinationBySuccess
<1>4. AtDestination = Previous /\ AtDestination' = Previous
  BY <1>1, <1>3 DEF AtDestination
<1>5. CASE taken' = taken
  <2>1. Pinned' = Pinned
    BY <1>1, <1>5 DEF Pinned
  <2>2. QED BY <1>1, <1>2, <1>4, <2>1, ReaderSees
<1>6. CASE taken' # taken
  <2>1. Source!Confirm /\ UNCHANGED anchor
    BY <1>1, <1>6
  <2>2. PICK r \in ranged :
           taken' = Append(taken, [address |-> Source!Address, account |-> r])
    BY <1>6, <2>1 DEF Source!Confirm, Source!Fail
  <2>3. Source!AnchorError = "none" /\ pc = "confirm"
    BY <1>6, <2>1 DEF Source!Confirm, Source!Fail
  <2>4. taken' # <<>>
    <3>1. taken \in Seq(SourceProofs!Returned) /\ taken' \in Seq(SourceProofs!Returned')
      BY DEF ExportInv, SourceProofs!SourceInv, SourceProofs!SourceTypes
    <3>2. Len(taken') = Len(taken) + 1 /\ Len(taken) \in Nat
      BY <2>2, <3>1
    <3>3. QED BY <3>2
  <2>5. PICK a \in anchor : TRUE
    BY <2>3 DEF ExportInv, SourceProofs!SourceInv, SourceProofs!Progress,
                SourceProofs!InAccount
  <2>6. Pinned' = {a.block}
    BY <2>1, <2>4, AnchorGiven DEF Pinned
  <2>7. CASE taken # <<>>
    <3>1. Pinned' = Pinned
      BY <2>1, <2>4, <2>7 DEF Pinned
    <3>2. QED BY <1>1, <1>2, <1>4, <3>1, ReaderSees
  <2>8. CASE taken = <<>>
    <3>1. Pinned = {}
      BY <2>8 DEF Pinned
    <3>2. a.block \in SourceProofs!Range(canonical)
      BY <2>3, <2>5, SameAnchorError, SourceProofs!AnchorConfirmed, SourceAssumed,
         FormatAssumption
      DEF ExportInv, SourceProofs!SourceInv
    <3>3. a.block \in Range(canonical)
      BY <3>2 DEF SourceProofs!Range, Range
    <3>4. QED BY <1>1, <1>2, <1>4, <2>6, <3>1, <3>3, ReaderSees
  <2>9. QED BY <2>7, <2>8
<1>7. QED BY <1>5, <1>6

\* Writing, and the calls of storage_range, are nothing a reader sees.
LEMMA WritingSeen ==
    ASSUME ExportInv, ExportInv', Write \/ Paging \/ WriteOut
    PROVE  [Publication!Next]_(Publication!vars)
<1>1. /\ UNCHANGED <<canonical, anchor, taken, dir>>
      /\ status[command] = "staged" /\ status'[command] \in {"staged", "written"}
  <2>1. CASE Write
    BY <2>1 DEF Write, sourceVars, stageVars
  <2>2. CASE Paging
    BY <2>2, PagingSteps DEF Paging, stageVars
  <2>3. CASE WriteOut
    <3>1. CASE Stage!WriteAll(command)
      BY <2>3, <3>1, StageSteps DEF WriteOut, sourceVars, ExportInv, StageInv
    <3>2. CASE UNCHANGED stageVars
      BY <2>3, <3>2 DEF WriteOut, sourceVars, stageVars
    <3>3. QED BY <2>3, <3>1, <3>2 DEF WriteOut
  <2>4. QED BY <2>1, <2>2, <2>3
<1>2. Outcome = "running" /\ Outcome' = "running"
  <2>1. status'[command] \notin {"ok", "failed", "killed"}
    BY <1>1
  <2>2. QED BY <1>1, <2>1 DEF Outcome
<1>3. dir.destination # command /\ dir'.destination # command
  BY <1>1, DestinationBySuccess
<1>4. AtDestination = Previous /\ AtDestination' = Previous
  BY <1>3 DEF AtDestination
<1>5. QED BY <1>1, <1>2, <1>4, ViewStays, ReaderSees

\* The rename publishes the document of the block that is pinned.
LEMMA PersistSeen ==
    ASSUME ExportInv, ExportInv', Stage!Persist(command), UNCHANGED <<sourceVars, writerVars>>
    PROVE  [Publication!Next]_(Publication!vars)
<1>1. /\ UNCHANGED <<canonical, anchor, taken, records, output>>
      /\ status[command] = "synced" /\ status'[command] = "ok"
      /\ dir'.destination = command /\ UNCHANGED file
  BY StageSteps DEF sourceVars, writerVars, ExportInv, StageInv
<1>2. disk[command] = "complete"
  BY <1>1 DEF ExportInv, StageInv, StageProofs!DestinationInv
<1>3. file'[command] = "complete"
  BY <1>1 DEF ExportInv, StageInv, StageProofs!DestinationInv, StageProofs!WholeAt
<1>4. output = "complete" /\ output' = "complete"
  BY <1>1, <1>2 DEF ExportInv, FileInv
<1>5. AtDestination' = Writer!Envelope'
  BY <1>1, <1>3, <1>4 DEF AtDestination
<1>6. Writer!Envelope' = Writer!Envelope /\ Pinned' = Pinned
  BY <1>1, ViewStays
<1>7. Len(taken) = Len(Requested) /\ anchor # {}
  BY <1>1 DEF ExportInv, ReadFirst
<1>8. PICK a \in anchor : TRUE
  BY <1>7
<1>9. taken # <<>>
  <2>1. Requested # <<>> /\ Requested \in Seq(SourceProofs!Range(Requested))
    BY SourceAssumed DEF SourceProofs!ArgumentsAssumption
  <2>2. Len(Requested) # 0
    BY <2>1, EmptySeq
  <2>3. QED BY <1>7, <2>2
<1>10. a.block \in Pinned
  BY <1>8, <1>9 DEF Pinned
<1>11. Publication!IsSnapshotOf(AtDestination', a.block)
  BY <1>4, <1>5, <1>6, <1>7, <1>8, DocumentOfAnchor
<1>12. Outcome = "running" /\ Outcome' = "published"
  BY <1>1 DEF Outcome
<1>13. QED BY <1>1, <1>6, <1>10, <1>11, <1>12, ReaderSees

\* A command that fails or is killed has not touched the destination, and an outage
\* leaves what the disk has: the old destination, or the whole document.
LEMMA StagingSeen ==
    ASSUME ExportInv, ExportInv', UNCHANGED <<sourceVars, writerVars>>,
           \/ Stage!Resolve(command) \/ Stage!Stage(command) \/ Stage!WriteSome(command)
           \/ Stage!Sync(command) \/ Stage!Fail(command) \/ Stage!Kill(command)
           \/ Stage!WriteBack(command) \/ Stage!WriteBackDirectory \/ Stage!PowerLoss
    PROVE  [Publication!Next]_(Publication!vars)
<1>1. /\ UNCHANGED <<canonical, anchor, taken, records, output>>
      /\ Writer!Envelope' = Writer!Envelope /\ Pinned' = Pinned
  BY ViewStays DEF sourceVars, writerVars
<1>2. StageProofs!TypeInv
  BY DEF ExportInv, StageInv
<1>3. CASE Stage!Resolve(command) \/ Stage!Stage(command) \/ Stage!WriteSome(command)
           \/ Stage!Sync(command)
  <2>1. /\ status[command] \in {"idle", "resolved", "staged", "written"}
        /\ status'[command] \in {"resolved", "staged", "synced"}
        /\ dir'.destination = dir.destination
    BY <1>2, <1>3, StageSteps
  <2>2. dir.destination # command
    BY <2>1, DestinationBySuccess
  <2>3. AtDestination = Previous /\ AtDestination' = Previous
    BY <2>1, <2>2 DEF AtDestination
  <2>4. Outcome = "running" /\ Outcome' = "running"
    BY <2>1 DEF Outcome
  <2>5. QED BY <1>1, <2>3, <2>4, ReaderSees
<1>4. CASE Stage!Fail(command) \/ Stage!Kill(command)
  <2>1. /\ status[command] \notin {"ok", "failed", "killed"}
        /\ status'[command] \in {"failed", "killed"}
        /\ dir'.destination = dir.destination
    BY <1>2, <1>4, StageSteps
  <2>2. dir.destination # command
    BY <2>1, DestinationBySuccess
  <2>3. AtDestination = Previous /\ AtDestination' = Previous
    BY <2>1, <2>2 DEF AtDestination
  <2>4. Outcome = "running" /\ Outcome' = "failed"
    BY <2>1 DEF Outcome
  <2>5. QED BY <1>1, <2>3, <2>4, ReaderSees
<1>5. CASE Stage!WriteBack(command) \/ Stage!WriteBackDirectory
  <2>1. UNCHANGED <<status, file, dir>>
    BY <1>2, <1>5, StageSteps DEF Stage!WriteBackDirectory
  <2>2. AtDestination' = AtDestination /\ Outcome' = Outcome
    BY <1>1, <2>1 DEF AtDestination, Outcome
  <2>3. QED BY <1>1, <2>2, ReaderSees
<1>6. CASE Stage!PowerLoss
  <2>1. /\ file' = disk /\ dir' = diskDir
        /\ status'[command] = IF status[command] \in {"ok", "failed", "killed", "idle"}
                              THEN status[command] ELSE "killed"
    BY <1>2, <1>6, StageSteps
  <2>2. \/ Outcome' = Outcome
        \/ /\ Outcome = "running" /\ Outcome' = "failed"
           /\ status[command] # "ok"
    BY <2>1 DEF Outcome
  <2>3. CASE dir.destination # command
    <3>1. dir'.destination # command
      BY <2>1, <2>3 DEF ExportInv, FileInv
    <3>2. AtDestination = Previous /\ AtDestination' = Previous
      BY <2>3, <3>1 DEF AtDestination
    <3>3. QED BY <1>1, <2>2, <3>2, ReaderSees
  <2>4. CASE dir.destination = command
    <3>1. /\ status[command] = "ok" /\ AtDestination = Writer!Envelope
          /\ output' = "complete"
      BY <1>1, <2>4, DestinationBySuccess
    <3>2. Outcome' = Outcome
      BY <2>2, <3>1
    <3>3. AtDestination' = Previous \/ AtDestination' = AtDestination
      <4>1. CASE diskDir.destination = command
        <5>1. disk[command] = "complete"
          BY <4>1, DestinationBySuccess
        <5>2. QED BY <1>1, <2>1, <3>1, <4>1, <5>1 DEF AtDestination
      <4>2. CASE diskDir.destination # command
        BY <2>1, <4>2 DEF AtDestination
      <4>3. QED BY <4>1, <4>2
    <3>4. QED BY <1>1, <3>2, <3>3, ReaderSees
  <2>5. QED BY <2>3, <2>4
<1>7. QED BY <1>3, <1>4, <1>5, <1>6

LEMMA NodeSeen ==
    ASSUME NodeMoves
    PROVE  [Publication!Next]_(Publication!vars)
<1>1. /\ canonical' \in Chains /\ UNCHANGED <<anchor, taken, writerVars, stageVars>>
  BY DEF NodeMoves, Source!NodeMoves
<1>2. UNCHANGED <<status, file, dir, records, output>>
  BY <1>1 DEF writerVars, stageVars
<1>3. Pinned' = Pinned /\ Writer!Envelope' = Writer!Envelope
  BY <1>1, <1>2, ViewStays
<1>4. AtDestination' = AtDestination /\ Outcome' = Outcome
  BY <1>2, <1>3 DEF AtDestination, Outcome
<1>5. QED BY <1>1, <1>3, <1>4, ReaderSees

LEMMA StepSeen ==
    ASSUME ExportInv, ExportInv', [Next]_vars
    PROVE  [Publication!Next]_(Publication!vars)
<1>1. CASE UNCHANGED vars
  <2>1. UNCHANGED <<sourceVars, writerVars, stageVars>>
    BY <1>1 DEF vars
  <2>2. UNCHANGED <<canonical, anchor, taken, records, output, status, file, dir>>
    BY <2>1 DEF sourceVars, writerVars, stageVars
  <2>3. Pinned' = Pinned /\ Writer!Envelope' = Writer!Envelope
    BY <2>2, ViewStays
  <2>4. AtDestination' = AtDestination /\ Outcome' = Outcome
    BY <2>2, <2>3 DEF AtDestination, Outcome
  <2>5. QED BY <2>2, <2>3, <2>4, ReaderSees
<1>2. CASE AccountsRead \/ StageFile \/ WriteSome \/ Commit \/ Return \/ Interrupt
  <2>1. UNCHANGED <<sourceVars, writerVars>>
    BY <1>2 DEF AccountsRead, StageFile, WriteSome, Commit, Return, Interrupt
  <2>2. \/ Stage!Resolve(command) \/ Stage!Stage(command) \/ Stage!WriteSome(command)
        \/ Stage!Sync(command) \/ Stage!Persist(command)
        \/ Stage!Fail(command) \/ Stage!Kill(command)
        \/ Stage!WriteBack(command) \/ Stage!WriteBackDirectory \/ Stage!PowerLoss
    BY <1>2 DEF AccountsRead, StageFile, WriteSome, Commit, Return, Interrupt
  <2>3. QED BY <2>1, <2>2, PersistSeen, StagingSeen
<1>3. QED
  BY <1>1, <1>2, ReadAccountsSeen, WritingSeen, NodeSeen DEF Next, Step

LEMMA InitSeen == Init => Publication!Init
<1> SUFFICES ASSUME Init PROVE Publication!Init
  OBVIOUS
<1>1. /\ canonical \in Chains /\ taken = <<>> /\ status[command] = "idle"
      /\ dir.destination = Previous
  BY DEF Init, Source!Init, Stage!Init
<1>2. Previous # command
  BY StageAssumed DEF StageProofs!RunsAssumption
<1>3. Outcome = "running" /\ Pinned = {} /\ AtDestination = Previous
  BY <1>1, <1>2 DEF Outcome, Pinned, AtDestination
<1>4. QED BY <1>1, <1>3 DEF Publication!Init

\* Whatever the node, the pages, the filesystem, a signal or an outage do, a reader of
\* the destination finds what it held or the whole snapshot of one block that was
\* canonical when the command committed itself to it (run, main.rs:29-94).
THEOREM ExportKeepsPromise == Spec => ImplementsPublication
<1>1. ExportInv /\ ExportInv' /\ [Next]_vars => [Publication!Next]_(Publication!vars)
  BY StepSeen
<1>2. QED
  BY <1>1, InitSeen, ExportInvariant, PTL DEF Spec, ImplementsPublication, Publication!Spec
=============================================================================

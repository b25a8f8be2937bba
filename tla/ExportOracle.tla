---------------------------- MODULE ExportOracle ----------------------------
(* What an export promises, whatever the source, its pages and the output do:  *)
(* the requested accounts are collected in the order of the request, each with *)
(* exactly the storage its root commits to in one step, and the export is      *)
(* written only when every account is there.                                   *)
EXTENDS SnapshotFormat

VARIABLES accounts, records, outcome

vars == <<accounts, records, outcome>>

Init == records = <<>> /\ outcome = "pending"

\* The next account of the request enters the export, whole.
Collect ==
    /\ outcome = "pending"
    /\ Len(records') = Len(records) + 1
    /\ \A i \in 1..Len(records) : records'[i] = records[i]
    /\ LET record == records'[Len(records) + 1]
           account == accounts[Len(records) + 1]
       IN /\ Len(records) < Len(accounts)
          /\ record.account = account.account
          /\ record.code = account.code
          /\ AccountRecordValid(record)
    /\ UNCHANGED <<accounts, outcome>>

Write ==
    /\ outcome = "pending"
    /\ Len(records) = Len(accounts)
    /\ AccountListValid(records)
    /\ outcome' = "written"
    /\ UNCHANGED <<accounts, records>>

Abandon == outcome = "pending" /\ outcome' = "failed" /\ UNCHANGED <<accounts, records>>

Next == Collect \/ Write \/ Abandon

Spec == Init /\ [][Next]_vars
=============================================================================

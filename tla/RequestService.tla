---------------------------- MODULE RequestService ----------------------------
(* What the page may rely on when it sends calls to the executor: every call   *)
(* settles once, calls are performed in the order they were made, an answer is *)
(* that of a performed call.  A failed call may or may not have been performed.*)
EXTENDS Naturals, Sequences, FiniteSets

CONSTANT MaxCalls   \* bound on the calls of a session

VARIABLES outcome,    \* per call: open, answered or failed
          performed   \* the calls the executor has carried out

serviceVars == <<outcome, performed>>

Init == outcome = <<>> /\ performed = {}

Issue(how) ==
    /\ Len(outcome) < MaxCalls
    /\ outcome' = Append(outcome, how) /\ UNCHANGED performed

\* The executor carries out calls in order, but may skip some.
Perform(calls) ==
    /\ calls # {} /\ calls \subseteq DOMAIN outcome
    /\ \A old \in performed, new \in calls : old < new
    /\ performed' = performed \cup calls /\ UNCHANGED outcome

Answer(call) ==
    /\ call \in performed /\ outcome[call] = "open"
    /\ outcome' = [outcome EXCEPT ![call] = "answered"] /\ UNCHANGED performed

Fail(calls) ==
    /\ calls # {} /\ \A call \in calls : outcome[call] = "open"
    /\ outcome' = [call \in DOMAIN outcome |->
                      IF call \in calls THEN "failed" ELSE outcome[call]]
    /\ UNCHANGED performed

Next == \/ \E how \in {"open", "failed"} : Issue(how)
        \/ \E calls \in SUBSET DOMAIN outcome : Perform(calls) \/ Fail(calls)
        \/ \E call \in DOMAIN outcome : Answer(call)

Spec == Init /\ [][Next]_serviceVars
===============================================================================

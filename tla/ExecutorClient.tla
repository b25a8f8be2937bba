---------------------------- MODULE ExecutorClient ----------------------------
(* ExecutorClient and the worker it drives (crates/snapshot-web/ui/src/worker):*)
(* requests go out on one channel, answers come back on another, the WASM      *)
(* module loads meanwhile, and either side may fail.                           *)
(*                                                                             *)
(* A JavaScript task with the microtasks it queues is one action: the page and *)
(* the worker each run one task at a time.  Payloads and answers are left out: *)
(* a call is its request id.                                                   *)
EXTENDS Naturals, Sequences, SequencesExt

CONSTANT MaxCalls   \* bound on the calls of a session

ASSUME ClientAssumption == MaxCalls \in Nat

VARIABLES nextId, pending, unavailable,  \* ExecutorClient
          outcome,                       \* per call, how its promise has settled
          requests, answers,             \* messages under way to and from the worker
          errorEvent,                    \* an error event under way to the page
          executor,                      \* how far the worker has come
          suspended,                     \* handlers at "await ready", oldest first
          performed                      \* history: ids handed to dispatch

clientVars == <<nextId, pending, unavailable, outcome>>
workerVars == <<executor, suspended, performed>>
vars == <<clientVars, workerVars, requests, answers, errorEvent>>

Failed(id)   == [id |-> id, how |-> "failed"]

-----------------------------------------------------------------------------
(* ExecutorClient *)

\* Once unavailable the client answers by itself and takes no id.
RequestRefused ==
    /\ unavailable /\ Len(outcome) < MaxCalls
    /\ outcome' = Append(outcome, "failed")
    /\ UNCHANGED <<nextId, pending, unavailable, workerVars, requests, answers, errorEvent>>

RequestSent ==
    /\ ~unavailable /\ Len(outcome) < MaxCalls
    /\ nextId' = nextId + 1
    /\ pending' = pending \cup {nextId}
    /\ outcome' = Append(outcome, "open")
    /\ requests' = Append(requests, nextId)
    /\ UNCHANGED <<unavailable, workerVars, answers, errorEvent>>

\* [defect] the id is given back when the message could not be posted.
SendFailsReusingId ==
    /\ ~unavailable /\ Len(outcome) < MaxCalls
    /\ outcome' = Append(outcome, "failed")
    /\ UNCHANGED <<nextId, pending, unavailable, workerVars, requests, answers, errorEvent>>

\* postMessage throws: the entry just made in pending is dropped again.
SendFails ==
    /\ ~unavailable /\ Len(outcome) < MaxCalls
    /\ nextId' = nextId + 1
    /\ outcome' = Append(outcome, "failed")
    /\ UNCHANGED <<pending, unavailable, workerVars, requests, answers, errorEvent>>

\* [defect] the promises are resolved but stay in pending.
MarkUnavailableKeepingPending ==
    /\ unavailable' = TRUE
    /\ outcome' = [id \in DOMAIN outcome |-> IF id \in pending THEN "failed" ELSE outcome[id]]
    /\ UNCHANGED <<nextId, pending>>

\* [defect] pending is cleared before its entries are read.
MarkUnavailableUnsettled ==
    /\ unavailable' = TRUE /\ pending' = {}
    /\ UNCHANGED <<nextId, outcome>>

MarkUnavailable ==
    /\ unavailable' = TRUE
    /\ pending' = {}
    /\ outcome' = [id \in DOMAIN outcome |-> IF id \in pending THEN "failed" ELSE outcome[id]]
    /\ UNCHANGED nextId

\* An answer to a call that has settled meanwhile is dropped.
OnMessage ==
    /\ answers # <<>>
    /\ LET answer == Head(answers)
       IN /\ pending' = pending \ {answer.id}
          /\ outcome' = IF answer.id \in pending
                        THEN [outcome EXCEPT ![answer.id] = answer.how] ELSE outcome
    /\ answers' = Tail(answers)
    /\ UNCHANGED <<nextId, unavailable, workerVars, requests, errorEvent>>

\* The answer at the head cannot be read and is lost.
OnMessageError ==
    /\ answers # <<>> /\ answers' = Tail(answers)
    /\ MarkUnavailable
    /\ UNCHANGED <<workerVars, requests, errorEvent>>

OnError ==
    /\ errorEvent /\ errorEvent' = FALSE
    /\ MarkUnavailable
    /\ UNCHANGED <<workerVars, requests, answers>>

-----------------------------------------------------------------------------
(* executor.worker.ts *)

ScriptEvaluated ==
    /\ executor = "fetching" /\ executor' = "loading"
    /\ UNCHANGED <<clientVars, suspended, performed, requests, answers, errorEvent>>

\* The script does not load, or the browser ends the worker.
WorkerStops ==
    /\ executor # "stopped" /\ executor' = "stopped"
    /\ errorEvent' = TRUE
    /\ requests' = <<>> /\ suspended' = <<>>
    /\ UNCHANGED <<clientVars, performed, answers>>

\* dispatch returns, or throws and the handler answers with the failure.
Dispatched(ids, how) ==
    /\ performed' = performed \cup Range(ids)
    /\ answers' = answers \o [i \in 1..Len(ids) |-> [id |-> ids[i], how |-> how[i]]]

\* [defect] requests that came before the executor are not resumed.
WasmReadyForgetful ==
    /\ executor = "loading" /\ executor' = "ready" /\ suspended' = <<>>
    /\ UNCHANGED <<clientVars, performed, answers, requests, errorEvent>>

\* [defect] the suspended handlers run newest first.
WasmReadyNewestFirst ==
    /\ executor = "loading" /\ executor' = "ready"
    /\ suspended' = <<>>
    /\ \E how \in [1..Len(suspended) -> {"answered", "failed"}] : Dispatched(Reverse(suspended), how)
    /\ UNCHANGED <<clientVars, requests, errorEvent>>

\* init() resolves, and the suspended handlers run in the order they came.
WasmReady ==
    /\ executor = "loading" /\ executor' = "ready"
    /\ suspended' = <<>>
    /\ \E how \in [1..Len(suspended) -> {"answered", "failed"}] : Dispatched(suspended, how)
    /\ UNCHANGED <<clientVars, requests, errorEvent>>

\* init() or the constructor rejects: every handler answers workerFailure.
WasmFails ==
    /\ executor = "loading" /\ executor' = "failed"
    /\ suspended' = <<>>
    /\ answers' = answers \o [i \in 1..Len(suspended) |-> Failed(suspended[i])]
    /\ UNCHANGED <<clientVars, performed, requests, errorEvent>>

OnRequest ==
    /\ requests # <<>> /\ requests' = Tail(requests)
    /\ \/ /\ executor = "loading"
          /\ suspended' = Append(suspended, Head(requests))
          /\ UNCHANGED <<performed, answers>>
       \/ /\ executor = "ready"
          /\ \E how \in {"answered", "failed"} : Dispatched(<<Head(requests)>>, <<how>>)
          /\ UNCHANGED suspended
       \/ /\ executor = "failed"
          /\ answers' = Append(answers, Failed(Head(requests)))
          /\ UNCHANGED <<suspended, performed>>
    /\ UNCHANGED <<clientVars, executor, errorEvent>>

-----------------------------------------------------------------------------

Init ==
    /\ nextId = 1 /\ pending = {} /\ unavailable = FALSE /\ outcome = <<>>
    /\ requests = <<>> /\ answers = <<>> /\ errorEvent = FALSE
    /\ executor = "fetching" /\ suspended = <<>> /\ performed = {}

PageTask == OnMessage \/ OnMessageError \/ OnError

Next ==
    \/ RequestRefused \/ RequestSent \/ SendFails \/ PageTask
    \/ ScriptEvaluated \/ WorkerStops \/ WasmReady \/ WasmFails \/ OnRequest

\* Browsers deliver what was posted, and requests so that the worker can read them
\* (it has no onmessageerror); the script's fetch and init() both end.
Fairness ==
    /\ WF_vars(OnMessage \/ OnMessageError) /\ WF_vars(OnError)
    /\ WF_vars(OnRequest)
    /\ WF_vars(ScriptEvaluated) /\ WF_vars(WasmReady \/ WasmFails)

Spec == Init /\ [][Next]_vars
FairSpec == Spec /\ Fairness

-----------------------------------------------------------------------------
(* Properties *)

\* Ids are never reused: while calls are sent, call n has id n, and what is
\* pending or under way are ids given out.
TypeOK ==
    /\ nextId \in 1..MaxCalls + 1
    /\ unavailable \in BOOLEAN /\ errorEvent \in BOOLEAN
    /\ outcome \in Seq({"open", "answered", "failed"}) /\ Len(outcome) <= MaxCalls
    /\ ~unavailable => nextId = Len(outcome) + 1
    /\ nextId <= Len(outcome) + 1
    /\ pending \subseteq 1..nextId - 1 /\ performed \subseteq 1..nextId - 1
    /\ requests \in Seq(1..nextId - 1) /\ suspended \in Seq(1..nextId - 1)
    /\ answers \in Seq([id : 1..nextId - 1, how : {"answered", "failed"}])
    /\ executor \in {"fetching", "loading", "ready", "failed", "stopped"}

\* Every message has an id of its own, in the order the calls were made:
\* answers, handlers waiting for WASM and requests form one ascending queue.
Underway == [i \in 1..Len(answers) |-> answers[i].id] \o suspended \o requests

MessagesInOrder == \A i, j \in 1..Len(Underway) : i < j => Underway[i] < Underway[j]

\* A call whose promise is open is one the client still waits for, and its
\* message is under way, or the worker has stopped and the event that settles it
\* is coming.  So no call is forgotten (client.ts:13-19, 74-82).
NoCallForgotten ==
    /\ pending = {id \in DOMAIN outcome : outcome[id] = "open"}
    /\ \A id \in pending : errorEvent \/ \E i \in 1..Len(Underway) : Underway[i] = id

\* The client and its worker are the ordered settle-once service.
Service == INSTANCE RequestService
ImplementsService == Service!Spec

\* Every call settles, whatever fails, if the browser keeps delivering.
EveryCallSettles ==
    \A call \in 1..MaxCalls :
        (call \in DOMAIN outcome) ~> (call \in DOMAIN outcome /\ outcome[call] # "open")
===============================================================================

------------------------- MODULE ExecutorClient_proofs -------------------------
(* What holds of the client and its worker for any number of calls, however     *)
(* their tasks interleave and whatever fails.                                   *)
EXTENDS ExecutorClient, TLAPS, SequenceTheorems

-----------------------------------------------------------------------------
(* Messages under way *)

Messages(ids) == [id : ids, how : {"answered", "failed"}]

Ids(messages) == [i \in 1..Len(messages) |-> messages[i].id]

Ascending(queue) == \A i, j \in 1..Len(queue) : i < j => queue[i] < queue[j]

\* The queue of all ids under way is that of the answers, the handlers and the requests.
LEMMA UnderwayQueue == Underway = (Ids(answers) \o suspended) \o requests
BY DEF Underway, Ids

LEMMA IdsType ==
    ASSUME NEW S, NEW messages \in Seq(Messages(S))
    PROVE  /\ Ids(messages) \in Seq(S) /\ Len(Ids(messages)) = Len(messages)
           /\ \A i \in 1..Len(messages) : Ids(messages)[i] = messages[i].id
<1>1. Len(messages) \in Nat /\ \A i \in 1..Len(messages) : messages[i].id \in S
  <2>1. Len(messages) \in Nat /\ \A i \in 1..Len(messages) : messages[i] \in Messages(S)
    BY LenProperties, ElementOfSeq
  <2>2. QED BY <2>1 DEF Messages
<1>2. Ids(messages) \in [1..Len(messages) -> S]
  BY <1>1 DEF Ids
<1>3. QED BY <1>1, <1>2 DEF Ids

LEMMA IdsConcat ==
    ASSUME NEW S, NEW a \in Seq(Messages(S)), NEW b \in Seq(Messages(S))
    PROVE  Ids(a \o b) = Ids(a) \o Ids(b)
<1> DEFINE x == Ids(a)  y == Ids(b)  u == a \o b  z == Ids(u)  v == x \o y
<1>1. /\ u \in Seq(Messages(S)) /\ Len(u) = Len(a) + Len(b)
      /\ Len(a) \in Nat /\ Len(b) \in Nat
      /\ \A i \in 1..Len(a) + Len(b) : u[i] = IF i <= Len(a) THEN a[i] ELSE b[i - Len(a)]
  BY ConcatProperties, LenProperties
<1>2. /\ x \in Seq(S) /\ Len(x) = Len(a) /\ \A i \in 1..Len(a) : x[i] = a[i].id
      /\ y \in Seq(S) /\ Len(y) = Len(b) /\ \A i \in 1..Len(b) : y[i] = b[i].id
  BY IdsType
<1> HIDE DEF u, x, y
<1>3. z \in Seq(S) /\ Len(z) = Len(u) /\ \A i \in 1..Len(u) : z[i] = u[i].id
  BY <1>1, IdsType
<1>4. /\ v \in Seq(S) /\ Len(v) = Len(a) + Len(b)
      /\ \A i \in 1..Len(a) + Len(b) : v[i] = IF i <= Len(a) THEN x[i] ELSE y[i - Len(a)]
  <2>1. x \in Seq(S) /\ y \in Seq(S) /\ Len(x) = Len(a) /\ Len(y) = Len(b)
    BY <1>2
  <2>2. /\ v \in Seq(S) /\ Len(v) = Len(x) + Len(y)
        /\ \A i \in 1..Len(x) + Len(y) : v[i] = IF i <= Len(x) THEN x[i] ELSE y[i - Len(x)]
    BY <2>1, ConcatProperties
  <2>3. QED BY <2>1, <2>2
<1> HIDE DEF z, v
<1>5. ASSUME NEW i \in 1..Len(a) + Len(b) PROVE z[i] = v[i]
  <2>1. CASE i <= Len(a)
    <3>1. i \in 1..Len(a)
      BY <1>1, <2>1
    <3>2. QED BY <1>1, <1>2, <1>3, <1>4, <2>1, <3>1
  <2>2. CASE ~(i <= Len(a))
    <3>1. i - Len(a) \in 1..Len(b)
      BY <1>1, <2>2
    <3>2. QED BY <1>1, <1>2, <1>3, <1>4, <2>2, <3>1
  <2>3. QED BY <2>1, <2>2
<1>6. z = v
  BY <1>1, <1>3, <1>4, <1>5, SeqEqual
<1>7. QED BY <1>6 DEF u, x, y, z, v

AnswersTo(ids, how) == [i \in 1..Len(ids) |-> [id |-> ids[i], how |-> how[i]]]

\* Answers to a queue of requests keep its order.
LEMMA IdsOfAnswers ==
    ASSUME NEW S, NEW ids \in Seq(S), NEW how \in [1..Len(ids) -> {"answered", "failed"}]
    PROVE  LET messages == AnswersTo(ids, how)
           IN messages \in Seq(Messages(S)) /\ Len(messages) = Len(ids) /\ Ids(messages) = ids
<1> DEFINE messages == AnswersTo(ids, how)
<1>1. Len(ids) \in Nat /\ \A i \in 1..Len(ids) : ids[i] \in S
  BY LenProperties
<1>2. messages \in [1..Len(ids) -> Messages(S)]
  BY <1>1 DEF Messages, AnswersTo
<1>3. messages \in Seq(Messages(S)) /\ Len(messages) = Len(ids)
  <2> HIDE DEF messages
  <2> QED BY <1>1, <1>2
<1>4. \A i \in 1..Len(ids) : messages[i].id = ids[i]
  BY DEF AnswersTo
<1> HIDE DEF messages
<1>5. Ids(messages) \in Seq(S) /\ Len(Ids(messages)) = Len(ids)
      /\ \A i \in 1..Len(ids) : Ids(messages)[i] = ids[i]
  BY <1>3, <1>4, IdsType
<1>6. QED BY <1>3, <1>5, SeqEqual DEF messages

-----------------------------------------------------------------------------
(* Queues *)

LEMMA TailAscending ==
    ASSUME NEW q \in Seq(Nat), q # <<>>, Ascending(q)
    PROVE  /\ Ascending(Tail(q)) /\ Head(q) \in Nat
           /\ \A i \in 1..Len(Tail(q)) : Head(q) < Tail(q)[i]
<1> DEFINE t == Tail(q)
<1>1. /\ t \in Seq(Nat) /\ Len(t) = Len(q) - 1 /\ Len(q) \in Nat /\ Len(q) >= 1
      /\ \A i \in 1..Len(t) : t[i] = q[i + 1]
      /\ Head(q) = q[1] /\ Head(q) \in Nat
  BY HeadTailProperties, LenProperties, EmptySeq
<1> HIDE DEF t
<1>2. \A i \in 1..Len(t) : i + 1 \in 1..Len(q) /\ 1 \in 1..Len(q) /\ 1 < i + 1
  BY <1>1
<1>3. ASSUME NEW i \in 1..Len(t), NEW j \in 1..Len(t), i < j PROVE t[i] < t[j]
  <2>1. q[i + 1] < q[j + 1]
    BY <1>2, <1>3 DEF Ascending
  <2>2. QED BY <1>1, <2>1
<1>4. ASSUME NEW i \in 1..Len(t) PROVE Head(q) < t[i]
  <2>1. q[1] < q[i + 1]
    BY <1>2 DEF Ascending
  <2>2. QED BY <1>1, <2>1
<1>5. Ascending(t)
  BY <1>3 DEF Ascending
<1>6. QED BY <1>1, <1>4, <1>5 DEF t

LEMMA AppendAscending ==
    ASSUME NEW q \in Seq(Nat), NEW n \in Nat, Ascending(q), \A i \in 1..Len(q) : q[i] < n
    PROVE  Ascending(Append(q, n))
<1> DEFINE u == Append(q, n)
<1>1. /\ Len(u) = Len(q) + 1 /\ Len(q) \in Nat
      /\ \A i \in 1..Len(q) : u[i] = q[i]
      /\ u[Len(q) + 1] = n
  BY AppendProperties, LenProperties
<1> HIDE DEF u
<1>2. ASSUME NEW i \in 1..Len(u), NEW j \in 1..Len(u), i < j PROVE u[i] < u[j]
  <2>1. i \in 1..Len(q) /\ (j \in 1..Len(q) \/ j = Len(q) + 1)
    BY <1>1, <1>2
  <2>2. QED BY <1>1, <1>2, <2>1 DEF Ascending
<1>3. QED BY <1>2 DEF Ascending, u

\* In an ascending queue both parts ascend, the first below the second.
LEMMA ConcatAscending ==
    ASSUME NEW a \in Seq(Nat), NEW b \in Seq(Nat), Ascending(a \o b)
    PROVE  /\ Ascending(a) /\ Ascending(b)
           /\ \A i \in 1..Len(a), j \in 1..Len(b) : a[i] < b[j]
<1> DEFINE u == a \o b
<1>1. /\ Len(u) = Len(a) + Len(b) /\ Len(a) \in Nat /\ Len(b) \in Nat
      /\ \A i \in 1..Len(a) + Len(b) : u[i] = IF i <= Len(a) THEN a[i] ELSE b[i - Len(a)]
  BY ConcatProperties, LenProperties
<1> HIDE DEF u
<1>2. \A i \in 1..Len(a) : i \in 1..Len(u) /\ u[i] = a[i]
  BY <1>1
<1>3. ASSUME NEW j \in 1..Len(b) PROVE Len(a) + j \in 1..Len(u) /\ u[Len(a) + j] = b[j]
  <2>1. Len(a) + j \in 1..Len(u) /\ ~(Len(a) + j <= Len(a)) /\ (Len(a) + j) - Len(a) = j
    BY <1>1
  <2>2. QED BY <1>1, <2>1
<1>4. ASSUME NEW i \in 1..Len(a), NEW j \in 1..Len(b) PROVE a[i] < b[j]
  <2>1. i < Len(a) + j
    BY <1>1
  <2>2. u[i] < u[Len(a) + j]
    BY <1>2, <1>3, <2>1 DEF Ascending, u
  <2>3. QED BY <1>2, <1>3, <2>2
<1>5. Ascending(a)
  BY <1>2 DEF Ascending, u
<1>6. ASSUME NEW i \in 1..Len(b), NEW j \in 1..Len(b), i < j PROVE b[i] < b[j]
  <2>1. Len(a) + i < Len(a) + j
    BY <1>1, <1>6
  <2>2. u[Len(a) + i] < u[Len(a) + j]
    BY <1>3, <2>1 DEF Ascending, u
  <2>3. QED BY <1>3, <2>2
<1>7. Ascending(b)
  BY <1>6 DEF Ascending
<1>8. QED BY <1>4, <1>5, <1>7

\* A queue does not change when the head of its last part joins the part before it.
LEMMA HeadMoves ==
    ASSUME NEW S, NEW a \in Seq(S), NEW b \in Seq(S), b # <<>>
    PROVE  Append(a, Head(b)) \o Tail(b) = a \o b
<1>1. Head(b) \in S /\ Tail(b) \in Seq(S) /\ <<Head(b)>> \in Seq(S)
  BY HeadTailProperties
<1>2. Append(a, Head(b)) = a \o <<Head(b)>>
  BY <1>1, AppendIsConcat
<1>3. <<Head(b)>> \o Tail(b) = b
  BY <1>1
<1>4. QED BY <1>1, <1>2, <1>3, ConcatAssociative

LEMMA AppendToLast ==
    ASSUME NEW S, NEW a \in Seq(S), NEW b \in Seq(S), NEW n \in S
    PROVE  a \o Append(b, n) = Append(a \o b, n)
<1>1. <<n>> \in Seq(S) /\ a \o b \in Seq(S)
  BY ConcatProperties
<1>2. a \o Append(b, n) = a \o (b \o <<n>>) /\ Append(a \o b, n) = (a \o b) \o <<n>>
  BY <1>1, AppendIsConcat
<1>3. QED BY <1>1, <1>2, ConcatAssociative

LEMMA TailOfConcat ==
    ASSUME NEW S, NEW a \in Seq(S), NEW b \in Seq(S), a # <<>>
    PROVE  /\ Tail(a) \o b = Tail(a \o b)
           /\ Head(a) = Head(a \o b) /\ a \o b # <<>>
<1>1. /\ Tail(a) \in Seq(S) /\ Head(a) \in S /\ a = <<Head(a)>> \o Tail(a)
      /\ <<Head(a)>> \in Seq(S)
  BY HeadTailProperties
<1> DEFINE u == Tail(a) \o b
<1>2. a \o b = <<Head(a)>> \o u
  BY <1>1, ConcatAssociative
<1>3. u \in Seq(S)
  BY <1>1, ConcatProperties
<1> HIDE DEF u
<1>4. Tail(<<Head(a)>> \o u) = u /\ Head(<<Head(a)>> \o u) = Head(a) /\ <<Head(a)>> \o u # <<>>
  BY <1>1, <1>3
<1>5. QED BY <1>2, <1>4 DEF u

-----------------------------------------------------------------------------
(* Types *)

\* Handlers wait for the executor only while it is loading.
TypeInv ==
    /\ TypeOK
    /\ executor # "loading" => suspended = <<>>

LEMMA QueueTypes ==
    ASSUME TypeInv
    PROVE  /\ nextId \in Nat /\ 1..nextId - 1 \subseteq Nat
           /\ answers \in Seq(Messages(1..nextId - 1)) /\ answers \in Seq(Messages(Nat))
           /\ Ids(answers) \in Seq(1..nextId - 1) /\ Ids(answers) \in Seq(Nat)
           /\ suspended \in Seq(1..nextId - 1) /\ suspended \in Seq(Nat)
           /\ requests \in Seq(1..nextId - 1) /\ requests \in Seq(Nat)
<1>1. nextId \in Nat /\ nextId - 1 \in Int /\ 1..nextId - 1 \subseteq Nat
  BY ClientAssumption DEF TypeInv, TypeOK
<1>2. /\ answers \in Seq(Messages(1..nextId - 1))
      /\ suspended \in Seq(1..nextId - 1) /\ requests \in Seq(1..nextId - 1)
  BY DEF TypeInv, TypeOK, Messages
<1>3. Messages(1..nextId - 1) \subseteq Messages(Nat)
  BY <1>1 DEF Messages
<1>4. /\ answers \in Seq(Messages(Nat)) /\ suspended \in Seq(Nat) /\ requests \in Seq(Nat)
  BY <1>1, <1>2, <1>3, SeqMonotonic
<1>5. Ids(answers) \in Seq(1..nextId - 1) /\ Ids(answers) \in Seq(Nat)
  BY <1>2, <1>4, IdsType
<1>6. QED BY <1>1, <1>2, <1>4, <1>5

LEMMA TypeInvInit == Init => TypeInv
<1> SUFFICES ASSUME Init PROVE TypeInv
  OBVIOUS
<1>1. nextId \in 1..MaxCalls + 1
  BY ClientAssumption DEF Init
<1>2. /\ outcome \in Seq({"open", "answered", "failed"}) /\ Len(outcome) = 0
      /\ requests \in Seq(1..nextId - 1) /\ suspended \in Seq(1..nextId - 1)
      /\ answers \in Seq([id : 1..nextId - 1, how : {"answered", "failed"}])
  BY EmptySeq DEF Init
<1>3. nextId = Len(outcome) + 1 /\ Len(outcome) <= MaxCalls
  BY <1>2, ClientAssumption DEF Init
<1>4. pending = {} /\ performed = {} /\ executor = "fetching" /\ suspended = <<>>
  BY DEF Init
<1>5. unavailable \in BOOLEAN /\ errorEvent \in BOOLEAN
  BY DEF Init
<1>6. TypeOK
  BY <1>1, <1>2, <1>3, <1>4, <1>5 DEF TypeOK
<1>7. QED BY <1>4, <1>6 DEF TypeInv

\* What is typed by the ids given out stays so when one more is given out.
LEMMA TypesGrow ==
    ASSUME TypeInv, nextId' = nextId + 1
    PROVE  /\ pending \subseteq 1..nextId' - 1 /\ performed \subseteq 1..nextId' - 1
           /\ requests \in Seq(1..nextId' - 1) /\ suspended \in Seq(1..nextId' - 1)
           /\ answers \in Seq([id : 1..nextId' - 1, how : {"answered", "failed"}])
           /\ nextId \in 1..nextId' - 1
<1>1. nextId \in Nat /\ nextId >= 1 /\ 1..nextId - 1 \subseteq 1..nextId' - 1
  BY ClientAssumption DEF TypeInv, TypeOK
<1>2. Messages(1..nextId - 1) \subseteq Messages(1..nextId' - 1)
  BY <1>1 DEF Messages
<1>3. /\ requests \in Seq(1..nextId' - 1) /\ suspended \in Seq(1..nextId' - 1)
      /\ answers \in Seq(Messages(1..nextId' - 1))
  BY <1>1, <1>2, QueueTypes, SeqMonotonic
<1>4. pending \subseteq 1..nextId' - 1 /\ performed \subseteq 1..nextId' - 1
  BY <1>1 DEF TypeInv, TypeOK
<1>5. nextId \in 1..nextId' - 1
  BY <1>1
<1>6. QED BY <1>3, <1>4, <1>5 DEF Messages

LEMMA RequestTypes == TypeInv /\ (RequestRefused \/ RequestSent \/ SendFails) => TypeInv'
<1> SUFFICES ASSUME TypeInv, RequestRefused \/ RequestSent \/ SendFails PROVE TypeInv'
  OBVIOUS
<1>1. /\ outcome' \in Seq({"open", "answered", "failed"})
      /\ Len(outcome) \in Nat /\ Len(outcome') = Len(outcome) + 1 /\ Len(outcome') <= MaxCalls
  <2>1. outcome \in Seq({"open", "answered", "failed"}) /\ Len(outcome) < MaxCalls
    BY DEF TypeInv, TypeOK, RequestRefused, RequestSent, SendFails
  <2>2. \E how \in {"open", "failed"} : outcome' = Append(outcome, how)
    BY DEF RequestRefused, RequestSent, SendFails
  <2>3. QED BY <2>1, <2>2, AppendProperties, LenProperties, ClientAssumption
<1>2. CASE RequestRefused
  <2>1. /\ UNCHANGED <<nextId, pending, unavailable, executor, suspended, performed>>
        /\ UNCHANGED <<requests, answers, errorEvent>> /\ unavailable
    BY <1>2 DEF RequestRefused, workerVars
  <2>2. nextId <= Len(outcome') + 1
    BY <1>1, QueueTypes DEF TypeInv, TypeOK
  <2>3. QED BY <1>1, <2>1, <2>2 DEF TypeInv, TypeOK
<1>3. CASE RequestSent \/ SendFails
  <2>1. /\ UNCHANGED <<unavailable, executor, suspended, performed, answers, errorEvent>>
        /\ ~unavailable /\ nextId' = nextId + 1
        /\ pending' \subseteq pending \cup {nextId}
        /\ requests' \in {requests, Append(requests, nextId)}
    BY <1>3 DEF RequestSent, SendFails, workerVars
  <2>2. /\ pending' \subseteq 1..nextId' - 1 /\ performed' \subseteq 1..nextId' - 1
        /\ requests' \in Seq(1..nextId' - 1) /\ suspended' \in Seq(1..nextId' - 1)
        /\ answers' \in Seq([id : 1..nextId' - 1, how : {"answered", "failed"}])
    <3>1. /\ pending \subseteq 1..nextId' - 1 /\ performed \subseteq 1..nextId' - 1
          /\ requests \in Seq(1..nextId' - 1) /\ suspended \in Seq(1..nextId' - 1)
          /\ answers \in Seq([id : 1..nextId' - 1, how : {"answered", "failed"}])
          /\ nextId \in 1..nextId' - 1
      BY <2>1, TypesGrow
    <3>2. Append(requests, nextId) \in Seq(1..nextId' - 1)
      BY <3>1, AppendProperties
    <3>3. QED BY <2>1, <3>1, <3>2
  <2>3. nextId' = Len(outcome') + 1 /\ nextId' \in 1..MaxCalls + 1
    BY <1>1, <2>1, ClientAssumption DEF TypeInv, TypeOK
  <2>4. QED BY <1>1, <2>1, <2>2, <2>3 DEF TypeInv, TypeOK
<1>4. QED BY <1>2, <1>3

LEMMA PageTypes == TypeInv /\ PageTask => TypeInv'
<1> SUFFICES ASSUME TypeInv, PageTask PROVE TypeInv'
  OBVIOUS
<1>1. /\ UNCHANGED <<nextId, executor, suspended, performed, requests>>
      /\ pending' \subseteq pending
      /\ unavailable' \in BOOLEAN /\ errorEvent' \in BOOLEAN
      /\ ~unavailable' => ~unavailable
      /\ answers' \in {answers, Tail(answers)} /\ (answers' = answers \/ answers # <<>>)
  BY DEF TypeInv, TypeOK, PageTask, OnMessage, OnMessageError, OnError, MarkUnavailable, workerVars
<1>2. answers' \in Seq([id : 1..nextId - 1, how : {"answered", "failed"}])
  <2>1. answers \in Seq([id : 1..nextId - 1, how : {"answered", "failed"}])
    BY DEF TypeInv, TypeOK
  <2>2. answers # <<>> => Tail(answers) \in Seq([id : 1..nextId - 1, how : {"answered", "failed"}])
    BY <2>1, HeadTailProperties
  <2>3. QED BY <1>1, <2>1, <2>2
<1>3. outcome' \in Seq({"open", "answered", "failed"}) /\ Len(outcome') = Len(outcome)
  <2>1. /\ outcome \in Seq({"open", "answered", "failed"})
        /\ Len(outcome) \in Nat /\ DOMAIN outcome = 1..Len(outcome)
        /\ \A id \in 1..Len(outcome) : outcome[id] \in {"open", "answered", "failed"}
    BY LenProperties, ElementOfSeq DEF TypeInv, TypeOK
  <2>2. CASE MarkUnavailable
    <3>1. outcome' = [id \in 1..Len(outcome) |-> IF id \in pending THEN "failed" ELSE outcome[id]]
      BY <2>1, <2>2 DEF MarkUnavailable
    <3>2. outcome' \in [1..Len(outcome) -> {"open", "answered", "failed"}]
      BY <2>1, <3>1
    <3>3. QED BY <2>1, <3>2
  <2>3. CASE OnMessage
    <3>1. Head(answers) \in Messages(1..nextId - 1)
      BY <2>3, QueueTypes, HeadTailProperties DEF OnMessage
    <3>2. Head(answers).how \in {"open", "answered", "failed"}
      BY <3>1 DEF Messages
    <3>3. outcome' \in {outcome, [outcome EXCEPT ![Head(answers).id] = Head(answers).how]}
      BY <2>3 DEF OnMessage
    <3>4. outcome' \in [1..Len(outcome) -> {"open", "answered", "failed"}]
      BY <2>1, <3>2, <3>3
    <3>5. QED BY <2>1, <3>4
  <2>4. QED BY <2>2, <2>3 DEF PageTask, OnMessageError, OnError
<1>4. QED BY <1>1, <1>2, <1>3 DEF TypeInv, TypeOK

\* The handlers that answer in one task of the worker, and how.
Answers(ids, how) ==
    /\ ids \in Seq(1..nextId - 1) /\ how \in [1..Len(ids) -> {"answered", "failed"}]
    /\ answers' = answers \o AnswersTo(ids, how)

LEMMA AnswerTypes ==
    ASSUME TypeInv, NEW ids, NEW how, Answers(ids, how)
    PROVE  /\ answers' \in Seq(Messages(1..nextId - 1))
           /\ Ids(answers') = Ids(answers) \o ids
           /\ \A i \in 1..Len(answers') :
                 \/ \E j \in 1..Len(answers) : answers'[i] = answers[j]
                 \/ \E j \in 1..Len(ids) : answers'[i] = [id |-> ids[j], how |-> how[j]]
<1> DEFINE new == AnswersTo(ids, how)
<1>1. /\ ids \in Seq(1..nextId - 1) /\ answers \in Seq(Messages(1..nextId - 1))
      /\ new \in Seq(Messages(1..nextId - 1)) /\ Len(new) = Len(ids) /\ Ids(new) = ids
      /\ answers' = answers \o new
  BY QueueTypes, IdsOfAnswers DEF Answers
<1>2. \A j \in 1..Len(ids) : new[j] = [id |-> ids[j], how |-> how[j]]
  BY DEF AnswersTo
<1> HIDE DEF new
<1>3. /\ answers' \in Seq(Messages(1..nextId - 1))
      /\ Len(answers') = Len(answers) + Len(new)
      /\ Len(answers) \in Nat /\ Len(new) \in Nat
      /\ \A i \in 1..Len(answers) + Len(new) :
            answers'[i] = IF i <= Len(answers) THEN answers[i] ELSE new[i - Len(answers)]
  BY <1>1, ConcatProperties, LenProperties
<1>4. Ids(answers') = Ids(answers) \o ids
  BY <1>1, IdsConcat
<1>5. ASSUME NEW i \in 1..Len(answers')
      PROVE  \/ \E j \in 1..Len(answers) : answers'[i] = answers[j]
             \/ \E j \in 1..Len(ids) : answers'[i] = [id |-> ids[j], how |-> how[j]]
  <2>1. CASE i <= Len(answers)
    BY <1>3, <2>1
  <2>2. CASE ~(i <= Len(answers))
    <3>1. i - Len(answers) \in 1..Len(ids) /\ answers'[i] = new[i - Len(answers)]
      BY <1>1, <1>3, <2>2
    <3>2. QED BY <1>2, <3>1
  <2>3. QED BY <2>1, <2>2
<1>6. QED BY <1>3, <1>4, <1>5

\* When the executor is there, or is known to have failed, the waiting handlers answer.
LEMMA WasmEffect ==
    ASSUME TypeInv, WasmReady \/ WasmFails
    PROVE  \E how \in [1..Len(suspended) -> {"answered", "failed"}] :
              /\ Answers(suspended, how)
              /\ \/ performed' = performed \cup Range(suspended)
                 \/ UNCHANGED performed /\ \A i \in 1..Len(suspended) : how[i] = "failed"
<1>1. suspended \in Seq(1..nextId - 1)
  BY QueueTypes
<1>2. CASE WasmReady
  BY <1>1, <1>2 DEF WasmReady, Dispatched, Answers, AnswersTo
<1>3. CASE WasmFails
  <2> DEFINE how == [i \in 1..Len(suspended) |-> "failed"]
  <2>1. AnswersTo(suspended, how) = [i \in 1..Len(suspended) |-> Failed(suspended[i])]
    BY DEF AnswersTo, Failed
  <2>2. Answers(suspended, how) /\ UNCHANGED performed
    BY <1>1, <1>3, <2>1 DEF WasmFails, Answers
  <2>3. how \in [1..Len(suspended) -> {"answered", "failed"}]
    OBVIOUS
  <2>4. QED BY <2>2, <2>3
<1>4. QED BY <1>2, <1>3

\* A request waits for the executor, or is answered.
LEMMA RequestEffect ==
    ASSUME TypeInv, OnRequest
    PROVE  LET first == Head(requests)
           IN /\ first \in 1..nextId - 1
              /\ Tail(requests) \in Seq(1..nextId - 1)
              /\ \/ /\ executor = "loading" /\ suspended' = Append(suspended, first)
                    /\ UNCHANGED <<performed, answers>>
                 \/ /\ executor # "loading" /\ UNCHANGED suspended
                    /\ \E how \in [1..1 -> {"answered", "failed"}] :
                          /\ Answers(<<first>>, how)
                          /\ \/ performed' = performed \cup {first}
                             \/ UNCHANGED performed /\ how[1] = "failed"
<1> DEFINE first == Head(requests)
<1>1. first \in 1..nextId - 1 /\ Tail(requests) \in Seq(1..nextId - 1)
  BY QueueTypes, HeadTailProperties DEF OnRequest
<1>2. CASE executor = "loading"
  BY <1>1, <1>2 DEF OnRequest
<1>3. CASE executor = "ready"
  <2>1. PICK w \in {"answered", "failed"} : Dispatched(<<first>>, <<w>>) /\ UNCHANGED suspended
    BY <1>3 DEF OnRequest
  <2> DEFINE how == [i \in 1..1 |-> w]
  <2>2. AnswersTo(<<first>>, how) = [i \in 1..Len(<<first>>) |-> [id |-> <<first>>[i], how |-> <<w>>[i]]]
    BY DEF AnswersTo
  <2>3. Answers(<<first>>, how)
    <3>1. answers' = answers \o AnswersTo(<<first>>, how)
      BY <2>1, <2>2 DEF Dispatched
    <3>2. <<first>> \in Seq(1..nextId - 1) /\ Len(<<first>>) = 1
      BY <1>1
    <3>3. how \in [1..Len(<<first>>) -> {"answered", "failed"}]
      BY <3>2
    <3>4. QED BY <3>1, <3>2, <3>3 DEF Answers
  <2>4. performed' = performed \cup {first}
    BY <2>1 DEF Dispatched, Range
  <2>5. how \in [1..1 -> {"answered", "failed"}]
    OBVIOUS
  <2>6. QED BY <1>1, <1>3, <2>1, <2>3, <2>4, <2>5
<1>4. CASE executor = "failed"
  <2> DEFINE how == [i \in 1..1 |-> "failed"]
  <2>1. AnswersTo(<<first>>, how) = <<Failed(first)>>
    BY DEF AnswersTo, Failed
  <2>2. Failed(first) \in Messages(1..nextId - 1)
    BY <1>1 DEF Failed, Messages
  <2>3. Append(answers, Failed(first)) = answers \o <<Failed(first)>>
    BY <2>2, QueueTypes, AppendIsConcat
  <2>4. Answers(<<first>>, how)
    <3>1. answers' = answers \o AnswersTo(<<first>>, how)
      BY <1>4, <2>1, <2>3 DEF OnRequest
    <3>2. <<first>> \in Seq(1..nextId - 1) /\ Len(<<first>>) = 1
      BY <1>1
    <3>3. how \in [1..Len(<<first>>) -> {"answered", "failed"}]
      BY <3>2
    <3>4. QED BY <3>1, <3>2, <3>3 DEF Answers
  <2>5. how \in [1..1 -> {"answered", "failed"}] /\ how[1] = "failed"
    OBVIOUS
  <2>6. QED BY <1>1, <1>4, <2>4, <2>5 DEF OnRequest
<1>5. QED BY <1>2, <1>3, <1>4 DEF OnRequest

LEMMA WorkerTypes ==
    TypeInv /\ (ScriptEvaluated \/ WorkerStops \/ WasmReady \/ WasmFails \/ OnRequest) => TypeInv'
<1> SUFFICES ASSUME TypeInv, ScriptEvaluated \/ WorkerStops \/ WasmReady \/ WasmFails \/ OnRequest
             PROVE  TypeInv'
  OBVIOUS
<1>1. UNCHANGED <<nextId, pending, unavailable, outcome>>
  BY DEF ScriptEvaluated, WorkerStops, WasmReady, WasmFails, OnRequest, clientVars
<1>2. ASSUME /\ answers' \in Seq(Messages(1..nextId - 1))
             /\ suspended' \in Seq(1..nextId - 1) /\ requests' \in Seq(1..nextId - 1)
             /\ performed' \subseteq 1..nextId - 1 /\ errorEvent' \in BOOLEAN
             /\ executor' \in {"fetching", "loading", "ready", "failed", "stopped"}
             /\ executor' # "loading" => suspended' = <<>>
      PROVE  TypeInv'
  BY <1>1, <1>2 DEF TypeInv, TypeOK, Messages
<1>3. /\ answers \in Seq(Messages(1..nextId - 1)) /\ <<>> \in Seq(1..nextId - 1)
      /\ suspended \in Seq(1..nextId - 1) /\ requests \in Seq(1..nextId - 1)
      /\ performed \subseteq 1..nextId - 1 /\ errorEvent \in BOOLEAN
  BY QueueTypes, EmptySeq DEF TypeInv, TypeOK
<1>4. CASE ScriptEvaluated
  BY <1>2, <1>3, <1>4 DEF ScriptEvaluated, TypeInv
<1>5. CASE WorkerStops
  BY <1>2, <1>3, <1>5 DEF WorkerStops
<1>6. CASE WasmReady \/ WasmFails
  <2>1. answers' \in Seq(Messages(1..nextId - 1))
    BY <1>6, WasmEffect, AnswerTypes
  <2>2. Range(suspended) \subseteq 1..nextId - 1
    <3>1. DOMAIN suspended = 1..Len(suspended)
      BY <1>3, LenProperties
    <3>2. \A i \in DOMAIN suspended : suspended[i] \in 1..nextId - 1
      BY <1>3, <3>1, ElementOfSeq
    <3>3. QED BY <3>2 DEF Range
  <2>3. performed' \subseteq 1..nextId - 1
    BY <1>3, <1>6, <2>2, WasmEffect
  <2>4. /\ UNCHANGED <<requests, errorEvent>> /\ suspended' = <<>>
        /\ executor' \in {"ready", "failed"}
    BY <1>6 DEF WasmReady, WasmFails
  <2>5. QED BY <1>2, <1>3, <2>1, <2>3, <2>4
<1>7. CASE OnRequest
  <2>1. /\ Head(requests) \in 1..nextId - 1
        /\ requests' \in Seq(1..nextId - 1)
        /\ UNCHANGED <<executor, errorEvent>>
    BY <1>7, RequestEffect DEF OnRequest
  <2>2. suspended' \in Seq(1..nextId - 1) /\ (executor' # "loading" => suspended' = <<>>)
    <3>1. CASE executor = "loading"
      <4>1. suspended' = Append(suspended, Head(requests))
        BY <1>7, <3>1, RequestEffect
      <4>2. QED BY <1>3, <2>1, <3>1, <4>1, AppendProperties
    <3>2. CASE executor # "loading"
      <4>1. suspended' = suspended /\ suspended = <<>>
        BY <1>7, <3>2, RequestEffect DEF TypeInv
      <4>2. QED BY <1>3, <4>1
    <3>3. QED BY <3>1, <3>2
  <2>3. answers' \in Seq(Messages(1..nextId - 1)) /\ performed' \subseteq 1..nextId - 1
    BY <1>3, <1>7, <2>1, RequestEffect, AnswerTypes
  <2>4. QED BY <1>2, <1>3, <2>1, <2>2, <2>3 DEF TypeInv, TypeOK
<1>8. QED BY <1>4, <1>5, <1>6, <1>7

LEMMA TypeInvNext == TypeInv /\ [Next]_vars => TypeInv'
<1>1. TypeInv /\ UNCHANGED vars => TypeInv'
  BY DEF TypeInv, TypeOK, vars, clientVars, workerVars
<1>2. QED BY <1>1, RequestTypes, PageTypes, WorkerTypes DEF Next

LEMMA TypeInvariant == Spec => []TypeInv
BY TypeInvInit, TypeInvNext, PTL DEF Spec

\* Type correctness; ids are given out once and in order.
THEOREM ClientTypeCorrect == Spec => []TypeOK
<1>1. TypeInv => TypeOK
  BY DEF TypeInv
<1>2. QED BY <1>1, TypeInvariant, PTL

-----------------------------------------------------------------------------
(* What a step does to the queue of ids under way *)

LEMMA UnderwayTypes ==
    ASSUME TypeInv
    PROVE  Underway \in Seq(1..nextId - 1) /\ Underway \in Seq(Nat)
<1>1. (Ids(answers) \o suspended) \o requests \in Seq(1..nextId - 1)
  BY QueueTypes, ConcatProperties
<1>2. (Ids(answers) \o suspended) \o requests \in Seq(Nat)
  BY QueueTypes, ConcatProperties
<1>3. QED BY <1>1, <1>2, UnderwayQueue

\* An answer that is read leaves the head of the queue.
LEMMA AnswerLeaves ==
    ASSUME TypeInv, answers # <<>>, answers' = Tail(answers), UNCHANGED <<suspended, requests>>
    PROVE  /\ Underway' = Tail(Underway) /\ Underway # <<>>
           /\ Head(Underway) = Head(answers).id
<1> DEFINE A == Ids(answers)
<1>1. /\ answers \in Seq(Messages(Nat)) /\ suspended \in Seq(Nat) /\ requests \in Seq(Nat)
      /\ A \in Seq(Nat) /\ Len(A) = Len(answers)
      /\ \A i \in 1..Len(answers) : A[i] = answers[i].id
      /\ Len(answers) \in Nat /\ Len(answers) >= 1
  BY QueueTypes, IdsType, LenProperties, EmptySeq
<1>2. A # <<>> /\ Head(A) = Head(answers).id
  <2> HIDE DEF A
  <2>1. Len(A) >= 1 /\ 1 \in 1..Len(answers)
    BY <1>1
  <2>2. A # <<>> /\ Head(A) = A[1] /\ Head(answers) = answers[1]
    BY <1>1, <2>1
  <2>3. QED BY <1>1, <2>1, <2>2
<1>3. Ids(answers') = Tail(A)
  <2>1. /\ answers' \in Seq(Messages(Nat)) /\ Len(answers') = Len(answers) - 1
        /\ \A i \in 1..Len(answers') : answers'[i] = answers[i + 1]
    BY <1>1, HeadTailProperties
  <2>2. /\ Ids(answers') \in Seq(Nat) /\ Len(Ids(answers')) = Len(answers')
        /\ \A i \in 1..Len(answers') : Ids(answers')[i] = answers'[i].id
    BY <2>1, IdsType
  <2> HIDE DEF A
  <2>3. /\ Tail(A) \in Seq(Nat) /\ Len(Tail(A)) = Len(A) - 1
        /\ \A i \in 1..Len(Tail(A)) : Tail(A)[i] = A[i + 1]
    BY <1>1, <1>2, HeadTailProperties
  <2>4. \A i \in 1..Len(answers') : i + 1 \in 1..Len(answers)
    BY <1>1, <2>1
  <2> DEFINE I == Ids(answers')  T == Tail(A)
  <2> HIDE DEF I, T
  <2>5. I \in Seq(Nat) /\ T \in Seq(Nat) /\ Len(I) = Len(T)
    BY <1>1, <2>1, <2>2, <2>3 DEF I, T
  <2>6. ASSUME NEW i \in 1..Len(I) PROVE I[i] = T[i]
    <3>1. i \in 1..Len(answers') /\ i \in 1..Len(T) /\ i + 1 \in 1..Len(answers)
      BY <2>2, <2>4, <2>5 DEF I
    <3>2. I[i] = answers[i + 1].id
      BY <2>1, <2>2, <3>1 DEF I
    <3>3. T[i] = answers[i + 1].id
      BY <1>1, <2>3, <3>1 DEF T
    <3>4. QED BY <3>2, <3>3
  <2>7. I = T
    BY <2>5, <2>6, SeqEqual
  <2>8. QED BY <2>7 DEF I, T
<1> HIDE DEF A
<1>4. /\ Tail(A) \o suspended = Tail(A \o suspended) /\ Head(A) = Head(A \o suspended)
      /\ A \o suspended # <<>> /\ A \o suspended \in Seq(Nat)
  BY <1>1, <1>2, TailOfConcat, ConcatProperties
<1>5. /\ Tail(A \o suspended) \o requests = Tail((A \o suspended) \o requests)
      /\ Head(A \o suspended) = Head((A \o suspended) \o requests)
      /\ (A \o suspended) \o requests # <<>>
  BY <1>1, <1>4, TailOfConcat
<1>6. Underway = (A \o suspended) \o requests
  BY UnderwayQueue DEF A
<1>7. Underway' = (Ids(answers') \o suspended') \o requests'
  BY UnderwayQueue DEF Underway, Ids
<1>8. QED BY <1>2, <1>3, <1>4, <1>5, <1>6, <1>7

\* A request that is sent joins the end of the queue.
LEMMA RequestJoins ==
    ASSUME TypeInv, RequestSent
    PROVE  Underway' = Append(Underway, nextId)
<1>1. /\ nextId \in Nat /\ Ids(answers) \in Seq(Nat)
      /\ suspended \in Seq(Nat) /\ requests \in Seq(Nat)
  BY QueueTypes
<1>2. Ids(answers) \o suspended \in Seq(Nat)
  BY <1>1, ConcatProperties
<1>3. (Ids(answers) \o suspended) \o Append(requests, nextId)
         = Append((Ids(answers) \o suspended) \o requests, nextId)
  BY <1>1, <1>2, AppendToLast
<1>4. Underway' = (Ids(answers) \o suspended) \o Append(requests, nextId)
  BY DEF Underway, Ids, RequestSent, workerVars
<1>5. QED BY <1>3, <1>4, UnderwayQueue

\* Nothing is lost or overtaken when a handler waits, or when it answers.
LEMMA WorkerKeepsQueue ==
    ASSUME TypeInv, WasmReady \/ WasmFails \/ OnRequest
    PROVE  Underway' = Underway
<1> DEFINE A == Ids(answers)
<1>1. /\ A \in Seq(Nat) /\ suspended \in Seq(Nat) /\ requests \in Seq(Nat)
      /\ A \o suspended \in Seq(Nat)
  BY QueueTypes, ConcatProperties
<1>2. Underway' = (Ids(answers') \o suspended') \o requests'
  BY DEF Underway, Ids
<1>3. Underway = (A \o suspended) \o requests
  BY UnderwayQueue
<1>4. CASE WasmReady \/ WasmFails
  <2>1. Ids(answers') = A \o suspended
    BY <1>4, WasmEffect, AnswerTypes
  <2>2. suspended' = <<>> /\ requests' = requests
    BY <1>4 DEF WasmReady, WasmFails
  <2> HIDE DEF A
  <2>3. (A \o suspended) \o <<>> = A \o suspended
    BY <1>1, ConcatEmptySeq
  <2>4. QED BY <1>2, <1>3, <2>1, <2>2, <2>3
<1>5. CASE OnRequest
  <2> DEFINE first == Head(requests)
  <2>1. requests # <<>> /\ requests' = Tail(requests) /\ first \in Nat
    BY <1>1, <1>5, HeadTailProperties DEF OnRequest
  <2>2. CASE executor = "loading"
    <3>1. Ids(answers') = A /\ suspended' = Append(suspended, first)
      BY <1>5, <2>2, RequestEffect DEF Ids
    <3> HIDE DEF A, first
    <3>2. A \o Append(suspended, first) = Append(A \o suspended, first)
      BY <1>1, <2>1, AppendToLast
    <3>3. Append(A \o suspended, Head(requests)) \o Tail(requests) = (A \o suspended) \o requests
      BY <1>1, <2>1, HeadMoves
    <3>4. QED BY <1>2, <1>3, <2>1, <3>1, <3>2, <3>3 DEF first
  <2>3. CASE executor # "loading"
    <3>1. suspended = <<>> /\ suspended' = <<>>
      BY <1>5, <2>3, RequestEffect DEF TypeInv
    <3>2. Ids(answers') = A \o <<first>>
      BY <1>5, <2>3, RequestEffect, AnswerTypes
    <3> HIDE DEF A, first
    <3>3. A \o <<first>> = Append(A, first) /\ A \o <<first>> \in Seq(Nat)
      BY <1>1, <2>1, AppendIsConcat, AppendProperties
    <3>4. (A \o <<first>>) \o <<>> = A \o <<first>> /\ A \o <<>> = A
      BY <1>1, <3>3, ConcatEmptySeq
    <3>5. Append(A, Head(requests)) \o Tail(requests) = A \o requests
      BY <1>1, <2>1, HeadMoves
    <3>6. QED BY <1>2, <1>3, <2>1, <3>1, <3>2, <3>3, <3>4, <3>5 DEF first
  <2>4. QED BY <2>2, <2>3
<1>6. QED BY <1>4, <1>5

\* A worker that stops leaves the answers it has sent.
LEMMA StopLeavesAnswers ==
    ASSUME TypeInv, WorkerStops
    PROVE  Underway' = Ids(answers)
<1>1. Ids(answers) \in Seq(Nat)
  BY QueueTypes
<1>2. Underway' = (Ids(answers) \o <<>>) \o <<>>
  BY DEF Underway, Ids, WorkerStops
<1>3. QED BY <1>1, <1>2, ConcatEmptySeq

-----------------------------------------------------------------------------
(* Order *)

\* What has been performed is older than what still waits, and only what has been
\* performed is answered.
PerformedInOrder ==
    /\ \A old \in performed :
          /\ \A i \in 1..Len(suspended) : old < suspended[i]
          /\ \A i \in 1..Len(requests) : old < requests[i]
    /\ \A i \in 1..Len(answers) :
          answers[i].how = "answered" => answers[i].id \in performed

LEMMA OrderNext ==
    ASSUME TypeInv, MessagesInOrder, [Next]_vars
    PROVE  MessagesInOrder'
<1>1. Ascending(Underway) /\ Underway \in Seq(Nat) /\ nextId \in Nat
  BY UnderwayTypes, QueueTypes DEF MessagesInOrder, Ascending
<1>2. Ascending(Underway') => MessagesInOrder'
  BY DEF MessagesInOrder, Ascending
<1>3. CASE OnMessage \/ OnMessageError
  <2>1. Underway' = Tail(Underway) /\ Underway # <<>>
    BY <1>3, AnswerLeaves DEF OnMessage, OnMessageError, workerVars
  <2>2. QED BY <1>1, <1>2, <2>1, TailAscending
<1>4. CASE RequestSent
  <2>1. \A i \in 1..Len(Underway) : Underway[i] \in 1..nextId - 1
    BY UnderwayTypes, ElementOfSeq
  <2>2. \A i \in 1..Len(Underway) : Underway[i] < nextId
    BY <1>1, <2>1
  <2>3. QED BY <1>1, <1>2, <1>4, <2>2, AppendAscending, RequestJoins
<1>5. CASE WasmReady \/ WasmFails \/ OnRequest
  BY <1>1, <1>2, <1>5, WorkerKeepsQueue
<1>6. CASE WorkerStops
  <2>1. /\ Ids(answers) \in Seq(Nat) /\ suspended \in Seq(Nat) /\ requests \in Seq(Nat)
        /\ Ids(answers) \o suspended \in Seq(Nat)
    BY QueueTypes, ConcatProperties
  <2>2. Ascending(Ids(answers) \o suspended)
    BY <1>1, <2>1, UnderwayQueue, ConcatAscending
  <2>3. Ascending(Ids(answers))
    BY <2>1, <2>2, ConcatAscending
  <2>4. QED BY <1>2, <1>6, <2>3, StopLeavesAnswers
<1>7. CASE RequestRefused \/ SendFails \/ OnError \/ ScriptEvaluated \/ UNCHANGED vars
  <2>1. UNCHANGED <<answers, suspended, requests>>
    BY <1>7 DEF RequestRefused, SendFails, OnError, ScriptEvaluated, vars, workerVars, clientVars
  <2>2. Underway' = Underway
    BY <2>1 DEF Underway
  <2>3. QED BY <1>1, <1>2, <2>2
<1>8. QED BY <1>3, <1>4, <1>5, <1>6, <1>7 DEF Next, PageTask

\* Requests are younger than the handlers that wait, and in order themselves.
LEMMA WaitingInOrder ==
    ASSUME TypeInv, MessagesInOrder
    PROVE  /\ \A i \in 1..Len(suspended), j \in 1..Len(requests) : suspended[i] < requests[j]
           /\ Ascending(requests)
           /\ Ascending(Ids(answers) \o (suspended \o requests))
<1>1. /\ Ids(answers) \in Seq(Nat) /\ suspended \in Seq(Nat) /\ requests \in Seq(Nat)
      /\ suspended \o requests \in Seq(Nat)
  BY QueueTypes, ConcatProperties
<1>2. Underway = Ids(answers) \o (suspended \o requests)
  <2> DEFINE A == Ids(answers)
  <2>1. Underway = (A \o suspended) \o requests /\ A \in Seq(Nat)
    BY <1>1, UnderwayQueue
  <2> HIDE DEF A
  <2>2. (A \o suspended) \o requests = A \o (suspended \o requests)
    <3>1. A \in Seq(Nat) /\ suspended \in Seq(Nat) /\ requests \in Seq(Nat)
      BY <1>1, <2>1
    <3>2. QED BY <3>1, ConcatAssociative
  <2>3. QED BY <2>1, <2>2 DEF A
<1>3. Ascending(Ids(answers) \o (suspended \o requests))
  BY <1>2 DEF MessagesInOrder, Ascending
<1>4. Ascending(suspended \o requests)
  BY <1>1, <1>3, ConcatAscending
<1>5. QED BY <1>1, <1>3, <1>4, ConcatAscending

LEMMA AnswersArePerformed ==
    ASSUME TypeInv, PerformedInOrder, NEW ids, NEW how, Answers(ids, how),
           \/ performed' = performed \cup {ids[i] : i \in 1..Len(ids)}
           \/ UNCHANGED performed /\ \A i \in 1..Len(ids) : how[i] = "failed"
    PROVE  \A i \in 1..Len(answers') :
              answers'[i].how = "answered" => answers'[i].id \in performed'
<1> SUFFICES ASSUME NEW i \in 1..Len(answers'), answers'[i].how = "answered"
             PROVE  answers'[i].id \in performed'
  OBVIOUS
<1>1. CASE \E j \in 1..Len(answers) : answers'[i] = answers[j]
  BY <1>1 DEF PerformedInOrder
<1>2. CASE \E j \in 1..Len(ids) : answers'[i] = [id |-> ids[j], how |-> how[j]]
  BY <1>2
<1>3. QED BY <1>1, <1>2, AnswerTypes

LEMMA PerformedNext ==
    ASSUME TypeInv, MessagesInOrder, PerformedInOrder, [Next]_vars
    PROVE  PerformedInOrder'
<1>1. CASE RequestSent
  <2>1. /\ UNCHANGED <<performed, suspended, answers>> /\ requests' = Append(requests, nextId)
        /\ performed \subseteq 1..nextId - 1 /\ requests \in Seq(Nat) /\ nextId \in Nat
    BY <1>1, QueueTypes DEF RequestSent, workerVars, TypeInv, TypeOK
  <2>2. \A old \in performed : old < nextId
    BY <2>1
  <2>3. /\ Len(requests') = Len(requests) + 1 /\ Len(requests) \in Nat
        /\ \A i \in 1..Len(requests) : requests'[i] = requests[i]
        /\ requests'[Len(requests) + 1] = nextId
    BY <2>1, AppendProperties, LenProperties
  <2>4. \A old \in performed, i \in 1..Len(requests') : old < requests'[i]
    BY <2>2, <2>3 DEF PerformedInOrder
  <2>5. QED BY <2>1, <2>4 DEF PerformedInOrder
<1>2. CASE OnMessage \/ OnMessageError
  <2>1. UNCHANGED <<performed, suspended, requests>> /\ answers # <<>> /\ answers' = Tail(answers)
    BY <1>2 DEF OnMessage, OnMessageError, workerVars
  <2>2. /\ Len(answers') = Len(answers) - 1 /\ Len(answers) \in Nat
        /\ \A i \in 1..Len(answers') : answers'[i] = answers[i + 1]
    BY <2>1, QueueTypes, HeadTailProperties, LenProperties
  <2>3. \A i \in 1..Len(answers') : i + 1 \in 1..Len(answers)
    BY <2>2
  <2>4. QED BY <2>1, <2>2, <2>3 DEF PerformedInOrder
<1>3. CASE WorkerStops
  <2>1. UNCHANGED <<performed, answers>> /\ Len(suspended') = 0 /\ Len(requests') = 0
    BY <1>3, EmptySeq DEF WorkerStops
  <2>2. QED BY <2>1 DEF PerformedInOrder
<1>4. CASE WasmReady \/ WasmFails
  <2>1. PICK how \in [1..Len(suspended) -> {"answered", "failed"}] :
            /\ Answers(suspended, how)
            /\ \/ performed' = performed \cup Range(suspended)
               \/ UNCHANGED performed /\ \A i \in 1..Len(suspended) : how[i] = "failed"
    BY <1>4, WasmEffect
  <2>2. Range(suspended) = {suspended[i] : i \in 1..Len(suspended)}
    BY QueueTypes, LenProperties DEF Range
  <2>3. \A i \in 1..Len(answers') : answers'[i].how = "answered" => answers'[i].id \in performed'
    BY <2>1, <2>2, AnswersArePerformed
  <2>4. Len(suspended') = 0 /\ requests' = requests
    BY <1>4, EmptySeq DEF WasmReady, WasmFails
  <2>5. \A old \in performed', i \in 1..Len(requests) : old < requests[i]
    BY <2>1, <2>2, WaitingInOrder DEF PerformedInOrder
  <2>6. QED BY <2>3, <2>4, <2>5 DEF PerformedInOrder
<1>5. CASE OnRequest
  <2> DEFINE first == Head(requests)
  <2>1. /\ requests # <<>> /\ requests' = Tail(requests) /\ requests \in Seq(Nat)
        /\ first = requests[1] /\ 1 \in 1..Len(requests) /\ Len(requests) \in Nat
        /\ Len(requests') = Len(requests) - 1
        /\ \A i \in 1..Len(requests') : requests'[i] = requests[i + 1]
    BY <1>5, QueueTypes, HeadTailProperties, LenProperties, EmptySeq DEF OnRequest
  <2>2. /\ \A old \in performed : old < first
        /\ \A old \in performed, i \in 1..Len(requests') : old < requests'[i]
    <3>1. \A i \in 1..Len(requests') : i + 1 \in 1..Len(requests)
      BY <2>1
    <3>2. QED BY <2>1, <3>1 DEF PerformedInOrder
  <2>3. \A i \in 1..Len(requests') : first < requests'[i]
    BY <2>1, WaitingInOrder, TailAscending
  <2> HIDE DEF first
  <2>4. CASE executor = "loading"
    <3>1. suspended' = Append(suspended, first) /\ UNCHANGED <<performed, answers>>
      BY <1>5, <2>4, RequestEffect DEF first
    <3>2. /\ Len(suspended') = Len(suspended) + 1 /\ Len(suspended) \in Nat
          /\ \A i \in 1..Len(suspended) : suspended'[i] = suspended[i]
          /\ suspended'[Len(suspended) + 1] = first
      <4>1. suspended \in Seq(Nat) /\ first \in Nat
        BY <2>1, QueueTypes, ElementOfSeq
      <4>2. QED BY <3>1, <4>1, AppendProperties, LenProperties
    <3>3. \A old \in performed, i \in 1..Len(suspended') : old < suspended'[i]
      BY <2>2, <3>2 DEF PerformedInOrder
    <3>4. QED BY <2>2, <3>1, <3>3 DEF PerformedInOrder
  <2>5. CASE executor # "loading"
    <3>1. PICK how \in [1..1 -> {"answered", "failed"}] :
              /\ Answers(<<first>>, how)
              /\ \/ performed' = performed \cup {first}
                 \/ UNCHANGED performed /\ how[1] = "failed"
      BY <1>5, <2>5, RequestEffect DEF first
    <3>2. Len(<<first>>) = 1 /\ {<<first>>[i] : i \in 1..1} = {first}
      OBVIOUS
    <3>3. \A i \in 1..Len(answers') : answers'[i].how = "answered" => answers'[i].id \in performed'
      BY <3>1, <3>2, AnswersArePerformed
    <3>4. Len(suspended') = 0
      BY <1>5, <2>5, RequestEffect, EmptySeq DEF TypeInv
    <3>5. \A old \in performed', i \in 1..Len(requests') : old < requests'[i]
      BY <2>2, <2>3, <3>1
    <3>6. QED BY <3>3, <3>4, <3>5 DEF PerformedInOrder
  <2>6. QED BY <2>4, <2>5
<1>6. CASE RequestRefused \/ SendFails \/ OnError \/ ScriptEvaluated \/ UNCHANGED vars
  <2>1. UNCHANGED <<answers, suspended, requests, performed>>
    BY <1>6 DEF RequestRefused, SendFails, OnError, ScriptEvaluated, vars, workerVars, clientVars
  <2>2. QED BY <2>1 DEF PerformedInOrder
<1>7. QED BY <1>1, <1>2, <1>3, <1>4, <1>5, <1>6 DEF Next, PageTask

-----------------------------------------------------------------------------
(* No call is forgotten *)

OnItsWay(id) == \E i \in 1..Len(Underway) : Underway[i] = id

LEMMA OpenCalls ==
    ASSUME TypeInv, NoCallForgotten, [Next]_vars
    PROVE  pending' = {id \in DOMAIN outcome' : outcome'[id] = "open"}
<1>1. /\ outcome \in Seq({"open", "answered", "failed"})
      /\ DOMAIN outcome = 1..Len(outcome) /\ Len(outcome) \in Nat
      /\ pending = {id \in 1..Len(outcome) : outcome[id] = "open"}
  BY LenProperties DEF TypeInv, TypeOK, NoCallForgotten
<1>2. ASSUME NEW how \in {"open", "failed"}, outcome' = Append(outcome, how)
      PROVE  /\ DOMAIN outcome' = 1..Len(outcome) + 1
             /\ \A id \in 1..Len(outcome) : outcome'[id] = outcome[id]
             /\ outcome'[Len(outcome) + 1] = how
  BY <1>1, <1>2, AppendProperties, LenProperties
<1>3. CASE RequestRefused \/ SendFails
  <2>1. outcome' = Append(outcome, "failed") /\ UNCHANGED pending
    BY <1>3 DEF RequestRefused, SendFails
  <2>2. QED BY <1>1, <1>2, <2>1
<1>4. CASE RequestSent
  <2>1. /\ outcome' = Append(outcome, "open") /\ pending' = pending \cup {nextId}
        /\ nextId = Len(outcome) + 1
    BY <1>4 DEF RequestSent, TypeInv, TypeOK
  <2>2. QED BY <1>1, <1>2, <2>1
<1>5. CASE MarkUnavailable
  BY <1>1, <1>5 DEF MarkUnavailable
<1>6. CASE OnMessage
  <2> DEFINE answer == Head(answers)
  <2>1. answer.how \in {"answered", "failed"}
    <3>1. answer \in Messages(Nat)
      BY <1>6, QueueTypes, HeadTailProperties DEF OnMessage
    <3>2. QED BY <3>1 DEF Messages
  <2>2. /\ pending' = pending \ {answer.id}
        /\ outcome' = IF answer.id \in pending
                      THEN [outcome EXCEPT ![answer.id] = answer.how] ELSE outcome
    BY <1>6 DEF OnMessage
  <2> HIDE DEF answer
  <2>3. CASE answer.id \in pending
    <3>1. /\ DOMAIN outcome' = 1..Len(outcome)
          /\ \A id \in 1..Len(outcome) :
                outcome'[id] = IF id = answer.id THEN answer.how ELSE outcome[id]
      BY <1>1, <2>2, <2>3
    <3>2. QED BY <1>1, <2>1, <2>2, <3>1
  <2>4. CASE answer.id \notin pending
    BY <1>1, <2>2, <2>4
  <2>5. QED BY <2>3, <2>4
<1>7. CASE ScriptEvaluated \/ WorkerStops \/ WasmReady \/ WasmFails \/ OnRequest \/ UNCHANGED vars
  <2>1. UNCHANGED <<pending, outcome>>
    BY <1>7 DEF ScriptEvaluated, WorkerStops, WasmReady, WasmFails, OnRequest, vars, clientVars
  <2>2. QED BY <1>1, <2>1
<1>8. QED BY <1>3, <1>4, <1>5, <1>6, <1>7 DEF Next, PageTask, OnMessageError, OnError

LEMMA ForgottenNext ==
    ASSUME TypeInv, NoCallForgotten, [Next]_vars
    PROVE  NoCallForgotten'
<1>1. /\ Underway \in Seq(Nat) /\ nextId \in Nat
      /\ \A id \in pending : errorEvent \/ OnItsWay(id)
  BY UnderwayTypes, QueueTypes DEF NoCallForgotten, OnItsWay
<1>2. ASSUME \A id \in pending' : errorEvent' \/ \E i \in 1..Len(Underway') : Underway'[i] = id
      PROVE  NoCallForgotten'
  BY <1>2, OpenCalls DEF NoCallForgotten
<1>3. CASE RequestSent
  <2>1. /\ Underway' = Append(Underway, nextId) /\ UNCHANGED errorEvent
        /\ pending' = pending \cup {nextId}
    BY <1>3, RequestJoins DEF RequestSent
  <2>2. /\ Len(Underway') = Len(Underway) + 1 /\ Len(Underway) \in Nat
        /\ \A i \in 1..Len(Underway) : Underway'[i] = Underway[i]
        /\ Underway'[Len(Underway) + 1] = nextId
    BY <1>1, <2>1, AppendProperties, LenProperties
  <2>3. 1..Len(Underway) \subseteq 1..Len(Underway') /\ Len(Underway) + 1 \in 1..Len(Underway')
    BY <2>2
  <2>4. QED BY <1>1, <1>2, <2>1, <2>2, <2>3 DEF OnItsWay
<1>4. CASE MarkUnavailable
  BY <1>2, <1>4 DEF MarkUnavailable
<1>5. CASE OnMessage
  <2>1. /\ Underway' = Tail(Underway) /\ Underway # <<>>
        /\ Head(Underway) = Head(answers).id
        /\ UNCHANGED errorEvent /\ pending' = pending \ {Head(answers).id}
    BY <1>5, AnswerLeaves DEF OnMessage, workerVars
  <2>2. /\ Len(Underway') = Len(Underway) - 1 /\ Len(Underway) \in Nat
        /\ \A i \in 1..Len(Underway') : Underway'[i] = Underway[i + 1]
        /\ Head(Underway) = Underway[1]
    BY <1>1, <2>1, HeadTailProperties, LenProperties
  <2>3. ASSUME NEW id \in pending', NEW i \in 1..Len(Underway), Underway[i] = id
        PROVE  \E j \in 1..Len(Underway') : Underway'[j] = id
    <3>1. i # 1
      BY <2>1, <2>2, <2>3
    <3>2. i - 1 \in 1..Len(Underway') /\ (i - 1) + 1 = i
      BY <2>2, <3>1
    <3>3. QED BY <2>2, <2>3, <3>2
  <2>4. QED BY <1>1, <1>2, <2>1, <2>3 DEF OnItsWay
<1>6. CASE WorkerStops
  BY <1>2, <1>6 DEF WorkerStops
<1>7. CASE WasmReady \/ WasmFails \/ OnRequest
  <2>1. UNCHANGED <<pending, errorEvent>>
    BY <1>7 DEF WasmReady, WasmFails, OnRequest, clientVars
  <2>2. QED BY <1>1, <1>2, <1>7, <2>1, WorkerKeepsQueue DEF OnItsWay
<1>8. CASE RequestRefused \/ SendFails \/ ScriptEvaluated \/ UNCHANGED vars
  <2>1. UNCHANGED <<pending, errorEvent, answers, suspended, requests>>
    BY <1>8 DEF RequestRefused, SendFails, ScriptEvaluated, vars, workerVars, clientVars
  <2>2. Underway' = Underway
    BY <2>1 DEF Underway
  <2>3. QED BY <1>1, <1>2, <2>1, <2>2 DEF OnItsWay
<1>9. QED BY <1>3, <1>4, <1>5, <1>6, <1>7, <1>8 DEF Next, PageTask, OnMessageError, OnError

-----------------------------------------------------------------------------
(* The invariant and what follows from it *)

ClientInv == TypeInv /\ MessagesInOrder /\ PerformedInOrder /\ NoCallForgotten

LEMMA ClientInvInit == Init => ClientInv
<1> SUFFICES ASSUME Init PROVE ClientInv
  OBVIOUS
<1>1. TypeInv
  BY TypeInvInit
<1>2. Len(answers) = 0 /\ Len(suspended) = 0 /\ Len(requests) = 0 /\ performed = {}
  BY EmptySeq DEF Init
<1>3. PerformedInOrder
  BY <1>2 DEF PerformedInOrder
<1>4. Len(Underway) = 0
  <2>1. /\ Ids(answers) \in Seq(Nat) /\ Len(Ids(answers)) = 0
        /\ suspended \in Seq(Nat) /\ requests \in Seq(Nat)
    BY <1>1, <1>2, QueueTypes, IdsType
  <2> DEFINE A == Ids(answers)
  <2> HIDE DEF A
  <2>2. A \o suspended \in Seq(Nat) /\ Len(A \o suspended) = 0
    BY <1>2, <2>1, ConcatProperties DEF A
  <2>3. Len((A \o suspended) \o requests) = 0
    BY <1>2, <2>1, <2>2, ConcatProperties
  <2>4. QED BY <2>3, UnderwayQueue DEF A
<1>5. MessagesInOrder
  BY <1>4 DEF MessagesInOrder
<1>6. NoCallForgotten
  BY DEF Init, NoCallForgotten
<1>7. QED BY <1>1, <1>3, <1>5, <1>6 DEF ClientInv

LEMMA ClientInvariant == Spec => []ClientInv
<1>1. ClientInv /\ [Next]_vars => ClientInv'
  BY TypeInvNext, OrderNext, PerformedNext, ForgottenNext DEF ClientInv
<1>2. QED BY <1>1, ClientInvInit, PTL DEF Spec

\* Answers, handlers waiting for WASM and requests are one ascending queue, through
\* start-up and every failure (client.ts:26-55, executor.worker.ts).
THEOREM MessagesStayInOrder == Spec => []MessagesInOrder
<1>1. ClientInv => MessagesInOrder
  BY DEF ClientInv
<1>2. QED BY <1>1, ClientInvariant, PTL

\* An open promise is one the client waits for, with a message or an error event
\* under way that settles it (client.ts:13-19, 74-82).
THEOREM CallsAreNotForgotten == Spec => []NoCallForgotten
<1>1. ClientInv => NoCallForgotten
  BY DEF ClientInv
<1>2. QED BY <1>1, ClientInvariant, PTL

-----------------------------------------------------------------------------
(* The service *)

\* Giving up on all open calls fails exactly those.
LEMMA UnavailableIsFail ==
    ASSUME ClientInv, MarkUnavailable, UNCHANGED performed
    PROVE  Service!Next \/ UNCHANGED Service!serviceVars
<1>1. /\ outcome \in Seq({"open", "answered", "failed"})
      /\ pending = {id \in DOMAIN outcome : outcome[id] = "open"}
      /\ outcome' = [id \in DOMAIN outcome |-> IF id \in pending THEN "failed" ELSE outcome[id]]
  BY DEF ClientInv, TypeInv, TypeOK, NoCallForgotten, MarkUnavailable
<1>2. CASE pending = {}
  <2>1. outcome' = outcome
    <3>1. outcome = [id \in DOMAIN outcome |-> outcome[id]]
      BY <1>1, LenProperties
    <3>2. QED BY <1>1, <1>2, <3>1
  <2>2. QED BY <2>1 DEF Service!serviceVars
<1>3. CASE pending # {}
  <2>1. Service!Fail(pending) /\ pending \in SUBSET DOMAIN outcome
    BY <1>1, <1>3 DEF Service!Fail
  <2>2. QED BY <2>1 DEF Service!Next
<1>4. QED BY <1>2, <1>3

\* An answer settles its call if that is still open.
LEMMA AnswerIsSettling ==
    ASSUME ClientInv, OnMessage
    PROVE  Service!Next \/ UNCHANGED Service!serviceVars
<1> DEFINE answer == Head(answers)
<1>1. /\ UNCHANGED performed
      /\ pending = {id \in DOMAIN outcome : outcome[id] = "open"}
      /\ outcome' = IF answer.id \in pending
                    THEN [outcome EXCEPT ![answer.id] = answer.how] ELSE outcome
  BY DEF ClientInv, NoCallForgotten, OnMessage, workerVars
<1>2. answer \in Messages(Nat) /\ (answer.how = "answered" => answer.id \in performed)
  <2>1. answers \in Seq(Messages(Nat)) /\ answers # <<>> /\ 1 \in 1..Len(answers)
    BY QueueTypes, LenProperties, EmptySeq DEF ClientInv, OnMessage
  <2>2. answer = answers[1] /\ answer \in Messages(Nat)
    BY <2>1, HeadTailProperties
  <2>3. QED BY <2>1, <2>2 DEF ClientInv, PerformedInOrder
<1> HIDE DEF answer
<1>3. CASE answer.id \notin pending
  BY <1>1, <1>3 DEF Service!serviceVars
<1>4. CASE answer.id \in pending /\ answer.how = "answered"
  <2>1. Service!Answer(answer.id) /\ answer.id \in DOMAIN outcome
    BY <1>1, <1>2, <1>4 DEF Service!Answer
  <2>2. QED BY <2>1 DEF Service!Next
<1>5. CASE answer.id \in pending /\ answer.how = "failed"
  <2>1. /\ outcome' = [call \in DOMAIN outcome |->
                          IF call \in {answer.id} THEN "failed" ELSE outcome[call]]
        /\ outcome[answer.id] = "open" /\ answer.id \in DOMAIN outcome
    BY <1>1, <1>5
  <2>2. Service!Fail({answer.id}) /\ {answer.id} \in SUBSET DOMAIN outcome
    BY <1>1, <2>1 DEF Service!Fail
  <2>3. QED BY <2>2 DEF Service!Next
<1>6. QED BY <1>2, <1>3, <1>4, <1>5 DEF Messages

\* What the worker hands to dispatch is younger than all it has performed.
LEMMA DispatchIsPerform ==
    ASSUME ClientInv, WasmReady \/ WasmFails \/ OnRequest
    PROVE  Service!Next \/ UNCHANGED Service!serviceVars
<1>1. UNCHANGED outcome
  BY DEF WasmReady, WasmFails, OnRequest, clientVars
<1>2. 1..nextId - 1 \subseteq DOMAIN outcome
  <2>1. nextId \in Nat /\ nextId <= Len(outcome) + 1
        /\ DOMAIN outcome = 1..Len(outcome) /\ Len(outcome) \in Nat
    BY QueueTypes, LenProperties DEF ClientInv, TypeInv, TypeOK
  <2>2. QED BY <2>1
<1>3. ASSUME NEW calls \in SUBSET (1..nextId - 1), performed' = performed \cup calls,
             \A old \in performed, new \in calls : old < new
      PROVE  Service!Next \/ UNCHANGED Service!serviceVars
  <2>1. CASE calls = {}
    BY <1>1, <1>3, <2>1 DEF Service!serviceVars
  <2>2. CASE calls # {}
    <3>1. Service!Perform(calls) /\ calls \in SUBSET DOMAIN outcome
      BY <1>1, <1>2, <1>3, <2>2 DEF Service!Perform
    <3>2. QED BY <3>1 DEF Service!Next
  <2>3. QED BY <2>1, <2>2
<1>4. CASE UNCHANGED performed
  BY <1>1, <1>4 DEF Service!serviceVars
<1>5. CASE performed' = performed \cup Range(suspended)
  <2>1. suspended \in Seq(1..nextId - 1) /\ DOMAIN suspended = 1..Len(suspended)
    BY QueueTypes, LenProperties DEF ClientInv
  <2>2. \A i \in 1..Len(suspended) : suspended[i] \in 1..nextId - 1
    BY <2>1, ElementOfSeq
  <2>3. Range(suspended) \in SUBSET (1..nextId - 1)
    BY <2>1, <2>2 DEF Range
  <2>4. \A old \in performed, new \in Range(suspended) : old < new
    BY <2>1 DEF ClientInv, PerformedInOrder, Range
  <2>5. QED BY <1>3, <1>5, <2>3, <2>4
<1>6. CASE OnRequest /\ performed' = performed \cup {Head(requests)}
  <2>1. Head(requests) \in 1..nextId - 1
    BY <1>6, RequestEffect DEF ClientInv
  <2>2. Head(requests) = requests[1] /\ 1 \in 1..Len(requests)
    BY <1>6, QueueTypes, HeadTailProperties, EmptySeq, LenProperties DEF ClientInv, OnRequest
  <2>3. \A old \in performed : old < Head(requests)
    BY <2>2 DEF ClientInv, PerformedInOrder
  <2>4. {Head(requests)} \in SUBSET (1..nextId - 1)
    BY <2>1
  <2>5. \A old \in performed, new \in {Head(requests)} : old < new
    BY <2>3
  <2>6. QED BY <1>3, <1>6, <2>4, <2>5
<1>7. QED BY <1>4, <1>5, <1>6, WasmEffect, RequestEffect DEF ClientInv

LEMMA StepIsServiceStep ==
    ClientInv /\ [Next]_vars => [Service!Next]_Service!serviceVars
<1> SUFFICES ASSUME ClientInv, [Next]_vars
             PROVE  Service!Next \/ UNCHANGED Service!serviceVars
  OBVIOUS
<1>1. CASE RequestRefused \/ RequestSent \/ SendFails
  <2>1. \E how \in {"open", "failed"} : Service!Issue(how)
    BY <1>1 DEF RequestRefused, RequestSent, SendFails, workerVars, Service!Issue
  <2>2. QED BY <2>1 DEF Service!Next
<1>2. CASE OnMessage
  BY <1>2, AnswerIsSettling
<1>3. CASE OnMessageError \/ OnError
  BY <1>3, UnavailableIsFail DEF OnMessageError, OnError, workerVars
<1>4. CASE WasmReady \/ WasmFails \/ OnRequest
  BY <1>4, DispatchIsPerform
<1>5. CASE ScriptEvaluated \/ WorkerStops \/ UNCHANGED vars
  <2>1. UNCHANGED <<outcome, performed>>
    BY <1>5 DEF ScriptEvaluated, WorkerStops, vars, clientVars, workerVars
  <2>2. QED BY <2>1 DEF Service!serviceVars
<1>6. QED BY <1>1, <1>2, <1>3, <1>4, <1>5 DEF Next, PageTask

\* The client and its worker are the ordered service the page relies on: calls are
\* performed in order and at most once, an answer is that of a performed call, and
\* a settled call stays settled (client.ts, executor.worker.ts).
THEOREM ClientIsOrderedService == Spec => ImplementsService
<1>1. Init => Service!Init
  BY DEF Init, Service!Init
<1>2. QED BY <1>1, ClientInvariant, StepIsServiceStep, PTL DEF Spec, ImplementsService, Service!Spec
===============================================================================

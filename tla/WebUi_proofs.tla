----------------------------- MODULE WebUi_proofs -----------------------------
(* The invariants of the page for every set of addresses, ABIs and files and   *)
(* every number of calls.  The argument: calls settle in the order they were    *)
(* made, so what the executor holds is what the page will hold once the answers *)
(* it has not handled yet are applied, the last one for each address deciding.  *)
EXTENDS WebUi, TLAPS, SequenceTheorems

-----------------------------------------------------------------------------
(* The inductive invariant *)

\* The calls the page makes, each with the parts its kind needs.
GoodCalls ==
    {call \in CallSet :
        /\ call.kind = "addBatch" => call.files # <<>>
        /\ call.kind # "addBatch" => call.address \in Addresses
        /\ call.kind \in {"loadAbi", "saveAbi"} => call.json \in Texts
        /\ call.kind = "execute" => call.json \in Abis \cup {None}}

\* The executor accepts no ABI it cannot parse.
GoodAnswers ==
    {answer \in AnswerSet :
        /\ answer.call \in GoodCalls
        /\ answer.ok /\ answer.call.kind \in {"loadAbi", "saveAbi"} => answer.call.json \in Abis}

TypeInv ==
    /\ TypeOK
    /\ requests \in Seq(GoodCalls) /\ answers \in Seq(GoodAnswers)

\* A client that has given its worker up passes no success on.
FailedMeansRefused == unavailable => \A i \in 1..Len(answers) : ~answers[i].ok

\* The answers that still change what the page holds of an account, or of an ABI.
ToList(answer, address) ==
    /\ answer.ok
    /\ \/ answer.call.kind = "addBatch" /\ address \in Head(answer.call.files)
       \/ answer.call.kind = "removeSnapshot" /\ answer.call.address = address
ToDescribe(answer, address) ==
    answer.ok /\ answer.call.kind \in AbiKinds /\ answer.call.address = address

\* The last such answer says what the executor holds; without one the page does.
ListCatchesUp ==
    unavailable \/ \A address \in Addresses :
        /\ \A i \in 1..Len(answers) :
              ToList(answers[i], address)
              /\ (\A j \in i + 1..Len(answers) : ~ToList(answers[j], address))
                  => (address \in loaded <=> answers[i].call.kind = "addBatch")
        /\ (\A i \in 1..Len(answers) : ~ToList(answers[i], address))
              => (address \in accounts <=> address \in loaded)

InForce(call) == IF call.kind = "removeAbi" THEN None ELSE call.json

\* A description is that of the ABI in force, or storing the ABI in force failed.
Agrees(description, accepted, held) ==
    description \in {None, held} \/ (accepted # None /\ held = accepted)

DescriptionCatchesUp ==
    unavailable \/ \A address \in Addresses :
        /\ \A i \in 1..Len(answers) :
              ToDescribe(answers[i], address)
              /\ (\A j \in i + 1..Len(answers) : ~ToDescribe(answers[j], address))
                  => installed[address] = InForce(answers[i].call)
        /\ (\A i \in 1..Len(answers) : ~ToDescribe(answers[i], address))
              => Agrees(descriptions[address], unsaved[address], installed[address])

\* The form shows the description of its target, or will when its ABI has loaded.
FormCatchesUp ==
    \/ target = None \/ shown = descriptions[target]
    \/ \E i \in 1..Len(Underway) : Underway[i].kind = "loadAbi" /\ Underway[i].address = target

\* A call made at rest is still to be performed with the ABI it was encoded for.
AtRestCall(call) == call.kind = "execute" /\ call.settled /\ call.json # None
RequestsKeepTheirAbi ==
    \A i \in 1..Len(requests) : AtRestCall(requests[i]) =>
        /\ requests[i].outputs = requests[i].json
        /\ unavailable \/ installed[requests[i].address] = requests[i].json
        /\ \A j \in 1..i - 1 :
              ~(requests[j].kind \in AbiKinds /\ requests[j].address = requests[i].address)

AsEncoded(answer) ==
    answer.ok /\ AtRestCall(answer.call) =>
        answer.with = answer.call.json /\ answer.call.outputs = answer.call.json
AnswersKeepTheirAbi ==
    /\ \A i \in 1..Len(answers) : AsEncoded(answers[i])
    /\ \A answer \in result : AsEncoded(answer) /\ answer.ok /\ answer.call.kind = "execute"

UiInv ==
    /\ TypeInv
    /\ FailedMeansRefused
    /\ ListCatchesUp
    /\ DescriptionCatchesUp
    /\ FormCatchesUp
    /\ RequestsKeepTheirAbi
    /\ AnswersKeepTheirAbi
    /\ BusyWhileCalling

-----------------------------------------------------------------------------
(* The calls under way *)

Joined(done, waiting) == [i \in DOMAIN done |-> done[i].call] \o waiting

LEMMA JoinedIs ==
    ASSUME NEW done \in Seq(GoodAnswers), NEW waiting \in Seq(GoodCalls)
    PROVE  LET calls1 == Joined(done, waiting)
           IN /\ Len(done) \in Nat /\ Len(waiting) \in Nat
              /\ DOMAIN done = 1..Len(done) /\ DOMAIN waiting = 1..Len(waiting)
              /\ calls1 \in Seq(GoodCalls) /\ Len(calls1) = Len(done) + Len(waiting)
              /\ DOMAIN calls1 = 1..Len(calls1)
              /\ \A i \in 1..Len(done) : calls1[i] = done[i].call
              /\ \A i \in 1..Len(waiting) : calls1[Len(done) + i] = waiting[i]
<1> DEFINE made == [i \in DOMAIN done |-> done[i].call]
<1>1. /\ Len(done) \in Nat /\ DOMAIN done = 1..Len(done)
      /\ Len(waiting) \in Nat /\ DOMAIN waiting = 1..Len(waiting)
  BY LenProperties
<1>2. \A i \in 1..Len(done) : done[i].call \in GoodCalls
  <2>1. \A i \in 1..Len(done) : done[i] \in GoodAnswers
    BY ElementOfSeq
  <2>2. QED BY <2>1 DEF GoodAnswers
<1>3. made \in Seq(GoodCalls) /\ Len(made) = Len(done)
      /\ \A i \in 1..Len(done) : made[i] = done[i].call
  <2>1. made \in [1..Len(done) -> GoodCalls] /\ \A i \in 1..Len(done) : made[i] = done[i].call
    BY <1>1, <1>2
  <2> HIDE DEF made
  <2>2. made \in Seq(GoodCalls) /\ Len(made) = Len(done)
    BY <1>1, <2>1
  <2>3. QED BY <2>1, <2>2
<1> DEFINE whole == made \o waiting
<1>4. Joined(done, waiting) = whole
  BY DEF Joined
<1> HIDE DEF made
<1>5. /\ whole \in Seq(GoodCalls) /\ Len(whole) = Len(made) + Len(waiting)
      /\ \A i \in 1..Len(made) + Len(waiting) :
            whole[i] = IF i <= Len(made) THEN made[i] ELSE waiting[i - Len(made)]
  BY <1>3, ConcatProperties
<1> HIDE DEF whole
<1>6. DOMAIN whole = 1..Len(whole)
  BY <1>5, LenProperties
<1>7. \A i \in 1..Len(done) : whole[i] = done[i].call
  BY <1>1, <1>3, <1>5
<1>8. ASSUME NEW i \in 1..Len(waiting) PROVE whole[Len(done) + i] = waiting[i]
  <2>1. /\ Len(done) + i \in 1..Len(made) + Len(waiting)
        /\ ~(Len(done) + i <= Len(made)) /\ (Len(done) + i) - Len(made) = i
    BY <1>1, <1>3
  <2>2. QED BY <1>5, <2>1
<1>9. QED BY <1>1, <1>3, <1>4, <1>5, <1>6, <1>7, <1>8

\* The calls under way after a step: those from before but the first dropped ones,
\* and then the new ones.
Carries(old, now, dropped, new) ==
    /\ Len(old) \in Nat /\ Len(now) \in Nat
    /\ DOMAIN old = 1..Len(old) /\ DOMAIN now = 1..Len(now)
    /\ \A i \in dropped + 1..Len(old) :
          i - dropped \in 1..Len(now) /\ now[i - dropped] = old[i]
    /\ \A i \in 1..Len(now) :
          \/ i + dropped \in 1..Len(old) /\ now[i] = old[i + dropped]
          \/ i = Len(now) /\ now[i] \in new
    /\ \A call \in new : \E i \in 1..Len(now) : now[i] = call

LEMMA CarriesOn ==
    ASSUME NEW done \in Seq(GoodAnswers), NEW waiting \in Seq(GoodCalls)
    PROVE  Carries(Joined(done, waiting), Joined(done, waiting), 0, {})
<1> DEFINE old == Joined(done, waiting)
<1>1. Len(old) \in Nat /\ DOMAIN old = 1..Len(old)
  BY JoinedIs
<1> HIDE DEF old
<1>2. Carries(old, old, 0, {})
  BY <1>1 DEF Carries
<1>3. QED BY <1>2 DEF old

LEMMA CarriesSent ==
    ASSUME NEW done \in Seq(GoodAnswers), NEW waiting \in Seq(GoodCalls), NEW call \in GoodCalls
    PROVE  Carries(Joined(done, waiting), Joined(done, Append(waiting, call)), 0, {call})
<1> DEFINE more == Append(waiting, call)
           old == Joined(done, waiting)
           now == Joined(done, more)
           n == Len(done)  m == Len(waiting)
<1>1. /\ more \in Seq(GoodCalls) /\ Len(more) = m + 1 /\ more[m + 1] = call
      /\ \A i \in 1..m : more[i] = waiting[i]
  BY AppendProperties
<1>2. /\ n \in Nat /\ m \in Nat /\ Len(old) = n + m /\ DOMAIN old = 1..Len(old)
      /\ \A i \in 1..n : old[i] = done[i].call
      /\ \A i \in 1..m : old[n + i] = waiting[i]
  BY JoinedIs
<1> HIDE DEF more
<1>3. /\ Len(now) = n + Len(more) /\ DOMAIN now = 1..Len(now)
      /\ \A i \in 1..n : now[i] = done[i].call
      /\ \A i \in 1..Len(more) : now[n + i] = more[i]
  BY <1>1, JoinedIs
<1> HIDE DEF old, now, n, m
<1>4. ASSUME NEW i \in 1..n + m PROVE now[i] = old[i]
  <2>1. CASE i \in 1..n
    BY <2>1, <1>2, <1>3
  <2>2. CASE i \notin 1..n
    <3>1. i - n \in 1..m /\ n + (i - n) = i /\ i - n \in 1..m + 1
      BY <2>2, <1>2
    <3>2. old[i] = waiting[i - n]
      BY <3>1, <1>2
    <3>3. now[i] = more[i - n]
      BY <3>1, <1>1, <1>3
    <3>4. QED BY <3>1, <3>2, <3>3, <1>1
  <2>3. QED BY <2>1, <2>2
<1>5. now[n + m + 1] = call
  <2>1. m + 1 \in 1..Len(more) /\ n + (m + 1) = n + m + 1
    BY <1>1, <1>2
  <2>2. QED BY <2>1, <1>1, <1>3
<1>6. Len(now) = n + m + 1
  BY <1>1, <1>2, <1>3
<1>7. Carries(old, now, 0, {call})
  BY <1>2, <1>3, <1>4, <1>5, <1>6 DEF Carries
<1>8. QED BY <1>7 DEF old, now, more

LEMMA CarriesPerformed ==
    ASSUME NEW done \in Seq(GoodAnswers), NEW waiting \in Seq(GoodCalls), waiting # <<>>,
           NEW answer \in GoodAnswers, answer.call = Head(waiting)
    PROVE  Carries(Joined(done, waiting), Joined(Append(done, answer), Tail(waiting)), 0, {})
<1> DEFINE more == Append(done, answer)
           rest == Tail(waiting)
           old == Joined(done, waiting)
           now == Joined(more, rest)
           n == Len(done)  m == Len(waiting)
<1>1. /\ more \in Seq(GoodAnswers) /\ Len(more) = n + 1 /\ more[n + 1] = answer
      /\ \A i \in 1..n : more[i] = done[i]
  BY AppendProperties
<1>2. /\ rest \in Seq(GoodCalls) /\ Len(rest) = m - 1 /\ Head(waiting) = waiting[1]
      /\ \A i \in 1..m - 1 : rest[i] = waiting[i + 1]
  <2>1. rest \in Seq(GoodCalls) /\ Len(rest) = m - 1 /\ Head(waiting) = waiting[1]
    BY HeadTailProperties
  <2>2. QED BY <2>1, HeadTailProperties
<1>3. /\ n \in Nat /\ m \in Nat /\ Len(old) = n + m /\ DOMAIN old = 1..Len(old)
      /\ \A i \in 1..n : old[i] = done[i].call
      /\ \A i \in 1..m : old[n + i] = waiting[i]
  BY JoinedIs
<1> HIDE DEF more, rest
<1>4. /\ Len(now) = Len(more) + Len(rest) /\ DOMAIN now = 1..Len(now)
      /\ \A i \in 1..Len(more) : now[i] = more[i].call
      /\ \A i \in 1..Len(rest) : now[Len(more) + i] = rest[i]
  BY <1>1, <1>2, JoinedIs
<1>5. m >= 1
  <2>1. m # 0
    BY EmptySeq
  <2>2. QED BY <2>1, <1>3
<1> HIDE DEF old, now, n, m
<1>6. ASSUME NEW i \in 1..n + m PROVE now[i] = old[i]
  <2>1. CASE i \in 1..n
    <3>1. i \in 1..Len(more)
      BY <2>1, <1>1, <1>3
    <3>2. QED BY <2>1, <3>1, <1>1, <1>3, <1>4
  <2>2. CASE i = n + 1
    <3>1. n + 1 \in 1..Len(more) /\ 1 \in 1..m
      BY <1>1, <1>3, <1>5
    <3>2. QED BY <2>2, <3>1, <1>1, <1>2, <1>3, <1>4
  <2>3. CASE i \notin 1..n /\ i # n + 1
    <3>1. /\ i - n \in 1..m /\ n + (i - n) = i
          /\ i - n - 1 \in 1..m - 1 /\ (n + 1) + (i - n - 1) = i /\ (i - n - 1) + 1 = i - n
      BY <2>3, <1>3
    <3>2. old[i] = waiting[i - n]
      BY <3>1, <1>3
    <3>3. now[i] = rest[i - n - 1]
      BY <3>1, <1>1, <1>2, <1>4
    <3>4. rest[i - n - 1] = waiting[i - n]
      BY <3>1, <1>2
    <3>5. QED BY <3>2, <3>3, <3>4
  <2>4. QED BY <2>1, <2>2, <2>3
<1>7. Len(now) = n + m
  BY <1>1, <1>2, <1>3, <1>4
<1>8. Carries(old, now, 0, {})
  BY <1>3, <1>4, <1>6, <1>7 DEF Carries
<1>9. QED BY <1>8 DEF old, now, more, rest

LEMMA CarriesFailed ==
    ASSUME NEW done \in Seq(GoodAnswers), NEW waiting \in Seq(GoodCalls)
    PROVE  LET all == Joined(done, waiting)
               failed == [i \in DOMAIN all |-> [call |-> all[i], ok |-> FALSE, with |-> None]]
           IN /\ failed \in Seq(GoodAnswers)
              /\ \A i \in 1..Len(failed) : ~failed[i].ok
              /\ Carries(all, Joined(failed, <<>>), 0, {})
<1> DEFINE all == Joined(done, waiting)
           failed == [i \in DOMAIN all |-> [call |-> all[i], ok |-> FALSE, with |-> None]]
           now == Joined(failed, <<>>)
<1>1. all \in Seq(GoodCalls) /\ Len(all) \in Nat /\ DOMAIN all = 1..Len(all)
      /\ \A i \in 1..Len(all) : all[i] \in GoodCalls
  <2>1. all \in Seq(GoodCalls)
    BY JoinedIs
  <2> HIDE DEF all
  <2>2. QED BY <2>1, LenProperties, ElementOfSeq
<1> HIDE DEF all
<1>2. failed \in [1..Len(all) -> GoodAnswers]
  <2>1. ASSUME NEW i \in 1..Len(all)
        PROVE [call |-> all[i], ok |-> FALSE, with |-> None] \in GoodAnswers
    BY <1>1 DEF GoodAnswers, AnswerSet, GoodCalls
  <2>2. QED BY <1>1, <2>1
<1>3. \A i \in 1..Len(all) : failed[i].call = all[i] /\ ~failed[i].ok
  BY <1>1
<1> HIDE DEF failed
<1>4. failed \in Seq(GoodAnswers) /\ Len(failed) = Len(all)
  BY <1>1, <1>2
<1>5. <<>> \in Seq(GoodCalls) /\ Len(<<>>) = 0
  BY EmptySeq
<1>6. /\ Len(now) = Len(failed) + Len(<<>>) /\ DOMAIN now = 1..Len(now)
      /\ \A i \in 1..Len(failed) : now[i] = failed[i].call
  BY <1>4, <1>5, JoinedIs
<1> HIDE DEF now
<1>7. Len(now) = Len(all)
  BY <1>1, <1>4, <1>5, <1>6
<1>8. \A i \in 1..Len(all) : now[i] = all[i]
  BY <1>3, <1>4, <1>6
<1>9. Carries(all, now, 0, {})
  BY <1>1, <1>6, <1>7, <1>8 DEF Carries
<1>10. QED BY <1>3, <1>4, <1>9 DEF all, failed, now

LEMMA CarriesHandled ==
    ASSUME NEW done \in Seq(GoodAnswers), NEW waiting \in Seq(GoodCalls), done # <<>>
    PROVE  Carries(Joined(done, waiting), Joined(Tail(done), waiting), 1, {})
<1> DEFINE rest == Tail(done)
           old == Joined(done, waiting)
           now == Joined(rest, waiting)
           n == Len(done)  m == Len(waiting)
<1>1. rest \in Seq(GoodAnswers) /\ Len(rest) = n - 1 /\ \A i \in 1..n - 1 : rest[i] = done[i + 1]
  <2>1. rest \in Seq(GoodAnswers) /\ Len(rest) = n - 1
    BY HeadTailProperties
  <2>2. QED BY <2>1, HeadTailProperties
<1>2. /\ n \in Nat /\ m \in Nat /\ Len(old) = n + m /\ DOMAIN old = 1..Len(old)
      /\ \A i \in 1..n : old[i] = done[i].call
      /\ \A i \in 1..m : old[n + i] = waiting[i]
  BY JoinedIs
<1>3. n # 0
  BY EmptySeq
<1> HIDE DEF rest
<1>4. /\ Len(now) = Len(rest) + m /\ DOMAIN now = 1..Len(now)
      /\ \A i \in 1..Len(rest) : now[i] = rest[i].call
      /\ \A i \in 1..m : now[Len(rest) + i] = waiting[i]
  BY <1>1, JoinedIs
<1> HIDE DEF old, now, n, m
<1>5. ASSUME NEW i \in 1..n + m - 1 PROVE now[i] = old[i + 1]
  <2>1. CASE i \in 1..n - 1
    <3>1. i + 1 \in 1..n /\ i \in 1..Len(rest)
      BY <2>1, <1>1, <1>2
    <3>2. now[i] = rest[i].call /\ rest[i] = done[i + 1]
      BY <2>1, <3>1, <1>1, <1>4
    <3>3. old[i + 1] = done[i + 1].call
      BY <3>1, <1>2
    <3>4. QED BY <3>2, <3>3
  <2>2. CASE i \notin 1..n - 1
    <3>1. /\ i + 1 - n \in 1..m /\ (n - 1) + (i + 1 - n) = i /\ n + (i + 1 - n) = i + 1
      BY <2>2, <1>2
    <3>2. old[i + 1] = waiting[i + 1 - n]
      BY <3>1, <1>2
    <3>3. now[i] = waiting[i + 1 - n]
      BY <3>1, <1>1, <1>4
    <3>4. QED BY <3>2, <3>3
  <2>3. QED BY <2>1, <2>2
<1>6. Len(now) = n + m - 1 /\ n + m - 1 \in Nat
  BY <1>1, <1>2, <1>3, <1>4
<1>7. ASSUME NEW i \in 2..n + m PROVE i - 1 \in 1..n + m - 1 /\ now[i - 1] = old[i]
  <2>1. i - 1 \in 1..n + m - 1 /\ (i - 1) + 1 = i
    BY <1>2
  <2>2. QED BY <2>1, <1>5
<1>8. \A i \in 1..n + m - 1 : i + 1 \in 1..n + m
  BY <1>2
<1>9. Carries(old, now, 1, {})
  BY <1>2, <1>4, <1>5, <1>6, <1>7, <1>8 DEF Carries
<1>10. QED BY <1>9 DEF old, now, rest

LEMMA CarriesBoth ==
    ASSUME NEW old, NEW between, NEW now, NEW new,
           Carries(old, between, 1, {}), Carries(between, now, 0, new)
    PROVE  Carries(old, now, 1, new)
<1>1. /\ Len(old) \in Nat /\ Len(now) \in Nat /\ Len(between) \in Nat
      /\ DOMAIN old = 1..Len(old) /\ DOMAIN now = 1..Len(now)
      /\ \A call \in new : \E i \in 1..Len(now) : now[i] = call
  BY Zenon DEF Carries
<1>2. /\ \A i \in 1 + 1..Len(old) : i - 1 \in 1..Len(between) /\ between[i - 1] = old[i]
      /\ \A i \in 1..Len(between) :
            i + 1 \in 1..Len(old) /\ between[i] = old[i + 1]
  BY Zenon DEF Carries
<1>3. /\ \A i \in 0 + 1..Len(between) : i - 0 \in 1..Len(now) /\ now[i - 0] = between[i]
      /\ \A i \in 1..Len(now) :
            \/ i + 0 \in 1..Len(between) /\ now[i] = between[i + 0]
            \/ i = Len(now) /\ now[i] \in new
  BY Zenon DEF Carries
<1>4. /\ \A i \in 1..Len(between) : i \in 1..Len(now) /\ now[i] = between[i]
      /\ \A i \in 1..Len(now) :
            \/ i \in 1..Len(between) /\ now[i] = between[i]
            \/ i = Len(now) /\ now[i] \in new
  <2>1. \A i \in 1..Len(between) : i \in 0 + 1..Len(between) /\ i - 0 = i
    BY <1>1
  <2>2. \A i \in 1..Len(now) : i + 0 = i
    BY <1>1
  <2>3. QED BY <1>3, <2>1, <2>2
<1>5. \A i \in 1 + 1..Len(old) : i - 1 \in 1..Len(now) /\ now[i - 1] = old[i]
  BY Zenon, <1>2, <1>4
<1>6. \A i \in 1..Len(now) :
         \/ i + 1 \in 1..Len(old) /\ now[i] = old[i + 1]
         \/ i = Len(now) /\ now[i] \in new
  BY Zenon, <1>2, <1>4
<1>7. QED BY Zenon, <1>1, <1>5, <1>6 DEF Carries

-----------------------------------------------------------------------------
(* Calls and types *)

LEMMA GoodAreTyped ==
    /\ \A queue \in Seq(GoodCalls) : queue \in Seq(CallSet)
    /\ \A queue \in Seq(GoodAnswers) : queue \in Seq(AnswerSet)
<1>1. ASSUME NEW queue \in Seq(GoodCalls) PROVE queue \in Seq(CallSet)
  <2>1. Len(queue) \in Nat /\ queue \in [1..Len(queue) -> GoodCalls]
    BY LenProperties
  <2>2. queue \in [1..Len(queue) -> CallSet]
    BY <2>1 DEF GoodCalls
  <2>3. QED BY <2>1, <2>2
<1>2. ASSUME NEW queue \in Seq(GoodAnswers) PROVE queue \in Seq(AnswerSet)
  <2>1. Len(queue) \in Nat /\ queue \in [1..Len(queue) -> GoodAnswers]
    BY LenProperties
  <2>2. queue \in [1..Len(queue) -> AnswerSet]
    BY <2>1 DEF GoodAnswers
  <2>3. QED BY <2>1, <2>2
<1>3. QED BY <1>1, <1>2

\* An EXCEPT of a call's files, or of its outputs and history.
LEMMA MadeCalls ==
    /\ \A kind, address, json :
          /\ Call(kind, address, json).kind = kind
          /\ Call(kind, address, json).address = address
          /\ Call(kind, address, json).json = json
    /\ \A address \in Addresses, json \in Texts :
          Call("loadAbi", address, json) \in GoodCalls /\ Call("saveAbi", address, json) \in GoodCalls
    /\ \A address \in Addresses :
          Call("removeAbi", address, None) \in GoodCalls
          /\ Call("removeSnapshot", address, None) \in GoodCalls
    /\ \A sent \in Seq(SUBSET Addresses) : sent # <<>> =>
          LET call == [Call("addBatch", None, None) EXCEPT !.files = sent]
          IN call \in GoodCalls /\ call.kind = "addBatch"
    /\ \A address \in Addresses, json \in Abis \cup {None}, described \in Abis \cup {None},
          rest \in BOOLEAN :
          LET call == [Call("execute", address, json) EXCEPT !.outputs = described, !.settled = rest]
          IN /\ call \in GoodCalls /\ call.kind = "execute" /\ call.address = address
             /\ call.json = json /\ call.outputs = described /\ call.settled = rest
<1>1. <<>> \in Seq(SUBSET Addresses)
  BY EmptySeq
<1>2. ASSUME NEW address \in Addresses, NEW json \in Texts
      PROVE  Call("loadAbi", address, json) \in GoodCalls /\ Call("saveAbi", address, json) \in GoodCalls
  BY <1>1 DEF Call, GoodCalls, CallSet, AbiKinds
<1>3. ASSUME NEW address \in Addresses
      PROVE  Call("removeAbi", address, None) \in GoodCalls
             /\ Call("removeSnapshot", address, None) \in GoodCalls
  BY <1>1 DEF Call, GoodCalls, CallSet, AbiKinds
<1>4. ASSUME NEW sent \in Seq(SUBSET Addresses), sent # <<>>
      PROVE  LET call == [Call("addBatch", None, None) EXCEPT !.files = sent]
             IN call \in GoodCalls /\ call.kind = "addBatch"
  BY <1>4 DEF Call, GoodCalls, CallSet
<1>5. ASSUME NEW address \in Addresses, NEW json \in Abis \cup {None},
             NEW described \in Abis \cup {None}, NEW rest \in BOOLEAN
      PROVE  LET call == [Call("execute", address, json) EXCEPT
                             !.outputs = described, !.settled = rest]
             IN /\ call \in GoodCalls /\ call.kind = "execute" /\ call.address = address
                /\ call.json = json /\ call.outputs = described /\ call.settled = rest
  BY <1>1 DEF Call, GoodCalls, CallSet, Texts
<1>6. QED BY <1>2, <1>3, <1>4, <1>5 DEF Call

\* What a handler sends, besides what it does to the form.
Sends(call) == call \in GoodCalls /\ requests' = Append(requests, call)

LEMMA SentIsTyped ==
    ASSUME TypeInv, NEW call \in GoodCalls, Request(call)
    PROVE  Sends(call) /\ requests' \in Seq(GoodCalls) /\ calls' \in 0..MaxCalls
<1>1. requests' \in Seq(GoodCalls)
  BY AppendProperties DEF TypeInv, Request
<1>2. calls' \in 0..MaxCalls
  BY UiAssumption DEF TypeInv, TypeOK, Request
<1>3. QED BY <1>1, <1>2 DEF Request, Sends

\* Calls about accounts and ABIs, but none that executes.
RequestTypes == requests' \in Seq(GoodCalls) /\ calls' \in 0..MaxCalls
PanelTypes ==
    /\ abiAddress' \in Addresses \cup {None, New} /\ abiAddressNew' \in Addresses \cup {None}
    /\ abiJson' \in Texts \cup {None}
DisplayTypes ==
    /\ descriptions' \in [Addresses -> Abis \cup {None}] /\ shown' \in Abis \cup {None}

\* The form is drawn anew, or it will be when the ABI asked for has loaded.
Redraws ==
    /\ UNCHANGED requests
    /\ \A address \in Addresses : descriptions'[address] \in {None, descriptions[address]}
    /\ shown' = IF target' = None THEN None ELSE descriptions'[target']
Fetches(address) ==
    /\ \E call \in GoodCalls :
          Sends(call) /\ call.kind = "loadAbi" /\ call.address = address
    /\ UNCHANGED <<descriptions, shown>>

LEMMA LoadAbiEffect ==
    ASSUME TypeInv, NEW address \in Addresses, target' \in Addresses \cup {None},
           LoadAbiForAddress(address)
    PROVE  /\ RequestTypes /\ DisplayTypes /\ abiJson' \in Texts \cup {None}
           /\ Redraws \/ Fetches(address)
<1>1. /\ store[address] \in Texts \cup {None} /\ abiJson' = store[address]
      /\ descriptions \in [Addresses -> Abis \cup {None}] /\ shown \in Abis \cup {None}
      /\ requests \in Seq(GoodCalls) /\ calls \in 0..MaxCalls
  BY DEF TypeInv, TypeOK, LoadAbiForAddress
<1>2. CASE store[address] = None
  <2>1. /\ descriptions' = [descriptions EXCEPT ![address] = None]
        /\ shown' = IF target' = None THEN None ELSE descriptions'[target']
        /\ UNCHANGED <<requests, calls>>
    BY <1>2 DEF LoadAbiForAddress, NoRequest
  <2>2. DisplayTypes
    BY <1>1, <2>1 DEF DisplayTypes
  <2>3. QED BY <1>1, <2>1, <2>2 DEF RequestTypes, Redraws
<1>3. CASE store[address] # None
  <2> DEFINE call == Call("loadAbi", address, store[address])
  <2>1. Request(call) /\ UNCHANGED <<descriptions, shown>>
    BY <1>3 DEF LoadAbiForAddress
  <2>2. call \in GoodCalls /\ call.kind = "loadAbi" /\ call.address = address
    <3>1. store[address] \in Texts
      BY <1>1, <1>3
    <3>2. call \in GoodCalls
      BY <3>1, MadeCalls
    <3>3. QED BY <3>2 DEF Call
  <2> HIDE DEF call
  <2>3. Sends(call) /\ RequestTypes
    BY <2>1, <2>2, SentIsTyped DEF RequestTypes
  <2>4. QED BY <1>1, <2>1, <2>2, <2>3 DEF DisplayTypes, Fetches
<1>4. QED BY <1>2, <1>3

LEMMA FocusEffect ==
    ASSUME TypeInv, NEW address \in Addresses, target' \in Addresses \cup {None},
           FocusAbiAddress(address)
    PROVE  /\ RequestTypes /\ DisplayTypes /\ PanelTypes
           /\ Redraws \/ Fetches(address)
<1>1. abiAddress' \in Addresses \cup {None, New} /\ abiAddressNew' \in Addresses \cup {None}
  BY DEF FocusAbiAddress
<1>2. LoadAbiForAddress(address)
  BY DEF FocusAbiAddress
<1>3. QED BY <1>1, <1>2, LoadAbiEffect DEF PanelTypes

LEMMA SelectEffect ==
    ASSUME TypeInv, target' \in Addresses \cup {None}, SelectTarget
    PROVE  /\ RequestTypes /\ DisplayTypes /\ PanelTypes
           /\ Redraws \/ Fetches(target')
<1>1. CASE target' = None
  <2>1. UNCHANGED <<requests, calls, abiAddress, abiAddressNew, abiJson, descriptions>>
        /\ shown' = None
    BY <1>1 DEF SelectTarget, RenderFunctions, NoRequest, panelVars
  <2>2. RequestTypes /\ DisplayTypes /\ PanelTypes
    BY <2>1 DEF RequestTypes, DisplayTypes, PanelTypes, TypeInv, TypeOK
  <2>3. Redraws
    BY <1>1, <2>1 DEF Redraws
  <2>4. QED BY <2>2, <2>3
<1>2. CASE target' \in Addresses
  <2>1. target' # None
    BY <1>2, UiAssumption
  <2>2. FocusAbiAddress(target')
    BY <2>1 DEF SelectTarget
  <2>3. QED BY <1>2, <2>2, FocusEffect
<1>3. QED BY <1>1, <1>2

-----------------------------------------------------------------------------
(* Types *)

AccountTypes ==
    accounts' \subseteq Addresses /\ options' \subseteq accounts' /\ target' \in options' \cup {None}
ReadingTypes ==
    \A files \in BagToSet(reading') : files # <<>> /\ files \in Seq(SUBSET Addresses)

\* What waits after a load has joined the bag, or has left it.
LEMMA BagMembers ==
    ASSUME NEW bag, NEW item
    PROVE  /\ BagToSet(BagAdd(bag, item)) = BagToSet(bag) \cup {item}
           /\ BagToSet(BagRemove(bag, item)) \subseteq BagToSet(bag)
<1>1. BagToSet(BagAdd(bag, item)) = BagToSet(bag) \cup {item}
  BY DEF BagToSet, BagAdd
<1>2. BagToSet(BagRemove(bag, item)) \subseteq BagToSet(bag)
  BY DEF BagToSet, BagRemove
<1>3. QED BY <1>1, <1>2

LEMMA TypesTogether ==
    ASSUME AccountTypes, PanelTypes, DisplayTypes, ReadingTypes, RequestTypes,
           executing' \in BOOLEAN, store' \in [Addresses -> Texts \cup {None}],
           answers' \in Seq(GoodAnswers), result' \subseteq AnswerSet,
           loaded' \subseteq Addresses, installed' \in [Addresses -> Abis \cup {None}],
           unavailable' \in BOOLEAN, unsaved' \in [Addresses -> Abis \cup {None}]
    PROVE  TypeInv'
<1>1. requests' \in Seq(GoodCalls) /\ answers' \in Seq(GoodAnswers)
      /\ requests' \in Seq(CallSet) /\ answers' \in Seq(AnswerSet)
  BY GoodAreTyped DEF RequestTypes
<1>2. TypeOK'
  BY <1>1 DEF TypeOK, AccountTypes, PanelTypes, DisplayTypes, ReadingTypes, RequestTypes
<1>3. QED BY <1>1, <1>2 DEF TypeInv

\* What a step leaves alone keeps its type.
LEMMA TypesKept ==
    ASSUME TypeInv
    PROVE  /\ UNCHANGED pageVars => AccountTypes
           /\ UNCHANGED panelVars => PanelTypes
           /\ UNCHANGED <<descriptions, shown>> => DisplayTypes
           /\ UNCHANGED reading => ReadingTypes
           /\ NoRequest => RequestTypes
           /\ executing \in BOOLEAN /\ store \in [Addresses -> Texts \cup {None}]
           /\ answers \in Seq(GoodAnswers) /\ result \subseteq AnswerSet
           /\ loaded \subseteq Addresses /\ installed \in [Addresses -> Abis \cup {None}]
           /\ unavailable \in BOOLEAN /\ unsaved \in [Addresses -> Abis \cup {None}]
<1>1. TypeOK /\ requests \in Seq(GoodCalls) /\ answers \in Seq(GoodAnswers)
  BY DEF TypeInv
<1>2. UNCHANGED pageVars => AccountTypes
  BY <1>1 DEF TypeOK, pageVars, AccountTypes
<1>3. UNCHANGED panelVars => PanelTypes
  BY <1>1 DEF TypeOK, panelVars, PanelTypes
<1>4. UNCHANGED <<descriptions, shown>> => DisplayTypes
  BY <1>1 DEF TypeOK, DisplayTypes
<1>5. UNCHANGED reading => ReadingTypes
  BY <1>1 DEF TypeOK, ReadingTypes
<1>6. NoRequest => RequestTypes
  BY <1>1 DEF TypeOK, NoRequest, RequestTypes
<1>7. QED BY <1>1, <1>2, <1>3, <1>4, <1>5, <1>6 DEF TypeOK

LEMMA ActiveAddress ==
    ASSUME TypeInv
    PROVE  ActiveAbiAddress \in Addresses \cup {None}
BY DEF TypeInv, TypeOK, ActiveAbiAddress

\* What the user's actions have in common.
UserFrame ==
    UNCHANGED <<accounts, options, result, store, answers, workerVars, unsaved>>

\* A step that makes no call or one that does not execute.
Asks == UNCHANGED requests \/ \E call \in GoodCalls : call.kind # "execute" /\ Sends(call)

FormStep ==
    \/ UNCHANGED <<target, descriptions, shown>>
    \/ Redraws
    \/ UNCHANGED descriptions /\ (target' = None \/ Fetches(target'))

\* The form keeps its target, and what it describes.
SameForm ==
    /\ UNCHANGED <<target, shown>>
    /\ target # None => descriptions'[target] = descriptions[target]

LEMMA AsksFor ==
    ASSUME TypeInv, NEW call \in GoodCalls, call.kind # "execute", Request(call)
    PROVE  Asks /\ RequestTypes
BY SentIsTyped DEF Asks, RequestTypes

LEMMA DrawnAsks ==
    ASSUME Redraws \/ \E address \in Addresses \cup {None} : Fetches(address)
    PROVE  Asks
<1>1. CASE \E address \in Addresses \cup {None} : Fetches(address)
  <2>1. PICK call \in GoodCalls : Sends(call) /\ call.kind = "loadAbi"
    BY <1>1 DEF Fetches
  <2>2. QED BY <2>1 DEF Asks
<1>2. CASE Redraws
  BY <1>2 DEF Redraws, Asks
<1>3. QED BY <1>1, <1>2

\* Every action of the user but executing.
LEMMA UserEffect ==
    ASSUME TypeInv, UserInput, ~\E raw \in BOOLEAN : ClickExecute(raw)
    PROVE  TypeInv' /\ UserFrame /\ UNCHANGED executing /\ Asks /\ FormStep
<1>1. ASSUME NEW files \in Loads, LoadFiles(files)
      PROVE  TypeInv' /\ UserFrame /\ UNCHANGED executing /\ Asks /\ FormStep
  <2>1. UNCHANGED <<pageVars, panelVars, descriptions, shown, formVars, store, requests,
                   answers, calls, workerVars, unsaved>>
    BY <1>1 DEF LoadFiles
  <2>2. ReadingTypes
    <3>1. BagToSet(reading') = BagToSet(reading) \cup {files}
      BY <1>1, BagMembers DEF LoadFiles
    <3>2. files # <<>> /\ files \in Seq(SUBSET Addresses)
      BY <1>1, UiAssumption
    <3>3. \A other \in BagToSet(reading) : other # <<>> /\ other \in Seq(SUBSET Addresses)
      BY DEF TypeInv, TypeOK
    <3>4. QED BY <3>1, <3>2, <3>3 DEF ReadingTypes
  <2>3. AccountTypes /\ PanelTypes /\ DisplayTypes /\ RequestTypes
    BY <2>1, TypesKept DEF NoRequest
  <2>4. TypeInv'
    BY <2>1, <2>2, <2>3, TypesKept, TypesTogether DEF formVars, workerVars
  <2>5. QED BY <2>1, <2>4 DEF UserFrame, Asks, FormStep, pageVars, formVars
<1>2. ASSUME NEW call \in GoodCalls, call.kind # "execute", Request(call),
             UNCHANGED <<pageVars, panelVars, descriptions, shown, formVars, store, reading,
                   answers, workerVars, unsaved>>
      PROVE  TypeInv' /\ UserFrame /\ UNCHANGED executing /\ Asks /\ FormStep
  <2>1. Asks /\ RequestTypes
    BY <1>2, AsksFor
  <2>2. AccountTypes /\ PanelTypes /\ DisplayTypes /\ ReadingTypes
    BY <1>2, TypesKept
  <2>3. TypeInv'
    BY <1>2, <2>1, <2>2, TypesKept, TypesTogether DEF formVars, workerVars
  <2>4. QED BY <1>2, <2>1, <2>3 DEF UserFrame, FormStep, pageVars, formVars
<1>3. ASSUME NEW address \in Addresses, ClickRemoveSnapshot(address)
      PROVE  TypeInv' /\ UserFrame /\ UNCHANGED executing /\ Asks /\ FormStep
  <2> DEFINE call == Call("removeSnapshot", address, None)
  <2>1. call \in GoodCalls /\ call.kind # "execute"
    BY MadeCalls DEF Call
  <2>2. Request(call) /\ UNCHANGED <<pageVars, panelVars, descriptions, shown, formVars, store,
                   reading, answers, workerVars, unsaved>>
    BY <1>3 DEF ClickRemoveSnapshot
  <2> HIDE DEF call
  <2>3. QED BY <1>2, <2>1, <2>2
<1>4. CASE ClickSaveAbi
  <2> DEFINE call == Call("saveAbi", ActiveAbiAddress, abiJson)
  <2>1. call \in GoodCalls /\ call.kind # "execute"
    <3>1. ActiveAbiAddress \in Addresses /\ abiJson \in Texts
      BY <1>4, ActiveAddress DEF ClickSaveAbi, TypeInv, TypeOK
    <3>2. call \in GoodCalls
      BY <3>1, MadeCalls
    <3>3. QED BY <3>2 DEF Call
  <2>2. Request(call) /\ UNCHANGED <<pageVars, panelVars, descriptions, shown, formVars, store,
                   reading, answers, workerVars, unsaved>>
    BY <1>4 DEF ClickSaveAbi
  <2> HIDE DEF call
  <2>3. QED BY <1>2, <2>1, <2>2
<1>5. CASE ClickRemoveAbi
  <2> DEFINE call == Call("removeAbi", ActiveAbiAddress, None)
  <2>1. call \in GoodCalls /\ call.kind # "execute"
    <3>1. ActiveAbiAddress \in Addresses
      BY <1>5 DEF ClickRemoveAbi, SavedAddresses
    <3>2. call \in GoodCalls
      BY <3>1, MadeCalls
    <3>3. QED BY <3>2 DEF Call
  <2>2. Request(call) /\ UNCHANGED <<pageVars, panelVars, descriptions, shown, formVars, store,
                   reading, answers, workerVars, unsaved>>
    BY <1>5 DEF ClickRemoveAbi
  <2> HIDE DEF call
  <2>3. QED BY <1>2, <2>1, <2>2
<1>6. ASSUME UNCHANGED <<accounts, options, formVars, store, reading, answers, workerVars, unsaved>>,
             target' \in options \cup {None}, PanelTypes, DisplayTypes, RequestTypes,
             Redraws \/ \E address \in Addresses : Fetches(address), FormStep
      PROVE  TypeInv' /\ UserFrame /\ UNCHANGED executing /\ Asks /\ FormStep
  <2>1. AccountTypes /\ ReadingTypes
    BY <1>6, TypesKept DEF AccountTypes, TypeInv, TypeOK
  <2>2. Asks
    BY <1>6, DrawnAsks
  <2>3. TypeInv'
    BY <1>6, <2>1, TypesKept, TypesTogether DEF formVars, workerVars
  <2>4. QED BY <1>6, <2>2, <2>3 DEF UserFrame, formVars
<1>7. ASSUME NEW address \in Addresses, SelectContract(address)
      PROVE  TypeInv' /\ UserFrame /\ UNCHANGED executing /\ Asks /\ FormStep
  <2>1. target' \in options \cup {None} /\ target' \in {None, address} /\ FocusAbiAddress(address)
        /\ UNCHANGED <<accounts, options, formVars, store, reading, answers, workerVars, unsaved>>
    BY <1>7 DEF SelectContract
  <2>2. RequestTypes /\ DisplayTypes /\ PanelTypes /\ (Redraws \/ Fetches(address))
    BY <2>1, FocusEffect
  <2>3. FormStep
    BY <2>1, <2>2 DEF FormStep, Fetches
  <2>4. QED BY <1>6, <2>1, <2>2, <2>3
<1>8. ASSUME NEW address \in Addresses, PickTarget(address)
      PROVE  TypeInv' /\ UserFrame /\ UNCHANGED executing /\ Asks /\ FormStep
  <2>1. target' \in options \cup {None} /\ target' = address /\ SelectTarget
        /\ UNCHANGED <<accounts, options, formVars, store, reading, answers, workerVars, unsaved>>
    BY <1>8 DEF PickTarget
  <2>2. RequestTypes /\ DisplayTypes /\ PanelTypes /\ (Redraws \/ Fetches(target'))
    BY <2>1, SelectEffect
  <2>3. FormStep
    BY <2>2 DEF FormStep, Fetches
  <2>4. QED BY <1>6, <2>1, <2>2, <2>3
<1>9. ASSUME NEW value \in Addresses \cup {None, New}, PickAbiAddress(value)
      PROVE  TypeInv' /\ UserFrame /\ UNCHANGED executing /\ Asks /\ FormStep
  <2>1. /\ abiAddress' = value /\ abiAddressNew' = None /\ UNCHANGED pageVars
        /\ UNCHANGED <<formVars, store, reading, answers, workerVars, unsaved>>
    BY <1>9 DEF PickAbiAddress
  <2>2. AccountTypes /\ ReadingTypes /\ target' \in Addresses \cup {None}
    <3>1. AccountTypes /\ ReadingTypes
      BY <2>1, TypesKept
    <3>2. QED BY <3>1 DEF AccountTypes
  <2>3. /\ RequestTypes /\ DisplayTypes /\ abiJson' \in Texts \cup {None}
        /\ Asks /\ FormStep
    <3>1. CASE value \in Addresses /\ LoadAbiForAddress(value)
      <4>1. /\ RequestTypes /\ DisplayTypes /\ abiJson' \in Texts \cup {None}
            /\ Redraws \/ Fetches(value)
        BY <2>2, <3>1, LoadAbiEffect
      <4>2. Asks
        BY <3>1, <4>1, DrawnAsks
      <4>3. FormStep
        BY <2>1, <4>1 DEF FormStep, Fetches, pageVars
      <4>4. QED BY <4>1, <4>2, <4>3
    <3>2. CASE abiJson' = None /\ NoRequest /\ UNCHANGED <<descriptions, shown>>
      <4>1. RequestTypes /\ DisplayTypes
        BY <3>2, TypesKept
      <4>2. QED BY <2>1, <3>2, <4>1 DEF Asks, NoRequest, FormStep, pageVars
    <3>3. CASE abiJson' = None /\ NoRequest /\ UNCHANGED descriptions /\ RenderFunctions
      <4>1. RequestTypes
        BY <3>3, TypesKept
      <4>2. descriptions \in [Addresses -> Abis \cup {None}]
        BY DEF TypeInv, TypeOK
      <4>3. DisplayTypes
        BY <2>2, <3>3, <4>2 DEF RenderFunctions, DisplayTypes
      <4>4. Redraws
        BY <3>3 DEF RenderFunctions, Redraws, NoRequest
      <4>5. QED BY <3>3, <4>1, <4>3, <4>4 DEF Asks, NoRequest, FormStep
    <3>4. QED BY <1>9, <3>1, <3>2, <3>3 DEF PickAbiAddress
  <2>4. PanelTypes
    BY <2>1, <2>3 DEF PanelTypes
  <2>5. TypeInv'
    BY <2>1, <2>2, <2>3, <2>4, TypesKept, TypesTogether DEF formVars, workerVars
  <2>6. QED BY <2>1, <2>3, <2>5 DEF UserFrame, pageVars, formVars
<1>10. CASE EditPanel
  <2>1. UNCHANGED <<pageVars, abiAddress, descriptions, shown, formVars, store, reading,
                   requests, answers, calls, workerVars, unsaved>>
    BY <1>10 DEF EditPanel
  <2>2. PanelTypes
    BY <1>10, <2>1 DEF EditPanel, PanelTypes, TypeInv, TypeOK
  <2>3. AccountTypes /\ DisplayTypes /\ ReadingTypes /\ RequestTypes
    BY <2>1, TypesKept DEF NoRequest
  <2>4. TypeInv'
    BY <2>1, <2>2, <2>3, TypesKept, TypesTogether DEF formVars, workerVars
  <2>5. QED BY <2>1, <2>4 DEF UserFrame, Asks, FormStep, pageVars, formVars
<1>11. \/ \E files \in Loads : LoadFiles(files)
       \/ \E address \in Addresses :
             ClickRemoveSnapshot(address) \/ SelectContract(address) \/ PickTarget(address)
       \/ \E value \in Addresses \cup {None, New} : PickAbiAddress(value)
       \/ EditPanel \/ ClickSaveAbi \/ ClickRemoveAbi
  BY Zenon DEF UserInput
<1>12. QED
  BY Zenon, <1>1, <1>3, <1>4, <1>5, <1>7, <1>8, <1>9, <1>10, <1>11

-----------------------------------------------------------------------------
(* Steps of the queues *)

\* Whether a step handles the answer at the head.
Passed(dropped) ==
    \/ dropped = 0 /\ UNCHANGED answers
    \/ dropped = 1 /\ answers # <<>> /\ answers' = Tail(answers)

LEMMA StepCarries ==
    ASSUME TypeInv, NEW dropped \in {0, 1}, Passed(dropped)
    PROVE  /\ UNCHANGED requests => Carries(Underway, Underway', dropped, {})
           /\ \A call \in GoodCalls : Sends(call) => Carries(Underway, Underway', dropped, {call})
<1>1. answers \in Seq(GoodAnswers) /\ requests \in Seq(GoodCalls)
  BY DEF TypeInv
<1>2. Underway = Joined(answers, requests) /\ Underway' = Joined(answers', requests')
  BY DEF Underway, Joined
<1>3. CASE dropped = 0
  <2>1. answers' = answers
    BY <1>3 DEF Passed
  <2>2. ASSUME UNCHANGED requests PROVE Carries(Underway, Underway', dropped, {})
    <3>1. Underway' = Underway
      BY <1>2, <2>1, <2>2
    <3>2. Carries(Underway, Underway, 0, {})
      BY <1>1, <1>2, CarriesOn
    <3>3. QED BY <1>3, <3>1, <3>2
  <2>3. ASSUME NEW call \in GoodCalls, Sends(call)
        PROVE  Carries(Underway, Underway', dropped, {call})
    <3>1. Underway' = Joined(answers, Append(requests, call))
      BY <1>2, <2>1, <2>3 DEF Sends
    <3>2. QED BY <1>1, <1>2, <1>3, <3>1, CarriesSent
  <2>4. QED BY <2>2, <2>3
<1>4. CASE dropped = 1
  <2>1. answers # <<>> /\ answers' = Tail(answers)
    BY <1>4 DEF Passed
  <2>2. Tail(answers) \in Seq(GoodAnswers)
    BY <1>1, <2>1, HeadTailProperties
  <2>3. Carries(Underway, Joined(Tail(answers), requests), 1, {})
    BY <1>1, <1>2, <2>1, CarriesHandled
  <2>4. ASSUME UNCHANGED requests PROVE Carries(Underway, Underway', dropped, {})
    BY <1>2, <1>4, <2>1, <2>3, <2>4
  <2>5. ASSUME NEW call \in GoodCalls, Sends(call)
        PROVE  Carries(Underway, Underway', dropped, {call})
    <3>1. Underway' = Joined(Tail(answers), Append(requests, call))
      BY <1>2, <2>1, <2>5 DEF Sends
    <3>2. Carries(Joined(Tail(answers), requests), Underway', 0, {call})
      BY <1>1, <2>2, <3>1, CarriesSent
    <3>3. QED BY <1>4, <2>3, <3>2, CarriesBoth
  <2>6. QED BY <2>4, <2>5
<1>5. QED BY <1>3, <1>4

\* The answer at the head is that of the first call under way.
LEMMA HeadAnswer ==
    ASSUME TypeInv, answers # <<>>
    PROVE  /\ Head(answers) = answers[1] /\ 1 \in 1..Len(answers) /\ Len(answers) \in Nat
           /\ Head(answers) \in GoodAnswers /\ Head(answers).call \in GoodCalls
           /\ Underway[1] = Head(answers).call /\ 1 \in 1..Len(Underway)
           /\ Tail(answers) \in Seq(GoodAnswers) /\ Len(Tail(answers)) = Len(answers) - 1
           /\ \A i \in 1..Len(answers) - 1 : Tail(answers)[i] = answers[i + 1]
<1>1. answers \in Seq(GoodAnswers) /\ requests \in Seq(GoodCalls)
  BY DEF TypeInv
<1>2. Head(answers) = answers[1] /\ Head(answers) \in GoodAnswers
      /\ Tail(answers) \in Seq(GoodAnswers) /\ Len(Tail(answers)) = Len(answers) - 1
  BY <1>1, HeadTailProperties
<1>3. \A i \in 1..Len(answers) - 1 : Tail(answers)[i] = answers[i + 1]
  BY <1>1, <1>2, HeadTailProperties
<1>4. Len(answers) \in Nat /\ Len(answers) # 0 /\ Len(requests) \in Nat
  BY <1>1, EmptySeq, LenProperties
<1>5. 1 \in 1..Len(answers)
  BY <1>4
<1>6. /\ Len(Underway) = Len(answers) + Len(requests)
      /\ \A i \in 1..Len(answers) : Underway[i] = answers[i].call
  <2>1. Underway = Joined(answers, requests)
    BY DEF Underway, Joined
  <2>2. QED BY <1>1, <2>1, JoinedIs
<1>7. 1 \in 1..Len(Underway)
  BY <1>4, <1>6
<1>8. Head(answers).call \in GoodCalls
  BY <1>2 DEF GoodAnswers
<1>9. QED BY <1>2, <1>3, <1>4, <1>5, <1>6, <1>7, <1>8

LEMMA BusyStays ==
    ASSUME TypeInv, BusyWhileCalling, NEW dropped \in {0, 1}, Passed(dropped), Asks,
           UNCHANGED executing,
           dropped = 1 => Head(answers).call.kind # "execute"
    PROVE  BusyWhileCalling'
<1>1. PICK new : (\A call \in new : call.kind # "execute")
                 /\ Carries(Underway, Underway', dropped, new)
  <2>1. CASE UNCHANGED requests
    BY <2>1, StepCarries
  <2>2. CASE \E call \in GoodCalls : call.kind # "execute" /\ Sends(call)
    BY <2>2, StepCarries
  <2>3. QED BY <2>1, <2>2 DEF Asks
<1>2. /\ Len(Underway) \in Nat /\ Len(Underway') \in Nat
      /\ DOMAIN Underway = 1..Len(Underway) /\ DOMAIN Underway' = 1..Len(Underway')
      /\ \A i \in dropped + 1..Len(Underway) :
            i - dropped \in 1..Len(Underway') /\ Underway'[i - dropped] = Underway[i]
      /\ \A i \in 1..Len(Underway') : Underway'[i].kind = "execute" =>
            i + dropped \in 1..Len(Underway) /\ Underway'[i] = Underway[i + dropped]
  BY <1>1 DEF Carries
<1>3. \A i \in 1..Len(Underway) : Underway[i].kind = "execute" => i \in dropped + 1..Len(Underway)
  <2>1. CASE dropped = 0
    BY <1>2, <2>1
  <2>2. CASE dropped = 1
    <3>1. Underway[1].kind # "execute"
      BY <2>2, HeadAnswer DEF Passed
    <3>2. QED BY <1>2, <2>2, <3>1
  <2>3. QED BY <2>1, <2>2
<1> DEFINE executes == {i \in DOMAIN Underway : Underway[i].kind = "execute"}
           next == {i \in DOMAIN Underway' : Underway'[i].kind = "execute"}
<1>4. (executing <=> executes # {}) /\ \A i, j \in executes : i = j
  BY DEF BusyWhileCalling
<1>5. \A i \in executes : i - dropped \in next
  BY <1>2, <1>3
<1>6. \A i \in next : i + dropped \in executes /\ i \in Nat
  BY <1>2
<1> HIDE DEF executes, next
<1>7. \A i, j \in next : i = j
  <2> SUFFICES ASSUME NEW i \in next, NEW j \in next PROVE i = j
    OBVIOUS
  <2>1. i + dropped = j + dropped /\ i \in Nat /\ j \in Nat
    BY <1>4, <1>6
  <2>2. QED BY <2>1
<1>8. executes # {} <=> next # {}
  BY <1>5, <1>6
<1>9. (executing' <=> next # {}) /\ \A i, j \in next : i = j
  BY <1>4, <1>7, <1>8
<1>10. QED BY <1>9 DEF BusyWhileCalling, next

LEMMA FormStays ==
    ASSUME TypeInv, FormCatchesUp, NEW dropped \in {0, 1}, Passed(dropped), Asks,
           FormStep \/ SameForm,
           dropped = 1 => Head(answers).call.kind # "loadAbi"
    PROVE  FormCatchesUp'
<1>1. CASE target' = None \/ Redraws
  BY <1>1 DEF Redraws, FormCatchesUp
<1>2. CASE Fetches(target')
  <2>1. PICK call \in GoodCalls : Sends(call) /\ call.kind = "loadAbi" /\ call.address = target'
    BY <1>2 DEF Fetches
  <2>2. Carries(Underway, Underway', dropped, {call})
    BY <2>1, StepCarries
  <2>3. \E i \in 1..Len(Underway') : Underway'[i] = call
    BY <2>2 DEF Carries
  <2>4. QED BY <2>1, <2>3 DEF FormCatchesUp
<1>3. CASE SameForm
  <2>1. CASE target = None \/ shown = descriptions[target]
    BY <1>3, <2>1 DEF FormCatchesUp, SameForm
  <2>2. CASE \E i \in 1..Len(Underway) :
                Underway[i].kind = "loadAbi" /\ Underway[i].address = target
    <3>1. PICK i \in 1..Len(Underway) :
             Underway[i].kind = "loadAbi" /\ Underway[i].address = target
      BY <2>2
    <3>2. PICK new : Carries(Underway, Underway', dropped, new)
      BY StepCarries DEF Asks
    <3>3. Len(Underway) \in Nat
      BY <3>2 DEF Carries
    <3>4. i \in dropped + 1..Len(Underway)
      <4>1. CASE dropped = 0
        BY <3>3, <4>1
      <4>2. CASE dropped = 1
        <5>1. Underway[1].kind # "loadAbi"
          BY <4>2, HeadAnswer DEF Passed
        <5>2. QED BY <3>1, <3>3, <4>2, <5>1
      <4>3. QED BY <4>1, <4>2
    <3>5. i - dropped \in 1..Len(Underway') /\ Underway'[i - dropped] = Underway[i]
      BY <3>2, <3>4 DEF Carries
    <3>6. QED BY <1>3, <3>1, <3>5 DEF FormCatchesUp, SameForm
  <2>3. QED BY <2>1, <2>2 DEF FormCatchesUp
<1>4. QED BY <1>1, <1>2, <1>3 DEF FormStep, SameForm

-----------------------------------------------------------------------------
(* Catching up with the executor *)

\* The executor changed its accounts, and an answer says how.
LEMMA ListPerformed ==
    ASSUME TypeInv, ListCatchesUp, NEW answer \in GoodAnswers,
           answers' = Append(answers, answer), UNCHANGED <<accounts, unavailable>>,
           \A address \in Addresses :
              IF ToList(answer, address)
              THEN address \in loaded' <=> answer.call.kind = "addBatch"
              ELSE address \in loaded' <=> address \in loaded
    PROVE  ListCatchesUp'
<1> DEFINE n == Len(answers)
<1>1. /\ n \in Nat /\ Len(answers') = n + 1 /\ answers'[n + 1] = answer
      /\ \A i \in 1..n : answers'[i] = answers[i]
  BY AppendProperties, LenProperties DEF TypeInv
<1> HIDE DEF n
<1>2. SUFFICES ASSUME ~unavailable, NEW address \in Addresses
      PROVE  /\ \A i \in 1..n + 1 :
                   ToList(answers'[i], address)
                   /\ (\A j \in i + 1..n + 1 : ~ToList(answers'[j], address))
                       => (address \in loaded' <=> answers'[i].call.kind = "addBatch")
             /\ (\A i \in 1..n + 1 : ~ToList(answers'[i], address))
                   => (address \in accounts <=> address \in loaded')
  BY <1>1 DEF ListCatchesUp
<1>3. /\ \A i \in 1..n :
            ToList(answers[i], address)
            /\ (\A j \in i + 1..n : ~ToList(answers[j], address))
                => (address \in loaded <=> answers[i].call.kind = "addBatch")
      /\ (\A i \in 1..n : ~ToList(answers[i], address))
            => (address \in accounts <=> address \in loaded)
  BY <1>2 DEF ListCatchesUp, n
<1>4. ASSUME NEW i \in 1..n + 1, ToList(answers'[i], address),
             \A j \in i + 1..n + 1 : ~ToList(answers'[j], address)
      PROVE  address \in loaded' <=> answers'[i].call.kind = "addBatch"
  <2>1. CASE i = n + 1
    BY <1>1, <1>4, <2>1
  <2>2. CASE i # n + 1
    <3>1. i \in 1..n /\ n + 1 \in i + 1..n + 1 /\ \A j \in i + 1..n : j \in i + 1..n + 1 /\ j \in 1..n
      BY <1>1, <2>2
    <3>2. ~ToList(answer, address)
      BY <1>1, <1>4, <3>1
    <3>3. \A j \in i + 1..n : ~ToList(answers[j], address)
      BY <1>1, <1>4, <3>1
    <3>4. ToList(answers[i], address) /\ answers'[i] = answers[i]
      BY <1>1, <1>4, <3>1
    <3>5. address \in loaded <=> answers[i].call.kind = "addBatch"
      BY <1>3, <3>1, <3>3, <3>4
    <3>6. QED BY <3>2, <3>4, <3>5
  <2>3. QED BY <2>1, <2>2
<1>5. ASSUME \A i \in 1..n + 1 : ~ToList(answers'[i], address)
      PROVE  address \in accounts <=> address \in loaded'
  <2>1. n + 1 \in 1..n + 1 /\ \A i \in 1..n : i \in 1..n + 1
    BY <1>1
  <2>2. ~ToList(answer, address) /\ \A i \in 1..n : ~ToList(answers[i], address)
    BY <1>1, <1>5, <2>1
  <2>3. QED BY <1>3, <2>2
<1>6. QED BY <1>4, <1>5

\* The page has applied an answer.
LEMMA ListHandled ==
    ASSUME TypeInv, ListCatchesUp, answers # <<>>, answers' = Tail(answers),
           UNCHANGED <<loaded, unavailable>>,
           \A address \in Addresses :
              IF ToList(Head(answers), address)
              THEN address \in accounts' <=> Head(answers).call.kind = "addBatch"
              ELSE address \in accounts' <=> address \in accounts
    PROVE  ListCatchesUp'
<1> DEFINE n == Len(answers)
<1>1. /\ n \in Nat /\ 1 \in 1..n /\ Len(answers') = n - 1 /\ Head(answers) = answers[1]
      /\ \A i \in 1..n - 1 : answers'[i] = answers[i + 1]
  BY HeadAnswer
<1> HIDE DEF n
<1>2. SUFFICES ASSUME ~unavailable, NEW address \in Addresses
      PROVE  /\ \A i \in 1..n - 1 :
                   ToList(answers'[i], address)
                   /\ (\A j \in i + 1..n - 1 : ~ToList(answers'[j], address))
                       => (address \in loaded <=> answers'[i].call.kind = "addBatch")
             /\ (\A i \in 1..n - 1 : ~ToList(answers'[i], address))
                   => (address \in accounts' <=> address \in loaded)
  BY <1>1 DEF ListCatchesUp
<1>3. /\ \A i \in 1..n :
            ToList(answers[i], address)
            /\ (\A j \in i + 1..n : ~ToList(answers[j], address))
                => (address \in loaded <=> answers[i].call.kind = "addBatch")
      /\ (\A i \in 1..n : ~ToList(answers[i], address))
            => (address \in accounts <=> address \in loaded)
  BY <1>2 DEF ListCatchesUp, n
<1>4. \A j \in 2..n : j - 1 \in 1..n - 1 /\ (j - 1) + 1 = j /\ answers'[j - 1] = answers[j]
  <2> TAKE j \in 2..n
  <2>1. j - 1 \in 1..n - 1 /\ (j - 1) + 1 = j
    BY <1>1
  <2>2. QED BY <1>1, <2>1
<1>5. ASSUME NEW i \in 1..n - 1, ToList(answers'[i], address),
             \A j \in i + 1..n - 1 : ~ToList(answers'[j], address)
      PROVE  address \in loaded <=> answers'[i].call.kind = "addBatch"
  <2>1. /\ i + 1 \in 1..n /\ answers'[i] = answers[i + 1]
        /\ \A j \in (i + 1) + 1..n : j \in 2..n /\ j - 1 \in i + 1..n - 1
    BY <1>1
  <2>2. \A j \in (i + 1) + 1..n : ~ToList(answers[j], address)
    BY <1>4, <1>5, <2>1
  <2>3. QED BY <1>3, <1>5, <2>1, <2>2
<1>6. ASSUME \A i \in 1..n - 1 : ~ToList(answers'[i], address)
      PROVE  address \in accounts' <=> address \in loaded
  <2>1. \A j \in 2..n : ~ToList(answers[j], address)
    BY <1>4, <1>6
  <2>2. CASE ToList(Head(answers), address)
    <3>1. \A j \in 1 + 1..n : ~ToList(answers[j], address)
      BY <2>1
    <3>2. address \in loaded <=> answers[1].call.kind = "addBatch"
      BY <1>1, <1>3, <2>2, <3>1
    <3>3. QED BY <1>1, <2>2, <3>2
  <2>3. CASE ~ToList(Head(answers), address)
    <3>1. \A j \in 1..n : j = 1 \/ j \in 2..n
      BY <1>1
    <3>2. \A j \in 1..n : ~ToList(answers[j], address)
      BY <1>1, <2>1, <2>3, <3>1
    <3>3. QED BY <1>3, <2>3, <3>2
  <2>4. QED BY <2>2, <2>3
<1>7. QED BY <1>5, <1>6

\* The executor changed its ABIs, and an answer says how.
LEMMA DescriptionPerformed ==
    ASSUME TypeInv, DescriptionCatchesUp, NEW answer \in GoodAnswers,
           answers' = Append(answers, answer), UNCHANGED <<descriptions, unsaved, unavailable>>,
           \A address \in Addresses :
              IF ToDescribe(answer, address)
              THEN installed'[address] = InForce(answer.call)
              ELSE installed'[address] = installed[address]
    PROVE  DescriptionCatchesUp'
<1> DEFINE n == Len(answers)
<1>1. /\ n \in Nat /\ Len(answers') = n + 1 /\ answers'[n + 1] = answer
      /\ \A i \in 1..n : answers'[i] = answers[i]
  BY AppendProperties, LenProperties DEF TypeInv
<1> HIDE DEF n
<1>2. SUFFICES ASSUME ~unavailable, NEW address \in Addresses
      PROVE  /\ \A i \in 1..n + 1 :
                   ToDescribe(answers'[i], address)
                   /\ (\A j \in i + 1..n + 1 : ~ToDescribe(answers'[j], address))
                       => (installed'[address] = InForce(answers'[i].call))
             /\ (\A i \in 1..n + 1 : ~ToDescribe(answers'[i], address))
                   => Agrees(descriptions[address], unsaved[address], installed'[address])
  BY <1>1 DEF DescriptionCatchesUp
<1>3. /\ \A i \in 1..n :
            ToDescribe(answers[i], address)
            /\ (\A j \in i + 1..n : ~ToDescribe(answers[j], address))
                => (installed[address] = InForce(answers[i].call))
      /\ (\A i \in 1..n : ~ToDescribe(answers[i], address))
            => Agrees(descriptions[address], unsaved[address], installed[address])
  BY <1>2 DEF DescriptionCatchesUp, n
<1>4. ASSUME NEW i \in 1..n + 1, ToDescribe(answers'[i], address),
             \A j \in i + 1..n + 1 : ~ToDescribe(answers'[j], address)
      PROVE  installed'[address] = InForce(answers'[i].call)
  <2>1. CASE i = n + 1
    BY <1>1, <1>4, <2>1
  <2>2. CASE i # n + 1
    <3>1. i \in 1..n /\ n + 1 \in i + 1..n + 1 /\ \A j \in i + 1..n : j \in i + 1..n + 1 /\ j \in 1..n
      BY <1>1, <2>2
    <3>2. ~ToDescribe(answer, address)
      BY <1>1, <1>4, <3>1
    <3>3. \A j \in i + 1..n : ~ToDescribe(answers[j], address)
      BY <1>1, <1>4, <3>1
    <3>4. ToDescribe(answers[i], address) /\ answers'[i] = answers[i]
      BY <1>1, <1>4, <3>1
    <3>5. installed[address] = InForce(answers[i].call)
      BY <1>3, <3>1, <3>3, <3>4
    <3>6. QED BY <3>2, <3>4, <3>5
  <2>3. QED BY <2>1, <2>2
<1>5. ASSUME \A i \in 1..n + 1 : ~ToDescribe(answers'[i], address)
      PROVE  Agrees(descriptions[address], unsaved[address], installed'[address])
  <2>1. n + 1 \in 1..n + 1 /\ \A i \in 1..n : i \in 1..n + 1
    BY <1>1
  <2>2. ~ToDescribe(answer, address) /\ \A i \in 1..n : ~ToDescribe(answers[i], address)
    BY <1>1, <1>5, <2>1
  <2>3. QED BY <1>3, <2>2
<1>6. QED BY <1>4, <1>5

\* The page has applied an answer about an ABI, or could not store it.
LEMMA DescriptionHandled ==
    ASSUME TypeInv, DescriptionCatchesUp, answers # <<>>, answers' = Tail(answers),
           UNCHANGED <<installed, unavailable>>,
           \A address \in Addresses :
              IF ToDescribe(Head(answers), address)
              THEN Agrees(descriptions'[address], unsaved'[address], InForce(Head(answers).call))
              ELSE /\ descriptions'[address] \in {None, descriptions[address]}
                   /\ unsaved'[address] = unsaved[address]
    PROVE  DescriptionCatchesUp'
<1> DEFINE n == Len(answers)
<1>1. /\ n \in Nat /\ 1 \in 1..n /\ Len(answers') = n - 1 /\ Head(answers) = answers[1]
      /\ \A i \in 1..n - 1 : answers'[i] = answers[i + 1]
  BY HeadAnswer
<1> HIDE DEF n
<1>2. SUFFICES ASSUME ~unavailable, NEW address \in Addresses
      PROVE  /\ \A i \in 1..n - 1 :
                   ToDescribe(answers'[i], address)
                   /\ (\A j \in i + 1..n - 1 : ~ToDescribe(answers'[j], address))
                       => (installed[address] = InForce(answers'[i].call))
             /\ (\A i \in 1..n - 1 : ~ToDescribe(answers'[i], address))
                   => Agrees(descriptions'[address], unsaved'[address], installed[address])
  BY <1>1 DEF DescriptionCatchesUp
<1>3. /\ \A i \in 1..n :
            ToDescribe(answers[i], address)
            /\ (\A j \in i + 1..n : ~ToDescribe(answers[j], address))
                => (installed[address] = InForce(answers[i].call))
      /\ (\A i \in 1..n : ~ToDescribe(answers[i], address))
            => Agrees(descriptions[address], unsaved[address], installed[address])
  BY <1>2 DEF DescriptionCatchesUp, n
<1>4. \A j \in 2..n : j - 1 \in 1..n - 1 /\ (j - 1) + 1 = j /\ answers'[j - 1] = answers[j]
  <2> TAKE j \in 2..n
  <2>1. j - 1 \in 1..n - 1 /\ (j - 1) + 1 = j
    BY <1>1
  <2>2. QED BY <1>1, <2>1
<1>5. ASSUME NEW i \in 1..n - 1, ToDescribe(answers'[i], address),
             \A j \in i + 1..n - 1 : ~ToDescribe(answers'[j], address)
      PROVE  installed[address] = InForce(answers'[i].call)
  <2>1. /\ i + 1 \in 1..n /\ answers'[i] = answers[i + 1]
        /\ \A j \in (i + 1) + 1..n : j \in 2..n /\ j - 1 \in i + 1..n - 1
    BY <1>1
  <2>2. \A j \in (i + 1) + 1..n : ~ToDescribe(answers[j], address)
    BY <1>4, <1>5, <2>1
  <2>3. QED BY <1>3, <1>5, <2>1, <2>2
<1>6. ASSUME \A i \in 1..n - 1 : ~ToDescribe(answers'[i], address)
      PROVE  Agrees(descriptions'[address], unsaved'[address], installed[address])
  <2>1. \A j \in 2..n : ~ToDescribe(answers[j], address)
    BY <1>4, <1>6
  <2>2. CASE ToDescribe(Head(answers), address)
    <3>1. \A j \in 1 + 1..n : ~ToDescribe(answers[j], address)
      BY <2>1
    <3>2. installed[address] = InForce(answers[1].call)
      BY <1>1, <1>3, <2>2, <3>1
    <3>3. QED BY <1>1, <2>2, <3>2
  <2>3. CASE ~ToDescribe(Head(answers), address)
    <3>1. \A j \in 1..n : j = 1 \/ j \in 2..n
      BY <1>1
    <3>2. \A j \in 1..n : ~ToDescribe(answers[j], address)
      BY <1>1, <2>1, <2>3, <3>1
    <3>3. Agrees(descriptions[address], unsaved[address], installed[address])
      BY <1>3, <3>2
    <3>4. QED BY <2>3, <3>3 DEF Agrees
  <2>4. QED BY <2>2, <2>3
<1>7. QED BY <1>5, <1>6

-----------------------------------------------------------------------------
(* The executor *)

\* What an answer says has become of the accounts and the ABIs the executor holds.
Touches(answer) ==
    /\ loaded' \subseteq Addresses /\ installed' \in [Addresses -> Abis \cup {None}]
    /\ \A address \in Addresses :
          IF ToList(answer, address)
          THEN address \in loaded' <=> answer.call.kind = "addBatch"
          ELSE address \in loaded' <=> address \in loaded
    /\ \A address \in Addresses :
          IF ToDescribe(answer, address)
          THEN installed'[address] = InForce(answer.call)
          ELSE installed'[address] = installed[address]

Performs(answer) ==
    /\ requests # <<>> /\ requests' = Tail(requests) /\ answer.call = Head(requests)
    /\ answers' = Append(answers, answer) /\ (answer.ok => ~unavailable)
    /\ UNCHANGED unavailable
    /\ answer.call.kind = "execute" => answer.with = installed[answer.call.address]
    /\ Touches(answer)

LEMMA PerformEffect ==
    ASSUME UiInv, Perform
    PROVE  \E answer \in GoodAnswers : Performs(answer)
<1> DEFINE call == Head(requests)
           With(ok) == [call |-> call, ok |-> ok,
                        with |-> IF call.kind = "execute" THEN installed[call.address] ELSE None]
<1>1. /\ requests # <<>> /\ requests' = Tail(requests) /\ UNCHANGED unavailable
      /\ loaded \subseteq Addresses /\ installed \in [Addresses -> Abis \cup {None}]
  BY DEF Perform, UiInv, TypeInv, TypeOK
<1>2. call \in GoodCalls
  BY <1>1, HeadTailProperties DEF UiInv, TypeInv
<1>3. \/ Answer(call, FALSE) /\ UNCHANGED workerVars
      \/ /\ call.kind = "addBatch" /\ loaded' = loaded \cup Head(call.files)
         /\ Answer(call, TRUE) /\ UNCHANGED installed
      \/ /\ call.kind = "removeSnapshot" /\ loaded' = loaded \ {call.address}
         /\ Answer(call, TRUE) /\ UNCHANGED installed
      \/ /\ call.kind \in {"loadAbi", "saveAbi"} /\ call.json \in Abis
         /\ installed' = [installed EXCEPT ![call.address] = call.json]
         /\ Answer(call, TRUE) /\ UNCHANGED loaded
      \/ /\ call.kind = "removeAbi" /\ installed' = [installed EXCEPT ![call.address] = None]
         /\ Answer(call, TRUE) /\ UNCHANGED loaded
      \/ call.kind = "execute" /\ Answer(call, TRUE) /\ UNCHANGED workerVars
  BY DEF Perform
<1>4. call.kind = "addBatch" => Head(call.files) \subseteq Addresses
  <2>1. ASSUME call.kind = "addBatch" PROVE call.files # <<>> /\ call.files \in Seq(SUBSET Addresses)
    BY <1>2, <2>1 DEF GoodCalls, CallSet
  <2> HIDE DEF call
  <2>2. ASSUME call.kind = "addBatch" PROVE Head(call.files) \in SUBSET Addresses
    BY <2>1, <2>2, HeadTailProperties
  <2>3. QED BY <2>2
<1> HIDE DEF call
<1>5. /\ call.kind # "addBatch" => call.address \in Addresses
      /\ call.kind \in AbiKinds \cup {"addBatch", "removeSnapshot", "execute"}
      /\ call \in CallSet
  BY <1>2 DEF GoodCalls, CallSet
<1>6. \A ok \in BOOLEAN : /\ With(ok).call = call /\ With(ok).ok = ok
                          /\ call.kind = "execute" => With(ok).with = installed[call.address]
                          /\ With(ok) \in AnswerSet
  BY <1>1, <1>5 DEF AnswerSet
<1>7. \A ok \in BOOLEAN : Answer(call, ok) =>
         answers' = Append(answers, With(ok)) /\ (ok => ~unavailable)
  BY DEF Answer
<1> HIDE DEF With
<1>8. ASSUME NEW ok \in BOOLEAN, Answer(call, ok), Touches(With(ok)),
             ok /\ call.kind \in {"loadAbi", "saveAbi"} => call.json \in Abis
      PROVE  \E answer \in GoodAnswers : Performs(answer)
  <2>1. With(ok) \in GoodAnswers
    BY <1>2, <1>6, <1>8 DEF GoodAnswers
  <2>2. Performs(With(ok))
    BY <1>1, <1>6, <1>7, <1>8 DEF Performs, call
  <2>3. QED BY <2>1, <2>2
<1>9. CASE Answer(call, FALSE) /\ UNCHANGED workerVars
  <2>1. Touches(With(FALSE))
    BY <1>1, <1>6, <1>9 DEF Touches, ToList, ToDescribe, workerVars
  <2>2. QED BY <1>8, <1>9, <2>1
<1>10. CASE /\ call.kind = "addBatch" /\ loaded' = loaded \cup Head(call.files)
            /\ Answer(call, TRUE) /\ UNCHANGED installed
  <2>1. Touches(With(TRUE))
    BY <1>1, <1>4, <1>6, <1>10 DEF Touches, ToList, ToDescribe, AbiKinds
  <2>2. QED BY <1>8, <1>10, <2>1
<1>11. CASE /\ call.kind = "removeSnapshot" /\ loaded' = loaded \ {call.address}
            /\ Answer(call, TRUE) /\ UNCHANGED installed
  <2>1. Touches(With(TRUE))
    BY <1>1, <1>6, <1>11 DEF Touches, ToList, ToDescribe, AbiKinds
  <2>2. QED BY <1>8, <1>11, <2>1
<1>12. CASE /\ call.kind \in {"loadAbi", "saveAbi"} /\ call.json \in Abis
            /\ installed' = [installed EXCEPT ![call.address] = call.json]
            /\ Answer(call, TRUE) /\ UNCHANGED loaded
  <2>1. Touches(With(TRUE))
    BY <1>1, <1>5, <1>6, <1>12 DEF Touches, ToList, ToDescribe, AbiKinds, InForce
  <2>2. QED BY <1>8, <1>12, <2>1
<1>13. CASE /\ call.kind = "removeAbi" /\ installed' = [installed EXCEPT ![call.address] = None]
            /\ Answer(call, TRUE) /\ UNCHANGED loaded
  <2>1. Touches(With(TRUE))
    BY <1>1, <1>5, <1>6, <1>13 DEF Touches, ToList, ToDescribe, AbiKinds, InForce
  <2>2. QED BY <1>8, <1>13, <2>1
<1>14. CASE call.kind = "execute" /\ Answer(call, TRUE) /\ UNCHANGED workerVars
  <2>1. Touches(With(TRUE))
    BY <1>1, <1>6, <1>14 DEF Touches, ToList, ToDescribe, AbiKinds, workerVars
  <2>2. QED BY <1>8, <1>14, <2>1
<1>15. QED BY <1>3, <1>9, <1>10, <1>11, <1>12, <1>13, <1>14

\* A call under way keeps its ABI while others are answered: none of those made
\* before it is about that ABI.
LEMMA RequestsPerformed ==
    ASSUME UiInv, NEW answer \in GoodAnswers, Performs(answer)
    PROVE  RequestsKeepTheirAbi' /\ AsEncoded(answer)
<1> DEFINE m == Len(requests)
<1>1. /\ m \in Nat /\ 1 \in 1..m /\ Len(requests') = m - 1 /\ answer.call = requests[1]
      /\ \A i \in 1..m - 1 : requests'[i] = requests[i + 1]
      /\ \A i \in 1..m : requests[i] \in GoodCalls
  <2>1. requests \in Seq(GoodCalls) /\ requests # <<>> /\ requests' = Tail(requests)
        /\ answer.call = Head(requests)
    BY DEF UiInv, TypeInv, Performs
  <2>2. m \in Nat /\ m # 0 /\ \A i \in 1..m : requests[i] \in GoodCalls
    BY <2>1, LenProperties, EmptySeq, ElementOfSeq
  <2>3. Head(requests) = requests[1] /\ Tail(requests) \in Seq(GoodCalls)
        /\ Len(Tail(requests)) = m - 1
    BY <2>1, HeadTailProperties
  <2>4. \A i \in 1..m - 1 : Tail(requests)[i] = requests[i + 1]
    BY <2>1, <2>3, HeadTailProperties
  <2>5. 1 \in 1..m
    BY <2>2
  <2>6. QED BY <2>1, <2>2, <2>3, <2>4, <2>5
<1>2. \A i \in 1..m : AtRestCall(requests[i]) =>
        /\ requests[i].outputs = requests[i].json
        /\ unavailable \/ installed[requests[i].address] = requests[i].json
        /\ \A j \in 1..i - 1 :
              ~(requests[j].kind \in AbiKinds /\ requests[j].address = requests[i].address)
  BY DEF UiInv, RequestsKeepTheirAbi
<1> HIDE DEF m
<1>3. ASSUME NEW i \in 1..m - 1, AtRestCall(requests[i + 1])
      PROVE  /\ requests[i + 1].outputs = requests[i + 1].json
             /\ unavailable \/ installed'[requests[i + 1].address] = requests[i + 1].json
             /\ \A j \in 1..i - 1 :
                   ~(requests'[j].kind \in AbiKinds
                     /\ requests'[j].address = requests[i + 1].address)
  <2> DEFINE k == i + 1
             address == requests[k].address
  <2>1. /\ k \in 1..m /\ 1 \in 1..k - 1
        /\ \A j \in 1..i - 1 : j + 1 \in 1..k - 1 /\ j \in 1..m - 1
    BY <1>1
  <2> HIDE DEF k
  <2>2. /\ requests[k].outputs = requests[k].json
        /\ unavailable \/ installed[address] = requests[k].json
        /\ \A j \in 1..k - 1 : ~(requests[j].kind \in AbiKinds /\ requests[j].address = address)
    BY <1>2, <1>3, <2>1 DEF k
  <2>3. address \in Addresses
    <3>1. requests[k] \in GoodCalls /\ requests[k].kind = "execute"
      BY <1>1, <1>3, <2>1 DEF AtRestCall, k
    <3>2. QED BY <3>1 DEF GoodCalls
  <2>4. ~ToDescribe(answer, address)
    BY <1>1, <2>1, <2>2 DEF ToDescribe
  <2>5. installed'[address] = installed[address]
    BY <2>3, <2>4 DEF Performs, Touches
  <2>6. \A j \in 1..i - 1 : requests'[j] = requests[j + 1]
    BY <1>1, <2>1
  <2>7. \A j \in 1..i - 1 :
           ~(requests'[j].kind \in AbiKinds /\ requests'[j].address = address)
    BY <2>1, <2>2, <2>6
  <2>8. QED BY <2>2, <2>5, <2>7 DEF k
<1>4. RequestsKeepTheirAbi'
  BY <1>1, <1>3 DEF RequestsKeepTheirAbi, Performs
<1>5. AsEncoded(answer)
  BY <1>1, <1>2 DEF AsEncoded, AtRestCall, Performs
<1>6. QED BY <1>4, <1>5

-----------------------------------------------------------------------------
(* Steps preserve the invariant *)

\* A step after which the same calls are under way, and the form shows the same.
LEMMA NothingMoves ==
    ASSUME FormCatchesUp, BusyWhileCalling, Carries(Underway, Underway', 0, {}),
           UNCHANGED <<target, descriptions, shown, executing>>
    PROVE  FormCatchesUp' /\ BusyWhileCalling'
<1>1. /\ Len(Underway') = Len(Underway) /\ Len(Underway) \in Nat
      /\ DOMAIN Underway = 1..Len(Underway) /\ DOMAIN Underway' = 1..Len(Underway)
      /\ \A i \in 1..Len(Underway) : Underway'[i] = Underway[i]
  <2>1. /\ \A i \in 0 + 1..Len(Underway) :
              i - 0 \in 1..Len(Underway') /\ Underway'[i - 0] = Underway[i]
        /\ \A i \in 1..Len(Underway') : i + 0 \in 1..Len(Underway)
        /\ DOMAIN Underway = 1..Len(Underway) /\ DOMAIN Underway' = 1..Len(Underway')
        /\ Len(Underway) \in Nat /\ Len(Underway') \in Nat
    BY DEF Carries
  <2>2. \A i \in 1..Len(Underway) : i \in 1..Len(Underway') /\ Underway'[i] = Underway[i]
    BY <2>1
  <2>3. \A i \in 1..Len(Underway') : i \in 1..Len(Underway)
    BY <2>1
  <2>4. Len(Underway) = 0 \/ Len(Underway) \in 1..Len(Underway)
    BY <2>1
  <2>5. Len(Underway') = 0 \/ Len(Underway') \in 1..Len(Underway')
    BY <2>1
  <2>6. Len(Underway') = Len(Underway)
    <3>1. /\ Len(Underway) = 0 \/ Len(Underway) \in 1..Len(Underway')
          /\ Len(Underway') = 0 \/ Len(Underway') \in 1..Len(Underway)
      BY Zenon, <2>2, <2>3, <2>4, <2>5
    <3>2. \A a, b \in Nat : (a = 0 \/ a \in 1..b) /\ (b = 0 \/ b \in 1..a) => a = b
      OBVIOUS
    <3>3. Len(Underway) \in Nat /\ Len(Underway') \in Nat
      BY <2>1
    <3>4. QED BY <3>1, <3>2, <3>3
  <2>7. QED BY <2>1, <2>2, <2>6
<1>2. FormCatchesUp'
  BY <1>1 DEF FormCatchesUp
<1>3. BusyWhileCalling'
  BY <1>1 DEF BusyWhileCalling
<1>4. QED BY <1>2, <1>3

LEMMA PerformStep == ASSUME UiInv, Perform PROVE UiInv'
<1>1. UNCHANGED <<pageVars, panelVars, descriptions, shown, formVars, store, reading, calls,
                  unavailable, unsaved>>
  BY DEF Perform
<1>2. PICK answer \in GoodAnswers : Performs(answer)
  BY PerformEffect
<1>3. TypeInv /\ requests \in Seq(GoodCalls) /\ answers \in Seq(GoodAnswers)
  BY DEF UiInv, TypeInv
<1>4. /\ requests # <<>> /\ requests' = Tail(requests) /\ answer.call = Head(requests)
      /\ answers' = Append(answers, answer) /\ (answer.ok => ~unavailable) /\ Touches(answer)
  BY <1>2 DEF Performs
<1>5. TypeInv'
  <2>1. AccountTypes /\ PanelTypes /\ DisplayTypes /\ ReadingTypes
    BY <1>1, <1>3, TypesKept
  <2>2. RequestTypes
    BY <1>1, <1>3, <1>4, HeadTailProperties DEF RequestTypes, TypeInv, TypeOK
  <2>3. answers' \in Seq(GoodAnswers)
    BY <1>3, <1>4, AppendProperties
  <2>4. loaded' \subseteq Addresses /\ installed' \in [Addresses -> Abis \cup {None}]
    BY <1>4 DEF Touches
  <2>5. QED BY <1>1, <1>3, <2>1, <2>2, <2>3, <2>4, TypesKept, TypesTogether DEF formVars
<1>6. /\ Len(answers') = Len(answers) + 1 /\ answers'[Len(answers) + 1] = answer
      /\ Len(answers) \in Nat /\ \A i \in 1..Len(answers) : answers'[i] = answers[i]
  BY <1>3, <1>4, AppendProperties, LenProperties
<1>7. FailedMeansRefused'
  BY <1>1, <1>4, <1>6 DEF UiInv, FailedMeansRefused
<1>8. ListCatchesUp'
  <2>1. UNCHANGED <<accounts, unavailable>>
    BY <1>1 DEF pageVars
  <2>2. \A address \in Addresses :
           IF ToList(answer, address)
           THEN address \in loaded' <=> answer.call.kind = "addBatch"
           ELSE address \in loaded' <=> address \in loaded
    BY <1>4 DEF Touches
  <2>3. ListCatchesUp
    BY DEF UiInv
  <2>4. QED BY <1>3, <1>4, <2>1, <2>2, <2>3, ListPerformed
<1>9. DescriptionCatchesUp'
  <2>1. \A address \in Addresses :
           IF ToDescribe(answer, address)
           THEN installed'[address] = InForce(answer.call)
           ELSE installed'[address] = installed[address]
    BY <1>4 DEF Touches
  <2>2. DescriptionCatchesUp
    BY DEF UiInv
  <2>3. QED BY <1>1, <1>3, <1>4, <2>1, <2>2, DescriptionPerformed
<1>10. FormCatchesUp' /\ BusyWhileCalling'
  <2>1. Underway = Joined(answers, requests) /\ Underway' = Joined(answers', requests')
    BY DEF Underway, Joined
  <2>2. Carries(Underway, Underway', 0, {})
    BY <1>3, <1>4, <2>1, CarriesPerformed
  <2>3. UNCHANGED <<target, descriptions, shown, executing>>
    BY <1>1 DEF pageVars, formVars
  <2>4. QED BY <2>2, <2>3, NothingMoves DEF UiInv
<1>11. RequestsKeepTheirAbi' /\ AsEncoded(answer)
  BY <1>2, RequestsPerformed
<1>12. AnswersKeepTheirAbi'
  <2>1. result' = result
    BY <1>1 DEF formVars
  <2>2. AnswersKeepTheirAbi
    BY DEF UiInv
  <2>3. QED BY <1>6, <1>11, <2>1, <2>2 DEF AnswersKeepTheirAbi
<1>13. QED BY <1>5, <1>7, <1>8, <1>9, <1>10, <1>11, <1>12 DEF UiInv

LEMMA FailureStep == ASSUME UiInv, WorkerFails PROVE UiInv'
<1> DEFINE failed == [i \in DOMAIN Underway |->
                         [call |-> Underway[i], ok |-> FALSE, with |-> None]]
<1>1. /\ UNCHANGED <<pageVars, panelVars, descriptions, shown, formVars, store, reading, calls>>
      /\ unavailable' = TRUE /\ loaded' = {} /\ installed' = NoAbi
      /\ requests' = <<>> /\ unsaved' = NoAbi /\ answers' = failed
  BY DEF WorkerFails
<1>2. TypeInv /\ requests \in Seq(GoodCalls) /\ answers \in Seq(GoodAnswers)
  BY DEF UiInv, TypeInv
<1>3. Underway = Joined(answers, requests) /\ Underway' = Joined(answers', requests')
  BY DEF Underway, Joined
<1>4. /\ failed \in Seq(GoodAnswers) /\ \A i \in 1..Len(failed) : ~failed[i].ok
      /\ Carries(Underway, Joined(failed, <<>>), 0, {})
  BY <1>2, <1>3, CarriesFailed
<1> HIDE DEF failed
<1>5. TypeInv'
  <2>1. AccountTypes /\ PanelTypes /\ DisplayTypes /\ ReadingTypes
    BY <1>1, <1>2, TypesKept
  <2>2. RequestTypes
    <3>1. <<>> \in Seq(GoodCalls)
      BY EmptySeq
    <3>2. QED BY <1>1, <1>2, <3>1 DEF RequestTypes, TypeInv, TypeOK
  <2>3. installed' \in [Addresses -> Abis \cup {None}]
    BY <1>1 DEF NoAbi
  <2>4. QED BY <1>1, <1>2, <1>4, <2>1, <2>2, <2>3, TypesKept, TypesTogether DEF formVars
<1>6. FailedMeansRefused' /\ ListCatchesUp' /\ DescriptionCatchesUp'
  BY <1>1, <1>4 DEF FailedMeansRefused, ListCatchesUp, DescriptionCatchesUp
<1>7. FormCatchesUp' /\ BusyWhileCalling'
  <2>1. Carries(Underway, Underway', 0, {})
    BY <1>1, <1>3, <1>4
  <2>2. UNCHANGED <<target, descriptions, shown, executing>>
    BY <1>1 DEF pageVars, formVars
  <2>3. QED BY <2>1, <2>2, NothingMoves DEF UiInv
<1>8. RequestsKeepTheirAbi'
  <2>1. Len(requests') = 0
    BY <1>1, EmptySeq
  <2>2. QED BY <2>1 DEF RequestsKeepTheirAbi
<1>9. AnswersKeepTheirAbi'
  <2>1. \A i \in 1..Len(answers') : AsEncoded(answers'[i])
    BY <1>1, <1>4 DEF AsEncoded
  <2>2. result' = result
    BY <1>1 DEF formVars
  <2>3. QED BY <2>1, <2>2 DEF UiInv, AnswersKeepTheirAbi
<1>10. QED BY <1>5, <1>6, <1>7, <1>8, <1>9 DEF UiInv

LEMMA SentLast ==
    ASSUME TypeInv, NEW call \in GoodCalls, Sends(call)
    PROVE  /\ Len(requests) \in Nat /\ Len(requests') = Len(requests) + 1
           /\ requests'[Len(requests) + 1] = call
           /\ \A i \in 1..Len(requests) : requests'[i] = requests[i]
BY AppendProperties, LenProperties DEF TypeInv, Sends

\* Calls that execute nothing leave those that do as they are.
LEMMA RequestsKept ==
    ASSUME TypeInv, RequestsKeepTheirAbi, Asks, UNCHANGED <<installed, unavailable>>
    PROVE  RequestsKeepTheirAbi'
<1>1. CASE UNCHANGED requests
  BY <1>1 DEF RequestsKeepTheirAbi
<1>2. CASE \E call \in GoodCalls : call.kind # "execute" /\ Sends(call)
  <2>1. PICK call \in GoodCalls : call.kind # "execute" /\ Sends(call)
    BY <1>2
  <2>2. /\ Len(requests) \in Nat /\ Len(requests') = Len(requests) + 1
        /\ requests'[Len(requests) + 1] = call
        /\ \A i \in 1..Len(requests) : requests'[i] = requests[i]
    BY <2>1, SentLast
  <2>3. \A i \in 1..Len(requests') : AtRestCall(requests'[i]) =>
           i \in 1..Len(requests) /\ \A j \in 1..i - 1 : j \in 1..Len(requests)
    BY <2>1, <2>2 DEF AtRestCall
  <2>4. QED BY <2>2, <2>3 DEF RequestsKeepTheirAbi
<1>3. QED BY <1>1, <1>2 DEF Asks

LEMMA QuietStep ==
    ASSUME UiInv, TypeInv', Asks, FormStep,
           UNCHANGED <<accounts, executing, result, answers, workerVars, unsaved>>
    PROVE  UiInv'
<1>1. UNCHANGED <<loaded, installed, unavailable>>
  BY DEF workerVars
<1>2. FailedMeansRefused' /\ ListCatchesUp'
  BY <1>1 DEF UiInv, FailedMeansRefused, ListCatchesUp
<1>3. DescriptionCatchesUp'
  <2>1. \A address \in Addresses : descriptions'[address] \in {None, descriptions[address]}
    BY DEF FormStep, Redraws
  <2>2. QED BY <1>1, <2>1 DEF UiInv, DescriptionCatchesUp, Agrees
<1>4. FormCatchesUp' /\ BusyWhileCalling'
  <2>1. Passed(0) /\ TypeInv /\ FormCatchesUp /\ BusyWhileCalling
    BY DEF Passed, UiInv
  <2>2. QED BY <2>1, FormStays, BusyStays
<1>5. RequestsKeepTheirAbi' /\ AnswersKeepTheirAbi'
  BY <1>1, RequestsKept DEF UiInv, AnswersKeepTheirAbi
<1>6. QED BY <1>2, <1>3, <1>4, <1>5 DEF UiInv

LEMMA BytesReadStep ==
    ASSUME UiInv, NEW files \in BagToSet(reading), BytesRead(files)
    PROVE  UiInv'
<1> DEFINE call == [Call("addBatch", None, None) EXCEPT !.files = files]
<1>1. Request(call) /\ reading' = BagRemove(reading, files)
      /\ UNCHANGED <<pageVars, panelVars, descriptions, shown, formVars, store, answers,
                     workerVars, unsaved>>
  BY DEF BytesRead
<1>2. TypeInv
  BY DEF UiInv
<1>3. call \in GoodCalls /\ call.kind # "execute"
  <2>1. files # <<>> /\ files \in Seq(SUBSET Addresses)
    BY <1>2 DEF TypeInv, TypeOK
  <2>2. call \in GoodCalls /\ call.kind = "addBatch"
    BY <2>1, MadeCalls
  <2>3. QED BY <2>2
<1> HIDE DEF call
<1>4. Asks /\ RequestTypes
  BY <1>1, <1>2, <1>3, AsksFor
<1>5. AccountTypes /\ PanelTypes /\ DisplayTypes
  BY <1>1, <1>2, TypesKept
<1>6. ReadingTypes
  <2>1. BagToSet(reading') \subseteq BagToSet(reading)
    BY <1>1, BagMembers
  <2>2. QED BY <1>2, <2>1 DEF ReadingTypes, TypeInv, TypeOK
<1>7. TypeInv'
  BY <1>1, <1>2, <1>4, <1>5, <1>6, TypesKept, TypesTogether DEF formVars, workerVars
<1>8. FormStep
  BY <1>1 DEF FormStep, pageVars
<1>9. QED BY <1>1, <1>4, <1>7, <1>8, QuietStep DEF pageVars, formVars

\* The form is busy from here on, with the one call that executes.
LEMMA ExecuteStep ==
    ASSUME UiInv, NEW raw \in BOOLEAN, ClickExecute(raw)
    PROVE  UiInv'
<1> DEFINE json == IF raw THEN None ELSE shown
           described == IF raw THEN None ELSE descriptions[target]
           settled == AbiSettled(target)
           call == [Call("execute", target, json) EXCEPT
                       !.outputs = described, !.settled = settled]
<1>1. /\ ~executing /\ target # None /\ executing' = TRUE /\ Request(call)
      /\ UNCHANGED <<pageVars, panelVars, descriptions, shown, result, store, reading, answers,
                     workerVars, unsaved>>
  BY DEF ClickExecute
<1>2. TypeInv
  BY DEF UiInv
<1>3. /\ call \in GoodCalls /\ call.kind = "execute" /\ call.address = target
      /\ call.json = json /\ call.outputs = described /\ call.settled = settled
      /\ target \in Addresses
  <2>1. target \in Addresses
    BY <1>1, <1>2 DEF TypeInv, TypeOK
  <2>2. json \in Abis \cup {None} /\ described \in Abis \cup {None} /\ settled \in BOOLEAN
    BY <1>2, <2>1 DEF TypeInv, TypeOK, AbiSettled
  <2> HIDE DEF json, described, settled
  <2>3. <<>> \in Seq(SUBSET Addresses)
    BY EmptySeq
  <2>4. QED BY <2>1, <2>2, <2>3 DEF Call, GoodCalls, CallSet, Texts
<1> HIDE DEF call
<1>4. Sends(call) /\ RequestTypes
  BY <1>1, <1>2, <1>3, SentIsTyped DEF RequestTypes
<1>5. TypeInv'
  <2>1. AccountTypes /\ PanelTypes /\ DisplayTypes /\ ReadingTypes
    BY <1>1, <1>2, TypesKept
  <2>2. QED BY <1>1, <1>2, <1>4, <2>1, TypesKept, TypesTogether DEF workerVars
<1>6. FailedMeansRefused' /\ ListCatchesUp' /\ DescriptionCatchesUp' /\ AnswersKeepTheirAbi'
  BY <1>1 DEF UiInv, FailedMeansRefused, ListCatchesUp, DescriptionCatchesUp,
              AnswersKeepTheirAbi, pageVars, workerVars
<1>7. Carries(Underway, Underway', 0, {call})
  <2>1. Passed(0)
    BY <1>1 DEF Passed
  <2>2. QED BY <1>2, <1>3, <1>4, <2>1, StepCarries
<1>8. /\ Len(Underway) \in Nat /\ Len(Underway') \in Nat
      /\ DOMAIN Underway = 1..Len(Underway) /\ DOMAIN Underway' = 1..Len(Underway')
      /\ \A i \in 1..Len(Underway) : i \in 1..Len(Underway') /\ Underway'[i] = Underway[i]
      /\ \A i \in 1..Len(Underway') :
            \/ i \in 1..Len(Underway) /\ Underway'[i] = Underway[i]
            \/ i = Len(Underway') /\ Underway'[i] = call
      /\ \E i \in 1..Len(Underway') : Underway'[i] = call
  <2>1. /\ Len(Underway) \in Nat /\ Len(Underway') \in Nat
        /\ DOMAIN Underway = 1..Len(Underway) /\ DOMAIN Underway' = 1..Len(Underway')
        /\ \A i \in 0 + 1..Len(Underway) :
              i - 0 \in 1..Len(Underway') /\ Underway'[i - 0] = Underway[i]
        /\ \A i \in 1..Len(Underway') :
              \/ i + 0 \in 1..Len(Underway) /\ Underway'[i] = Underway[i + 0]
              \/ i = Len(Underway') /\ Underway'[i] \in {call}
        /\ \A other \in {call} : \E i \in 1..Len(Underway') : Underway'[i] = other
    BY <1>7, Zenon DEF Carries
  <2>2. \A n \in Nat : \A i \in 1..n : i \in 0 + 1..n /\ i - 0 = i /\ i + 0 = i
    OBVIOUS
  <2>3. /\ \A i \in 1..Len(Underway) : i \in 0 + 1..Len(Underway) /\ i - 0 = i
        /\ \A i \in 1..Len(Underway') : i + 0 = i
    BY <2>1, <2>2, Zenon
  <2>4. ASSUME NEW i \in 1..Len(Underway)
        PROVE  i \in 1..Len(Underway') /\ Underway'[i] = Underway[i]
    <3>1. i - 0 = i /\ i - 0 \in 1..Len(Underway') /\ Underway'[i - 0] = Underway[i]
      BY <2>1, <2>3, Zenon
    <3>2. QED BY <3>1, Zenon
  <2>5. ASSUME NEW i \in 1..Len(Underway')
        PROVE  \/ i \in 1..Len(Underway) /\ Underway'[i] = Underway[i]
               \/ i = Len(Underway') /\ Underway'[i] = call
    <3>1. /\ i + 0 = i
          /\ \/ i + 0 \in 1..Len(Underway) /\ Underway'[i] = Underway[i + 0]
             \/ i = Len(Underway') /\ Underway'[i] \in {call}
      BY <2>1, <2>3, Zenon
    <3>2. QED BY <3>1, Zenon
  <2>6. \E i \in 1..Len(Underway') : Underway'[i] = call
    BY <2>1, Zenon
  <2>7. QED BY <2>1, <2>4, <2>5, <2>6, Zenon
<1>9. FormCatchesUp'
  BY <1>1, <1>8 DEF UiInv, FormCatchesUp, pageVars
<1>10. BusyWhileCalling'
  <2>1. \A i \in 1..Len(Underway) : Underway[i].kind # "execute"
    BY <1>1, <1>8 DEF UiInv, BusyWhileCalling
  <2>2. \A i \in 1..Len(Underway') : Underway'[i].kind = "execute" => i = Len(Underway')
    BY <1>8, <2>1
  <2>3. \E i \in 1..Len(Underway') : Underway'[i].kind = "execute"
    BY <1>3, <1>8
  <2>4. QED BY <1>1, <1>8, <2>2, <2>3 DEF BusyWhileCalling
<1>11. AtRestCall(call) =>
          /\ call.outputs = call.json
          /\ unavailable \/ installed[target] = call.json
          /\ \A j \in 1..Len(requests) :
                ~(requests[j].kind \in AbiKinds /\ requests[j].address = target)
  <2> SUFFICES ASSUME AtRestCall(call)
               PROVE  /\ described = json /\ (unavailable \/ installed[target] = json)
                      /\ \A j \in 1..Len(requests) :
                            ~(requests[j].kind \in AbiKinds /\ requests[j].address = target)
    BY <1>3
  <2>1. AbiSettled(target) /\ json # None
    BY <1>3 DEF AtRestCall
  <2>2. json = shown /\ described = descriptions[target] /\ shown # None
    BY <2>1
  <2>3. unsaved[target] = None /\ \A i \in 1..Len(Underway) :
           ~(Underway[i].kind \in AbiKinds /\ Underway[i].address = target)
    BY <1>8, <2>1 DEF AbiSettled, Range
  <2>4. shown = descriptions[target]
    BY <1>1, <2>3 DEF UiInv, FormCatchesUp, AbiKinds
  <2>5. /\ Len(answers) \in Nat /\ Len(requests) \in Nat
        /\ Len(Underway) = Len(answers) + Len(requests)
        /\ \A i \in 1..Len(answers) : Underway[i] = answers[i].call
        /\ \A i \in 1..Len(requests) : Underway[Len(answers) + i] = requests[i]
    <3>1. Underway = Joined(answers, requests)
      BY DEF Underway, Joined
    <3>2. QED BY <1>2, <3>1, JoinedIs DEF TypeInv
  <2>6. \A i \in 1..Len(answers) : ~ToDescribe(answers[i], target)
    <3> TAKE i \in 1..Len(answers)
    <3>1. i \in 1..Len(Underway)
      BY <2>5
    <3>2. QED BY <2>3, <2>5, <3>1 DEF ToDescribe
  <2>7. \A j \in 1..Len(requests) :
           ~(requests[j].kind \in AbiKinds /\ requests[j].address = target)
    <3> TAKE j \in 1..Len(requests)
    <3>1. Len(answers) + j \in 1..Len(Underway)
      BY <2>5
    <3>2. QED BY <2>3, <2>5, <3>1
  <2>8. unavailable \/ descriptions[target] \in {None, installed[target]}
    BY <1>3, <2>3, <2>6 DEF UiInv, DescriptionCatchesUp, Agrees
  <2>9. QED BY <2>2, <2>4, <2>7, <2>8
<1>12. RequestsKeepTheirAbi'
  <2>1. /\ Len(requests) \in Nat /\ Len(requests') = Len(requests) + 1
        /\ requests'[Len(requests) + 1] = call
        /\ \A i \in 1..Len(requests) : requests'[i] = requests[i]
    BY <1>2, <1>3, <1>4, SentLast
  <2>2. UNCHANGED <<installed, unavailable>> /\ RequestsKeepTheirAbi
    BY <1>1 DEF workerVars, UiInv
  <2>3. ASSUME NEW i \in 1..Len(requests'), AtRestCall(requests'[i])
        PROVE  /\ requests'[i].outputs = requests'[i].json
               /\ unavailable \/ installed[requests'[i].address] = requests'[i].json
               /\ \A j \in 1..i - 1 :
                     ~(requests'[j].kind \in AbiKinds
                       /\ requests'[j].address = requests'[i].address)
    <3>1. CASE i = Len(requests) + 1
      <4>1. requests'[i] = call /\ AtRestCall(call) /\ \A j \in 1..i - 1 : j \in 1..Len(requests)
        BY <2>1, <2>3, <3>1
      <4>2. QED BY <1>3, <1>11, <2>1, <4>1
    <3>2. CASE i # Len(requests) + 1
      <4>1. i \in 1..Len(requests) /\ \A j \in 1..i - 1 : j \in 1..Len(requests)
        BY <2>1, <3>2
      <4>2. QED BY <2>1, <2>2, <2>3, <4>1 DEF RequestsKeepTheirAbi
    <3>3. QED BY <3>1, <3>2
  <2>4. QED BY <2>2, <2>3 DEF RequestsKeepTheirAbi
<1>13. QED BY <1>5, <1>6, <1>9, <1>10, <1>12 DEF UiInv

\* The list and the targets after a change of the accounts.
LEMMA RebuildEffect ==
    ASSUME TypeInv, accounts' \subseteq Addresses, RebuildTargets
    PROVE  AccountTypes /\ PanelTypes /\ DisplayTypes /\ RequestTypes /\ Asks /\ FormStep
<1>1. options' = accounts' /\ target' \in accounts' \cup {None}
  <2>1. CASE accounts' = {}
    BY <2>1 DEF RebuildTargets
  <2>2. CASE accounts' # {}
    BY <2>2 DEF RebuildTargets
  <2>3. QED BY <2>1, <2>2
<1>2. target' \in Addresses \cup {None} /\ SelectTarget
  BY <1>1 DEF RebuildTargets
<1>3. RequestTypes /\ DisplayTypes /\ PanelTypes /\ (Redraws \/ Fetches(target'))
  BY <1>2, SelectEffect
<1>4. Asks /\ FormStep
  BY <1>2, <1>3, DrawnAsks DEF FormStep, Fetches
<1>5. QED BY <1>1, <1>3, <1>4 DEF AccountTypes

\* What handling any answer keeps.
LEMMA HandledStep ==
    ASSUME UiInv, answers # <<>>, answers' = Tail(answers), Asks,
           UNCHANGED <<installed, unavailable>>
    PROVE  /\ answers' \in Seq(GoodAnswers)
           /\ FailedMeansRefused' /\ RequestsKeepTheirAbi'
           /\ \A i \in 1..Len(answers') : AsEncoded(answers'[i])
<1>1. TypeInv /\ FailedMeansRefused /\ RequestsKeepTheirAbi /\ AnswersKeepTheirAbi
  BY DEF UiInv
<1>2. /\ answers' \in Seq(GoodAnswers) /\ Len(answers') = Len(answers) - 1 /\ Len(answers) \in Nat
      /\ \A i \in 1..Len(answers) - 1 : answers'[i] = answers[i + 1]
  BY <1>1, HeadAnswer
<1>3. \A i \in 1..Len(answers') : i + 1 \in 1..Len(answers) /\ answers'[i] = answers[i + 1]
  BY <1>2
<1>4. FailedMeansRefused' /\ \A i \in 1..Len(answers') : AsEncoded(answers'[i])
  <2>1. \A i \in 1..Len(answers) : AsEncoded(answers[i])
    BY <1>1 DEF AnswersKeepTheirAbi
  <2>2. QED BY <1>1, <1>3, <2>1 DEF FailedMeansRefused
<1>5. RequestsKeepTheirAbi'
  BY <1>1, RequestsKept
<1>6. QED BY <1>2, <1>4, <1>5

LEMMA AccountsStep ==
    ASSUME UiInv, AccountsAnswered
    PROVE  UiInv'
<1> DEFINE call == Head(answers).call
           Listed == \A address \in Addresses :
                        IF ToList(Head(answers), address)
                        THEN address \in accounts' <=> call.kind = "addBatch"
                        ELSE address \in accounts' <=> address \in accounts
           Done == /\ AccountTypes /\ PanelTypes /\ DisplayTypes /\ RequestTypes /\ ReadingTypes
                   /\ Asks /\ FormStep /\ Listed
<1>1. /\ TypeInv /\ accounts \subseteq Addresses
      /\ \A files \in BagToSet(reading) : files # <<>> /\ files \in Seq(SUBSET Addresses)
  BY DEF UiInv, TypeInv, TypeOK
<1>2. /\ answers # <<>> /\ answers' = Tail(answers)
      /\ call.kind \in {"addBatch", "removeSnapshot"}
      /\ UNCHANGED <<formVars, store, workerVars, unsaved>>
  BY DEF AccountsAnswered, BatchAnswered, RemovedSnapshot, NothingToRemove, Resumed
<1>3. call \in GoodCalls
  BY <1>1, <1>2, HeadAnswer
<1>4. call.kind = "addBatch" =>
         /\ call.files # <<>> /\ call.files \in Seq(SUBSET Addresses)
         /\ Head(call.files) \subseteq Addresses /\ Tail(call.files) \in Seq(SUBSET Addresses)
  <2> SUFFICES ASSUME call.kind = "addBatch"
               PROVE  /\ call.files # <<>> /\ call.files \in Seq(SUBSET Addresses)
                      /\ Head(call.files) \subseteq Addresses
                      /\ Tail(call.files) \in Seq(SUBSET Addresses)
    OBVIOUS
  <2>1. call.files # <<>> /\ call.files \in Seq(SUBSET Addresses)
    BY <1>3 DEF GoodCalls, CallSet
  <2> HIDE DEF call
  <2>2. Head(call.files) \in SUBSET Addresses /\ Tail(call.files) \in Seq(SUBSET Addresses)
    BY <2>1, HeadTailProperties
  <2>3. QED BY <2>1, <2>2
<1>5. ASSUME Resumed("addBatch", FALSE) /\ UNCHANGED <<accounts, reading>> /\ RebuildTargets
      PROVE  Done
  <2>1. AccountTypes /\ PanelTypes /\ DisplayTypes /\ RequestTypes /\ Asks /\ FormStep
    BY <1>1, <1>5, RebuildEffect
  <2>2. ReadingTypes /\ Listed
    BY <1>1, <1>5, TypesKept DEF Resumed, ToList
  <2>3. QED BY <2>1, <2>2
<1>6. ASSUME /\ Resumed("addBatch", TRUE) /\ accounts' = accounts \cup Head(call.files)
             /\ UNCHANGED reading /\ RebuildTargets
      PROVE  Done
  <2>1. call.kind = "addBatch" /\ Head(answers).ok
    BY <1>6 DEF Resumed
  <2>2. accounts' \subseteq Addresses
    BY <1>1, <1>4, <1>6, <2>1
  <2>3. AccountTypes /\ PanelTypes /\ DisplayTypes /\ RequestTypes /\ Asks /\ FormStep
    BY <1>1, <1>6, <2>2, RebuildEffect
  <2>4. ReadingTypes
    BY <1>1, <1>6, TypesKept
  <2>5. Listed
    BY <1>6, <2>1 DEF ToList
  <2>6. QED BY <2>3, <2>4, <2>5
<1>7. ASSUME /\ Resumed("addBatch", TRUE) /\ accounts' = accounts \cup Head(call.files)
             /\ Tail(call.files) # <<>> /\ reading' = BagAdd(reading, Tail(call.files))
             /\ NoRequest /\ UNCHANGED <<options, target, panelVars, descriptions, shown>>
      PROVE  Done
  <2>1. call.kind = "addBatch" /\ Head(answers).ok
    BY <1>7 DEF Resumed
  <2>2. AccountTypes
    BY <1>1, <1>4, <1>7, <2>1 DEF AccountTypes, TypeInv, TypeOK
  <2>3. PanelTypes /\ DisplayTypes /\ RequestTypes
    BY <1>1, <1>7, TypesKept
  <2>4. ReadingTypes
    <3>1. BagToSet(reading') = BagToSet(reading) \cup {Tail(call.files)}
      BY <1>7, BagMembers
    <3>2. QED BY <1>1, <1>4, <1>7, <2>1, <3>1 DEF ReadingTypes
  <2>5. Asks /\ FormStep
    BY <1>7 DEF Asks, FormStep, NoRequest
  <2>6. Listed
    BY <1>7, <2>1 DEF ToList
  <2>7. QED BY <2>2, <2>3, <2>4, <2>5, <2>6
<1>8. ASSUME RemovedSnapshot
      PROVE  Done
  <2>1. /\ call.kind = "removeSnapshot" /\ Head(answers).ok /\ UNCHANGED reading
        /\ accounts' = accounts \ {call.address} /\ RebuildTargets
    BY <1>8 DEF RemovedSnapshot, Resumed
  <2>2. AccountTypes /\ PanelTypes /\ DisplayTypes /\ RequestTypes /\ Asks /\ FormStep
    BY <1>1, <2>1, RebuildEffect
  <2>3. ReadingTypes
    BY <1>1, <2>1, TypesKept
  <2>4. Listed
    BY <2>1 DEF ToList
  <2>5. QED BY <2>2, <2>3, <2>4
<1>9. ASSUME NothingToRemove
      PROVE  Done
  <2>1. /\ ~Head(answers).ok /\ NoRequest
        /\ UNCHANGED <<pageVars, panelVars, descriptions, shown, reading>>
    BY <1>9 DEF NothingToRemove, Resumed
  <2>2. AccountTypes /\ PanelTypes /\ DisplayTypes /\ RequestTypes /\ ReadingTypes
    BY <1>1, <2>1, TypesKept
  <2>3. Asks /\ FormStep /\ Listed
    BY <2>1 DEF Asks, FormStep, NoRequest, ToList, pageVars
  <2>4. QED BY <2>2, <2>3
<1>10. Done
  BY <1>5, <1>6, <1>7, <1>8, <1>9, Zenon DEF AccountsAnswered, BatchAnswered
<1>11. UNCHANGED <<executing, result, loaded, installed, unavailable>>
  BY <1>2 DEF formVars, workerVars
<1>12. /\ answers' \in Seq(GoodAnswers) /\ FailedMeansRefused' /\ RequestsKeepTheirAbi'
       /\ \A i \in 1..Len(answers') : AsEncoded(answers'[i])
  BY <1>2, <1>10, <1>11, HandledStep
<1>13. TypeInv'
  BY <1>1, <1>2, <1>10, <1>11, <1>12, TypesKept, TypesTogether
<1>14. ListCatchesUp'
  BY <1>1, <1>2, <1>10, <1>11, ListHandled DEF UiInv
<1>15. DescriptionCatchesUp'
  <2>1. \A address \in Addresses : ~ToDescribe(Head(answers), address)
    BY <1>2 DEF ToDescribe, AbiKinds
  <2>2. \A address \in Addresses : descriptions'[address] \in {None, descriptions[address]}
    BY <1>10 DEF FormStep, Redraws
  <2>3. QED BY <1>1, <1>2, <1>11, <2>1, <2>2, DescriptionHandled DEF UiInv
<1>16. FormCatchesUp' /\ BusyWhileCalling'
  <2>1. Passed(1) /\ FormCatchesUp /\ BusyWhileCalling
    BY <1>2 DEF Passed, UiInv
  <2>2. QED BY <1>1, <1>2, <1>10, <1>11, <2>1, FormStays, BusyStays
<1>17. AnswersKeepTheirAbi'
  BY <1>11, <1>12 DEF UiInv, AnswersKeepTheirAbi
<1>18. QED BY <1>12, <1>13, <1>14, <1>15, <1>16, <1>17 DEF UiInv

LEMMA AbiStep ==
    ASSUME UiInv, AbiAnswered
    PROVE  UiInv'
<1> DEFINE call == Head(answers).call
           Described == \A address \in Addresses :
              IF ToDescribe(Head(answers), address)
              THEN Agrees(descriptions'[address], unsaved'[address], InForce(call))
              ELSE /\ descriptions'[address] \in {None, descriptions[address]}
                   /\ unsaved'[address] = unsaved[address]
           Drawn == shown' = IF target' = None THEN None ELSE descriptions'[target']
           Done == /\ answers # <<>> /\ answers' = Tail(answers) /\ call.kind \in AbiKinds
                   /\ PanelTypes /\ DisplayTypes /\ Described
                   /\ store' \in [Addresses -> Texts \cup {None}]
                   /\ unsaved' \in [Addresses -> Abis \cup {None}]
                   /\ Drawn \/ (SameForm /\ call.kind # "loadAbi")
<1>1. /\ TypeInv /\ descriptions \in [Addresses -> Abis \cup {None}] /\ shown \in Abis \cup {None}
      /\ store \in [Addresses -> Texts \cup {None}]
      /\ unsaved \in [Addresses -> Abis \cup {None}]
      /\ target \in Addresses \cup {None} /\ abiAddressNew \in Addresses \cup {None}
      /\ abiJson \in Texts \cup {None}
  BY DEF UiInv, TypeInv, TypeOK
<1>2. NoRequest /\ UNCHANGED <<pageVars, formVars, reading, workerVars>>
      /\ (LoadedAbi \/ SavedAbi \/ RemovedAbi)
  BY DEF AbiAnswered
<1>3. target' = target
  BY <1>2 DEF pageVars
<1>4. ASSUME answers # <<>>, call.kind \in AbiKinds
      PROVE  /\ call.address \in Addresses
             /\ Head(answers).ok /\ call.kind \in {"loadAbi", "saveAbi"} => call.json \in Abis
             /\ call.kind = "saveAbi" => call.json \in Texts
  <2>1. Head(answers) \in GoodAnswers /\ call \in GoodCalls
    BY <1>1, <1>4, HeadAnswer
  <2>2. QED BY <1>4, <2>1 DEF GoodAnswers, GoodCalls, AbiKinds
<1>5. ASSUME UNCHANGED <<panelVars, descriptions, shown, store>>,
             answers # <<>>, answers' = Tail(answers),
             call.kind \in AbiKinds \ {"loadAbi"},
             \/ ~Head(answers).ok /\ UNCHANGED unsaved
             \/ /\ Head(answers).ok /\ InForce(call) \in Abis
                /\ unsaved' = [unsaved EXCEPT ![call.address] = InForce(call)]
      PROVE  Done
  <2>1. PanelTypes /\ DisplayTypes
    BY <1>1, <1>5, TypesKept
  <2>2. call.address \in Addresses
    BY <1>4, <1>5
  <2>3. Described
    BY <1>1, <1>5, <2>2, UiAssumption DEF ToDescribe, Agrees
  <2>4. SameForm
    BY <1>3, <1>5 DEF SameForm
  <2>5. QED BY <1>1, <1>5, <2>1, <2>3, <2>4
<1>6. ASSUME NEW held \in Abis \cup {None}, answers # <<>>, answers' = Tail(answers),
             call.kind \in AbiKinds,
             Head(answers).ok => held = InForce(call), ~Head(answers).ok => held = None,
             descriptions' = [descriptions EXCEPT ![call.address] = held],
             unsaved' \in {unsaved, [unsaved EXCEPT ![call.address] = None]},
             Head(answers).ok \/ unsaved' = unsaved,
             store' \in [Addresses -> Texts \cup {None}], PanelTypes,
             Drawn \/ (UNCHANGED shown /\ target # call.address /\ call.kind # "loadAbi")
      PROVE  Done
  <2>1. call.address \in Addresses
    BY <1>4, <1>6
  <2>2. DisplayTypes
    BY <1>1, <1>3, <1>6 DEF DisplayTypes
  <2>3. Described
    BY <1>1, <1>6, <2>1 DEF ToDescribe, Agrees
  <2>4. Drawn \/ (SameForm /\ call.kind # "loadAbi")
    BY <1>1, <1>3, <1>6, <2>1 DEF SameForm
  <2>5. QED BY <1>1, <1>6, <2>2, <2>3, <2>4
<1>7. ASSUME LoadedAbi PROVE Done
  <2> DEFINE held == IF Head(answers).ok THEN call.json ELSE None
  <2>1. /\ answers # <<>> /\ answers' = Tail(answers) /\ call.kind = "loadAbi"
        /\ Head(answers).ok \in BOOLEAN
        /\ descriptions' = [descriptions EXCEPT ![call.address] = held]
        /\ unsaved' = IF Head(answers).ok THEN [unsaved EXCEPT ![call.address] = None] ELSE unsaved
        /\ UNCHANGED <<panelVars, store>> /\ Drawn
    BY <1>7 DEF LoadedAbi, Resumed, RenderFunctions
  <2>2. held \in Abis \cup {None}
    BY <1>4, <2>1 DEF AbiKinds
  <2>3. Head(answers).ok => held = InForce(call)
    BY <2>1 DEF InForce
  <2>4. PanelTypes
    BY <1>1, <2>1, TypesKept
  <2>5. ~Head(answers).ok => held = None
    OBVIOUS
  <2> HIDE DEF held, call, Drawn, Done
  <2>6. QED BY <1>1, <1>6, <2>1, <2>2, <2>3, <2>4, <2>5 DEF AbiKinds
<1>8. ASSUME SavedAbi PROVE Done
  <2>1. /\ answers # <<>> /\ answers' = Tail(answers) /\ call.kind = "saveAbi"
        /\ abiAddressNew' \in {abiAddressNew, None} /\ UNCHANGED abiJson
    BY <1>8 DEF SavedAbi, Resumed, panelVars
  <2>2. call.address \in Addresses /\ call.json \in Texts
    BY <1>4, <2>1 DEF AbiKinds
  <2>3. CASE ~Head(answers).ok /\ UNCHANGED <<store, panelVars, descriptions, shown, unsaved>>
    <3> HIDE DEF call, Done
    <3>1. QED BY <1>1, <1>5, <2>1, <2>3 DEF AbiKinds
  <2>4. CASE /\ Head(answers).ok /\ unsaved' = [unsaved EXCEPT ![call.address] = call.json]
             /\ UNCHANGED <<store, panelVars, descriptions, shown>>
    <3>1. InForce(call) \in Abis /\ InForce(call) = call.json
      BY <1>4, <2>1, <2>4 DEF AbiKinds, InForce
    <3> HIDE DEF call, Done
    <3>2. QED BY <1>5, <2>1, <2>4, <3>1 DEF AbiKinds
  <2>5. CASE /\ Head(answers).ok /\ store' = [store EXCEPT ![call.address] = call.json]
             /\ descriptions' = [descriptions EXCEPT ![call.address] = call.json]
             /\ unsaved' = [unsaved EXCEPT ![call.address] = None] /\ abiAddress' = call.address
             /\ IF target = call.address THEN RenderFunctions ELSE UNCHANGED shown
    <3>1. call.json \in Abis /\ call.json = InForce(call)
      BY <1>4, <2>1, <2>5 DEF AbiKinds, InForce
    <3>2. Drawn \/ (UNCHANGED shown /\ target # call.address)
      BY <2>5 DEF RenderFunctions
    <3> HIDE DEF call, Done, Drawn
    <3>3. store' \in [Addresses -> Texts \cup {None}] /\ PanelTypes
      BY <1>1, <2>1, <2>2, <2>5 DEF PanelTypes
    <3>4. QED BY <1>6, <2>1, <2>5, <3>1, <3>2, <3>3 DEF AbiKinds
  <2>6. QED BY <1>8, <2>3, <2>4, <2>5, Zenon DEF SavedAbi, Resumed
<1>9. ASSUME RemovedAbi PROVE Done
  <2>1. /\ answers # <<>> /\ answers' = Tail(answers) /\ call.kind = "removeAbi"
    BY <1>9 DEF RemovedAbi, Resumed
  <2>2. call.address \in Addresses
    BY <1>4, <2>1 DEF AbiKinds
  <2>3. CASE ~Head(answers).ok /\ UNCHANGED <<store, panelVars, descriptions, shown, unsaved>>
    <3> HIDE DEF call, Done
    <3>1. QED BY <1>1, <1>5, <2>1, <2>3 DEF AbiKinds
  <2>4. CASE /\ Head(answers).ok /\ store' = [store EXCEPT ![call.address] = None]
             /\ descriptions' = [descriptions EXCEPT ![call.address] = None]
             /\ unsaved' = [unsaved EXCEPT ![call.address] = None]
             /\ abiJson' = None /\ abiAddress' = None /\ UNCHANGED abiAddressNew
             /\ RenderFunctions
    <3>1. None = InForce(call)
      BY <2>1 DEF InForce
    <3>2. Drawn
      BY <2>4 DEF RenderFunctions
    <3> HIDE DEF call, Done, Drawn
    <3>3. store' \in [Addresses -> Texts \cup {None}] /\ PanelTypes
      BY <1>1, <2>4 DEF PanelTypes
    <3>4. QED BY <1>6, <2>1, <2>4, <3>1, <3>2, <3>3 DEF AbiKinds
  <2>5. QED BY <1>9, <2>3, <2>4, Zenon DEF RemovedAbi, Resumed
<1>10. Done
  BY <1>2, <1>7, <1>8, <1>9, Zenon
<1>11. /\ UNCHANGED <<accounts, target, executing, result, loaded, installed, unavailable, requests>>
       /\ AccountTypes /\ ReadingTypes /\ RequestTypes
  BY <1>1, <1>2, TypesKept DEF NoRequest, pageVars, formVars, workerVars
<1>12. /\ Asks /\ Passed(1) /\ call.kind # "execute"
       /\ FormCatchesUp /\ BusyWhileCalling /\ DescriptionCatchesUp /\ ListCatchesUp
  BY <1>10, <1>11 DEF Asks, Passed, UiInv, AbiKinds
<1>13. /\ answers' \in Seq(GoodAnswers) /\ FailedMeansRefused' /\ RequestsKeepTheirAbi'
       /\ \A i \in 1..Len(answers') : AsEncoded(answers'[i])
  BY <1>10, <1>11, <1>12, HandledStep
<1>14. TypeInv'
  BY <1>1, <1>10, <1>11, <1>13, TypesKept, TypesTogether
<1>15. ListCatchesUp'
  <2>1. \A address \in Addresses : ~ToList(Head(answers), address)
    BY <1>10 DEF ToList, AbiKinds
  <2>2. QED BY <1>1, <1>10, <1>11, <1>12, <2>1, ListHandled
<1>16. DescriptionCatchesUp'
  BY <1>1, <1>10, <1>11, <1>12, DescriptionHandled
<1>17. BusyWhileCalling'
  BY <1>1, <1>11, <1>12, BusyStays
<1>18. FormCatchesUp'
  <2>1. CASE Drawn
    BY <2>1 DEF FormCatchesUp
  <2>2. CASE SameForm /\ call.kind # "loadAbi"
    BY <1>1, <1>12, <2>2, FormStays
  <2>3. QED BY <1>10, <2>1, <2>2
<1>19. AnswersKeepTheirAbi'
  BY <1>11, <1>13 DEF UiInv, AnswersKeepTheirAbi
<1>20. QED BY <1>13, <1>14, <1>15, <1>16, <1>17, <1>18, <1>19 DEF UiInv

\* The one call that executes is answered: the form is free.
LEMMA ExecutedStep ==
    ASSUME UiInv, Executed
    PROVE  UiInv'
<1> DEFINE head == Head(answers)
<1>1. /\ answers # <<>> /\ answers' = Tail(answers) /\ head.call.kind = "execute"
      /\ executing' = FALSE /\ result' = IF head.ok THEN {head} ELSE {}
      /\ UNCHANGED <<pageVars, panelVars, descriptions, shown, store, reading, requests,
                     calls, workerVars, unsaved>>
  BY DEF Executed, Resumed
<1>2. /\ UNCHANGED <<accounts, target, loaded, installed, unavailable>>
      /\ NoRequest
  BY <1>1 DEF pageVars, workerVars, NoRequest
<1>3. TypeInv /\ ListCatchesUp /\ DescriptionCatchesUp /\ FormCatchesUp /\ BusyWhileCalling
      /\ AnswersKeepTheirAbi
  BY DEF UiInv
<1>4. Asks /\ Passed(1) /\ SameForm
  BY <1>1, <1>2 DEF Asks, Passed, SameForm
<1>5. /\ head = answers[1] /\ 1 \in 1..Len(answers) /\ head \in GoodAnswers
      /\ Underway[1] = head.call /\ 1 \in 1..Len(Underway)
  BY <1>1, <1>3, HeadAnswer
<1>6. /\ answers' \in Seq(GoodAnswers) /\ FailedMeansRefused' /\ RequestsKeepTheirAbi'
      /\ \A i \in 1..Len(answers') : AsEncoded(answers'[i])
  BY <1>1, <1>2, <1>4, HandledStep
<1>7. TypeInv'
  <2>1. result' \subseteq AnswerSet
    BY <1>1, <1>5 DEF GoodAnswers
  <2>2. AccountTypes /\ PanelTypes /\ DisplayTypes /\ ReadingTypes /\ RequestTypes
    BY <1>1, <1>2, <1>3, TypesKept
  <2>3. QED BY <1>1, <1>2, <1>3, <1>6, <2>1, <2>2, TypesKept, TypesTogether
<1>8. ListCatchesUp' /\ DescriptionCatchesUp'
  <2>1. \A address \in Addresses : ~ToList(head, address) /\ ~ToDescribe(head, address)
    BY <1>1 DEF ToList, ToDescribe, AbiKinds
  <2>2. ListCatchesUp'
    BY <1>1, <1>2, <1>3, <2>1, ListHandled
  <2>3. DescriptionCatchesUp'
    BY <1>1, <1>2, <1>3, <2>1, DescriptionHandled
  <2>4. QED BY <2>2, <2>3
<1>9. FormCatchesUp'
  BY <1>1, <1>3, <1>4, FormStays
<1>10. BusyWhileCalling'
  <2>1. Carries(Underway, Underway', 1, {})
    BY <1>1, <1>3, <1>4, StepCarries
  <2>2. /\ DOMAIN Underway = 1..Len(Underway) /\ DOMAIN Underway' = 1..Len(Underway')
        /\ \A i \in 1..Len(Underway') :
              i + 1 \in 1..Len(Underway) /\ Underway'[i] = Underway[i + 1]
    BY <2>1, Zenon DEF Carries
  <2>3. \A i \in 1..Len(Underway) : Underway[i].kind = "execute" => i = 1
    BY <1>1, <1>3, <1>5, <2>2 DEF BusyWhileCalling
  <2>4. \A i \in 1..Len(Underway') : i + 1 # 1
    <3>1. Len(Underway') \in Nat
      BY <2>1, Zenon DEF Carries
    <3>2. \A n \in Nat : \A i \in 1..n : i + 1 # 1
      OBVIOUS
    <3>3. QED BY <3>1, <3>2
  <2>5. \A i \in 1..Len(Underway') : Underway'[i].kind # "execute"
    BY <2>2, <2>3, <2>4
  <2>6. QED BY <1>1, <2>2, <2>5 DEF BusyWhileCalling
<1>11. AnswersKeepTheirAbi'
  <2>1. AsEncoded(head)
    BY <1>3, <1>5 DEF AnswersKeepTheirAbi
  <2>2. \A answer \in result' : AsEncoded(answer) /\ answer.ok /\ answer.call.kind = "execute"
    BY <1>1, <2>1
  <2>3. QED BY <1>6, <2>2 DEF AnswersKeepTheirAbi
<1>12. QED BY <1>6, <1>7, <1>8, <1>9, <1>10, <1>11 DEF UiInv

LEMMA UserStep ==
    ASSUME UiInv, UserInput
    PROVE  UiInv'
<1>1. CASE \E raw \in BOOLEAN : ClickExecute(raw)
  BY <1>1, ExecuteStep
<1>2. CASE ~\E raw \in BOOLEAN : ClickExecute(raw)
  <2>1. TypeInv
    BY DEF UiInv
  <2>2. TypeInv' /\ UserFrame /\ UNCHANGED executing /\ Asks /\ FormStep
    BY <1>2, <2>1, UserEffect
  <2>3. UNCHANGED <<accounts, executing, result, answers, workerVars, unsaved>>
    BY <2>2 DEF UserFrame
  <2>4. QED BY <2>2, <2>3, QuietStep
<1>3. QED BY <1>1, <1>2

-----------------------------------------------------------------------------
(* The invariant holds *)

LEMMA UiStarts == Init => UiInv
<1> SUFFICES ASSUME Init PROVE UiInv
  OBVIOUS
<1>1. /\ accounts = {} /\ options = {} /\ target = None
      /\ abiAddress = None /\ abiAddressNew = None /\ abiJson = None
      /\ descriptions = NoAbi /\ shown = None /\ executing = FALSE /\ result = {}
      /\ store \in Saved /\ reading = EmptyBag /\ requests = <<>> /\ answers = <<>> /\ calls = 0
      /\ loaded = {} /\ installed = NoAbi /\ unavailable = FALSE /\ unsaved = NoAbi
  BY DEF Init
<1>2. /\ <<>> \in Seq(GoodCalls) /\ <<>> \in Seq(GoodAnswers) /\ Len(<<>>) = 0
      /\ <<>> \in Seq(CallSet) /\ <<>> \in Seq(AnswerSet)
  BY EmptySeq
<1>3. TypeInv
  <2>1. store \in [Addresses -> Texts \cup {None}] /\ 0 \in 0..MaxCalls
    BY <1>1, UiAssumption DEF Texts
  <2>2. NoAbi \in [Addresses -> Abis \cup {None}]
    BY DEF NoAbi
  <2>3. BagToSet(EmptyBag) = {}
    BY DEF BagToSet, EmptyBag, SetToBag
  <2>4. QED BY <1>1, <1>2, <2>1, <2>2, <2>3 DEF TypeInv, TypeOK
<1>4. FailedMeansRefused /\ RequestsKeepTheirAbi /\ AnswersKeepTheirAbi
  BY <1>1, <1>2 DEF FailedMeansRefused, RequestsKeepTheirAbi, AnswersKeepTheirAbi
<1>5. ListCatchesUp /\ DescriptionCatchesUp
  BY <1>1, <1>2 DEF ListCatchesUp, DescriptionCatchesUp, NoAbi, Agrees
<1>6. FormCatchesUp
  BY <1>1 DEF FormCatchesUp
<1>7. BusyWhileCalling
  <2>1. Underway = Joined(<<>>, <<>>)
    BY <1>1 DEF Underway, Joined
  <2>2. /\ Len(Joined(<<>>, <<>>)) = Len(<<>>) + Len(<<>>)
        /\ DOMAIN Joined(<<>>, <<>>) = 1..Len(Joined(<<>>, <<>>))
    BY <1>2, JoinedIs
  <2>3. DOMAIN Underway = {}
    BY <1>2, <2>1, <2>2
  <2>4. QED BY <1>1, <2>3 DEF BusyWhileCalling
<1>8. QED BY <1>3, <1>4, <1>5, <1>6, <1>7 DEF UiInv

LEMMA UiStutters ==
    ASSUME UiInv, UNCHANGED vars
    PROVE  UiInv'
<1>1. UNCHANGED <<pageVars, panelVars, descriptions, shown, formVars, store, reading,
                  requests, answers, calls, workerVars, unsaved>>
  BY DEF vars
<1>2. TypeInv
  BY DEF UiInv
<1>3. AccountTypes /\ PanelTypes /\ DisplayTypes /\ ReadingTypes /\ RequestTypes
  BY <1>1, <1>2, TypesKept DEF NoRequest
<1>4. TypeInv'
  BY <1>1, <1>2, <1>3, TypesKept, TypesTogether DEF formVars, workerVars
<1>5. Asks /\ FormStep /\ UNCHANGED <<accounts, executing, result>>
  BY <1>1 DEF Asks, FormStep, pageVars, formVars
<1>6. QED BY <1>1, <1>4, <1>5, QuietStep

\* What the page holds agrees with what the executor holds once the answers it
\* has not handled are applied: the invariant behind the theorems below.
THEOREM UiInvariant == Spec => []UiInv
<1>1. UiInv /\ [Next]_vars => UiInv'
  <2> SUFFICES ASSUME UiInv, [Next]_vars PROVE UiInv'
    OBVIOUS
  <2>1. CASE UserInput
    BY <2>1, UserStep
  <2>2. ASSUME NEW files \in BagToSet(reading), BytesRead(files) PROVE UiInv'
    BY <2>2, BytesReadStep
  <2>3. CASE Perform
    BY <2>3, PerformStep
  <2>4. CASE WorkerFails
    BY <2>4, FailureStep
  <2>5. CASE AnswerHandled
    BY <2>5, AccountsStep, AbiStep, ExecutedStep DEF AnswerHandled
  <2>6. CASE UNCHANGED vars
    BY <2>6, UiStutters
  <2>7. QED BY <2>1, <2>2, <2>3, <2>4, <2>5, <2>6, Zenon DEF Next
<1>2. QED BY <1>1, UiStarts, PTL DEF Spec

-----------------------------------------------------------------------------
(* The page's properties *)

\* Every variable of the page keeps its type, whatever the user does and however
\* the worker fails: the target and its options are loaded accounts.
THEOREM UiTypeCorrect == Spec => []TypeOK
<1>1. UiInv => TypeOK
  BY DEF UiInv, TypeInv
<1>2. QED BY <1>1, UiInvariant, PTL

\* The page lists the accounts the executor holds once no answer about accounts
\* is outstanding (main.ts:110-133, 177-186).
THEOREM AccountsAreMirrored == Spec => []AccountsMirrored
<1>1. UiInv => AccountsMirrored
  <2> SUFFICES ASSUME UiInv, ~unavailable,
                      ~\E answer \in Range(answers) :
                          answer.call.kind \in {"addBatch", "removeSnapshot"}
               PROVE  accounts = loaded
    BY DEF AccountsMirrored
  <2>1. DOMAIN answers = 1..Len(answers) /\ accounts \subseteq Addresses /\ loaded \subseteq Addresses
    BY LenProperties DEF UiInv, TypeInv, TypeOK
  <2>2. \A i \in 1..Len(answers) : answers[i].call.kind \notin {"addBatch", "removeSnapshot"}
    BY <2>1 DEF Range
  <2>3. \A address \in Addresses : \A i \in 1..Len(answers) : ~ToList(answers[i], address)
    BY <2>2 DEF ToList
  <2>4. \A address \in Addresses : address \in accounts <=> address \in loaded
    BY <2>3 DEF UiInv, ListCatchesUp
  <2>5. QED BY <2>1, <2>4
<1>2. QED BY <1>1, UiInvariant, PTL

\* A description the page holds is that of the ABI the executor holds, once the
\* answers about it are in; or the executor holds just the ABI that could not be
\* stored (main.ts:257-276, 301-344).
THEOREM DescriptionsAreInstalled == Spec => []DescribedIsInstalled
<1>1. UiInv => DescribedIsInstalled
  <2> SUFFICES ASSUME UiInv, ~unavailable, NEW address \in Addresses,
                      ~\E answer \in Range(answers) :
                          answer.call.kind \in AbiKinds /\ answer.call.address = address
               PROVE  Agrees(descriptions[address], unsaved[address], installed[address])
    BY DEF DescribedIsInstalled, Agrees
  <2>1. DOMAIN answers = 1..Len(answers)
    BY LenProperties DEF UiInv, TypeInv
  <2>2. \A i \in 1..Len(answers) : ~ToDescribe(answers[i], address)
    BY <2>1 DEF Range, ToDescribe
  <2>3. QED BY <2>2 DEF UiInv, DescriptionCatchesUp
<1>2. QED BY <1>1, UiInvariant, PTL

\* A call made while its target's ABI was at rest is encoded, performed and
\* shown with one ABI (main.ts:395-438).
THEOREM CallsRunAsShown == Spec => []ExecutedAsShown
<1>1. UiInv => ExecutedAsShown
  BY DEF UiInv, AnswersKeepTheirAbi, ExecutedAsShown, AsEncoded, AtRestCall
<1>2. QED BY <1>1, UiInvariant, PTL

\* The form is busy exactly while its one call is under way (main.ts:395-449).
THEOREM FormIsBusyWhileCalling == Spec => []BusyWhileCalling
<1>1. UiInv => BusyWhileCalling
  BY DEF UiInv
<1>2. QED BY <1>1, UiInvariant, PTL

\* Only ABI text the executor has accepted is stored, and nothing saved is lost
\* with a worker that failed (index.html:97, main.ts:301-344).
THEOREM StoredIsValidated == Spec => OnlyValidatedPersisted
<1> DEFINE Kept == \A address \in Addresses :
                      /\ store'[address] \in {store[address], None} \cup Abis
                      /\ unavailable => store' = store
<1>1. UiInv /\ [Next]_vars => [Kept]_vars
  <2> SUFFICES ASSUME UiInv, Next PROVE Kept
    BY DEF vars
  <2>1. CASE store' = store
    BY <2>1
  <2>2. CASE AbiAnswered
    <3>1. /\ store \in [Addresses -> Texts \cup {None}] /\ TypeInv
      BY DEF UiInv, TypeInv, TypeOK
    <3>2. CASE \E kind \in {"saveAbi", "removeAbi"} : Resumed(kind, TRUE)
      <4>1. PICK kind \in {"saveAbi", "removeAbi"} : Resumed(kind, TRUE)
        BY <3>2
      <4>2. answers # <<>> /\ Head(answers).ok /\ Head(answers).call.kind = kind
        BY <4>1 DEF Resumed
      <4>3. Head(answers) \in GoodAnswers /\ Head(answers) = answers[1] /\ 1 \in 1..Len(answers)
        BY <3>1, <4>2, HeadAnswer
      <4>4. kind = "saveAbi" => Head(answers).call.json \in Abis
        BY <4>2, <4>3 DEF GoodAnswers
      <4>5. ~unavailable
        BY <4>2, <4>3 DEF UiInv, FailedMeansRefused
      <4>6. \/ store' = store
            \/ kind = "saveAbi"
               /\ store' = [store EXCEPT ![Head(answers).call.address] = Head(answers).call.json]
            \/ store' = [store EXCEPT ![Head(answers).call.address] = None]
        BY <2>2, <4>2 DEF AbiAnswered, LoadedAbi, SavedAbi, RemovedAbi, Resumed
      <4>7. QED BY <3>1, <4>4, <4>5, <4>6
    <3>3. CASE ~\E kind \in {"saveAbi", "removeAbi"} : Resumed(kind, TRUE)
      <4>1. store' = store
        BY <2>2, <3>3 DEF AbiAnswered, LoadedAbi, SavedAbi, RemovedAbi
      <4>2. QED BY <4>1
    <3>4. QED BY <3>2, <3>3
  <2>3. CASE UserInput
    <3>1. store' = store
      BY <2>3, Zenon DEF UserInput, LoadFiles, ClickRemoveSnapshot, SelectContract, PickTarget,
           PickAbiAddress, EditPanel, ClickSaveAbi, ClickRemoveAbi, ClickExecute
    <3>2. QED BY <3>1
  <2>4. CASE Perform \/ WorkerFails \/ AccountsAnswered \/ Executed
             \/ \E files \in BagToSet(reading) : BytesRead(files)
    <3>1. store' = store
      BY <2>4 DEF Perform, WorkerFails, AccountsAnswered, Executed, BytesRead
    <3>2. QED BY <3>1
  <2>5. QED BY <2>2, <2>3, <2>4 DEF Next, AnswerHandled
<1>2. QED BY <1>1, UiInvariant, PTL DEF Spec, OnlyValidatedPersisted
===============================================================================

---------------------- MODULE PriorityRequestSolverProofs ----------------------
(***************************************************************************)
(* Theorems about the Priority Request Solver's loop: for every set of     *)
(* lists, every weights, and any number of messages, plan changes and      *)
(* restarts.                                                               *)
(***************************************************************************)
EXTENDS PriorityRequestSolver, SequenceTheorems, TLAPS

Awaiting == pc \in {"awaitSplitData", "awaitCurrentPhases"}

\* What the lists are that arrive and are worked on, and what is known of the
\* coordination plan when the current phases are awaited.
ListsIn(q) == \A i \in DOMAIN q : q[i].kind = PriorityRequest => q[i].list \in RequestLists

ListInv ==
  /\ ListsIn(inbox)
  /\ Awaiting => priorityRequestList \in RequestLists /\ trafficSignalPlan # 0
  /\ pc = "awaitCurrentPhases" /\ CoordinationVehicleType \in priorityRequestList
       /\ trafficSignalPlan_SignalCoordination = 0 => mistaken
  /\ DiesOnlyAfterMiss

\* The last timing plan that waits is the one the TCI has.
IsPlan(q, i) == q[i].kind = SignalPlan
NoPlanIn(q) == \A i \in DOMAIN q : ~IsPlan(q, i)
LastPlanIs(q, v) ==
  \A i \in DOMAIN q : IsPlan(q, i) /\ (\A j \in DOMAIN q : i < j => ~IsPlan(q, j)) => q[i].number = v

PlanInv ==
  pc # "dead" =>
    /\ LastPlanIs(inbox, currentTimingPlan)
    /\ trafficSignalPlan # 0 /\ NoPlanIn(inbox) /\ ~planLost => trafficSignalPlan = currentTimingPlan

\* Questions for the current phases that are open, and answers that wait.
AnswerInv ==
  ~restarted /\ pc # "dead" =>
    /\ asked.phases + answers <= IF pc = "awaitCurrentPhases" THEN 1 ELSE 0
    /\ pc = "awaitCurrentPhases" /\ ~unanswered => asked.phases + answers = 1

\* The server's messages are numbered in the order in which they wait, behind the one
\* that is worked on, behind the one the TCI works on.
Sorted(q) ==
  \A i, j \in DOMAIN q : FromServer(q[i]) /\ FromServer(q[j]) /\ i < j => q[i].number < q[j].number
Numbers(q) == {q[i].number : i \in {j \in DOMAIN q : FromServer(q[j])}}
Above(q, n) == \A k \in Numbers(q) : n < k
Sound(n) == n \in DOMAIN fate /\ fate[n] = "served" /\ tci.number < n

NumberInv ==
  /\ Sorted(inbox)
  /\ \A n \in Numbers(inbox) : Sound(n)
  /\ Awaiting => Sound(number) /\ Above(inbox, number)
  /\ \A n \in DOMAIN fate : n \notin Pending /\ fate[n] = "served" => n <= tci.number
  /\ tci.number # 0 =>
       /\ tci.number \in DOMAIN fate /\ fate[tci.number] = "served" /\ tci.command # "none"

SolverInv == TypeOK /\ ListInv /\ PlanInv /\ AnswerInv /\ NumberInv

-----------------------------------------------------------------------------
(* Queues *)

LEMMA TailOfQueue ==
  ASSUME NEW q \in Seq(Message), q # <<>>
  PROVE  /\ Head(q) \in Message /\ Head(q) = q[1] /\ 1 \in DOMAIN q
         /\ Tail(q) \in Seq(Message) /\ Len(q) \in Nat \ {0}
         /\ DOMAIN q = 1 .. Len(q) /\ DOMAIN Tail(q) = 1 .. (Len(q) - 1)
         /\ \A i \in DOMAIN Tail(q) : i + 1 \in DOMAIN q /\ Tail(q)[i] = q[i + 1]
OBVIOUS

LEMMA AppendToQueue ==
  ASSUME NEW q \in Seq(Message), NEW m \in Message
  PROVE  /\ Append(q, m) \in Seq(Message) /\ Len(q) \in Nat
         /\ DOMAIN q = 1 .. Len(q) /\ DOMAIN Append(q, m) = 1 .. (Len(q) + 1)
         /\ \A i \in DOMAIN q : Append(q, m)[i] = q[i]
         /\ Append(q, m)[Len(q) + 1] = m
OBVIOUS

\* The loop takes the first datagram.
LEMMA ShorterQueue ==
  ASSUME NEW q \in Seq(Message), q # <<>>
  PROVE  /\ ListsIn(q) => ListsIn(Tail(q)) /\ (Head(q).kind = PriorityRequest => Head(q).list \in RequestLists)
         /\ Sorted(q) => Sorted(Tail(q))
         /\ Numbers(Tail(q)) \subseteq Numbers(q)
         /\ Numbers(q) \subseteq
              Numbers(Tail(q)) \cup (IF FromServer(Head(q)) THEN {Head(q).number} ELSE {})
         /\ FromServer(Head(q)) => Head(q).number \in Numbers(q)
         /\ Sorted(q) /\ FromServer(Head(q)) => Above(Tail(q), Head(q).number)
<1>1. ListsIn(q) => ListsIn(Tail(q)) /\ (Head(q).kind = PriorityRequest => Head(q).list \in RequestLists)
  BY TailOfQueue DEF ListsIn
<1>2. Sorted(q) => Sorted(Tail(q))
  BY TailOfQueue DEF Sorted
<1>3. Numbers(Tail(q)) \subseteq Numbers(q)
  BY TailOfQueue DEF Numbers
<1>4. ASSUME NEW i \in DOMAIN q, FromServer(q[i])
      PROVE  q[i].number \in Numbers(Tail(q)) \/ (FromServer(Head(q)) /\ q[i].number = Head(q).number)
  <2>1. CASE i = 1
    BY <1>4, <2>1, TailOfQueue
  <2>2. CASE i # 1
    <3>1. i - 1 \in DOMAIN Tail(q) /\ Tail(q)[i - 1] = q[i]
      BY <2>2, TailOfQueue
    <3>2. QED
      BY <1>4, <3>1 DEF Numbers
  <2>3. QED
    BY <2>1, <2>2
<1>5. FromServer(Head(q)) => Head(q).number \in Numbers(q)
  BY TailOfQueue DEF Numbers
<1>6. ASSUME Sorted(q), FromServer(Head(q))
      PROVE  Above(Tail(q), Head(q).number)
  <2>1. ASSUME NEW i \in DOMAIN Tail(q), FromServer(Tail(q)[i])
        PROVE  Head(q).number < Tail(q)[i].number
    <3>1. /\ 1 \in DOMAIN q /\ i + 1 \in DOMAIN q /\ 1 < i + 1
          /\ Head(q) = q[1] /\ Tail(q)[i] = q[i + 1]
      BY TailOfQueue
    <3>2. QED
      BY <1>6, <2>1, <3>1 DEF Sorted
  <2>2. QED
    BY <2>1 DEF Above, Numbers
<1>7. QED
  BY <1>1, <1>2, <1>3, <1>4, <1>5, <1>6 DEF Numbers

\* A datagram is put behind the others.
LEMMA LongerQueue ==
  ASSUME NEW q \in Seq(Message), NEW m \in Message
  PROVE  /\ ListsIn(q) /\ (m.kind = PriorityRequest => m.list \in RequestLists) => ListsIn(Append(q, m))
         /\ Numbers(Append(q, m)) = Numbers(q) \cup (IF FromServer(m) THEN {m.number} ELSE {})
         /\ Sorted(q) /\ (FromServer(m) => \A k \in Numbers(q) : k < m.number) => Sorted(Append(q, m))
<1>0. \A i \in DOMAIN Append(q, m) : i \in DOMAIN q \/ i = Len(q) + 1
  BY AppendToQueue
<1>1. ListsIn(q) /\ (m.kind = PriorityRequest => m.list \in RequestLists) => ListsIn(Append(q, m))
  BY <1>0, AppendToQueue DEF ListsIn
<1>2. Numbers(Append(q, m)) \subseteq Numbers(q) \cup (IF FromServer(m) THEN {m.number} ELSE {})
  BY <1>0, AppendToQueue DEF Numbers
<1>3. Numbers(q) \cup (IF FromServer(m) THEN {m.number} ELSE {}) \subseteq Numbers(Append(q, m))
  <2>1. DOMAIN q \subseteq DOMAIN Append(q, m) /\ Len(q) + 1 \in DOMAIN Append(q, m)
    BY AppendToQueue
  <2>2. QED
    BY <2>1, AppendToQueue DEF Numbers
<1>4. ASSUME Sorted(q), FromServer(m) => \A k \in Numbers(q) : k < m.number
      PROVE  Sorted(Append(q, m))
  <2>1. SUFFICES ASSUME NEW i \in DOMAIN Append(q, m), NEW j \in DOMAIN Append(q, m), i < j,
                        FromServer(Append(q, m)[i]), FromServer(Append(q, m)[j])
                 PROVE  Append(q, m)[i].number < Append(q, m)[j].number
    BY DEF Sorted
  <2>2. i \in DOMAIN q
    BY <1>0, <2>1, AppendToQueue
  <2>3. CASE j \in DOMAIN q
    BY <1>4, <2>1, <2>2, <2>3, AppendToQueue DEF Sorted
  <2>4. CASE j = Len(q) + 1
    <3>1. Append(q, m)[j] = m /\ Append(q, m)[i] = q[i]
      BY <2>2, <2>4, AppendToQueue
    <3>2. q[i].number \in Numbers(q)
      BY <2>1, <2>2, <3>1 DEF Numbers
    <3>3. QED
      BY <1>4, <2>1, <3>1, <3>2
  <2>5. QED
    BY <1>0, <2>3, <2>4
<1>5. QED
  BY <1>1, <1>2, <1>3, <1>4

LEMMA EmptyQueue ==
  ListsIn(<<>>) /\ Sorted(<<>>) /\ Numbers(<<>>) = {} /\ NoPlanIn(<<>>) /\ \A v : LastPlanIs(<<>>, v)
BY DEF ListsIn, Sorted, Numbers, NoPlanIn, LastPlanIs

\* Taking the first datagram, and the last timing plan.
LEMMA ShorterPlans ==
  ASSUME NEW q \in Seq(Message), q # <<>>, NEW v, LastPlanIs(q, v)
  PROVE  /\ LastPlanIs(Tail(q), v)
         /\ NoPlanIn(Tail(q)) /\ Head(q).kind = SignalPlan => Head(q).number = v
         /\ NoPlanIn(Tail(q)) /\ Head(q).kind # SignalPlan => NoPlanIn(q)
<1>0. \A i \in DOMAIN q : i = 1 \/ (i - 1 \in DOMAIN Tail(q) /\ Tail(q)[i - 1] = q[i])
  BY TailOfQueue
<1>1. LastPlanIs(Tail(q), v)
  <2>1. SUFFICES ASSUME NEW i \in DOMAIN Tail(q), IsPlan(Tail(q), i),
                        \A j \in DOMAIN Tail(q) : i < j => ~IsPlan(Tail(q), j)
                 PROVE  Tail(q)[i].number = v
    BY DEF LastPlanIs
  <2>2. i + 1 \in DOMAIN q /\ Tail(q)[i] = q[i + 1] /\ IsPlan(q, i + 1) /\ i \in Nat \ {0}
    BY <2>1, TailOfQueue DEF IsPlan
  <2>3. ASSUME NEW j \in DOMAIN q, i + 1 < j
        PROVE  ~IsPlan(q, j)
    <3>1. j - 1 \in DOMAIN Tail(q) /\ i < j - 1 /\ Tail(q)[j - 1] = q[j]
      BY <1>0, <2>2, <2>3, TailOfQueue
    <3>2. QED
      BY <2>1, <3>1 DEF IsPlan
  <2>4. QED
    BY <2>2, <2>3 DEF LastPlanIs
<1>2. ASSUME NoPlanIn(Tail(q))
      PROVE  \A j \in DOMAIN q : 1 < j => ~IsPlan(q, j)
  <2>1. ASSUME NEW j \in DOMAIN q, 1 < j
        PROVE  ~IsPlan(q, j)
    <3>1. j - 1 \in DOMAIN Tail(q) /\ Tail(q)[j - 1] = q[j]
      BY <1>0, <2>1, TailOfQueue
    <3>2. QED
      BY <1>2, <3>1 DEF NoPlanIn, IsPlan
  <2>2. QED
    BY <2>1
<1>3. NoPlanIn(Tail(q)) /\ Head(q).kind = SignalPlan => Head(q).number = v
  BY <1>2, TailOfQueue DEF LastPlanIs, IsPlan
<1>4. NoPlanIn(Tail(q)) /\ Head(q).kind # SignalPlan => NoPlanIn(q)
  BY <1>2, TailOfQueue DEF NoPlanIn, IsPlan
<1>5. QED
  BY <1>1, <1>3, <1>4

LEMMA LongerPlans ==
  ASSUME NEW q \in Seq(Message), NEW m \in Message, NEW v
  PROVE  /\ m.kind # SignalPlan /\ LastPlanIs(q, v) => LastPlanIs(Append(q, m), v)
         /\ m.kind = SignalPlan /\ m.number = v => LastPlanIs(Append(q, m), v)
         /\ NoPlanIn(Append(q, m)) => NoPlanIn(q) /\ m.kind # SignalPlan
<1>0. /\ \A i \in DOMAIN Append(q, m) : i \in DOMAIN q \/ i = Len(q) + 1
      /\ \A i \in DOMAIN q : i \in DOMAIN Append(q, m) /\ i < Len(q) + 1 /\ Append(q, m)[i] = q[i]
      /\ Len(q) + 1 \in DOMAIN Append(q, m) /\ Append(q, m)[Len(q) + 1] = m
  BY AppendToQueue
<1>1. m.kind # SignalPlan /\ LastPlanIs(q, v) => LastPlanIs(Append(q, m), v)
  BY <1>0 DEF LastPlanIs, IsPlan
<1>2. m.kind = SignalPlan /\ m.number = v => LastPlanIs(Append(q, m), v)
  BY <1>0 DEF LastPlanIs, IsPlan
<1>3. NoPlanIn(Append(q, m)) => NoPlanIn(q) /\ m.kind # SignalPlan
  BY <1>0 DEF NoPlanIn, IsPlan
<1>4. QED
  BY <1>1, <1>2, <1>3

\* A new datagram is put behind the others, or, when nobody listens, is lost.
LEMMA ArrivesType ==
  ASSUME TypeOK, NEW m \in Message, Arrives(m)
  PROVE  inbox' \in Seq(Message)
BY AppendToQueue DEF Arrives, TypeOK

-----------------------------------------------------------------------------
(* Types *)

LEMMA MessageTypes ==
  /\ \A list \in RequestLists, n \in Nat :
       [kind |-> PriorityRequest, number |-> n, list |-> list] \in Message
  /\ \A n \in Nat, kind \in {ClearRequest, SignalPlan, SplitData} :
       [kind |-> kind, number |-> n, list |-> {}] \in Message
BY SolverAssumption DEF Message

LEMMA FatesType ==
  ASSUME NEW S, NEW q \in Seq(S), NEW what \in S, NEW N
  PROVE  [n \in DOMAIN q |-> IF n \in N THEN what ELSE q[n]] \in Seq(S)
OBVIOUS

LEMMA FateType ==
  ASSUME NEW S, NEW q \in Seq(S), NEW n, NEW what \in S
  PROVE  [q EXCEPT ![n] = what] \in Seq(S)
<1>1. CASE n \in 1 .. Len(q)
  BY <1>1, ExceptSeq
<1>2. CASE n \notin 1 .. Len(q)
  <2>1. DOMAIN q = 1 .. Len(q) /\ q = [i \in 1 .. Len(q) |-> q[i]]
    OBVIOUS
  <2>2. [q EXCEPT ![n] = what] = q
    BY <1>2, <2>1
  <2>3. QED
    BY <2>2
<1>3. QED
  BY <1>1, <1>2

LEMMA QuestionsType ==
  ASSUME NEW r \in [plan : Nat, split : Nat, phases : Nat]
  PROVE  /\ [r EXCEPT !.plan = @ + 1] \in [plan : Nat, split : Nat, phases : Nat]
         /\ [r EXCEPT !.split = @ + 1] \in [plan : Nat, split : Nat, phases : Nat]
         /\ [r EXCEPT !.phases = @ + 1] \in [plan : Nat, split : Nat, phases : Nat]
         /\ r.plan > 0 => [r EXCEPT !.plan = @ - 1] \in [plan : Nat, split : Nat, phases : Nat]
         /\ r.split > 0 => [r EXCEPT !.split = @ - 1] \in [plan : Nat, split : Nat, phases : Nat]
         /\ r.phases > 0 => [r EXCEPT !.phases = @ - 1] \in [plan : Nat, split : Nat, phases : Nat]
         /\ [r EXCEPT !.plan = 0, !.phases = 0] \in [plan : Nat, split : Nat, phases : Nat]
<1>1. r.plan \in Nat /\ r.split \in Nat /\ r.phases \in Nat
  OBVIOUS
<1>2. \A n \in Nat : n > 0 => n - 1 \in Nat
  OBVIOUS
<1>3. \A n \in Nat : /\ [r EXCEPT !.plan = n] \in [plan : Nat, split : Nat, phases : Nat]
                   /\ [r EXCEPT !.split = n] \in [plan : Nat, split : Nat, phases : Nat]
                   /\ [r EXCEPT !.phases = n] \in [plan : Nat, split : Nat, phases : Nat]
  OBVIOUS
<1>4. [r EXCEPT !.plan = 0, !.phases = 0] \in [plan : Nat, split : Nat, phases : Nat]
  OBVIOUS
<1>5. QED
  BY <1>1, <1>2, <1>3, <1>4

LEMMA RestartType ==
  ASSUME TypeOK, StartSolver,
         fate' = [n \in DOMAIN fate |-> IF n \in Pending THEN "died" ELSE fate[n]],
         faults' \in Nat
  PROVE  TypeOK'
<1> DEFINE Fate == {"served", "noPlan", "missed", "unsolved", "died", "forgotten"}
<1>1. fate' \in Seq(Fate)
  <2>1. fate \in Seq(Fate)
    BY DEF TypeOK
  <2>2. QED
    BY <2>1
<1>2. asked' \in [plan : Nat, split : Nat, phases : Nat]
  <2>1. asked \in [plan : Nat, split : Nat, phases : Nat]
    BY DEF TypeOK
  <2>2. asked' = [asked EXCEPT !.plan = @ + 1]
    BY DEF StartSolver
  <2>3. QED
    BY <2>1, <2>2
<1>3. inbox' \in Seq(Message)
  BY DEF StartSolver
<1>4. QED
  BY <1>1, <1>2, <1>3 DEF TypeOK, StartSolver, tciVars

LEMMA TypeNext ==
  ASSUME TypeOK, [Next]_vars
  PROVE  TypeOK'
<1> DEFINE Fate == {"served", "noPlan", "missed", "unsolved", "died", "forgotten"}
           Questions == [plan : Nat, split : Nat, phases : Nat]
<1> USE DEF listVars, planVars, tciVars, historyVars, countVars
<1>t. /\ fate \in Seq(Fate) /\ asked \in Questions /\ answers \in Nat
      /\ inbox \in Seq(Message) /\ currentTimingPlan \in Nat \ {0}
      /\ tci \in [number : Nat, command : {"none", "clear", "schedule"}] /\ number \in Nat
  BY DEF TypeOK
<1>0. ASSUME NEW n, NEW what \in Fate, Becomes(n, what)
      PROVE  fate' \in Seq(Fate)
  <2> HIDE DEF Fate
  <2>1. QED
    BY <1>t, <1>0, FateType DEF Becomes
<1>1. ASSUME inbox # <<>>
      PROVE  /\ Tail(inbox) \in Seq(Message) /\ Head(inbox).number \in Nat
             /\ Head(inbox).list \subseteq VehicleType
  BY <1>1, TailOfQueue DEF TypeOK, Message
<1>2. /\ asked.plan \in Nat /\ asked.split \in Nat /\ asked.phases \in Nat /\ answers \in Nat
      /\ currentTimingPlan + 1 \in Nat \ {0} /\ Len(fate) + 1 \in Nat
  BY <1>t
<1>3. CASE setCurrentSignalTimingPlan
  BY <1>1, <1>3 DEF setCurrentSignalTimingPlan, Receives, TypeOK
<1>4. CASE setSignalCoordinationTimingPlan
  BY <1>1, <1>4 DEF setSignalCoordinationTimingPlan, Receives, TypeOK
<1>5. CASE DropList
  <2>1. fate' \in Seq(Fate)
    BY <1>0, <1>5 DEF DropList
  <2>2. asked' \in Questions
    BY <1>t, <1>5, QuestionsType DEF DropList
  <2>3. QED
    BY <1>1, <1>5, <2>1, <2>2 DEF DropList, Receives, TypeOK
<1>6. CASE createPriorityRequestList
  <2>1. \/ pc' = "awaitSplitData" /\ asked' = [asked EXCEPT !.split = @ + 1]
        \/ pc' = "awaitCurrentPhases" /\ asked' = [asked EXCEPT !.phases = @ + 1]
    BY <1>6 DEF createPriorityRequestList
  <2>2. asked' \in Questions /\ pc' \in {"awaitSplitData", "awaitCurrentPhases"}
    BY <1>t, <2>1, QuestionsType
  <2>3. QED
    BY <1>1, <1>6, <2>2 DEF createPriorityRequestList, Receives, TypeOK
<1>7. CASE SendClearSchedule
  BY <1>1, <1>7 DEF SendClearSchedule, Receives, TypeOK
<1>8. CASE TakeSplitData
  <2>1. fate' \in Seq(Fate)
    BY <1>t, <1>0, <1>8 DEF TakeSplitData
  <2>2. asked' \in Questions
    BY <1>t, <1>8, QuestionsType DEF TakeSplitData
  <2>3. trafficSignalPlan_SignalCoordination' \in Nat
    BY <1>8 DEF TakeSplitData, TypeOK
  <2>4. mistaken' \in BOOLEAN /\ planLost' \in BOOLEAN
    BY <1>8 DEF TakeSplitData, TypeOK
  <2>5. QED
    BY <1>1, <1>8, <2>1, <2>2, <2>3, <2>4 DEF TakeSplitData, TypeOK
<1>9. ASSUME TakeCurrentPhases
      PROVE  answers' \in Nat
  BY <1>2, <1>9 DEF TakeCurrentPhases
<1>10. CASE getCurrentSignalStatusFails \/ setOptimizationInputFails
  <2>1. TakeCurrentPhases /\ Dies
    BY <1>10 DEF getCurrentSignalStatusFails, setOptimizationInputFails
  <2>2. fate' \in Seq(Fate)
    BY <1>0, <2>1 DEF Dies
  <2>3. QED
    BY <1>9, <2>1, <2>2 DEF Dies, TypeOK
<1>11. CASE getScheduleforTCI
  <2>1. fate' \in Seq(Fate)
    BY <1>t, <1>0, <1>11 DEF getScheduleforTCI
  <2>2. tci' \in [number : Nat, command : {"none", "clear", "schedule"}]
    BY <1>t, <1>11 DEF getScheduleforTCI
  <2>3. noOfEVInList' \in BOOLEAN
    BY <1>11 DEF getScheduleforTCI, TypeOK
  <2>4. weightless' \in WeightSettings /\ answers' \in Nat
    BY <1>9, <1>11 DEF getScheduleforTCI, TypeOK
  <2>5. QED
    BY <1>11, <2>1, <2>2, <2>3, <2>4 DEF getScheduleforTCI, TypeOK
<1>12. CASE TciAnswersPlan
  <2>1. asked' \in Questions
    BY <1>t, <1>12, QuestionsType DEF TciAnswersPlan
  <2>2. inbox' \in Seq(Message)
    BY <1>12, ArrivesType, MessageTypes DEF TciAnswersPlan, SendsPlan, TypeOK
  <2>3. QED
    BY <1>12, <2>1, <2>2 DEF TciAnswersPlan, SendsPlan, TypeOK
<1>13. CASE TciAnswersPhases
  <2>1. asked' \in Questions
    BY <1>t, <1>13, QuestionsType DEF TciAnswersPhases
  <2>2. answers' \in Nat
    BY <1>t, <1>13 DEF TciAnswersPhases
  <2>3. QED
    BY <1>13, <2>1, <2>2 DEF TciAnswersPhases, TypeOK
<1>14. CASE GeneratorAnswers
  <2>1. asked' \in Questions
    BY <1>t, <1>14, QuestionsType DEF GeneratorAnswers
  <2>2. inbox' \in Seq(Message)
    BY <1>14, ArrivesType, MessageTypes DEF GeneratorAnswers, SendsSplitData
  <2>3. QED
    BY <1>14, <2>1, <2>2 DEF GeneratorAnswers, SendsSplitData, TypeOK
<1>15. CASE GeneratorIgnores
  <2>1. asked' \in Questions
    BY <1>t, <1>15, QuestionsType DEF GeneratorIgnores
  <2>2. QED
    BY <1>15, <2>1 DEF GeneratorIgnores, TypeOK
<1>16. ASSUME NEW kind \in {PriorityRequest, ClearRequest}, NEW list, ServerSends(kind, list),
              kind = PriorityRequest => list \in RequestLists, kind = ClearRequest => list = {}
       PROVE  TypeOK'
  <2>1. inbox' \in Seq(Message)
    BY <1>2, <1>16, ArrivesType, MessageTypes DEF ServerSends
  <2>2. fate' \in Seq(Fate)
    BY <1>t, <1>16 DEF ServerSends
  <2>3. QED
    BY <1>16, <2>1, <2>2 DEF ServerSends, TypeOK
<1>17. CASE TimingPlanChanges
  <2>1. inbox' \in Seq(Message)
    BY <1>2, <1>17, ArrivesType, MessageTypes DEF TimingPlanChanges, SendsPlan
  <2>2. QED
    BY <1>2, <1>17, <2>1 DEF TimingPlanChanges, SendsPlan, TypeOK
<1>18. CASE CoordinationBegins
  <2>1. inbox' \in Seq(Message)
    BY <1>18, ArrivesType, MessageTypes DEF CoordinationBegins, SendsSplitData
  <2>2. QED
    BY <1>18, <2>1 DEF CoordinationBegins, SendsSplitData, TypeOK
<1>19. CASE CoordinationEnds
  <2>1. changes' \in Nat /\ coordinated' \in BOOLEAN
    <3>1. changes' \in Nat
      BY <1>19 DEF CoordinationEnds, TypeOK
    <3>2. coordinated' = FALSE
      BY <1>19 DEF CoordinationEnds
    <3>3. coordinated' \in BOOLEAN
      BY <3>2
    <3>4. QED
      BY <3>1, <3>3
  <2>2. UNCHANGED <<pc, listVars, planVars, weightless, inbox, answers, asked, tciVars, fate,
                    historyVars, faults>>
    BY <1>19 DEF CoordinationEnds
  <2>3. QED
    BY <2>1, <2>2 DEF TypeOK
<1>20. CASE SolverKilled
  <2>1. faults' \in Nat
    BY <1>20 DEF SolverKilled, TypeOK
  <2>2. QED
    BY <1>20, <2>1, RestartType DEF SolverKilled
<1>21. CASE SolverStartsAgain
  <2>1. faults' \in Nat
    BY <1>21 DEF SolverStartsAgain, TypeOK
  <2>2. QED
    BY <1>21, <2>1, RestartType DEF SolverStartsAgain
<1>22. CASE TciRestarts
  <2>1. inbox' \in Seq(Message)
    BY <1>22, ArrivesType, MessageTypes DEF TciRestarts, TypeOK
  <2>2. fate' \in Seq(Fate)
    <3>1. fate' = [n \in DOMAIN fate |-> IF n \in {k \in DOMAIN fate : k <= tci.number}
                                         THEN "forgotten" ELSE fate[n]]
      BY <1>22 DEF TciRestarts
    <3>2. "forgotten" \in Fate
      OBVIOUS
    <3> HIDE DEF Fate
    <3>3. QED
      BY <1>t, <3>1, <3>2, FatesType
  <2>3. asked' \in Questions
    BY <1>t, <1>22, QuestionsType DEF TciRestarts
  <2>4. unanswered' \in BOOLEAN
    BY <1>22 DEF TciRestarts, TypeOK
  <2>5. /\ tci' \in [number : Nat, command : {"none", "clear", "schedule"}]
        /\ faults' \in Nat
    BY <1>22 DEF TciRestarts, TypeOK
  <2>6. QED
    BY <1>22, <2>1, <2>2, <2>3, <2>4, <2>5 DEF TciRestarts, TypeOK
<1>23. CASE UNCHANGED vars
  BY <1>23 DEF vars, TypeOK
<1>24. CASE SolverNext
  BY <1>3, <1>4, <1>5, <1>6, <1>7, <1>8, <1>10, <1>11, <1>24 DEF SolverNext
<1>25. CASE Answering
  BY <1>12, <1>13, <1>14, <1>15, <1>25 DEF Answering
<1>26. CASE \/ \E list \in RequestLists : ServerSends(PriorityRequest, list)
            \/ ServerSends(ClearRequest, {})
  BY <1>16, <1>26 DEF PriorityRequest, ClearRequest
<1>27. QED
  BY <1>17, <1>18, <1>19, <1>20, <1>21, <1>22, <1>23, <1>24, <1>25, <1>26 DEF Next

-----------------------------------------------------------------------------
(* The other processes *)

OthersNext ==
  \/ Answering \/ TimingPlanChanges \/ CoordinationBegins \/ CoordinationEnds \/ TciRestarts
  \/ \E list \in RequestLists : ServerSends(PriorityRequest, list)
  \/ ServerSends(ClearRequest, {})

Restarts == SolverKilled \/ SolverStartsAgain

LEMMA Steps ==
  ASSUME [Next]_vars
  PROVE  SolverNext \/ OthersNext \/ Restarts \/ UNCHANGED vars
BY DEF Next, OthersNext, Restarts

\* The others change nothing in the solver but what waits at its sockets; the
\* timing plan they send is the one the TCI has.
LEMMA OthersOnlySend ==
  ASSUME TypeOK, OthersNext
  PROVE  /\ UNCHANGED <<pc, listVars, planVars, weightless, mistaken, restarted>>
         /\ \/ inbox' = inbox /\ currentTimingPlan' = currentTimingPlan
            \/ \E m \in Message :
                 /\ Arrives(m)
                 /\ m.kind = PriorityRequest => m.list \in RequestLists
                 /\ IF m.kind = SignalPlan THEN m.number = currentTimingPlan'
                    ELSE currentTimingPlan' = currentTimingPlan
<1> DEFINE Sends ==
      \E m \in Message :
        /\ Arrives(m)
        /\ m.kind = PriorityRequest => m.list \in RequestLists
        /\ IF m.kind = SignalPlan THEN m.number = currentTimingPlan'
           ELSE currentTimingPlan' = currentTimingPlan
<1>0. currentTimingPlan \in Nat /\ currentTimingPlan + 1 \in Nat /\ Len(fate) + 1 \in Nat
  BY DEF TypeOK
<1>1. ASSUME NEW n \in Nat, Arrives([kind |-> SignalPlan, number |-> n, list |-> {}]),
             currentTimingPlan' = n
      PROVE  Sends
  <2>1. [kind |-> SignalPlan, number |-> n, list |-> {}] \in Message
    BY MessageTypes
  <2>2. QED
    BY <1>1, <2>1 DEF SignalPlan, PriorityRequest
<1>2. ASSUME SendsSplitData
      PROVE  Sends
  <2>1. [kind |-> SplitData, number |-> 0, list |-> {}] \in Message
    BY MessageTypes
  <2>2. currentTimingPlan' = currentTimingPlan
    BY <1>2 DEF SendsSplitData, tciVars
  <2>3. QED
    BY <1>2, <2>1, <2>2 DEF SendsSplitData, SplitData, SignalPlan, PriorityRequest
<1>3. ASSUME NEW list, ServerSends(PriorityRequest, list), list \in RequestLists
      PROVE  Sends
  <2>1. [kind |-> PriorityRequest, number |-> Len(fate) + 1, list |-> list] \in Message
    BY <1>0, <1>3, MessageTypes
  <2>2. QED
    BY <1>3, <2>1 DEF ServerSends, SignalPlan, PriorityRequest, tciVars
<1>4. ASSUME ServerSends(ClearRequest, {})
      PROVE  Sends
  <2>1. [kind |-> ClearRequest, number |-> Len(fate) + 1, list |-> {}] \in Message
    BY <1>0, MessageTypes
  <2>2. QED
    BY <1>4, <2>1 DEF ServerSends, ClearRequest, SignalPlan, PriorityRequest, tciVars
<1>5. \/ inbox' = inbox /\ currentTimingPlan' = currentTimingPlan
      \/ Sends
  <2> HIDE DEF Sends
  <2>1. CASE TciAnswersPhases \/ GeneratorIgnores \/ CoordinationEnds
    BY <2>1 DEF TciAnswersPhases, GeneratorIgnores, CoordinationEnds, tciVars
  <2>2. CASE TciAnswersPlan
    BY <1>0, <1>1, <2>2 DEF TciAnswersPlan, SendsPlan
  <2>3. CASE TimingPlanChanges
    BY <1>0, <1>1, <2>3 DEF TimingPlanChanges, SendsPlan
  <2>4. CASE TciRestarts
    BY <1>0, <1>1, <2>4 DEF TciRestarts
  <2>5. CASE GeneratorAnswers \/ CoordinationBegins
    BY <1>2, <2>5 DEF GeneratorAnswers, CoordinationBegins
  <2>6. QED
    BY <1>3, <1>4, <2>1, <2>2, <2>3, <2>4, <2>5 DEF OthersNext, Answering
<1>6. UNCHANGED <<pc, listVars, planVars, weightless, mistaken, restarted>>
  BY DEF OthersNext, Answering, TciAnswersPlan, TciAnswersPhases, GeneratorAnswers,
         GeneratorIgnores, TimingPlanChanges, CoordinationBegins, CoordinationEnds, TciRestarts,
         ServerSends, SendsPlan, SendsSplitData, historyVars
<1>7. QED
  BY <1>5, <1>6

-----------------------------------------------------------------------------
(* What is known of the lists *)

LEMMA ListsAreNotEmpty ==
  ASSUME NEW list \in RequestLists
  PROVE  list \subseteq VehicleType /\ list # {}
<1>1. RequestLists \subseteq (SUBSET VehicleType) \ {{}}
  BY SolverAssumption
<1>2. list \in SUBSET VehicleType /\ list \notin {{}}
  BY <1>1
<1>3. QED
  BY <1>2

LEMMA ListNext ==
  ASSUME TypeOK, ListInv, [Next]_vars
  PROVE  ListInv'
<1> USE DEF listVars, planVars, historyVars
<1>t. inbox \in Seq(Message)
  BY DEF TypeOK
<1>0. ASSUME ListsIn(inbox'), pc' = "receive"
      PROVE  ListInv'
  BY <1>0 DEF ListInv, Awaiting, DiesOnlyAfterMiss
<1>1. ASSUME inbox # <<>>
      PROVE  ListsIn(Tail(inbox)) /\ (Head(inbox).kind = PriorityRequest => Head(inbox).list \in RequestLists)
  BY <1>t, <1>1, ShorterQueue DEF ListInv
<1>2. CASE \/ setCurrentSignalTimingPlan \/ setSignalCoordinationTimingPlan
           \/ DropList \/ SendClearSchedule
  BY <1>0, <1>1, <1>2 DEF setCurrentSignalTimingPlan, setSignalCoordinationTimingPlan, DropList,
     SendClearSchedule, Receives
<1>3. CASE createPriorityRequestList
  <2>1. /\ inbox' = Tail(inbox) /\ ListsIn(Tail(inbox)) /\ Head(inbox).list \in RequestLists
        /\ priorityRequestList' = Head(inbox).list
        /\ trafficSignalPlan' # 0 /\ trafficSignalPlan' = trafficSignalPlan
        /\ trafficSignalPlan_SignalCoordination' = trafficSignalPlan_SignalCoordination
    BY <1>1, <1>3 DEF createPriorityRequestList, Receives
  <2>2. \/ pc' = "awaitSplitData"
        \/ pc' = "awaitCurrentPhases" /\ ~checkSignalCoordinationTimingPlanStatus(Head(inbox).list)
    BY <1>3 DEF createPriorityRequestList
  <2>3. QED
    BY <2>1, <2>2 DEF ListInv, DiesOnlyAfterMiss, checkSignalCoordinationTimingPlanStatus
<1>4. CASE TakeSplitData
  <2>1. /\ ListsIn(inbox') /\ priorityRequestList' \in RequestLists /\ pc' = "awaitCurrentPhases"
        /\ trafficSignalPlan' # 0
    BY <1>1, <1>4 DEF TakeSplitData, ListInv, Awaiting
  <2>2. trafficSignalPlan_SignalCoordination' = 0 => mistaken'
    <3>1. CASE Head(inbox).kind = SplitData
      BY <1>4, <3>1 DEF TakeSplitData, ListInv, Awaiting
    <3>2. CASE Head(inbox).kind # SplitData
      BY <1>4, <3>2 DEF TakeSplitData
    <3>3. QED
      BY <3>1, <3>2
  <2>3. QED
    BY <2>1, <2>2 DEF ListInv, DiesOnlyAfterMiss
<1>5. ASSUME pc = "awaitCurrentPhases", Dies
      PROVE  /\ ListsIn(inbox') /\ pc' = "dead"
             /\ priorityRequestList' = priorityRequestList /\ weightless' = weightless
             /\ mistaken' = mistaken /\ priorityRequestList \in RequestLists
  BY <1>5 DEF Dies, ListInv, Awaiting
<1>6. CASE getCurrentSignalStatusFails
  <2>1. pc = "awaitCurrentPhases" /\ Dies /\ CoordinatedPhasesMissing
    BY <1>6 DEF getCurrentSignalStatusFails, TakeCurrentPhases
  <2>2. priorityRequestList = {CoordinationVehicleType}
    <3>0. priorityRequestList \in RequestLists
      BY <1>5, <2>1
    <3>1. priorityRequestList \subseteq VehicleType /\ priorityRequestList # {}
      BY <3>0, ListsAreNotEmpty
    <3>2. \A t \in {EmergencyVehicle, Transit, Truck} : t \notin priorityRequestList
      BY <2>1 DEF CoordinatedPhasesMissing, emergencyVehicleStatus, transitOrTruckRequestStatus
    <3>3. QED
      BY <3>1, <3>2 DEF VehicleType
  <2>3. mistaken
    BY <2>1, <2>2 DEF ListInv, CoordinatedPhasesMissing
  <2>4. QED
    BY <1>5, <2>1, <2>2, <2>3 DEF ListInv, DiesOnlyAfterMiss, Awaiting
<1>7. CASE setOptimizationInputFails
  <2>1. PICK inDilemmaZone \in BOOLEAN :
          EmergencyPlanUndefined(modifyPriorityRequestList(inDilemmaZone))
    BY <1>7 DEF setOptimizationInputFails
  <2>2. EmergencyVehicle \in priorityRequestList \cap weightless
    BY <2>1 DEF EmergencyPlanUndefined, modifyPriorityRequestList, emergencyVehicleStatus
  <2>3. QED
    BY <1>5, <1>7, <2>2
       DEF setOptimizationInputFails, TakeCurrentPhases, ListInv, DiesOnlyAfterMiss, Awaiting
<1>8. CASE getScheduleforTCI
  BY <1>0, <1>8 DEF getScheduleforTCI, ListInv
<1>9. CASE SolverNext
  BY <1>2, <1>3, <1>4, <1>6, <1>7, <1>8, <1>9 DEF SolverNext
<1>10. CASE OthersNext
  <2>1. UNCHANGED <<pc, listVars, planVars, weightless, mistaken>>
    BY <1>10, OthersOnlySend
  <2>2. ListsIn(inbox')
    BY <1>t, <1>10, OthersOnlySend, LongerQueue DEF Arrives, ListInv
  <2>3. QED
    BY <2>1, <2>2 DEF ListInv, DiesOnlyAfterMiss, Awaiting
<1>11. CASE Restarts
  BY <1>0, <1>11, EmptyQueue DEF Restarts, SolverKilled, SolverStartsAgain, StartSolver
<1>12. CASE UNCHANGED vars
  BY <1>12 DEF vars, ListInv, DiesOnlyAfterMiss, Awaiting
<1>13. QED
  BY <1>9, <1>10, <1>11, <1>12, Steps

-----------------------------------------------------------------------------
(* The timing plans *)

LEMMA PlanNext ==
  ASSUME TypeOK, PlanInv, [Next]_vars
  PROVE  PlanInv'
<1> USE DEF listVars, planVars, tciVars, historyVars
<1>t. inbox \in Seq(Message)
  BY DEF TypeOK
<1>1. CASE setCurrentSignalTimingPlan
  <2>1. /\ inbox # <<>> /\ Head(inbox).kind = SignalPlan /\ inbox' = Tail(inbox) /\ pc = "receive"
        /\ trafficSignalPlan' = Head(inbox).number /\ currentTimingPlan' = currentTimingPlan
    BY <1>1 DEF setCurrentSignalTimingPlan, Receives
  <2>2. LastPlanIs(inbox, currentTimingPlan)
    BY <2>1 DEF PlanInv
  <2>3. QED
    BY <1>t, <2>1, <2>2, ShorterPlans DEF PlanInv
<1>2. CASE \/ setSignalCoordinationTimingPlan \/ DropList \/ createPriorityRequestList
           \/ SendClearSchedule
  <2>1. /\ inbox # <<>> /\ Head(inbox).kind # SignalPlan /\ inbox' = Tail(inbox) /\ pc = "receive"
        /\ UNCHANGED <<trafficSignalPlan, planLost, currentTimingPlan>>
    BY <1>2 DEF setSignalCoordinationTimingPlan, DropList, createPriorityRequestList,
       SendClearSchedule, Receives, SignalPlan, SplitData, PriorityRequest, ClearRequest
  <2>2. LastPlanIs(inbox, currentTimingPlan)
    BY <2>1 DEF PlanInv
  <2>3. QED
    BY <1>t, <2>1, <2>2, ShorterPlans DEF PlanInv
<1>3. CASE TakeSplitData
  <2>1. /\ inbox # <<>> /\ inbox' = Tail(inbox) /\ pc = "awaitSplitData"
        /\ UNCHANGED <<trafficSignalPlan, currentTimingPlan>>
        /\ ~planLost' => ~planLost /\ Head(inbox).kind # SignalPlan
    BY <1>3 DEF TakeSplitData
  <2>2. LastPlanIs(inbox, currentTimingPlan)
    BY <2>1 DEF PlanInv
  <2>3. QED
    BY <1>t, <2>1, <2>2, ShorterPlans DEF PlanInv
<1>4. CASE getCurrentSignalStatusFails \/ setOptimizationInputFails
  BY <1>4 DEF getCurrentSignalStatusFails, setOptimizationInputFails, Dies, PlanInv
<1>5. CASE getScheduleforTCI
  BY <1>5 DEF getScheduleforTCI, TakeCurrentPhases, PlanInv
<1>6. CASE SolverNext
  BY <1>1, <1>2, <1>3, <1>4, <1>5, <1>6 DEF SolverNext
<1>7. CASE OthersNext
  <2>1. UNCHANGED <<pc, trafficSignalPlan, planLost>>
    BY <1>7, OthersOnlySend
  <2>2. CASE inbox' = inbox /\ currentTimingPlan' = currentTimingPlan
    BY <2>1, <2>2 DEF PlanInv
  <2>3. ASSUME NEW m \in Message, Arrives(m),
               IF m.kind = SignalPlan THEN m.number = currentTimingPlan'
               ELSE currentTimingPlan' = currentTimingPlan,
               pc # "dead"
        PROVE  PlanInv'
    <3>1. inbox' = Append(inbox, m) /\ LastPlanIs(inbox, currentTimingPlan)
      BY <2>3 DEF Arrives, PlanInv
    <3>2. LastPlanIs(inbox', currentTimingPlan')
      BY <1>t, <2>3, <3>1, LongerPlans
    <3>3. NoPlanIn(inbox') => NoPlanIn(inbox) /\ currentTimingPlan' = currentTimingPlan
      BY <1>t, <2>3, <3>1, LongerPlans
    <3>4. QED
      BY <2>1, <2>3, <3>2, <3>3 DEF PlanInv
  <2>4. pc = "dead" => PlanInv'
    BY <2>1 DEF PlanInv
  <2>5. QED
    BY <1>7, <2>2, <2>3, <2>4, OthersOnlySend
<1>8. CASE Restarts
  BY <1>8, EmptyQueue DEF Restarts, SolverKilled, SolverStartsAgain, StartSolver, PlanInv
<1>9. CASE UNCHANGED vars
  BY <1>9 DEF vars, PlanInv
<1>10. QED
  BY <1>6, <1>7, <1>8, <1>9, Steps

-----------------------------------------------------------------------------
(* The questions for the current phases *)

LEMMA AnswerNext ==
  ASSUME TypeOK, AnswerInv, [Next]_vars
  PROVE  AnswerInv'
<1> USE DEF historyVars
<1>t. /\ asked \in [plan : Nat, split : Nat, phases : Nat]
      /\ asked.phases \in Nat /\ asked.plan \in Nat /\ asked.split \in Nat /\ answers \in Nat
  BY DEF TypeOK
<1>1. CASE setCurrentSignalTimingPlan \/ setSignalCoordinationTimingPlan \/ SendClearSchedule
  BY <1>1 DEF setCurrentSignalTimingPlan, setSignalCoordinationTimingPlan, SendClearSchedule,
     Receives, AnswerInv
<1>2. CASE DropList
  <2>1. asked'.phases = asked.phases
    BY <1>t, <1>2 DEF DropList
  <2>2. QED
    BY <1>2, <2>1 DEF DropList, Receives, AnswerInv
<1>3. CASE createPriorityRequestList
  <2>1. CASE pc' = "awaitSplitData" /\ asked' = [asked EXCEPT !.split = @ + 1]
    <3>1. asked'.phases = asked.phases
      BY <1>t, <2>1
    <3>2. QED
      BY <1>3, <2>1, <3>1 DEF createPriorityRequestList, Receives, AnswerInv
  <2>2. CASE pc' = "awaitCurrentPhases" /\ asked' = [asked EXCEPT !.phases = @ + 1]
    <3>1. asked'.phases = asked.phases + 1
      BY <1>t, <2>2
    <3>2. QED
      BY <1>t, <1>3, <2>2, <3>1 DEF createPriorityRequestList, Receives, AnswerInv
  <2>3. QED
    BY <1>3, <2>1, <2>2 DEF createPriorityRequestList
<1>4. CASE TakeSplitData
  <2>1. asked'.phases = asked.phases + 1
    BY <1>t, <1>4 DEF TakeSplitData
  <2>2. QED
    BY <1>t, <1>4, <2>1 DEF TakeSplitData, AnswerInv
<1>5. CASE getCurrentSignalStatusFails \/ setOptimizationInputFails
  BY <1>5 DEF getCurrentSignalStatusFails, setOptimizationInputFails, Dies, AnswerInv
<1>6. CASE getScheduleforTCI
  BY <1>t, <1>6 DEF getScheduleforTCI, TakeCurrentPhases, AnswerInv
<1>7. CASE SolverNext
  BY <1>1, <1>2, <1>3, <1>4, <1>5, <1>6, <1>7 DEF SolverNext
<1>8. CASE OthersNext
  <2>1. UNCHANGED <<pc, restarted>>
    BY <1>8, OthersOnlySend
  <2>2. ASSUME asked'.phases + answers' = asked.phases + answers, unanswered' = unanswered
        PROVE  AnswerInv'
    BY <2>1, <2>2 DEF AnswerInv
  <2>3. CASE TciAnswersPlan
    <3>1. asked'.phases = asked.phases
      BY <1>t, <2>3 DEF TciAnswersPlan
    <3>2. QED
      BY <2>2, <2>3, <3>1 DEF TciAnswersPlan, SendsPlan
  <2>4. CASE TciAnswersPhases
    <3>1. asked'.phases = asked.phases - 1
      BY <1>t, <2>4 DEF TciAnswersPhases
    <3>2. CASE pc = "dead"
      BY <2>1, <3>2 DEF AnswerInv
    <3>3. CASE pc # "dead"
      BY <1>t, <2>2, <2>4, <3>1, <3>3 DEF TciAnswersPhases
    <3>4. QED
      BY <3>2, <3>3
  <2>5. CASE GeneratorAnswers
    <3>1. asked'.phases = asked.phases
      BY <1>t, <2>5 DEF GeneratorAnswers
    <3>2. QED
      BY <2>2, <2>5, <3>1 DEF GeneratorAnswers, SendsSplitData
  <2>6. CASE GeneratorIgnores
    <3>1. asked'.phases = asked.phases /\ unanswered' = TRUE /\ answers' = answers
      BY <1>t, <2>6 DEF GeneratorIgnores
    <3>2. QED
      BY <2>1, <3>1 DEF AnswerInv
  <2>7. CASE TciRestarts
    <3>1. asked'.phases = 0 /\ answers' = answers
      BY <1>t, <2>7 DEF TciRestarts
    <3>2. ~unanswered' => ~unanswered /\ asked.phases = 0
      <4>1. ~unanswered' => ~unanswered /\ ~(asked.phases > 0)
        BY <2>7 DEF TciRestarts
      <4>2. asked.phases > 0 \/ asked.phases = 0
        BY <1>t
      <4>3. QED
        BY <4>1, <4>2
    <3>3. QED
      BY <1>t, <2>1, <3>1, <3>2 DEF AnswerInv
  <2>8. CASE TimingPlanChanges \/ CoordinationBegins \/ CoordinationEnds
    BY <2>2, <2>8 DEF TimingPlanChanges, CoordinationBegins, CoordinationEnds, SendsPlan,
       SendsSplitData
  <2>9. ASSUME NEW kind, NEW list, ServerSends(kind, list)
        PROVE  AnswerInv'
    BY <2>2, <2>9 DEF ServerSends
  <2>10. QED
    BY <1>8, <2>3, <2>4, <2>5, <2>6, <2>7, <2>8, <2>9 DEF OthersNext, Answering
<1>9. CASE Restarts
  BY <1>9 DEF Restarts, SolverKilled, SolverStartsAgain, StartSolver, AnswerInv
<1>10. CASE UNCHANGED vars
  BY <1>10 DEF vars, AnswerInv
<1>11. QED
  BY <1>7, <1>8, <1>9, <1>10, Steps

-----------------------------------------------------------------------------
(* The numbers of the server's messages *)

LEMMA PendingNumbers ==
  ASSUME TypeOK
  PROVE  /\ Pending = Numbers(inbox) \cup (IF Awaiting THEN {number} ELSE {})
         /\ DOMAIN fate \subseteq Nat \ {0} /\ tci.number \in Nat /\ number \in Nat
         /\ DOMAIN fate = 1 .. Len(fate) /\ Len(fate) \in Nat
<1>1. pc \in {"receive", "dead"} \equiv ~Awaiting
  BY DEF TypeOK, Awaiting
<1>2. QED
  BY <1>1 DEF Pending, Numbers, TypeOK

LEMMA PendingNumbersNext ==
  ASSUME TypeOK'
  PROVE  Pending' = Numbers(inbox') \cup (IF Awaiting' THEN {number'} ELSE {})
<1>1. pc' \in {"receive", "dead"} \equiv ~Awaiting'
  BY DEF TypeOK, Awaiting
<1>2. QED
  BY <1>1 DEF Pending, Numbers

LEMMA FateOfOne ==
  ASSUME TypeOK, NEW n \in DOMAIN fate, NEW what, Becomes(n, what)
  PROVE  /\ DOMAIN fate' = DOMAIN fate /\ fate'[n] = what
         /\ \A k \in DOMAIN fate : k # n => fate'[k] = fate[k]
BY DEF Becomes, TypeOK

\* The part of the invariant about the numbers does not depend on how the queue is
\* laid out: it is enough that it stays in order and which numbers are in it.
LEMMA SameNumbers ==
  ASSUME TypeOK, TypeOK', NumberInv, Sorted(inbox'), Numbers(inbox') = Numbers(inbox),
         UNCHANGED <<pc, number, fate, tci>>
  PROVE  NumberInv'
<1>1. Pending' = Pending
  BY PendingNumbers, PendingNumbersNext DEF Awaiting
<1>2. QED
  BY <1>1 DEF NumberInv, Awaiting, Above, Sound

LEMMA NumberSolver ==
  ASSUME TypeOK, TypeOK', NumberInv, SolverNext
  PROVE  NumberInv'
<1> USE DEF listVars, tciVars
<1> DEFINE h == Head(inbox).number
<1>t. inbox \in Seq(Message)
  BY DEF TypeOK
<1>0. ASSUME inbox # <<>>
      PROVE  /\ Sorted(Tail(inbox)) /\ Numbers(Tail(inbox)) \subseteq Numbers(inbox)
             /\ Numbers(inbox) \subseteq
                  Numbers(Tail(inbox)) \cup (IF FromServer(Head(inbox)) THEN {h} ELSE {})
             /\ FromServer(Head(inbox)) => Sound(h) /\ Above(Tail(inbox), h) /\ h \in Numbers(inbox)
  BY <1>t, <1>0, ShorterQueue DEF NumberInv
<1>p. Pending' = Numbers(inbox') \cup (IF Awaiting' THEN {number'} ELSE {})
  BY PendingNumbersNext
<1>q. /\ Pending = Numbers(inbox) \cup (IF Awaiting THEN {number} ELSE {})
      /\ DOMAIN fate \subseteq Nat \ {0} /\ tci.number \in Nat
  BY PendingNumbers
<1> HIDE DEF h
<1>1. CASE setCurrentSignalTimingPlan \/ setSignalCoordinationTimingPlan
  <2>1. /\ inbox # <<>> /\ inbox' = Tail(inbox) /\ ~FromServer(Head(inbox))
        /\ UNCHANGED <<pc, number, fate, tci>>
    BY <1>1 DEF setCurrentSignalTimingPlan, setSignalCoordinationTimingPlan, Receives, FromServer,
       SignalPlan, SplitData, PriorityRequest, ClearRequest
  <2>2. QED
    BY <1>0, <2>1, SameNumbers
<1>2. CASE DropList
  <2>1. /\ inbox # <<>> /\ inbox' = Tail(inbox) /\ FromServer(Head(inbox)) /\ ~Awaiting'
        /\ Becomes(h, "noPlan") /\ tci' = tci /\ ~Awaiting
    BY <1>2 DEF DropList, Receives, FromServer, Awaiting, h
  <2>2. Sound(h) /\ Above(Tail(inbox), h)
    BY <1>0, <2>1
  <2>3. /\ DOMAIN fate' = DOMAIN fate /\ fate'[h] = "noPlan"
        /\ \A k \in DOMAIN fate : k # h => fate'[k] = fate[k]
    BY <2>1, <2>2, FateOfOne DEF Sound
  <2>4. \A k \in Numbers(inbox') : Sound(k)' 
    BY <1>0, <2>1, <2>2, <2>3 DEF Above, NumberInv, Sound
  <2>5. \A n \in DOMAIN fate' : n \notin Pending' /\ fate'[n] = "served" => n <= tci'.number
    BY <1>0, <1>p, <1>q, <2>1, <2>3 DEF NumberInv
  <2>6. tci'.number # 0 => /\ tci'.number \in DOMAIN fate' /\ fate'[tci'.number] = "served"
                           /\ tci'.command # "none"
    BY <1>q, <2>1, <2>2, <2>3 DEF NumberInv, Sound
  <2>7. QED
    BY <1>0, <2>1, <2>4, <2>5, <2>6 DEF NumberInv
<1>3. CASE createPriorityRequestList
  <2>1. /\ inbox # <<>> /\ inbox' = Tail(inbox) /\ FromServer(Head(inbox)) /\ Awaiting'
        /\ number' = h /\ UNCHANGED <<fate, tci>> /\ ~Awaiting
    BY <1>3 DEF createPriorityRequestList, Receives, FromServer, Awaiting, h
  <2>2. Sound(h) /\ Above(Tail(inbox), h)
    BY <1>0, <2>1
  <2>3. \A n \in DOMAIN fate' : n \notin Pending' /\ fate'[n] = "served" => n <= tci'.number
    BY <1>0, <1>p, <1>q, <2>1 DEF NumberInv
  <2>4. QED
    BY <1>0, <2>1, <2>2, <2>3 DEF NumberInv, Above, Sound
<1>4. CASE SendClearSchedule
  <2>1. /\ inbox # <<>> /\ inbox' = Tail(inbox) /\ FromServer(Head(inbox)) /\ ~Awaiting'
        /\ fate' = fate /\ tci'.number = h /\ tci'.command = "clear" /\ ~Awaiting
    BY <1>4 DEF SendClearSchedule, Receives, FromServer, Awaiting, h
  <2>2. Sound(h) /\ Above(Tail(inbox), h)
    BY <1>0, <2>1
  <2>3. \A k \in Numbers(inbox') : Sound(k)'
    BY <1>0, <2>1, <2>2 DEF Above, NumberInv, Sound
  <2>4. \A n \in DOMAIN fate' : n \notin Pending' /\ fate'[n] = "served" => n <= tci'.number
    BY <1>0, <1>p, <1>q, <2>1, <2>2 DEF NumberInv, Sound
  <2>5. QED
    BY <1>0, <2>1, <2>2, <2>3, <2>4 DEF NumberInv, Sound
<1>5. CASE TakeSplitData
  <2>1. /\ inbox # <<>> /\ inbox' = Tail(inbox) /\ Awaiting' /\ Awaiting
        /\ UNCHANGED <<number, tci>>
        /\ IF FromServer(Head(inbox)) THEN Becomes(h, "missed") ELSE fate' = fate
    BY <1>5 DEF TakeSplitData, Awaiting, h
  <2>2. Sound(number) /\ Above(inbox, number)
    BY <2>1 DEF NumberInv
  <2>3. CASE ~FromServer(Head(inbox))
    <3>1. Numbers(inbox') = Numbers(inbox) /\ fate' = fate
      BY <1>0, <2>1, <2>3
    <3>2. Pending' = Pending
      BY <1>p, <1>q, <2>1, <3>1
    <3>3. QED
      BY <1>0, <2>1, <3>1, <3>2 DEF NumberInv, Above, Sound
  <2>4. CASE FromServer(Head(inbox))
    <3>1. Sound(h) /\ Above(Tail(inbox), h) /\ h \in Numbers(inbox) /\ Becomes(h, "missed")
      BY <1>0, <2>1, <2>4
    <3>2. /\ DOMAIN fate' = DOMAIN fate /\ fate'[h] = "missed"
          /\ \A k \in DOMAIN fate : k # h => fate'[k] = fate[k]
      BY <3>1, FateOfOne DEF Sound
    <3>3. \A k \in Numbers(inbox') : Sound(k)'
      <4>1. \A k \in Numbers(Tail(inbox)) : Sound(k) /\ h < k
        BY <1>0, <2>1, <3>1 DEF Above, NumberInv
      <4>2. \A k \in Numbers(Tail(inbox)) : k \in DOMAIN fate /\ k # h
        BY <1>q, <3>1, <4>1 DEF Sound
      <4>3. QED
        BY <2>1, <3>2, <4>1, <4>2 DEF Sound
    <3>4. number < h
      BY <2>2, <3>1 DEF Above
    <3>5. Sound(number)' /\ Above(inbox, number)'
      BY <1>0, <2>1, <2>2, <3>2, <3>4 DEF Above, Sound
    <3>6. \A n \in DOMAIN fate' : n \notin Pending' /\ fate'[n] = "served" => n <= tci'.number
      BY <1>0, <1>p, <1>q, <2>1, <3>2 DEF NumberInv
    <3>7. tci'.number # 0 => /\ tci'.number \in DOMAIN fate' /\ fate'[tci'.number] = "served"
                             /\ tci'.command # "none"
      BY <1>q, <2>1, <3>1, <3>2 DEF NumberInv, Sound
    <3>8. QED
      BY <1>0, <2>1, <3>3, <3>5, <3>6, <3>7 DEF NumberInv
  <2>5. QED
    BY <2>3, <2>4
\* The list that was worked on is done with: it will not be served.
<1>6. ASSUME NEW what \in {"died", "unsolved"}, Awaiting, ~Awaiting', Becomes(number, what),
             UNCHANGED <<inbox, tci>>
      PROVE  NumberInv'
  <2>1. Sound(number) /\ Above(inbox, number)
    BY <1>6 DEF NumberInv
  <2>2. /\ DOMAIN fate' = DOMAIN fate /\ fate'[number] = what
        /\ \A k \in DOMAIN fate : k # number => fate'[k] = fate[k]
    BY <1>6, <2>1, FateOfOne DEF Sound
  <2>3. \A k \in Numbers(inbox') : Sound(k)'
    <3>1. \A k \in Numbers(inbox) : Sound(k) /\ number < k
      BY <2>1 DEF Above, NumberInv
    <3>2. \A k \in Numbers(inbox) : k \in DOMAIN fate /\ k # number
      BY <1>q, <2>1, <3>1 DEF Sound
    <3>3. QED
      BY <1>6, <2>2, <3>1, <3>2 DEF Sound
  <2>4. \A n \in DOMAIN fate' : n \notin Pending' /\ fate'[n] = "served" => n <= tci'.number
    BY <1>6, <1>p, <1>q, <2>2 DEF NumberInv
  <2>5. tci'.number # 0 => /\ tci'.number \in DOMAIN fate' /\ fate'[tci'.number] = "served"
                           /\ tci'.command # "none"
    BY <1>6, <1>q, <2>1, <2>2 DEF NumberInv, Sound
  <2>6. QED
    BY <1>6, <2>3, <2>4, <2>5 DEF NumberInv
<1>7. CASE getCurrentSignalStatusFails \/ setOptimizationInputFails
  BY <1>6, <1>7 DEF getCurrentSignalStatusFails, setOptimizationInputFails, TakeCurrentPhases, Dies,
     Awaiting
<1>8. CASE getScheduleforTCI
  <2>1. /\ Awaiting /\ ~Awaiting' /\ inbox' = inbox
        /\ \/ tci' = [number |-> number, command |-> "schedule"] /\ fate' = fate
           \/ tci' = tci /\ Becomes(number, "unsolved")
    BY <1>8 DEF getScheduleforTCI, TakeCurrentPhases, Awaiting
  <2>2. CASE tci' = [number |-> number, command |-> "schedule"] /\ fate' = fate
    <3>1. tci'.number = number /\ tci'.command # "none"
      BY <2>2
    <3>2. Sound(number) /\ Above(inbox, number)
      BY <2>1 DEF NumberInv
    <3>3. \A k \in Numbers(inbox') : Sound(k)'
      BY <2>1, <2>2, <3>1, <3>2 DEF Above, NumberInv, Sound
    <3>4. \A n \in DOMAIN fate' : n \notin Pending' /\ fate'[n] = "served" => n <= tci'.number
      BY <1>p, <1>q, <2>1, <2>2, <3>1, <3>2 DEF NumberInv, Sound
    <3>5. QED
      BY <2>1, <2>2, <3>1, <3>2, <3>3, <3>4 DEF NumberInv, Sound
  <2>3. QED
    BY <1>6, <2>1, <2>2
<1>9. QED
  BY <1>1, <1>2, <1>3, <1>4, <1>5, <1>7, <1>8 DEF SolverNext

LEMMA NumberOthers ==
  ASSUME TypeOK, TypeOK', NumberInv, OthersNext
  PROVE  NumberInv'
<1> USE DEF listVars, tciVars
<1>t. inbox \in Seq(Message) /\ fate \in Seq({"served", "noPlan", "missed", "unsolved", "died", "forgotten"})
  BY DEF TypeOK
<1>0. UNCHANGED <<pc, number>> /\ Awaiting' = Awaiting
  BY OthersOnlySend DEF Awaiting
<1>p. Pending' = Numbers(inbox') \cup (IF Awaiting' THEN {number'} ELSE {})
  BY PendingNumbersNext
<1>q. /\ Pending = Numbers(inbox) \cup (IF Awaiting THEN {number} ELSE {})
      /\ DOMAIN fate \subseteq Nat \ {0} /\ tci.number \in Nat
      /\ DOMAIN fate = 1 .. Len(fate) /\ Len(fate) \in Nat
  BY PendingNumbers
<1>1. ASSUME NEW m \in Message, ~FromServer(m), Arrives(m)
      PROVE  Sorted(inbox') /\ Numbers(inbox') = Numbers(inbox)
  <2>1. Sorted(Append(inbox, m)) /\ Numbers(Append(inbox, m)) = Numbers(inbox)
    BY <1>t, <1>1, LongerQueue DEF NumberInv
  <2>2. QED
    BY <1>1, <2>1 DEF Arrives, NumberInv
<1>2. ASSUME NEW n \in Nat, NEW kind \in {SignalPlan, SplitData},
             Arrives([kind |-> kind, number |-> n, list |-> {}])
      PROVE  Sorted(inbox') /\ Numbers(inbox') = Numbers(inbox)
  <2>1. [kind |-> kind, number |-> n, list |-> {}] \in Message
    BY MessageTypes
  <2>2. ~FromServer([kind |-> kind, number |-> n, list |-> {}])
    BY DEF FromServer, SignalPlan, SplitData, PriorityRequest, ClearRequest
  <2>3. QED
    BY <1>1, <1>2, <2>1, <2>2
<1>3. CASE TciAnswersPhases \/ GeneratorIgnores \/ CoordinationEnds
  <2>1. UNCHANGED <<inbox, fate, tci>>
    BY <1>3 DEF TciAnswersPhases, GeneratorIgnores, CoordinationEnds
  <2>2. QED
    BY <1>0, <2>1, SameNumbers DEF NumberInv
<1>4. CASE TciAnswersPlan \/ TimingPlanChanges
  <2>1. SendsPlan(currentTimingPlan) \/ SendsPlan(currentTimingPlan + 1)
    BY <1>4 DEF TciAnswersPlan, TimingPlanChanges
  <2>2. currentTimingPlan \in Nat /\ currentTimingPlan + 1 \in Nat
    BY DEF TypeOK
  <2>3. Sorted(inbox') /\ Numbers(inbox') = Numbers(inbox)
    BY <1>2, <2>1, <2>2 DEF SendsPlan
  <2>4. UNCHANGED <<fate, tci>>
    BY <2>1 DEF SendsPlan
  <2>5. QED
    BY <1>0, <2>3, <2>4, SameNumbers
<1>5. CASE GeneratorAnswers \/ CoordinationBegins
  <2>1. SendsSplitData
    BY <1>5 DEF GeneratorAnswers, CoordinationBegins
  <2>2. Sorted(inbox') /\ Numbers(inbox') = Numbers(inbox)
    BY <1>2, <2>1 DEF SendsSplitData
  <2>3. UNCHANGED <<fate, tci>>
    BY <2>1 DEF SendsSplitData
  <2>4. QED
    BY <1>0, <2>2, <2>3, SameNumbers
<1>6. ASSUME NEW kind \in {PriorityRequest, ClearRequest}, NEW list, ServerSends(kind, list),
             kind = PriorityRequest => list \in RequestLists, kind = ClearRequest => list = {},
             NEW n, n = Len(fate) + 1
      PROVE  NumberInv'
  <2> DEFINE m == [kind |-> kind, number |-> n, list |-> list]
             what == IF pc = "dead" THEN "died" ELSE "served"
  <2>1. n \in Nat /\ m \in Message /\ m.number = n /\ FromServer(m)
    <3>1. n \in Nat
      BY <1>q, <1>6
    <3>2. m \in Message
      BY <1>6, <3>1, MessageTypes
    <3>3. m.number = n /\ FromServer(m)
      BY DEF FromServer
    <3>4. QED
      BY <3>1, <3>2, <3>3
  <2>2. /\ fate' = Append(fate, what) /\ tci' = tci
        /\ inbox' = IF pc = "dead" THEN inbox ELSE Append(inbox, m)
    BY <1>6 DEF ServerSends, Arrives
  <2> HIDE DEF m
  <2>3. /\ DOMAIN fate' = DOMAIN fate \cup {n} /\ fate'[n] = what
        /\ \A k \in DOMAIN fate : fate'[k] = fate[k] /\ k < n
    <3>1. /\ DOMAIN fate' = 1 .. (Len(fate) + 1) /\ fate'[Len(fate) + 1] = what
          /\ \A k \in 1 .. Len(fate) : fate'[k] = fate[k]
      BY <1>t, <2>2
    <3>2. 1 .. (Len(fate) + 1) = 1 .. Len(fate) \cup {n}
      BY <1>q, <1>6
    <3>3. QED
      BY <1>q, <1>6, <3>1, <3>2
  <2>4. tci.number < n
    <3>1. tci.number = 0 \/ tci.number \in DOMAIN fate
      BY DEF NumberInv
    <3>2. QED
      BY <1>q, <1>6, <2>3, <3>1
  <2>5. \A k \in Numbers(inbox) : Sound(k)' /\ k < n
    BY <2>2, <2>3 DEF NumberInv, Sound
  <2>6. Awaiting => Sound(number)' /\ number < n
    <3>1. Awaiting => Sound(number) /\ number \in DOMAIN fate
      BY DEF NumberInv, Sound
    <3>2. QED
      BY <1>0, <2>2, <2>3, <3>1 DEF Sound
  <2>7. tci'.number # 0 => /\ tci'.number \in DOMAIN fate' /\ fate'[tci'.number] = "served"
                           /\ tci'.command # "none"
    BY <2>2, <2>3 DEF NumberInv
  <2>8. CASE pc = "dead"
    <3>1. inbox' = inbox /\ ~Awaiting /\ fate'[n] = "died" /\ Pending' = Pending
      BY <1>0, <1>p, <1>q, <2>2, <2>3, <2>8 DEF Awaiting
    <3>2. \A k \in DOMAIN fate' : k \notin Pending' /\ fate'[k] = "served" => k <= tci'.number
      BY <2>2, <2>3, <3>1 DEF NumberInv
    <3>3. QED
      BY <1>0, <2>5, <2>7, <3>1, <3>2 DEF NumberInv
  <2>9. CASE pc # "dead"
    <3>1. /\ Numbers(inbox') = Numbers(inbox) \cup {n}
          /\ Sorted(inbox')
      BY <1>t, <2>1, <2>2, <2>5, <2>9, LongerQueue DEF NumberInv
    <3>2. Sound(n)'
      BY <2>2, <2>3, <2>4, <2>9 DEF Sound
    <3>3. Pending' = Pending \cup {n}
      BY <1>0, <1>p, <1>q, <3>1
    <3>4. \A k \in DOMAIN fate' : k \notin Pending' /\ fate'[k] = "served" => k <= tci'.number
      BY <2>2, <2>3, <3>3 DEF NumberInv
    <3>5. Awaiting' => Sound(number)' /\ Above(inbox, number)'
      BY <1>0, <2>6, <3>1 DEF NumberInv, Above
    <3>6. QED
      BY <2>5, <2>7, <3>1, <3>2, <3>4, <3>5 DEF NumberInv
  <2>10. QED
    BY <2>8, <2>9
\* The TCI forgets the commands it had: the messages before are no longer served.
<1>7. CASE TciRestarts
  <2>1. /\ tci'.number = 0
        /\ fate' = [n \in DOMAIN fate |-> IF n <= tci.number THEN "forgotten" ELSE fate[n]]
    BY <1>7 DEF TciRestarts
  <2>2. Sorted(inbox') /\ Numbers(inbox') = Numbers(inbox)
    <3>1. currentTimingPlan \in Nat
      BY DEF TypeOK
    <3>2. QED
      BY <1>2, <1>7, <3>1 DEF TciRestarts
  <2>3. DOMAIN fate' = DOMAIN fate
    BY <2>1
  <2>4. \A k \in DOMAIN fate : Sound(k) => Sound(k)'
    BY <1>q, <2>1 DEF Sound
  <2>5. \A k : Sound(k) => k \in DOMAIN fate
    BY DEF Sound
  <2>6. \A n \in DOMAIN fate' : n \notin Pending' /\ fate'[n] = "served" => n <= tci'.number
    <3>1. SUFFICES ASSUME NEW n \in DOMAIN fate', n \notin Pending', fate'[n] = "served"
                   PROVE  FALSE
      OBVIOUS
    <3>2. n \notin Pending
      BY <1>0, <1>p, <1>q, <2>2, <3>1
    <3>3. ~(n <= tci.number) /\ fate[n] = "served"
      BY <2>1, <2>3, <3>1
    <3>4. QED
      BY <2>3, <3>1, <3>2, <3>3 DEF NumberInv
  <2>7. \A k \in Numbers(inbox') : Sound(k)'
    BY <2>2, <2>4, <2>5 DEF NumberInv
  <2>8. Awaiting' => Sound(number)' /\ Above(inbox, number)'
    <3>1. Awaiting => Sound(number) /\ Above(inbox, number)
      BY DEF NumberInv
    <3>2. Sound(number) => Sound(number)'
      <4>1. Sound(number) => number \in DOMAIN fate /\ number' = number
        BY <1>0 DEF Sound
      <4>2. QED
        BY <1>0, <1>q, <2>1, <4>1 DEF Sound
    <3>3. Above(inbox, number) => Above(inbox, number)'
      BY <1>0, <2>2 DEF Above
    <3>4. QED
      BY <1>0, <3>1, <3>2, <3>3
  <2>9. QED
    BY <2>1, <2>2, <2>6, <2>7, <2>8 DEF NumberInv
<1>8. CASE \/ \E list \in RequestLists : ServerSends(PriorityRequest, list)
           \/ ServerSends(ClearRequest, {})
  <2>1. PriorityRequest # ClearRequest
    BY DEF PriorityRequest, ClearRequest
  <2>2. QED
    BY <1>6, <1>8, <2>1
<1>9. QED
  BY <1>3, <1>4, <1>5, <1>7, <1>8 DEF OthersNext, Answering

LEMMA NumberNext ==
  ASSUME TypeOK, TypeOK', NumberInv, [Next]_vars
  PROVE  NumberInv'
<1> USE DEF listVars, tciVars
<1>1. CASE Restarts
  <2>1. /\ inbox' = <<>> /\ pc' = "receive" /\ tci' = tci
        /\ fate' = [n \in DOMAIN fate |-> IF n \in Pending THEN "died" ELSE fate[n]]
    BY <1>1 DEF Restarts, SolverKilled, SolverStartsAgain, StartSolver
  <2>2. Sorted(inbox') /\ Numbers(inbox') = {} /\ ~Awaiting'
    BY <2>1, EmptyQueue DEF Awaiting
  <2>3. DOMAIN fate' = DOMAIN fate
    BY <2>1
  <2>4. \A n \in DOMAIN fate' : fate'[n] = "served" => n \notin Pending /\ fate[n] = "served"
    BY <2>1
  <2>5. \A n \in DOMAIN fate' : n \notin Pending' /\ fate'[n] = "served" => n <= tci'.number
    BY <2>1, <2>3, <2>4 DEF NumberInv
  <2>6. tci.number \notin Pending
    <3>1. \A n \in Pending : Sound(n)
      BY PendingNumbers DEF NumberInv
    <3>2. ~(tci.number < tci.number)
      BY PendingNumbers
    <3>3. QED
      BY <3>1, <3>2 DEF Sound
  <2>7. tci'.number # 0 => /\ tci'.number \in DOMAIN fate' /\ fate'[tci'.number] = "served"
                           /\ tci'.command # "none"
    BY <2>1, <2>6 DEF NumberInv
  <2>8. QED
    BY <2>2, <2>5, <2>7 DEF NumberInv
<1>2. CASE UNCHANGED vars
  <2>1. UNCHANGED <<pc, number, fate, tci, inbox>>
    BY <1>2 DEF vars
  <2>2. QED
    BY <2>1, SameNumbers DEF NumberInv
<1>3. QED
  BY <1>1, <1>2, NumberSolver, NumberOthers, Steps

-----------------------------------------------------------------------------
(* Theorems *)

LEMMA SolverInit ==
  ASSUME Init
  PROVE  SolverInv
<1>1. TypeOK
  <2>1. /\ asked \in [plan : Nat, split : Nat, phases : Nat]
        /\ tci \in [number : Nat, command : {"none", "clear", "schedule"}]
        /\ inbox \in Seq(Message)
        /\ fate \in Seq({"served", "noPlan", "missed", "unsolved", "died", "forgotten"})
    BY DEF Init
  <2>2. coordinated \in BOOLEAN /\ noOfEVInList \in BOOLEAN
    BY DEF Init
  <2>3. planLost \in BOOLEAN /\ mistaken \in BOOLEAN /\ restarted \in BOOLEAN /\ unanswered \in BOOLEAN
    BY DEF Init
  <2>4. QED
    BY <2>1, <2>2, <2>3 DEF Init, TypeOK
<1>2. inbox = <<>> /\ pc = "receive" /\ trafficSignalPlan = 0 /\ fate = <<>> /\ tci.number = 0
  BY DEF Init
<1>3. ListInv /\ PlanInv
  BY <1>2, EmptyQueue DEF ListInv, Awaiting, DiesOnlyAfterMiss, PlanInv
<1>4. AnswerInv
  BY DEF Init, AnswerInv
<1>5. NumberInv
  BY <1>2, EmptyQueue DEF NumberInv, Awaiting
<1>6. QED
  BY <1>1, <1>3, <1>4, <1>5 DEF SolverInv

LEMMA SolverInvariant == Spec => []SolverInv
<1>1. Init => SolverInv
  BY SolverInit
<1>2. SolverInv /\ [Next]_vars => SolverInv'
  BY TypeNext, ListNext, PlanNext, AnswerNext, NumberNext DEF SolverInv
<1>3. QED
  BY <1>1, <1>2, PTL DEF Spec

\* The variables of the loop and of the processes it talks to keep their types.
THEOREM SolverTypeCorrect == Spec => []TypeOK
<1>1. SolverInv => TypeOK
  BY DEF SolverInv
<1>2. QED
  BY <1>1, SolverInvariant, PTL

\* The TCI works on the newest of the server's messages that reached it through the
\* loop, whatever was missed, dropped, died with the solver or forgotten in between.
THEOREM TheTciFollowsTheServer == Spec => []TciFollowsServer
<1>1. SolverInv => TciFollowsServer
  <2>1. ASSUME SolverInv
        PROVE  \A n \in Served : n <= tci.number
    BY <2>1 DEF SolverInv, NumberInv, Served
  <2>2. ASSUME SolverInv, tci.number # 0
        PROVE  tci.number \in Served /\ tci.command # "none"
    <3>1. TypeOK /\ NumberInv
      BY <2>2 DEF SolverInv
    <3>2. \A n \in Pending : Sound(n)
      BY <3>1, PendingNumbers DEF NumberInv
    <3>3. ~(tci.number < tci.number)
      BY <3>1, PendingNumbers
    <3>4. tci.number \notin Pending
      BY <3>2, <3>3 DEF Sound
    <3>5. QED
      BY <2>2, <3>1, <3>4 DEF NumberInv, Served
  <2>3. QED
    BY <2>1, <2>2 DEF TciFollowsServer
<1>2. QED
  BY <1>1, SolverInvariant, PTL

\* The solver dies of nothing but a message that came instead of the split data, or of
\* an emergency vehicle without weight.
THEOREM TheSolverDiesOnlyAfterAMiss == Spec => []DiesOnlyAfterMiss
<1>1. SolverInv => DiesOnlyAfterMiss
  BY DEF SolverInv, ListInv
<1>2. QED
  BY <1>1, SolverInvariant, PTL

\* Once every timing plan that arrived has been read and none was swallowed by the wait
\* for the split data, the loop plans with the plan the controller runs.
THEOREM TheTimingPlanIsCurrent == Spec => []PlanIsCurrent
<1>1. SolverInv => PlanIsCurrent
  BY DEF SolverInv, PlanInv, PlanIsCurrent, NoPlanIn, IsPlan
<1>2. QED
  BY <1>1, SolverInvariant, PTL

\* Without a restart the current phases the loop reads answer its own question.
THEOREM AnswersAreToItsOwnQuestions == Spec => []AnswersMatchQuestions
<1>1. SolverInv => AnswersMatchQuestions
  <2>1. ASSUME TypeOK, AnswerInv, ~restarted, ~unanswered, pc # "dead"
        PROVE  asked.phases + answers = IF pc = "awaitCurrentPhases" THEN 1 ELSE 0
    <3>1. asked.phases \in Nat /\ answers \in Nat
      BY <2>1 DEF TypeOK
    <3>2. QED
      BY <2>1, <3>1 DEF AnswerInv
  <2>2. QED
    BY <2>1 DEF SolverInv, AnswersMatchQuestions
<1>2. QED
  BY <1>1, SolverInvariant, PTL
==============================================================================

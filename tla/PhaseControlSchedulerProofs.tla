--------------------- MODULE PhaseControlSchedulerProofs ---------------------
(***************************************************************************)
(* Theorems about the phase control side of the Traffic Controller         *)
(* Interface: for all phases, schedules, timing plans and back-up times,   *)
(* any number of jobs, and every interleaving of the main loop, the job    *)
(* threads and the thread that updates the timing plan.                    *)
(***************************************************************************)
EXTENDS PhaseControlScheduler, VectorOpsProofs, SequenceTheorems, TLAPS

\* A sequence, whatever its elements.
IsQueue(q) == q \in Seq({q[i] : i \in DOMAIN q})

\* The fields of the records, and that the words are functions of the controls.
Shape ==
  /\ DOMAIN main = DOMAIN IdleMain /\ DOMAIN update = DOMAIN IdleUpdate
  /\ IsQueue(replies)
  /\ DOMAIN status = Control /\ word = [c \in Control |-> word[c]]
  /\ \A j \in jobs : DOMAIN j = {"id", "control", "action", "phases", "next", "end"}
  /\ \A t \in pool : DOMAIN t = {"id", "control", "action", "todo", "pc", "value", "late"}

\* The main loop waits where it has something to ask, and the thread that waits for a
\* reply of the timing plan has not read it all.
ReplyInv ==
  /\ NoReplyLeftOver
  /\ main.waiting => main.pc \in {"check", "report"} /\ main.ask # <<>>
  /\ update.waiting => update.reading /\ Len(update.got) < Len(PlanOid)

\* The phases for which a schedule has a command of a control.
PhasesFor(list, c) == PhasesOf(list, {i \in DOMAIN list : list[i].control = c})

\* While a schedule is worked on, and no job of the one before ran too late: before
\* the jobs are removed no thread runs, and after that every job is of the new list.
BitsInv ==
  main.request = "schedule" /\ ~main.late =>
    /\ \A c \in Control : status[c] \subseteq PhasesFor(main.list, c)
    /\ \A t \in pool : t.todo \subseteq PhasesFor(main.list, t.control)
    /\ main.pc = "remove" => pool = {}
    /\ main.pc # "remove" => \A j \in jobs : j.phases \subseteq PhasesFor(main.list, j.control)

\* A clear request goes through the controls; those that are not left to do are off.
ClearInv ==
  main.request = "clear" /\ ~main.late /\ main.pc # "remove" =>
    /\ jobs = {} /\ pool = {} /\ main.pc # "check"
    /\ main.pc \in {"assign", "read", "send"} =>
         /\ main.sets \in Seq(Control)
         /\ \A c \in Control : word[c] # {} => \E i \in DOMAIN main.sets : main.sets[i] = c
         /\ main.pc # "assign" => main.sets # <<>>
         /\ main.pc = "read" => status[Head(main.sets)] = {}
         /\ main.pc = "send" => main.value = {}
    /\ main.pc \notin {"assign", "read", "send"} => word = NoBits /\ status = NoBits

-----------------------------------------------------------------------------
(* Queues *)

LEMMA OwnElements ==
  ASSUME NEW T, NEW r \in Seq(T)
  PROVE  IsQueue(r)
<1>1. /\ Len(r) \in Nat /\ DOMAIN r = 1 .. Len(r)
      /\ r = [i \in 1 .. Len(r) |-> r[i]]
  OBVIOUS
<1>2. r \in [1 .. Len(r) -> {r[i] : i \in DOMAIN r}]
  BY <1>1
<1>3. QED
  BY <1>1, <1>2, SeqDef DEF IsQueue

LEMMA ReplyArrives ==
  ASSUME NEW q, IsQueue(q), NEW x
  PROVE  LET r == Append(q, x)
         IN  IsQueue(r) /\ Len(r) = Len(q) + 1 /\ Len(q) \in Nat
<1> DEFINE S == {q[i] : i \in DOMAIN q}
           T == S \cup {x}
           r == Append(q, x)
<1>1. q \in Seq(T) /\ x \in T
  BY DEF IsQueue
<1> HIDE DEF S, T
<1>2. r \in Seq(T) /\ Len(r) = Len(q) + 1 /\ Len(q) \in Nat
  BY <1>1
<1> HIDE DEF r
<1>3. IsQueue(r)
  BY <1>2, OwnElements
<1>4. QED
  BY <1>2, <1>3 DEF r

LEMMA ReplyTaken ==
  ASSUME NEW q, IsQueue(q), q # <<>>
  PROVE  LET r == Tail(q)
         IN  IsQueue(r) /\ Len(r) = Len(q) - 1 /\ Len(q) \in Nat \ {0}
<1> DEFINE S == {q[i] : i \in DOMAIN q}
           r == Tail(q)
<1>1. q \in Seq(S)
  BY DEF IsQueue
<1> HIDE DEF S
<1>2. r \in Seq(S) /\ Len(r) = Len(q) - 1 /\ Len(q) \in Nat \ {0}
  BY <1>1
<1> HIDE DEF r
<1>3. IsQueue(r)
  BY <1>2, OwnElements
<1>4. QED
  BY <1>2, <1>3 DEF r

-----------------------------------------------------------------------------
(* The fields *)

LEMMA ShapeMain ==
  ASSUME Shape, MainNext
  PROVE  Shape'
<1>0. DOMAIN main = DOMAIN IdleMain /\ IsQueue(replies)
  BY DEF Shape
<1>1. DOMAIN main' = DOMAIN IdleMain
  BY <1>0 DEF MainNext, ReceiveSchedule, ReceiveClear, RemoveAllJobs, MainAsks, MainTakesReply,
     ChooseClears, AssignZeros, ReadValue, SendValue, FinishClear, AddJobs,
     ReceiveCurrNextPhaseRequest, ReceiveCurrPhases, SendCurrNextPhases
<1>2. IsQueue(replies')
  <2>1. CASE MainAsks
    BY <1>0, <2>1, ReplyArrives DEF MainAsks
  <2>2. CASE MainTakesReply
    BY <1>0, <2>2, ReplyTaken DEF MainTakesReply
  <2>3. CASE replies' = replies
    BY <1>0, <2>3
  <2>4. MainAsks \/ MainTakesReply \/ replies' = replies
    BY DEF MainNext, ReceiveSchedule, ReceiveClear, RemoveAllJobs,
       ChooseClears, AssignZeros, ReadValue, SendValue, FinishClear, AddJobs,
       ReceiveCurrNextPhaseRequest, ReceiveCurrPhases, SendCurrNextPhases
  <2>5. QED
    BY <2>1, <2>2, <2>3, <2>4
<1>3. DOMAIN status' = Control
  BY DEF Shape, NoBits, MainNext, ReceiveSchedule, ReceiveClear, RemoveAllJobs, MainAsks,
     MainTakesReply, ChooseClears, AssignZeros, ReadValue, SendValue, FinishClear, AddJobs,
     ReceiveCurrNextPhaseRequest, ReceiveCurrPhases, SendCurrNextPhases
<1>4. word' = [c \in Control |-> word'[c]]
  BY DEF Shape, MainNext, ReceiveSchedule, ReceiveClear, RemoveAllJobs, MainAsks,
     MainTakesReply, ChooseClears, AssignZeros, ReadValue, SendValue, FinishClear, AddJobs,
     ReceiveCurrNextPhaseRequest, ReceiveCurrPhases, SendCurrNextPhases
<1>5. \A j \in jobs' : DOMAIN j = {"id", "control", "action", "phases", "next", "end"}
  <2>1. CASE AddJobs
    BY <2>1 DEF AddJobs, Shape, JobsFor, Activation, Deactivation
  <2>2. CASE jobs' = jobs \/ jobs' = {}
    BY <2>2 DEF Shape
  <2>3. QED
    BY <2>1, <2>2 DEF MainNext, ReceiveSchedule, ReceiveClear, RemoveAllJobs, MainAsks,
       MainTakesReply, ChooseClears, AssignZeros, ReadValue, SendValue, FinishClear,
       ReceiveCurrNextPhaseRequest, ReceiveCurrPhases, SendCurrNextPhases
<1>6. \A t \in pool' : DOMAIN t = {"id", "control", "action", "todo", "pc", "value", "late"}
  <2>1. CASE RemoveAllJobs
    BY <2>1 DEF RemoveAllJobs, Shape
  <2>2. RemoveAllJobs \/ pool' = pool
    BY DEF MainNext, ReceiveSchedule, ReceiveClear, MainAsks, MainTakesReply, ChooseClears,
       AssignZeros, ReadValue, SendValue, FinishClear, AddJobs,
       ReceiveCurrNextPhaseRequest, ReceiveCurrPhases, SendCurrNextPhases
  <2>3. QED
    BY <2>1, <2>2 DEF Shape
<1>7. update' = update
  BY DEF MainNext, ReceiveSchedule, ReceiveClear, RemoveAllJobs, MainAsks,
     MainTakesReply, ChooseClears, AssignZeros, ReadValue, SendValue, FinishClear, AddJobs,
     ReceiveCurrNextPhaseRequest, ReceiveCurrPhases, SendCurrNextPhases
<1>8. QED
  BY <1>1, <1>2, <1>3, <1>4, <1>5, <1>6, <1>7 DEF Shape

LEMMA ShapePool ==
  ASSUME Shape, PoolNext
  PROVE  Shape'
<1>1. ASSUME NEW j \in jobs, SubmitJob(j)
      PROVE  Shape'
  <2>1. DOMAIN main' = DOMAIN main /\ UNCHANGED <<update, replies, status, word>>
    BY <1>1 DEF SubmitJob
  <2>2. \A k \in jobs' : DOMAIN k = {"id", "control", "action", "phases", "next", "end"}
    BY <1>1 DEF SubmitJob, Shape
  <2>3. \A t \in pool' : DOMAIN t = {"id", "control", "action", "todo", "pc", "value", "late"}
    BY <1>1 DEF SubmitJob, Shape
  <2>4. QED
    BY <2>1, <2>2, <2>3 DEF Shape
<1>2. ASSUME NEW t \in pool, NEW p \in t.todo, WriteBit(t, p)
      PROVE  Shape'
  <2>1. DOMAIN status' = DOMAIN status /\ UNCHANGED <<main, update, replies, word, jobs>>
    BY <1>2 DEF WriteBit
  <2>2. \A u \in pool' : DOMAIN u = {"id", "control", "action", "todo", "pc", "value", "late"}
    BY <1>2 DEF WriteBit, Shape
  <2>3. QED
    BY <2>1, <2>2 DEF Shape
<1>3. ASSUME NEW t \in pool, ReadBits(t)
      PROVE  Shape'
  <2>1. UNCHANGED <<main, update, replies, word, jobs, status>>
    BY <1>3 DEF ReadBits
  <2>2. \A u \in pool' : DOMAIN u = {"id", "control", "action", "todo", "pc", "value", "late"}
    BY <1>3 DEF ReadBits, Shape
  <2>3. QED
    BY <2>1, <2>2 DEF Shape
<1>4. ASSUME NEW t \in pool, SendBits(t)
      PROVE  Shape'
  <2>1. UNCHANGED <<main, update, replies, jobs, status>> /\ pool' \subseteq pool
    BY <1>4 DEF SendBits
  <2>2. word' = [c \in Control |-> word'[c]]
    BY <1>4 DEF SendBits, Shape
  <2>3. QED
    BY <2>1, <2>2 DEF Shape
<1>5. QED
  BY <1>1, <1>2, <1>3, <1>4 DEF PoolNext

LEMMA ShapeNext ==
  ASSUME Shape, [Next]_vars
  PROVE  Shape'
<1>0. IsQueue(replies)
  BY DEF Shape
<1>1. CASE UpdateNext
  <2>1. UNCHANGED <<main, status, word, jobs, pool>>
    BY <1>1 DEF UpdateNext, StartUpdate, UpdateAsks, UpdateTakesReply, FinishUpdate
  <2>2. DOMAIN update' = DOMAIN IdleUpdate
    BY <1>1 DEF UpdateNext, StartUpdate, UpdateAsks, UpdateTakesReply, FinishUpdate, Shape
  <2>3. IsQueue(replies')
    <3>1. CASE UpdateAsks
      BY <1>0, <3>1, ReplyArrives DEF UpdateAsks
    <3>2. CASE UpdateTakesReply
      BY <1>0, <3>2, ReplyTaken DEF UpdateTakesReply
    <3>3. CASE StartUpdate \/ FinishUpdate
      <4>1. replies' = replies
        BY <3>3 DEF StartUpdate, FinishUpdate
      <4>2. QED
        BY <1>0, <4>1
    <3>4. QED
      BY <1>1, <3>1, <3>2, <3>3 DEF UpdateNext
  <2>4. QED
    BY <2>1, <2>2, <2>3 DEF Shape
<1>2. CASE BackupExpires
  BY <1>2 DEF BackupExpires, Shape, NoBits
<1>3. CASE Tick \/ UNCHANGED vars
  BY <1>3 DEF Tick, vars, Shape
<1>4. ASSUME NEW orderly \in BOOLEAN, Restart(orderly)
      PROVE  Shape'
  <2>1. /\ main' = IdleMain /\ update' = IdleUpdate /\ replies' = <<>> /\ status' = NoBits
        /\ jobs' = {} /\ pool' = {} /\ (word' = NoBits \/ word' = word)
    BY <1>4 DEF Restart
  <2>2. word' = [c \in Control |-> word'[c]] /\ DOMAIN status' = Control
    BY <2>1 DEF Shape, NoBits
  <2>3. IsQueue(replies')
    BY <2>1 DEF IsQueue
  <2>4. QED
    BY <2>1, <2>2, <2>3 DEF Shape
<1>5. QED
  BY <1>1, <1>2, <1>3, <1>4, ShapeMain, ShapePool DEF Next

-----------------------------------------------------------------------------
(* The replies *)

LEMMA ReplyNext ==
  ASSUME Shape, ReplyInv, [Next]_vars
  PROVE  ReplyInv'
<1>0. /\ DOMAIN main = DOMAIN IdleMain /\ DOMAIN update = DOMAIN IdleUpdate
      /\ {"waiting", "pc", "ask"} \subseteq DOMAIN main /\ "waiting" \in DOMAIN update
      /\ "reading" \in DOMAIN update /\ "got" \in DOMAIN update
  BY DEF Shape, IdleMain, IdleUpdate
<1>r. IsQueue(replies) /\ Len(replies) \in Nat
  BY OwnElements DEF Shape, IsQueue
<1>1. ASSUME main'.waiting = main.waiting, UNCHANGED <<replies, update>>,
             main.waiting => main'.pc = main.pc /\ main'.ask = main.ask
      PROVE  ReplyInv'
  BY <1>1 DEF ReplyInv, NoReplyLeftOver
<1>2. CASE MainAsks
  <2>1. /\ ~main.waiting /\ main'.waiting = TRUE /\ update' = update
        /\ Len(replies') = Len(replies) + 1
        /\ main'.pc \in {"check", "report"} /\ main'.ask # <<>>
    BY <1>0, <1>r, <1>2, ReplyArrives DEF MainAsks
  <2>2. QED
    BY <1>r, <2>1 DEF ReplyInv, NoReplyLeftOver
<1>3. CASE MainTakesReply
  <2>1. /\ main.waiting /\ main'.waiting = FALSE /\ update' = update
        /\ Len(replies') = Len(replies) - 1
    BY <1>0, <1>r, <1>3, ReplyTaken DEF MainTakesReply
  <2>2. QED
    BY <1>r, <2>1 DEF ReplyInv, NoReplyLeftOver
<1>4. CASE MainNext
  <2>1. \/ MainAsks \/ MainTakesReply
        \/ main'.waiting = main.waiting /\ UNCHANGED <<replies, update>>
    BY <1>0, <1>4 DEF MainNext, ReceiveSchedule, ReceiveClear, RemoveAllJobs,
       ChooseClears, AssignZeros, ReadValue, SendValue, FinishClear, AddJobs,
       ReceiveCurrNextPhaseRequest, ReceiveCurrPhases, SendCurrNextPhases
  <2>2. MainAsks \/ MainTakesReply \/ ~main.waiting
    <3>1. \/ MainAsks \/ MainTakesReply
          \/ main.pc \notin {"check", "report"} \/ main.ask = <<>>
      BY <1>4 DEF MainNext, ReceiveSchedule, ReceiveClear, RemoveAllJobs,
         ChooseClears, AssignZeros, ReadValue, SendValue, FinishClear, AddJobs,
         ReceiveCurrNextPhaseRequest, ReceiveCurrPhases, SendCurrNextPhases
    <3>2. QED
      BY <3>1 DEF ReplyInv
  <2>3. QED
    BY <1>1, <1>2, <1>3, <2>1, <2>2
<1>5. CASE PoolNext
  <2>1. /\ main'.waiting = main.waiting /\ UNCHANGED <<replies, update>>
        /\ main'.pc = main.pc /\ main'.ask = main.ask
    BY <1>0, <1>5 DEF PoolNext, SubmitJob, WriteBit, ReadBits, SendBits
  <2>2. QED
    BY <1>1, <2>1
<1>6. CASE UpdateAsks
  <2>1. /\ ~update.waiting /\ update'.waiting = TRUE /\ main' = main
        /\ update.reading /\ update'.reading = update.reading /\ update'.got = update.got
        /\ Len(update.got) < Len(PlanOid)
    BY <1>0, <1>6 DEF UpdateAsks
  <2>2. Len(replies') = Len(replies) + 1
    BY <1>r, <1>6, ReplyArrives DEF UpdateAsks
  <2>3. QED
    BY <1>r, <2>1, <2>2 DEF ReplyInv, NoReplyLeftOver
<1>7. CASE UpdateTakesReply
  <2>1. /\ update.waiting /\ update'.waiting = FALSE /\ main' = main
        /\ Len(replies') = Len(replies) - 1
    BY <1>0, <1>r, <1>7, ReplyTaken DEF UpdateTakesReply
  <2>2. QED
    BY <1>r, <2>1 DEF ReplyInv, NoReplyLeftOver
<1>8. CASE StartUpdate \/ FinishUpdate
  <2>1. ~update.waiting
    BY <1>8 DEF StartUpdate, FinishUpdate, ReplyInv
  <2>2. update'.waiting = FALSE /\ UNCHANGED <<replies, main>>
    BY <1>8 DEF StartUpdate, FinishUpdate, IdleUpdate
  <2>3. QED
    BY <2>1, <2>2 DEF ReplyInv, NoReplyLeftOver
<1>9. CASE BackupExpires \/ Tick \/ UNCHANGED vars
  BY <1>1, <1>9 DEF BackupExpires, Tick, vars
<1>10. ASSUME NEW orderly \in BOOLEAN, Restart(orderly)
       PROVE  ReplyInv'
  <2>1. main'.waiting = FALSE /\ update'.waiting = FALSE /\ Len(replies') = 0
    BY <1>10 DEF Restart, IdleMain, IdleUpdate
  <2>2. QED
    BY <2>1 DEF ReplyInv, NoReplyLeftOver
<1>11. QED
  BY <1>4, <1>5, <1>6, <1>7, <1>8, <1>9, <1>10 DEF Next, UpdateNext

-----------------------------------------------------------------------------
(* The bits of a schedule *)

\* A job has a phase only if the list has a command of its control for it.
LEMMA JobsOfTheList ==
  ASSUME NEW list, NEW base, NEW gen, NEW j \in JobsFor(list, base, gen)
  PROVE  j.phases \subseteq PhasesFor(list, j.control)
<1>1. ASSUME NEW field, NEW i
      PROVE  PhasesOf(list, GroupOf(list, field, i)) \subseteq PhasesFor(list, list[i].control)
  BY DEF PhasesOf, PhasesFor, GroupOf, Together
<1>2. \E i : \/ j = Activation(list, i, base, gen)
             \/ j = Deactivation(list, i, base, gen)
  BY DEF JobsFor
<1>3. PICK i : \/ j = Activation(list, i, base, gen)
               \/ j = Deactivation(list, i, base, gen)
  BY <1>2
<1>4. CASE j = Activation(list, i, base, gen)
  <2>1. j.phases = PhasesOf(list, GroupOf(list, "startTime", i)) /\ j.control = list[i].control
    BY <1>4 DEF Activation
  <2>2. QED
    BY <1>1, <2>1
<1>5. CASE j = Deactivation(list, i, base, gen)
  <2>1. j.phases = PhasesOf(list, GroupOf(list, "endTime", i)) /\ j.control = list[i].control
    BY <1>5 DEF Deactivation
  <2>2. QED
    BY <1>1, <2>1
<1>6. QED
  BY <1>3, <1>4, <1>5

LEMMA BitsMain ==
  ASSUME Shape, ReplyInv, BitsInv, MainNext
  PROVE  BitsInv'
<1>0. /\ DOMAIN main = DOMAIN IdleMain /\ DOMAIN status = Control
      /\ {"pc", "request", "list", "late"} \subseteq DOMAIN main
  BY DEF Shape, IdleMain
<1>1. ASSUME NEW s, ReceiveSchedule(s)
      PROVE  BitsInv'
  <2>1. main'.late => pool # {}
    BY <1>0, <1>1 DEF ReceiveSchedule
  <2>2. status' = NoBits /\ pool' = pool /\ main'.pc = "remove" /\ (main'.late = (pool # {}))
    BY <1>0, <1>1 DEF ReceiveSchedule
  <2>3. \A c \in Control : status'[c] = {}
    BY <2>2 DEF NoBits
  <2>4. QED
    BY <2>2, <2>3 DEF BitsInv
<1>2. CASE ReceiveClear
  <2>1. main'.request = "clear"
    BY <1>0, <1>2 DEF ReceiveClear
  <2>2. QED
    BY <2>1 DEF BitsInv
<1>3. CASE RemoveAllJobs
  <2>1. CASE main.request = "clear"
    <3>1. main'.request = "clear"
      BY <1>0, <1>3, <2>1 DEF RemoveAllJobs
    <3>2. QED
      BY <3>1 DEF BitsInv
  <2>2. CASE main.request # "clear"
    <3>1. /\ main'.request = main.request /\ main'.list = main.list /\ main'.pc = "check"
          /\ (main'.late = (main.late \/ pool # {}))
          /\ status' = status /\ jobs' = {}
      BY <1>0, <1>3, <2>2 DEF RemoveAllJobs
    <3>2. ~main'.late => pool' = {} /\ ~main.late
      BY <1>3, <3>1 DEF RemoveAllJobs
    <3>3. QED
      BY <3>1, <3>2 DEF BitsInv
  <2>3. QED
    BY <2>1, <2>2
\* Steps that leave the request, the list and the words' bits as they were.
<1>4. ASSUME main'.request = main.request, main'.list = main.list, main'.late = main.late,
             main.pc # "remove", main'.pc # "remove", UNCHANGED <<pool, jobs>>,
             \A c \in Control : status'[c] \subseteq status[c]
      PROVE  BitsInv'
  BY <1>4 DEF BitsInv
<1>5. CASE \/ MainAsks \/ MainTakesReply \/ ChooseClears \/ AssignZeros \/ ReadValue \/ SendValue
           \/ SendCurrNextPhases \/ ReceiveCurrNextPhaseRequest
           \/ \E green1, green2 \in BOOLEAN : ReceiveCurrPhases(green1, green2)
  <2>1. /\ main'.request = main.request /\ main'.list = main.list /\ main'.late = main.late
        /\ UNCHANGED <<pool, jobs>>
    BY <1>0, <1>5 DEF MainAsks, MainTakesReply, ChooseClears, AssignZeros, ReadValue, SendValue,
       SendCurrNextPhases, ReceiveCurrNextPhaseRequest, ReceiveCurrPhases
  <2>2. main'.pc # "remove"
    <3>1. MainTakesReply => main'.pc = main.pc
      BY <1>0 DEF MainTakesReply
    <3>2. MainTakesReply => main.pc # "remove"
      BY DEF MainTakesReply, ReplyInv
    <3>3. QED
      BY <1>0, <1>5, <3>1, <3>2 DEF MainAsks, ChooseClears, AssignZeros, ReadValue, SendValue,
       SendCurrNextPhases, ReceiveCurrNextPhaseRequest, ReceiveCurrPhases
  <2>3. main.pc # "remove"
    BY <1>5 DEF MainAsks, MainTakesReply, ReplyInv, ChooseClears, AssignZeros, ReadValue, SendValue,
       SendCurrNextPhases, ReceiveCurrNextPhaseRequest, ReceiveCurrPhases
  <2>4. \A c \in Control : status'[c] \subseteq status[c]
    <3>1. AssignZeros => \A c \in Control : status'[c] = status[c] \/ status'[c] = {}
      BY <1>0 DEF AssignZeros
    <3>2. AssignZeros \/ status' = status
      BY <1>5 DEF MainAsks, MainTakesReply, ChooseClears, ReadValue, SendValue,
         SendCurrNextPhases, ReceiveCurrNextPhaseRequest, ReceiveCurrPhases
    <3>3. QED
      BY <3>1, <3>2
  <2>5. QED
    BY <1>4, <2>1, <2>2, <2>3, <2>4
<1>6. CASE FinishClear
  <2>1. main'.request = "clear"
    BY <1>0, <1>6 DEF FinishClear
  <2>2. QED
    BY <2>1 DEF BitsInv
<1>7. CASE AddJobs
  <2>1. /\ main'.request = main.request /\ main'.list = main.list /\ main'.late = main.late
        /\ main.pc = "assign" /\ main'.pc = "idle" /\ UNCHANGED <<pool, status>>
        /\ jobs' = jobs \cup JobsFor(main.list, now, received)
    BY <1>0, <1>7 DEF AddJobs
  <2>2. \A j \in JobsFor(main.list, now, received) : j.phases \subseteq PhasesFor(main.list, j.control)
    BY JobsOfTheList
  <2>3. QED
    BY <2>1, <2>2 DEF BitsInv
<1>8. QED
  BY <1>1, <1>2, <1>3, <1>5, <1>6, <1>7 DEF MainNext

\* A job of the list writes a bit of the list, one of an older list marks the schedule.
LEMMA BitsPool ==
  ASSUME Shape, BitsInv, PoolNext
  PROVE  BitsInv'
<1>0. /\ DOMAIN main = DOMAIN IdleMain /\ DOMAIN status = Control
      /\ {"pc", "request", "list", "late"} \subseteq DOMAIN main
      /\ \A j \in jobs : DOMAIN j = {"id", "control", "action", "phases", "next", "end"}
      /\ \A t \in pool : DOMAIN t = {"id", "control", "action", "todo", "pc", "value", "late"}
  BY DEF Shape, IdleMain
<1>1. ASSUME NEW j \in jobs, SubmitJob(j)
      PROVE  BitsInv'
  <2>1. /\ main'.pc = main.pc /\ main'.request = main.request /\ main'.list = main.list
        /\ status' = status
        /\ main'.request = "schedule" /\ ~main'.late => ~main.late /\ main.pc # "remove"
    BY <1>0, <1>1 DEF SubmitJob
  <2>2. \A k \in jobs' : \E l \in jobs : k.phases = l.phases /\ k.control = l.control
    BY <1>0, <1>1 DEF SubmitJob
  <2>3. \A t \in pool' : t \in pool \/ (t.todo = j.phases /\ t.control = j.control)
    BY <1>1 DEF SubmitJob
  <2>4. QED
    BY <2>1, <2>2, <2>3 DEF BitsInv
<1>2. ASSUME NEW t \in pool, NEW p \in t.todo, WriteBit(t, p)
      PROVE  BitsInv'
  <2>1. UNCHANGED <<main, jobs>>
    BY <1>2 DEF WriteBit
  <2>2. \A u \in pool' : \E v \in pool : u.todo \subseteq v.todo /\ u.control = v.control
    <3>0. DOMAIN t = {"id", "control", "action", "todo", "pc", "value", "late"}
      BY <1>0, <1>2
    <3>1. {"todo", "control"} \subseteq DOMAIN t
      BY <3>0
    <3>2. ASSUME NEW u, u = [t EXCEPT !.todo = @ \ {p}]
          PROVE  u.todo \subseteq t.todo /\ u.control = t.control
      BY <3>1, <3>2
    <3>3. pool' = (pool \ {t}) \cup {[t EXCEPT !.todo = @ \ {p}]}
      BY <1>2 DEF WriteBit
    <3>4. QED
      BY <3>2, <3>3
  <2>3. \A c \in Control : status'[c] \subseteq status[c] \/ (c = t.control /\ status'[c] \subseteq status[c] \cup {p})
    BY <1>0, <1>2 DEF WriteBit
  <2>4. pool = {} => FALSE
    BY <1>2
  <2>5. ASSUME main.request = "schedule", ~main.late
        PROVE  /\ main.pc # "remove" /\ p \in PhasesFor(main.list, t.control)
               /\ \A c \in Control : status[c] \subseteq PhasesFor(main.list, c)
               /\ \A v \in pool : v.todo \subseteq PhasesFor(main.list, v.control)
               /\ \A j \in jobs : j.phases \subseteq PhasesFor(main.list, j.control)
    BY <1>2, <2>5 DEF BitsInv
  <2>6. ASSUME main.request = "schedule", ~main.late
        PROVE  \A c \in Control : status'[c] \subseteq PhasesFor(main.list, c)
    BY <2>3, <2>5, <2>6
  <2>7. ASSUME main.request = "schedule", ~main.late
        PROVE  \A u \in pool' : u.todo \subseteq PhasesFor(main.list, u.control)
    BY <2>2, <2>5, <2>7
  <2>8. QED
    BY <2>1, <2>5, <2>6, <2>7 DEF BitsInv
<1>3. ASSUME NEW t \in pool, ReadBits(t)
      PROVE  BitsInv'
  <2>1. UNCHANGED <<main, jobs, status>>
    BY <1>3 DEF ReadBits
  <2>2. \A u \in pool' : \E v \in pool : u.todo = v.todo /\ u.control = v.control
    <3>0. DOMAIN t = {"id", "control", "action", "todo", "pc", "value", "late"}
      BY <1>0, <1>3
    <3>1. {"todo", "control"} \subseteq DOMAIN t
      BY <3>0
    <3>2. ASSUME NEW u, u = [t EXCEPT !.pc = "send", !.value = status[t.control]]
          PROVE  u.todo = t.todo /\ u.control = t.control
      BY <3>1, <3>2
    <3>3. pool' = (pool \ {t}) \cup {[t EXCEPT !.pc = "send", !.value = status[t.control]]}
      BY <1>3 DEF ReadBits
    <3>4. QED
      BY <3>2, <3>3
  <2>3. QED
    BY <2>1, <2>2 DEF BitsInv
<1>4. ASSUME NEW t \in pool, SendBits(t)
      PROVE  BitsInv'
  <2>1. UNCHANGED <<main, jobs, status>> /\ pool' \subseteq pool
    BY <1>4 DEF SendBits
  <2>2. QED
    BY <2>1 DEF BitsInv
<1>5. QED
  BY <1>1, <1>2, <1>3, <1>4 DEF PoolNext

LEMMA BitsNext ==
  ASSUME Shape, ReplyInv, BitsInv, [Next]_vars
  PROVE  BitsInv'
<1>1. CASE UpdateNext \/ BackupExpires \/ Tick \/ UNCHANGED vars
  <2>1. UNCHANGED <<main, jobs, pool, status>>
    BY <1>1 DEF UpdateNext, StartUpdate, UpdateAsks, UpdateTakesReply, FinishUpdate,
       BackupExpires, Tick, vars
  <2>2. QED
    BY <2>1 DEF BitsInv
<1>2. ASSUME NEW orderly \in BOOLEAN, Restart(orderly)
      PROVE  BitsInv'
  <2>1. main'.request = "none"
    BY <1>2 DEF Restart, IdleMain
  <2>2. QED
    BY <2>1 DEF BitsInv
<1>3. QED
  BY <1>1, <1>2, BitsMain, BitsPool DEF Next

-----------------------------------------------------------------------------
(* The end of a clear request *)

LEMMA ClearMain ==
  ASSUME Shape, ReplyInv, ClearInv, MainNext
  PROVE  ClearInv'
<1>0. /\ DOMAIN main = DOMAIN IdleMain /\ DOMAIN status = Control
      /\ word = [c \in Control |-> word[c]]
      /\ {"pc", "request", "late", "sets", "value"} \subseteq DOMAIN main
  BY DEF Shape, IdleMain
<1>1. CASE \/ \E s \in Schedule : ReceiveSchedule(s)
           \/ ReceiveClear
  <2>1. main'.pc = "remove"
    BY <1>0, <1>1 DEF ReceiveSchedule, ReceiveClear
  <2>2. QED
    BY <2>1 DEF ClearInv
<1>2. CASE RemoveAllJobs
  <2>1. CASE main.request = "clear"
    <3>1. /\ main'.pc = "assign" /\ main'.sets = ClearAllOrder /\ jobs' = {} /\ word' = word
          /\ (main'.late = (pool # {}))
      BY <1>0, <1>2, <2>1 DEF RemoveAllJobs
    <3>2. ~main'.late => pool' = {}
      BY <1>2, <3>1 DEF RemoveAllJobs
    <3>3. /\ ClearAllOrder \in Seq(Control)
          /\ \A c \in Control : \E i \in DOMAIN ClearAllOrder : ClearAllOrder[i] = c
      <4>1. /\ ClearAllOrder \in Seq(Control) /\ DOMAIN ClearAllOrder = 1 .. 6
            /\ ClearAllOrder[1] = CALL_VEH_PHASES /\ ClearAllOrder[2] = CALL_PED_PHASES
            /\ ClearAllOrder[3] = FORCEOFF_PHASES /\ ClearAllOrder[4] = HOLD_VEH_PHASES
            /\ ClearAllOrder[5] = OMIT_VEH_PHASES /\ ClearAllOrder[6] = OMIT_PED_PHASES
        BY DEF ClearAllOrder, Control
      <4>2. QED
        BY <4>1 DEF Control
    <3>4. QED
      BY <3>1, <3>2, <3>3 DEF ClearInv
  <2>2. CASE main.request # "clear"
    <3>1. main'.request # "clear"
      BY <1>0, <1>2, <2>2 DEF RemoveAllJobs
    <3>2. QED
      BY <3>1 DEF ClearInv
  <2>3. QED
    BY <2>1, <2>2
<1>3. ASSUME main'.request = main.request, main'.late = main.late, UNCHANGED <<jobs, pool, word, status>>,
             main.pc \notin {"assign", "read", "send", "remove", "check"},
             main'.pc \notin {"assign", "read", "send", "remove", "check"}
      PROVE  ClearInv'
  BY <1>3 DEF ClearInv
<1>4. CASE \/ SendCurrNextPhases \/ ReceiveCurrNextPhaseRequest
           \/ \E green1, green2 \in BOOLEAN : ReceiveCurrPhases(green1, green2)
  BY <1>0, <1>3, <1>4 DEF SendCurrNextPhases, ReceiveCurrNextPhaseRequest, ReceiveCurrPhases
<1>5. CASE MainAsks \/ MainTakesReply
  <2>1. /\ main'.request = main.request /\ main'.late = main.late /\ main'.pc = main.pc
        /\ UNCHANGED <<jobs, pool, word, status>> /\ main.pc \in {"check", "report"}
    BY <1>0, <1>5 DEF MainAsks, MainTakesReply, ReplyInv
  <2>2. CASE main.pc = "check"
    BY <2>1, <2>2 DEF ClearInv
  <2>3. CASE main.pc = "report"
    BY <1>3, <2>1, <2>3
  <2>4. QED
    BY <2>1, <2>2, <2>3
<1>6. CASE ChooseClears
  <2>1. main'.request = main.request /\ main.pc = "check" /\ main'.late = main.late
    BY <1>0, <1>6 DEF ChooseClears
  <2>2. QED
    BY <2>1 DEF ClearInv
<1>7. CASE AddJobs
  <2>1. main'.request = "schedule"
    BY <1>0, <1>7 DEF AddJobs
  <2>2. QED
    BY <2>1 DEF ClearInv
<1>8. CASE AssignZeros
  <2>1. /\ main.pc = "assign" /\ main.sets # <<>> /\ main'.pc = "read" /\ main'.sets = main.sets
        /\ main'.request = main.request /\ main'.late = main.late
        /\ UNCHANGED <<jobs, pool, word>> /\ status' = [status EXCEPT ![Head(main.sets)] = {}]
    BY <1>0, <1>8 DEF AssignZeros
  <2>2. main.sets \in Seq(Control) => status'[Head(main.sets)] = {}
    <3>1. main.sets \in Seq(Control) => Head(main.sets) \in Control
      BY <2>1
    <3>2. QED
      BY <1>0, <2>1, <3>1
  <2>3. QED
    BY <2>1, <2>2 DEF ClearInv
<1>9. CASE ReadValue
  <2>1. /\ main.pc = "read" /\ main'.pc = "send" /\ main'.sets = main.sets
        /\ main'.value = status[Head(main.sets)]
        /\ main'.request = main.request /\ main'.late = main.late
        /\ UNCHANGED <<jobs, pool, word, status>>
    BY <1>0, <1>9 DEF ReadValue
  <2>2. QED
    BY <2>1 DEF ClearInv
<1>10. CASE SendValue
  <2>1. /\ main.pc = "send" /\ main'.pc = "assign" /\ main'.sets = Tail(main.sets)
        /\ main'.request = main.request /\ main'.late = main.late
        /\ UNCHANGED <<jobs, pool, status>>
        /\ word' = [word EXCEPT ![Head(main.sets)] = main.value]
    BY <1>0, <1>10 DEF SendValue
  <2>2. SUFFICES ASSUME main.request = "clear", ~main.late
                 PROVE  /\ Tail(main.sets) \in Seq(Control) /\ jobs = {} /\ pool = {}
                        /\ \A c \in Control : word'[c] # {} =>
                             \E i \in DOMAIN Tail(main.sets) : Tail(main.sets)[i] = c
    BY <2>1 DEF ClearInv
  <2>3. /\ main.sets \in Seq(Control) /\ main.sets # <<>> /\ main.value = {}
        /\ \A c \in Control : word[c] # {} => \E i \in DOMAIN main.sets : main.sets[i] = c
        /\ jobs = {} /\ pool = {}
    BY <2>1, <2>2 DEF ClearInv
  <2>4. ASSUME NEW c \in Control, word'[c] # {}
        PROVE  \E i \in DOMAIN Tail(main.sets) : Tail(main.sets)[i] = c
    <3>1. word[c] # {} /\ c # Head(main.sets)
      BY <1>0, <2>1, <2>3, <2>4
    <3>2. PICK i \in DOMAIN main.sets : main.sets[i] = c
      BY <2>3, <3>1
    <3>3. i # 1 /\ i \in 1 .. Len(main.sets) /\ Len(main.sets) \in Nat
      BY <2>3, <3>1, <3>2
    <3>4. i - 1 \in DOMAIN Tail(main.sets) /\ Tail(main.sets)[i - 1] = main.sets[i]
      BY <2>3, <3>3
    <3>5. QED
      BY <3>2, <3>4
  <2>5. Tail(main.sets) \in Seq(Control)
    BY <2>3
  <2>6. QED
    BY <2>3, <2>4, <2>5
<1>11. CASE FinishClear
  <2>1. /\ main.pc = "assign" /\ main.sets = <<>> /\ main'.pc = "idle" /\ status' = NoBits
        /\ main'.request = main.request /\ main'.late = main.late
        /\ UNCHANGED <<jobs, pool, word>>
    BY <1>0, <1>11 DEF FinishClear
  <2>2. SUFFICES ASSUME main.request = "clear", ~main.late
                 PROVE  word = NoBits /\ jobs = {} /\ pool = {}
    BY <2>1 DEF ClearInv
  <2>3. /\ jobs = {} /\ pool = {}
        /\ \A c \in Control : word[c] # {} => \E i \in DOMAIN main.sets : main.sets[i] = c
    BY <2>1, <2>2 DEF ClearInv
  <2>4. DOMAIN main.sets = {}
    BY <2>1
  <2>5. \A c \in Control : word[c] = {}
    BY <2>3, <2>4
  <2>6. QED
    BY <1>0, <2>3, <2>5 DEF NoBits
<1>12. QED
  BY <1>1, <1>2, <1>4, <1>5, <1>6, <1>7, <1>8, <1>9, <1>10, <1>11 DEF MainNext

LEMMA ClearNext ==
  ASSUME Shape, ReplyInv, ClearInv, [Next]_vars
  PROVE  ClearInv'
<1>0. DOMAIN main = DOMAIN IdleMain /\ {"pc", "request", "late", "sets", "value"} \subseteq DOMAIN main
  BY DEF Shape, IdleMain
<1>1. CASE UpdateNext \/ Tick \/ UNCHANGED vars
  <2>1. UNCHANGED <<main, jobs, pool, status, word>>
    BY <1>1 DEF UpdateNext, StartUpdate, UpdateAsks, UpdateTakesReply, FinishUpdate, Tick, vars
  <2>2. QED
    BY <2>1 DEF ClearInv
<1>2. CASE BackupExpires
  <2>1. UNCHANGED <<main, jobs, pool, status>> /\ word' = NoBits /\ \A c \in Control : word'[c] = {}
    BY <1>2 DEF BackupExpires, NoBits
  <2>2. QED
    BY <2>1 DEF ClearInv
<1>3. CASE PoolNext
  <2>1. jobs # {} \/ pool # {}
    BY <1>3 DEF PoolNext
  <2>2. /\ main'.request = main.request /\ main'.pc = main.pc
        /\ ~main'.late => ~main.late
    <3>1. ASSUME NEW j, SubmitJob(j)
          PROVE  /\ main'.request = main.request /\ main'.pc = main.pc
                 /\ ~main'.late => ~main.late
      BY <1>0, <3>1 DEF SubmitJob
    <3>2. (\E j \in jobs : SubmitJob(j)) \/ main' = main
      BY <1>3 DEF PoolNext, WriteBit, ReadBits, SendBits
    <3>3. QED
      BY <3>1, <3>2
  <2>3. QED
    BY <2>1, <2>2 DEF ClearInv
<1>4. ASSUME NEW orderly \in BOOLEAN, Restart(orderly)
      PROVE  ClearInv'
  <2>1. main'.request = "none"
    BY <1>4 DEF Restart, IdleMain
  <2>2. QED
    BY <2>1 DEF ClearInv
<1>5. QED
  BY <1>1, <1>2, <1>3, <1>4, ClearMain DEF Next

-----------------------------------------------------------------------------
(* Theorems *)

SchedulerInv == Shape /\ ReplyInv /\ BitsInv /\ ClearInv

LEMMA SchedulerStarts ==
  ASSUME Init
  PROVE  SchedulerInv
<1>1. Shape
  <2>1. DOMAIN main = DOMAIN IdleMain /\ DOMAIN update = DOMAIN IdleUpdate
    BY DEF Init
  <2>2. IsQueue(replies)
    BY DEF Init, IsQueue
  <2>3. DOMAIN status = Control /\ word = [c \in Control |-> word[c]]
    BY DEF Init, NoBits
  <2>4. jobs = {} /\ pool = {}
    BY DEF Init
  <2>5. QED
    BY <2>1, <2>2, <2>3, <2>4 DEF Shape
<1>2. main.waiting = FALSE /\ update.waiting = FALSE /\ Len(replies) = 0 /\ main.request = "none"
  <2>1. main = IdleMain /\ update = IdleUpdate /\ replies = <<>>
    BY DEF Init
  <2>2. main.waiting = FALSE /\ main.request = "none"
    BY <2>1 DEF IdleMain
  <2>3. update.waiting = FALSE
    BY <2>1 DEF IdleUpdate
  <2>4. QED
    BY <2>1, <2>2, <2>3
<1>3. ReplyInv /\ BitsInv /\ ClearInv
  BY <1>2 DEF ReplyInv, NoReplyLeftOver, BitsInv, ClearInv
<1>4. QED
  BY <1>1, <1>3 DEF SchedulerInv

LEMMA SchedulerInvariant == Spec => []SchedulerInv
<1>1. Init => SchedulerInv
  BY SchedulerStarts
<1>2. SchedulerInv /\ [Next]_vars => SchedulerInv'
  BY ShapeNext, ReplyNext, BitsNext, ClearNext DEF SchedulerInv
<1>3. QED
  BY <1>1, <1>2, PTL DEF Spec

\* Whatever the threads that share the SNMP socket ask and in whatever order, every
\* thread that waits has exactly one reply coming and none is left over.
THEOREM TheSocketStaysInStep == Spec => []NoReplyLeftOver
<1>1. SchedulerInv => NoReplyLeftOver
  BY DEF SchedulerInv, ReplyInv
<1>2. QED
  BY <1>1, SchedulerInvariant, PTL

\* A schedule's status words hold bits of its own only, unless a job of the one before
\* ran after they were reset.
THEOREM OnlyBitsOfTheSchedule == Spec => []NoForeignBits
<1>1. SchedulerInv => NoForeignBits
  BY DEF SchedulerInv, BitsInv, NoForeignBits, PhasesFor
<1>2. QED
  BY <1>1, SchedulerInvariant, PTL

\* A clear request leaves nothing on and nothing to come, unless a job was running
\* while the jobs were removed.
THEOREM AClearIsFinal == Spec => []ClearIsFinal
<1>1. SchedulerInv => ClearIsFinal
  BY DEF SchedulerInv, ClearInv, ClearIsFinal
<1>2. QED
  BY <1>1, SchedulerInvariant, PTL

-----------------------------------------------------------------------------
(* The sorted list *)

\* The order of the sort keys, written out.
LEMMA KeyOrder ==
  ASSUME NEW a, NEW b
  PROVE  KeyLess(a, b) <=>
           \/ a[1] < b[1]
           \/ a[1] = b[1] /\ a[2] < b[2]
           \/ a[1] = b[1] /\ a[2] = b[2] /\ a[3] < b[3]
           \/ a[1] = b[1] /\ a[2] = b[2] /\ a[3] = b[3] /\ a[4] < b[4]
<1>1. /\ 1 .. 4 = {1, 2, 3, 4} /\ 1 .. 1 - 1 = {} /\ 1 .. 2 - 1 = {1}
      /\ 1 .. 3 - 1 = {1, 2} /\ 1 .. 4 - 1 = {1, 2, 3}
  OBVIOUS
<1>2. KeyLess(a, b) <=> \E k \in {1, 2, 3, 4} : a[k] < b[k] /\ \A j \in 1 .. k - 1 : a[j] = b[j]
  BY <1>1 DEF KeyLess
<1>3. QED
  BY <1>1, <1>2

\* The key of a command has four integers.
LEMMA KeyType ==
  ASSUME NEW c \in Command
  PROVE  /\ SortKey(c) = <<TypeRank(c.control), c.startTime, c.endTime, c.phase>>
         /\ TypeRank(c.control) \in Int /\ c.startTime \in Int /\ c.endTime \in Int
         /\ c.phase \in Int /\ c.control \in Control
<1>1. /\ c.control \in Control /\ c.startTime \in Int /\ c.endTime \in Int
      /\ c.phase \in Int
  <2>1. c.control \in Control /\ c.startTime \in Int /\ c.endTime \in Int /\ c.phase \in Phase
    BY DEF Command
  <2>2. \A p \in Phase : p \in Int
    BY SchedulerAssumption
  <2>3. QED
    BY <2>1, <2>2
<1>2. TypeRank(c.control) \in Int
  BY <1>1 DEF TypeRank, Control, CALL_VEH_PHASES, CALL_PED_PHASES, FORCEOFF_PHASES,
     HOLD_VEH_PHASES, OMIT_VEH_PHASES, OMIT_PED_PHASES
<1>3. QED
  BY <1>1, <1>2 DEF SortKey

\* Different controls have different ranks.
LEMMA RankOfControl ==
  ASSUME NEW c \in Control, NEW d \in Control, TypeRank(c) = TypeRank(d)
  PROVE  c = d
BY DEF TypeRank, Control, CALL_VEH_PHASES, CALL_PED_PHASES, FORCEOFF_PHASES,
     HOLD_VEH_PHASES, OMIT_VEH_PHASES, OMIT_PED_PHASES

\* The keys of commands are in a strict linear order.
LEMMA KeysInOrder ==
  ASSUME NEW a \in Command, NEW b \in Command
  PROVE  /\ ~KeyLess(SortKey(a), SortKey(a))
         /\ KeyLess(SortKey(a), SortKey(b)) => ~KeyLess(SortKey(b), SortKey(a))
         /\ \/ KeyLess(SortKey(a), SortKey(b)) \/ KeyLess(SortKey(b), SortKey(a))
            \/ SortKey(a) = SortKey(b)
         /\ \A c \in Command : KeyLess(SortKey(a), SortKey(b)) /\ KeyLess(SortKey(b), SortKey(c))
              => KeyLess(SortKey(a), SortKey(c))
<1> DEFINE Key(c) == <<TypeRank(c.control), c.startTime, c.endTime, c.phase>>
<1>1. \A c \in Command : /\ SortKey(c) = Key(c)
                         /\ Key(c)[1] \in Int /\ Key(c)[2] \in Int
                         /\ Key(c)[3] \in Int /\ Key(c)[4] \in Int
  BY KeyType
<1>2. \A c, d \in Command :
        KeyLess(Key(c), Key(d)) <=>
          LET x == Key(c)  y == Key(d)
          IN  \/ x[1] < y[1]
              \/ x[1] = y[1] /\ x[2] < y[2]
              \/ x[1] = y[1] /\ x[2] = y[2] /\ x[3] < y[3]
              \/ x[1] = y[1] /\ x[2] = y[2] /\ x[3] = y[3] /\ x[4] < y[4]
  BY KeyOrder
<1>3. \A c, d \in Command :
        Key(c)[1] = Key(d)[1] /\ Key(c)[2] = Key(d)[2] /\ Key(c)[3] = Key(d)[3]
          /\ Key(c)[4] = Key(d)[4] => Key(c) = Key(d)
  OBVIOUS
<1> HIDE DEF Key
<1>4. ~KeyLess(Key(a), Key(a))
  BY <1>1, <1>2
<1>5. KeyLess(Key(a), Key(b)) => ~KeyLess(Key(b), Key(a))
  BY <1>1, <1>2
<1>6. KeyLess(Key(a), Key(b)) \/ KeyLess(Key(b), Key(a)) \/ Key(a) = Key(b)
  BY <1>1, <1>2, <1>3
<1>7. ASSUME NEW c \in Command, KeyLess(Key(a), Key(b)), KeyLess(Key(b), Key(c))
      PROVE  KeyLess(Key(a), Key(c))
  BY <1>1, <1>2, <1>7
<1>8. QED
  BY <1>1, <1>4, <1>5, <1>6, <1>7

\* Places are numbers of the list, and commands with a greater key come later.
LEMMA PlaceOrder ==
  ASSUME NEW s \in Seq(Command), NEW i \in DOMAIN s, NEW k \in DOMAIN s
  PROVE  /\ PlaceOf(s, i) \in 1 .. Len(s)
         /\ KeyLess(SortKey(s[i]), SortKey(s[k])) => PlaceOf(s, i) < PlaceOf(s, k)
         /\ SortKey(s[i]) = SortKey(s[k]) /\ i < k => PlaceOf(s, i) < PlaceOf(s, k)
<1> DEFINE Upto(x) == {j \in DOMAIN s : \/ KeyLess(SortKey(s[j]), SortKey(s[x]))
                                        \/ SortKey(s[j]) = SortKey(s[x]) /\ j <= x}
<1>1. Len(s) \in Nat /\ DOMAIN s = 1 .. Len(s) /\ \A x \in DOMAIN s : s[x] \in Command
  OBVIOUS
<1>2. \A x \in DOMAIN s : /\ PlaceOf(s, x) = Cardinality(Upto(x))
                          /\ IsFiniteSet(Upto(x)) /\ Cardinality(Upto(x)) \in Nat
                          /\ Cardinality(Upto(x)) <= Len(s) /\ x \in Upto(x)
  <2>1. ASSUME NEW x \in DOMAIN s
        PROVE  /\ IsFiniteSet(Upto(x)) /\ Cardinality(Upto(x)) \in Nat
               /\ Cardinality(Upto(x)) <= Len(s)
    <3>1. Upto(x) \in SUBSET (1 .. Len(s))
      BY <1>1
    <3>2. QED
      BY <1>1, <3>1, PositionsFinite
  <2>2. \A x \in DOMAIN s : x \in Upto(x) /\ PlaceOf(s, x) = Cardinality(Upto(x))
    BY <1>1 DEF PlaceOf
  <2>3. QED
    BY <2>1, <2>2
<1>3. PlaceOf(s, i) \in 1 .. Len(s)
  <2>1. Cardinality(Upto(i)) # 0
    BY <1>2, FS_EmptySet
  <2>2. QED
    BY <1>1, <1>2, <2>1
<1>4. ASSUME \/ KeyLess(SortKey(s[i]), SortKey(s[k]))
             \/ SortKey(s[i]) = SortKey(s[k]) /\ i < k
      PROVE  PlaceOf(s, i) < PlaceOf(s, k)
  <2>1. Upto(i) \in SUBSET Upto(k)
    <3>1. SUFFICES ASSUME NEW j \in Upto(i)
                   PROVE  j \in Upto(k)
      OBVIOUS
    <3>2. /\ j \in DOMAIN s /\ s[j] \in Command /\ s[i] \in Command /\ s[k] \in Command
          /\ \/ KeyLess(SortKey(s[j]), SortKey(s[i]))
             \/ SortKey(s[j]) = SortKey(s[i]) /\ j <= i
      BY <1>1
    <3>3. CASE KeyLess(SortKey(s[j]), SortKey(s[k]))
      BY <3>2, <3>3
    <3>4. CASE SortKey(s[j]) = SortKey(s[i]) /\ j <= i /\ SortKey(s[i]) = SortKey(s[k]) /\ i < k
      <4>1. j <= k
        BY <1>1, <3>2, <3>4
      <4>2. QED
        BY <3>2, <3>4, <4>1
    <3>5. KeyLess(SortKey(s[j]), SortKey(s[i])) /\ KeyLess(SortKey(s[i]), SortKey(s[k]))
            => KeyLess(SortKey(s[j]), SortKey(s[k]))
      BY <3>2, KeysInOrder
    <3>6. QED
      BY <1>4, <3>2, <3>3, <3>4, <3>5
  <2>2. k \notin Upto(i)
    <3>1. s[i] \in Command /\ s[k] \in Command /\ i \in Int /\ k \in Int
      BY <1>1
    <3>2. /\ ~KeyLess(SortKey(s[i]), SortKey(s[i]))
          /\ KeyLess(SortKey(s[i]), SortKey(s[k])) => ~KeyLess(SortKey(s[k]), SortKey(s[i]))
      BY <3>1, KeysInOrder
    <3>3. i < k => ~(k <= i)
      BY <3>1
    <3>4. CASE KeyLess(SortKey(s[i]), SortKey(s[k]))
      BY <3>2, <3>4
    <3>5. CASE SortKey(s[i]) = SortKey(s[k]) /\ i < k
      BY <3>2, <3>3, <3>5
    <3>6. QED
      BY <1>4, <3>4, <3>5
  <2>3. /\ Cardinality(Upto(i)) <= Cardinality(Upto(k))
        /\ Cardinality(Upto(k)) = Cardinality(Upto(i)) => Upto(k) = Upto(i)
    BY <1>2, <2>1, FS_Subset
  <2>4. Upto(k) # Upto(i)
    BY <1>2, <2>2
  <2> HIDE DEF Upto
  <2>5. QED
    BY <1>2, <2>3, <2>4
<1>5. QED
  BY <1>3, <1>4

\* Every place is taken by a command.
LEMMA PlaceOnto ==
  ASSUME NEW s \in Seq(Command), NEW n \in 1 .. Len(s)
  PROVE  \E i \in DOMAIN s : PlaceOf(s, i) = n
<1> DEFINE f == [i \in DOMAIN s |-> PlaceOf(s, i)]
           N == Len(s)
<1>1. N \in Nat /\ DOMAIN s = 1 .. N /\ \A x \in DOMAIN s : s[x] \in Command
  OBVIOUS
<1>2. \A i \in DOMAIN s : PlaceOf(s, i) \in 1 .. N
  BY PlaceOrder
<1>3. \A i, k \in DOMAIN s :
        /\ KeyLess(SortKey(s[i]), SortKey(s[k])) => PlaceOf(s, i) < PlaceOf(s, k)
        /\ SortKey(s[i]) = SortKey(s[k]) /\ i < k => PlaceOf(s, i) < PlaceOf(s, k)
  BY PlaceOrder
<1>4. ASSUME NEW i \in DOMAIN s, NEW k \in DOMAIN s, f[i] = f[k]
      PROVE  i = k
  <2>1. /\ s[i] \in Command /\ s[k] \in Command /\ i \in Int /\ k \in Int
        /\ PlaceOf(s, i) = PlaceOf(s, k) /\ PlaceOf(s, i) \in Int
    BY <1>1, <1>2, <1>4
  <2>2. \/ KeyLess(SortKey(s[i]), SortKey(s[k])) \/ KeyLess(SortKey(s[k]), SortKey(s[i]))
        \/ SortKey(s[i]) = SortKey(s[k])
    BY <2>1, KeysInOrder
  <2>3. ~(PlaceOf(s, i) < PlaceOf(s, k)) /\ ~(PlaceOf(s, k) < PlaceOf(s, i))
    BY <2>1
  <2>4. ~(i < k) /\ ~(k < i)
    BY <1>3, <2>2, <2>3
  <2>5. QED
    BY <2>1, <2>4
<1>5. f \in Injection(DOMAIN s, 1 .. N)
  <2>1. f \in [DOMAIN s -> 1 .. N]
    BY <1>2
  <2>2. QED
    BY <1>4, <2>1 DEF Injection, IsInjective
<1>6. IsFiniteSet(1 .. N) /\ Cardinality(1 .. N) = N
  BY <1>1, FS_Interval
<1>7. f \in Surjection(DOMAIN s, 1 .. N)
  BY <1>1, <1>5, <1>6, FS_Injection
<1>8. QED
  BY <1>7 DEF Surjection

\* The list is sorted and has the commands of the schedule.
LEMMA SortedList ==
  ASSUME NEW s \in Seq(Command)
  PROVE  /\ Sorted(s) \in Seq(Command) /\ Len(Sorted(s)) = Len(s)
         /\ \A n \in DOMAIN Sorted(s) : \E i \in DOMAIN s : Sorted(s)[n] = s[i]
         /\ \A n, m \in DOMAIN Sorted(s) :
              n < m => ~KeyLess(SortKey(Sorted(s)[m]), SortKey(Sorted(s)[n]))
<1> DEFINE P(n) == CHOOSE i \in DOMAIN s : PlaceOf(s, i) = n
<1>1. Len(s) \in Nat /\ DOMAIN s = 1 .. Len(s) /\ \A x \in DOMAIN s : s[x] \in Command
  OBVIOUS
<1>2. \A n \in DOMAIN s : P(n) \in DOMAIN s /\ PlaceOf(s, P(n)) = n
  BY <1>1, PlaceOnto
<1>3. DOMAIN Sorted(s) = DOMAIN s /\ \A n \in DOMAIN s : Sorted(s)[n] = s[P(n)]
  BY DEF Sorted
<1> HIDE DEF P
<1>4. Sorted(s) \in [1 .. Len(s) -> Command]
  <2>1. Sorted(s) = [n \in DOMAIN s |-> s[P(n)]]
    BY DEF Sorted, P
  <2>2. QED
    BY <1>1, <1>2, <2>1
<1>5. Sorted(s) \in Seq(Command) /\ Len(Sorted(s)) = Len(s)
  BY <1>1, <1>4
<1>6. ASSUME NEW n \in DOMAIN s, NEW m \in DOMAIN s, n < m,
             KeyLess(SortKey(s[P(m)]), SortKey(s[P(n)]))
      PROVE  FALSE
  <2>1. P(n) \in DOMAIN s /\ P(m) \in DOMAIN s
    BY <1>2
  <2>2. PlaceOf(s, P(m)) < PlaceOf(s, P(n))
    BY <1>6, <2>1, PlaceOrder
  <2>3. m < n
    BY <1>2, <2>2
  <2>4. QED
    BY <1>1, <1>6, <2>3
<1>7. QED
  BY <1>2, <1>3, <1>5, <1>6

\* Nothing of K stands after its last position.
LEMMA NthLast ==
  ASSUME NEW N \in Nat, NEW K \in SUBSET (1 .. N), K # {}
  PROVE  \E m \in K : \A j \in K : j <= m
<1> DEFINE m == Nth(K, Cardinality(K))
<1>1. IsFiniteSet(K) /\ Cardinality(K) \in Nat /\ Cardinality(K) # 0
  BY PositionsFinite, FS_EmptySet
<1>2. m \in K /\ Rank(K, m) = Cardinality(K)
  <2>1. Cardinality(K) \in 1 .. Cardinality(K)
    BY <1>1
  <2>2. QED
    BY <2>1, NthType
<1>3. \A j \in K : j \in Int
  OBVIOUS
<1>4. ASSUME NEW j \in K, m < j
      PROVE  FALSE
  <2>1. Rank(K, m) < Rank(K, j)
    BY <1>2, <1>4, RankMonotone
  <2>2. Rank(K, j) \in 1 .. Cardinality(K)
    BY RankRange
  <2>3. QED
    BY <1>1, <1>2, <2>1, <2>2
<1> HIDE DEF m
<1>5. \A j \in K : j <= m
  BY <1>2, <1>3, <1>4
<1>6. QED
  BY <1>2, <1>5

\* What the walks below are about: a sorted list of commands whose times make sense.
IsScheduleList(list) ==
  /\ list \in Seq(Command)
  /\ \A i \in DOMAIN list : Valid(list[i])
  /\ \A i, k \in DOMAIN list : i < k => ~KeyLess(SortKey(list[k]), SortKey(list[i]))

LEMMA ListOfSchedule ==
  ASSUME NEW s \in Schedule
  PROVE  IsScheduleList(scheduleDataStructure(s))
<1> DEFINE K == {i \in DOMAIN s : Valid(s[i])}
           v == Keep(s, K)
<1>1. s \in Seq(Command)
  BY SchedulerAssumption
<1>2. K \in SUBSET (DOMAIN s)
  OBVIOUS
<1>3. v \in Seq(Command) /\ \A n \in DOMAIN v : Nth(K, n) \in K /\ v[n] = s[Nth(K, n)]
  <2> HIDE DEF K
  <2>1. QED
    BY <1>1, <1>2, KeepType
<1>4. \A n \in DOMAIN v : Valid(v[n])
  BY <1>3
<1> HIDE DEF v
<1>5. /\ Sorted(v) \in Seq(Command)
      /\ \A n \in DOMAIN Sorted(v) : \E i \in DOMAIN v : Sorted(v)[n] = v[i]
      /\ \A n, m \in DOMAIN Sorted(v) :
           n < m => ~KeyLess(SortKey(Sorted(v)[m]), SortKey(Sorted(v)[n]))
  BY <1>3, SortedList
<1>6. scheduleDataStructure(s) = Sorted(v)
  BY DEF scheduleDataStructure, v
<1>7. QED
  BY <1>4, <1>5, <1>6 DEF IsScheduleList

-----------------------------------------------------------------------------
(* The walk over the list *)

\* Commands that go together with a command stand next to each other.
Contiguous(list, field) ==
  \A i, j, k \in DOMAIN list :
    i < j /\ j < k /\ Together(list[i], list[k], field) => Together(list[i], list[j], field)

FirstOfGroup(list, field, i) ==
  \A j \in DOMAIN list : j < i => ~Together(list[j], list[i], field)

\* From the first command of a group the walk goes to the place behind the last.
LEMMA GroupInterval ==
  ASSUME NEW list \in Seq(Command), NEW field, Contiguous(list, field),
         NEW i \in DOMAIN list, FirstOfGroup(list, field, i)
  PROVE  \E m \in DOMAIN list : /\ GroupOf(list, field, i) = i .. m /\ i <= m
                                /\ NextPlace(list, field, i) = m + 1
<1> DEFINE G == GroupOf(list, field, i)
<1>1. Len(list) \in Nat /\ DOMAIN list = 1 .. Len(list)
  OBVIOUS
<1>2. G \in SUBSET (1 .. Len(list)) /\ i \in G
  BY <1>1 DEF GroupOf, Together
<1>3. PICK m \in G : \A j \in G : j <= m
  BY <1>1, <1>2, NthLast
<1>4. \A j \in DOMAIN list : j \in G <=> Together(list[j], list[i], field)
  BY DEF GroupOf
<1>5. \A j \in G : i <= j
  BY <1>1, <1>2, <1>4 DEF FirstOfGroup
<1>6. ASSUME NEW j \in i .. m
      PROVE  j \in G
  <2>1. j \in DOMAIN list /\ m \in DOMAIN list
    BY <1>1, <1>2
  <2>2. CASE j = i \/ j = m
    BY <1>2, <2>2
  <2>3. CASE i < j /\ j < m
    <3>1. Together(list[i], list[m], field)
      BY <1>2, <1>4, <2>1 DEF Together
    <3>2. Together(list[i], list[j], field)
      BY <2>1, <2>3, <3>1 DEF Contiguous
    <3>3. QED
      BY <1>4, <2>1, <3>2 DEF Together
  <2>4. QED
    BY <1>1, <1>2, <2>2, <2>3
<1>7. G = i .. m /\ i <= m
  <2>1. \A j \in G : j \in Int /\ i <= j /\ j <= m
    BY <1>2, <1>3, <1>5
  <2>2. i \in Int /\ m \in Int
    BY <1>2, <2>1
  <2>3. \A j \in G : j \in i .. m
    BY <2>1, <2>2
  <2>4. QED
    BY <1>2, <1>6, <2>1, <2>3
<1>8. Cardinality(i .. m) = m - i + 1
  <2>1. i \in Int /\ m \in Int
    BY <1>1, <1>2
  <2>2. QED
    BY <1>7, <2>1, FS_Interval
<1>9. NextPlace(list, field, i) = m + 1
  <2>1. i \in Int /\ m \in Int
    BY <1>1, <1>2
  <2>2. NextPlace(list, field, i) = i + (m - i + 1)
    BY <1>7, <1>8 DEF NextPlace
  <2>3. QED
    BY <2>1, <2>2
<1>10. QED
  BY <1>1, <1>2, <1>7, <1>9

\* The walk stops at the first command of each group.
LEMMA HeadsMeetGroups ==
  ASSUME NEW list \in Seq(Command), NEW field, Contiguous(list, field),
         NEW i \in DOMAIN list
  PROVE  \E h \in Heads(list, field) : Together(list[i], list[h], field)
<1> DEFINE F == {x \in DOMAIN list : FirstOfGroup(list, field, x)}
           H == Heads(list, field)
<1>1. Len(list) \in Nat /\ DOMAIN list = 1 .. Len(list)
  OBVIOUS
<1>2. ASSUME NEW x \in F, NextPlace(list, field, x) \in DOMAIN list
      PROVE  NextPlace(list, field, x) \in F
  <2>1. PICK m \in DOMAIN list : /\ GroupOf(list, field, x) = x .. m /\ x <= m
                                 /\ NextPlace(list, field, x) = m + 1
    BY GroupInterval
  <2>2. x \in Int /\ m \in Int /\ x \in DOMAIN list /\ m + 1 \in DOMAIN list
    BY <1>1, <1>2, <2>1
  <2>3. ASSUME NEW j \in DOMAIN list, j < m + 1, Together(list[j], list[m + 1], field)
        PROVE  FALSE
    <3>0. j \in Int
      BY <1>1
    <3>1. CASE j < x
      <4>1. Together(list[j], list[x], field)
        BY <2>1, <2>2, <2>3, <3>0, <3>1 DEF Contiguous
      <4>2. QED
        BY <3>1, <4>1 DEF FirstOfGroup
    <3>2. CASE x <= j
      <4>1. j \in GroupOf(list, field, x)
        BY <2>1, <2>2, <2>3, <3>0, <3>2
      <4>2. m + 1 \in GroupOf(list, field, x)
        BY <2>2, <2>3, <4>1 DEF GroupOf, Together
      <4>3. m + 1 \in x .. m
        BY <2>1, <4>2
      <4>4. QED
        BY <2>2, <4>3
    <3>3. QED
      BY <2>2, <3>0, <3>1, <3>2
  <2>4. QED
    BY <2>1, <2>2, <2>3 DEF FirstOfGroup
<1>3. IsWalk(list, field, F)
  <2>1. 1 \in DOMAIN list => 1 \in F
    BY <1>1 DEF FirstOfGroup
  <2>2. QED
    BY <1>2, <2>1 DEF IsWalk
<1>4. H \in SUBSET F
  BY <1>3 DEF Heads
<1>5. \A x \in H : NextPlace(list, field, x) \in DOMAIN list => NextPlace(list, field, x) \in H
  BY DEF Heads, IsWalk
<1>6. 1 \in H
  BY <1>1 DEF Heads, IsWalk
<1> DEFINE B == {x \in H : x <= i}
<1>7. B \in SUBSET (1 .. Len(list)) /\ 1 \in B
  BY <1>1, <1>4, <1>6
<1>8. PICK h \in B : \A j \in B : j <= h
  BY <1>1, <1>7, NthLast
<1>9. PICK m \in DOMAIN list : /\ GroupOf(list, field, h) = h .. m /\ h <= m
                               /\ NextPlace(list, field, h) = m + 1
  BY <1>4, GroupInterval
<1>10. h \in Int /\ m \in Int /\ i \in Int /\ h <= i /\ i <= Len(list) /\ 1 <= m
  BY <1>1, <1>7
<1>11. i <= m
  <2>1. SUFFICES ASSUME m + 1 <= i
                 PROVE  FALSE
    BY <1>10
  <2>2. m + 1 \in DOMAIN list
    BY <1>1, <1>10, <2>1
  <2>3. m + 1 \in B
    BY <1>5, <1>9, <2>1, <2>2
  <2>4. QED
    BY <1>8, <1>9, <1>10, <2>3
<1>12. i \in GroupOf(list, field, h)
  BY <1>9, <1>10, <1>11
<1>13. QED
  BY <1>12 DEF GroupOf

\* The sorting puts the commands that start together next to each other.
LEMMA StartGroupsMet ==
  ASSUME NEW list, IsScheduleList(list), NEW i \in DOMAIN list
  PROVE  \E h \in Heads(list, "startTime") : Together(list[i], list[h], "startTime")
<1>1. list \in Seq(Command) /\ \A x \in DOMAIN list : list[x] \in Command
  BY DEF IsScheduleList
<1>2. ASSUME NEW a \in DOMAIN list, NEW b \in DOMAIN list, NEW c \in DOMAIN list,
             a < b, b < c, Together(list[a], list[c], "startTime")
      PROVE  Together(list[a], list[b], "startTime")
  <2> DEFINE K(x) == SortKey(list[x])
  <2>1. ~KeyLess(K(b), K(a)) /\ ~KeyLess(K(c), K(b))
    BY <1>2 DEF IsScheduleList
  <2>2. \A x \in DOMAIN list : /\ K(x)[1] = TypeRank(list[x].control) /\ K(x)[2] = list[x].startTime
                               /\ K(x)[1] \in Int /\ K(x)[2] \in Int /\ list[x].control \in Control
    BY <1>1, KeyType
  <2>3. /\ ~(K(b)[1] < K(a)[1]) /\ ~(K(c)[1] < K(b)[1])
        /\ K(b)[1] = K(a)[1] => ~(K(b)[2] < K(a)[2])
        /\ K(c)[1] = K(b)[1] => ~(K(c)[2] < K(b)[2])
    BY <2>1, KeyOrder
  <2>4. list[a].control = list[c].control /\ list[a].startTime = list[c].startTime
    BY <1>2 DEF Together
  <2>5. K(a)[1] = K(c)[1] /\ K(a)[2] = K(c)[2]
    BY <2>2, <2>4
  <2> HIDE DEF K
  <2>6. K(a)[1] = K(b)[1] /\ K(a)[2] = K(b)[2]
    BY <2>2, <2>3, <2>5
  <2>7. list[a].control = list[b].control
    BY <2>2, <2>6, RankOfControl
  <2>8. QED
    BY <2>2, <2>6, <2>7 DEF Together
<1>3. Contiguous(list, "startTime")
  BY <1>2 DEF Contiguous
<1>4. QED
  BY <1>1, <1>3, HeadsMeetGroups

\* So it does with those that end together, when the ends are in order.
LEMMA EndGroupsMet ==
  ASSUME NEW list, IsScheduleList(list), EndsInOrder(list), NEW i \in DOMAIN list
  PROVE  \E h \in Heads(list, "endTime") : Together(list[i], list[h], "endTime")
<1>1. list \in Seq(Command) /\ \A x \in DOMAIN list : list[x] \in Command
  BY DEF IsScheduleList
<1>2. ASSUME NEW a \in DOMAIN list, NEW b \in DOMAIN list, NEW c \in DOMAIN list,
             a < b, b < c, Together(list[a], list[c], "endTime")
      PROVE  Together(list[a], list[b], "endTime")
  <2> DEFINE K(x) == SortKey(list[x])
  <2>1. ~KeyLess(K(b), K(a)) /\ ~KeyLess(K(c), K(b))
    BY <1>2 DEF IsScheduleList
  <2>2. \A x \in DOMAIN list : /\ K(x)[1] = TypeRank(list[x].control) /\ K(x)[1] \in Int
                               /\ list[x].control \in Control /\ list[x].endTime \in Int
    BY <1>1, KeyType
  <2>3. ~(K(b)[1] < K(a)[1]) /\ ~(K(c)[1] < K(b)[1])
    BY <2>1, KeyOrder
  <2>4. list[a].control = list[c].control /\ list[a].endTime = list[c].endTime
    BY <1>2 DEF Together
  <2>5. K(a)[1] = K(c)[1]
    BY <2>2, <2>4
  <2> HIDE DEF K
  <2>6. K(a)[1] = K(b)[1]
    BY <2>2, <2>3, <2>5
  <2>7. list[a].control = list[b].control
    BY <2>2, <2>6, RankOfControl
  <2>8. list[a].endTime <= list[b].endTime /\ list[b].endTime <= list[c].endTime
    BY <1>2, <2>4, <2>7 DEF EndsInOrder
  <2>9. QED
    BY <2>2, <2>4, <2>7, <2>8 DEF Together
<1>3. Contiguous(list, "endTime")
  BY <1>2 DEF Contiguous
<1>4. QED
  BY <1>1, <1>3, HeadsMeetGroups

-----------------------------------------------------------------------------
(* The clock, and the list of the schedule *)

TimeInv == now \in Nat /\ lastSet \in Nat /\ main.base \in Nat

ListInv == main.request = "schedule" => IsScheduleList(main.list)

LEMMA TimeNext ==
  ASSUME Shape, TimeInv, [Next]_vars
  PROVE  TimeInv'
<1>0. DOMAIN main = DOMAIN IdleMain /\ {"base"} \subseteq DOMAIN main /\ IdleMain.base = 0
  BY DEF Shape, IdleMain
<1>1. CASE MainNext
  <2>1. /\ now' = now /\ lastSet' \in {now, lastSet} /\ main'.base \in {now, main.base}
    BY <1>0, <1>1 DEF MainNext, ReceiveSchedule, ReceiveClear, RemoveAllJobs, MainAsks, MainTakesReply,
     ChooseClears, AssignZeros, ReadValue, SendValue, FinishClear, AddJobs,
     ReceiveCurrNextPhaseRequest, ReceiveCurrPhases, SendCurrNextPhases
  <2>2. QED
    BY <2>1 DEF TimeInv
<1>2. CASE PoolNext
  <2>1. now' = now /\ lastSet' \in {now, lastSet} /\ main'.base = main.base
    BY <1>0, <1>2 DEF PoolNext, SubmitJob, WriteBit, ReadBits, SendBits
  <2>2. QED
    BY <2>1 DEF TimeInv
<1>3. CASE UpdateNext \/ BackupExpires \/ UNCHANGED vars
  <2>1. UNCHANGED <<now, lastSet, main>>
    BY <1>3 DEF UpdateNext, StartUpdate, UpdateAsks, UpdateTakesReply, FinishUpdate,
       BackupExpires, vars
  <2>2. QED
    BY <2>1 DEF TimeInv
<1>4. CASE Tick
  BY <1>4 DEF Tick, TimeInv
<1>5. ASSUME NEW orderly \in BOOLEAN, Restart(orderly)
      PROVE  TimeInv'
  <2>1. now' = now /\ lastSet' \in {now, lastSet} /\ main' = IdleMain
    BY <1>5 DEF Restart
  <2>2. QED
    BY <1>0, <2>1 DEF TimeInv
<1>6. QED
  BY <1>1, <1>2, <1>3, <1>4, <1>5 DEF Next

LEMMA ListNext ==
  ASSUME Shape, ListInv, [Next]_vars
  PROVE  ListInv'
<1>0. /\ DOMAIN main = DOMAIN IdleMain /\ {"request", "list"} \subseteq DOMAIN main
      /\ IdleMain.request = "none"
  BY DEF Shape, IdleMain
<1>1. ASSUME NEW s \in Schedule, ReceiveSchedule(s)
      PROVE  ListInv'
  <2>1. main'.list = scheduleDataStructure(s)
    BY <1>0, <1>1 DEF ReceiveSchedule
  <2>2. QED
    BY <2>1, ListOfSchedule DEF ListInv
<1>2. ASSUME main'.request = "schedule" => main.request = "schedule" /\ main'.list = main.list
      PROVE  ListInv'
  BY <1>2 DEF ListInv
<1>3. CASE ReceiveClear
  <2>1. main'.request = "clear"
    BY <1>0, <1>3 DEF ReceiveClear
  <2>2. QED
    BY <1>2, <2>1
<1>4. ASSUME MainNext, ~ReceiveClear, ~(\E s \in Schedule : ReceiveSchedule(s))
      PROVE  main'.request = main.request /\ main'.list = main.list
  BY <1>0, <1>4 DEF MainNext, RemoveAllJobs, MainAsks, MainTakesReply,
     ChooseClears, AssignZeros, ReadValue, SendValue, FinishClear, AddJobs,
     ReceiveCurrNextPhaseRequest, ReceiveCurrPhases, SendCurrNextPhases
<1>5. ASSUME PoolNext \/ UpdateNext \/ BackupExpires \/ Tick \/ UNCHANGED vars
      PROVE  main'.request = main.request /\ main'.list = main.list
  BY <1>0, <1>5 DEF PoolNext, SubmitJob, WriteBit, ReadBits, SendBits, UpdateNext, StartUpdate,
     UpdateAsks, UpdateTakesReply, FinishUpdate, BackupExpires, Tick, vars
<1>6. ASSUME NEW orderly \in BOOLEAN, Restart(orderly)
      PROVE  ListInv'
  <2>1. main'.request = "none"
    BY <1>0, <1>6 DEF Restart
  <2>2. QED
    BY <1>2, <2>1
<1>7. QED
  BY <1>1, <1>2, <1>3, <1>4, <1>5, <1>6 DEF Next

-----------------------------------------------------------------------------
(* What is kept, and what is cleared *)

\* While a schedule is being put in force.
Preparing ==
  main.request = "schedule" /\ ~main.late /\ main.pc \in {"check", "assign", "read", "send"}

KeepInv ==
  /\ main.request \in {"none", "clear", "schedule"}
  /\ main.request = "none" => main.pc \in {"idle", "listen", "report"}
  /\ main.request # "schedule" => main.pc # "check"
  /\ main.keep # {} => main.request = "schedule" /\ main.pc \in {"check", "assign", "read", "send"}
  /\ main.request = "schedule" /\ ~main.late /\ main.pc = "remove" =>
       \A c \in Control : status[c] = {}

\* No job runs, the words' bits are reset, and a word that is not off is kept or will be cleared.
PrepareInv ==
  Preparing =>
    /\ jobs = {} /\ pool = {}
    /\ \A c \in Control : status[c] = {}
    /\ \A c \in main.keep : Keeps(main.list, c)
    /\ main.pc = "check" =>
         IsQueue(main.ask) /\ \A i \in DOMAIN main.ask : Keeps(main.list, main.ask[i])
    /\ main.pc # "check" =>
         /\ main.sets \in Seq(Control)
         /\ main.pc # "assign" => main.sets # <<>>
         /\ main.pc = "send" => main.value = {}
         /\ \A c \in Control : word[c] # {} =>
              c \in main.keep \/ \E i \in DOMAIN main.sets : main.sets[i] = c

\* Unless a reply was crossed, a word that the schedule may keep and that is on is kept,
\* or is still to be asked for; the last reply is of the word's state.
AskInv ==
  Preparing /\ ~main.crossed =>
    /\ main.pc = "check" =>
         \A c \in Control : Keeps(main.list, c) /\ word[c] # {} =>
           c \in main.keep \/ \E i \in DOMAIN main.ask : main.ask[i] = c
    /\ main.pc = "check" /\ main.waiting =>
         LET last == replies[Len(replies)]
         IN  last.oid = Head(main.ask) /\ word[Head(main.ask)] # {} => last.positive
    /\ main.pc # "check" =>
         \A i \in DOMAIN main.sets : Keeps(main.list, main.sets[i]) => word[main.sets[i]] = {}

LEMMA MainFields ==
  ASSUME Shape
  PROVE  /\ DOMAIN main = DOMAIN IdleMain
         /\ {"pc", "request", "list", "base", "ask", "waiting", "keep", "sets", "value",
             "late", "crossed"} = DOMAIN main
         /\ IdleMain.request = "none" /\ IdleMain.pc = "idle" /\ IdleMain.keep = {}
         /\ DOMAIN status = Control /\ word = [c \in Control |-> word[c]]
BY DEF Shape, IdleMain

LEMMA KeepNext ==
  ASSUME Shape, ReplyInv, BitsInv, KeepInv, [Next]_vars
  PROVE  KeepInv'
<1>0. /\ {"pc", "request", "keep", "late"} \subseteq DOMAIN main
      /\ DOMAIN status = Control /\ IdleMain.request = "none" /\ IdleMain.pc = "idle"
      /\ IdleMain.keep = {}
  BY MainFields
<1>1. ASSUME NEW s, ReceiveSchedule(s)
      PROVE  KeepInv'
  <2>1. /\ main.pc = "idle" /\ main'.pc = "remove" /\ main'.request = "schedule"
        /\ main'.keep = main.keep /\ status' = NoBits
    BY <1>0, <1>1 DEF ReceiveSchedule
  <2>2. \A c \in Control : status'[c] = {}
    BY <2>1 DEF NoBits
  <2>3. QED
    BY <2>1, <2>2 DEF KeepInv
<1>2. CASE ReceiveClear
  <2>1. /\ main.pc = "idle" /\ main'.pc = "remove" /\ main'.request = "clear"
        /\ main'.keep = main.keep
    BY <1>0, <1>2 DEF ReceiveClear
  <2>2. QED
    BY <2>1 DEF KeepInv
<1>3. CASE RemoveAllJobs
  <2>1. /\ main.pc = "remove" /\ main'.request = main.request /\ main'.keep = main.keep
        /\ main'.pc = IF main.request = "clear" THEN "assign" ELSE "check"
    BY <1>0, <1>3 DEF RemoveAllJobs
  <2>2. QED
    BY <2>1 DEF KeepInv
<1>4. CASE MainTakesReply
  <2>1. /\ main.pc \in {"check", "report"} /\ main'.pc = main.pc /\ main'.request = main.request
        /\ main.pc # "check" => main'.keep = main.keep
    BY <1>0, <1>4 DEF MainTakesReply, ReplyInv
  <2>2. QED
    BY <2>1 DEF KeepInv
<1>5. CASE MainAsks \/ ChooseClears \/ AssignZeros \/ ReadValue \/ SendValue
  <2>1. /\ main'.request = main.request /\ main'.keep = main.keep
        /\ main.pc \in {"report", "check", "assign", "read", "send"}
        /\ main'.pc \in {main.pc, "assign", "read", "send"}
        /\ main.pc = "report" => main'.pc = main.pc
    BY <1>0, <1>5 DEF MainAsks, ChooseClears, AssignZeros, ReadValue, SendValue
  <2>2. QED
    BY <2>1 DEF KeepInv
<1>6. CASE FinishClear
  <2>1. main'.request = "clear" /\ main'.pc = "idle" /\ main'.keep = main.keep /\ main.request = "clear"
    BY <1>0, <1>6 DEF FinishClear
  <2>2. QED
    BY <2>1 DEF KeepInv
<1>7. CASE AddJobs
  <2>1. main'.request = "schedule" /\ main'.pc = "idle" /\ main'.keep = {}
    BY <1>0, <1>7 DEF AddJobs
  <2>2. QED
    BY <2>1 DEF KeepInv
<1>8. CASE \/ ReceiveCurrNextPhaseRequest \/ SendCurrNextPhases
           \/ \E green1, green2 \in BOOLEAN : ReceiveCurrPhases(green1, green2)
  <2>1. /\ main'.request = main.request /\ main'.keep = main.keep
        /\ main.pc \in {"idle", "listen", "report"} /\ main'.pc \in {"idle", "listen", "report"}
    BY <1>0, <1>8 DEF ReceiveCurrNextPhaseRequest, SendCurrNextPhases, ReceiveCurrPhases
  <2>2. QED
    BY <2>1 DEF KeepInv
<1>9. CASE PoolNext
  <2>1. /\ main'.request = main.request /\ main'.keep = main.keep /\ main'.pc = main.pc
        /\ ~main'.late => ~main.late
        /\ main'.request = "schedule" /\ ~main'.late /\ main'.pc = "remove" => pool # {}
             \/ status' = status
    BY <1>0, <1>9 DEF PoolNext, SubmitJob, WriteBit, ReadBits, SendBits
  <2>2. main.request = "schedule" /\ ~main.late /\ main.pc = "remove" => pool = {}
    BY DEF BitsInv
  <2>3. QED
    BY <2>1, <2>2 DEF KeepInv
<1>10. CASE UpdateNext \/ BackupExpires \/ Tick \/ UNCHANGED vars
  <2>1. UNCHANGED <<main, status>>
    BY <1>10 DEF UpdateNext, StartUpdate, UpdateAsks, UpdateTakesReply, FinishUpdate,
       BackupExpires, Tick, vars
  <2>2. QED
    BY <2>1 DEF KeepInv
<1>11. ASSUME NEW orderly \in BOOLEAN, Restart(orderly)
      PROVE  KeepInv'
  <2>1. main' = IdleMain
    BY <1>11 DEF Restart
  <2>2. QED
    BY <1>0, <2>1 DEF KeepInv
<1>12. QED
  BY <1>1, <1>2, <1>3, <1>4, <1>5, <1>6, <1>7, <1>8, <1>9, <1>10, <1>11 DEF Next, MainNext

\* The controls that are looked up are those that the schedule may keep.
LEMMA LookUpsOfList ==
  ASSUME NEW list, IsScheduleList(list)
  PROVE  /\ IsQueue(LookUps(list))
         /\ \A i \in DOMAIN LookUps(list) : Keeps(list, LookUps(list)[i])
         /\ \A c \in Control : Keeps(list, c) => \E i \in DOMAIN LookUps(list) : LookUps(list)[i] = c
<1> DEFINE K == {i \in DOMAIN list : StartsNow(list[i])}
           v == Keep(list, K)
<1>1. list \in Seq(Command) /\ K \in SUBSET (DOMAIN list)
  BY DEF IsScheduleList
<1>2. LookUps(list) = [n \in 1 .. Len(v) |-> v[n].control]
  BY DEF LookUps
<1>3. \A i \in DOMAIN list : i \in K <=> StartsNow(list[i])
  OBVIOUS
<1> HIDE DEF K
<1>4. v \in Seq(Command) /\ \A n \in DOMAIN v : Nth(K, n) \in K /\ v[n] = list[Nth(K, n)]
  BY <1>1, KeepType
<1>5. \A i \in K : \E n \in DOMAIN v : v[n] = list[i]
  BY <1>1, KeepOnto
<1> HIDE DEF v
<1>6. Len(v) \in Nat /\ DOMAIN v = 1 .. Len(v) /\ \A n \in DOMAIN v : v[n].control \in Control
  <2>1. Len(v) \in Nat /\ DOMAIN v = 1 .. Len(v) /\ \A n \in DOMAIN v : v[n] \in Command
    BY <1>4
  <2>2. \A c \in Command : c.control \in Control
    BY KeyType
  <2>3. QED
    BY <2>1, <2>2
<1>7. LookUps(list) \in [1 .. Len(v) -> Control]
  BY <1>2, <1>6
<1>8. IsQueue(LookUps(list))
  <2>1. LookUps(list) \in Seq(Control)
    BY <1>6, <1>7
  <2>2. QED
    BY <2>1, OwnElements
<1>9. \A i \in DOMAIN LookUps(list) : Keeps(list, LookUps(list)[i])
  <2>1. ASSUME NEW n \in DOMAIN v
        PROVE  Keeps(list, v[n].control)
    BY <1>1, <1>3, <1>4 DEF Keeps, StartsNow
  <2>2. QED
    BY <1>2, <1>6, <2>1
<1>10. ASSUME NEW c \in Control, Keeps(list, c)
       PROVE  \E i \in DOMAIN LookUps(list) : LookUps(list)[i] = c
  <2>1. PICK i \in K : list[i].control = c
    BY <1>3, <1>10 DEF Keeps, StartsNow
  <2>2. PICK n \in DOMAIN v : v[n] = list[i]
    BY <1>5
  <2>3. QED
    BY <1>2, <1>6, <2>1, <2>2
<1>11. QED
  BY <1>8, <1>9, <1>10

\* They are holds and omits.
LEMMA KeepsKeepable ==
  ASSUME NEW list, NEW c, Keeps(list, c)
  PROVE  c \in Keepable /\ c \in Control
BY DEF Keeps, Keepable, Control

LEMMA ClearOldCovers ==
  /\ ClearOldOrder \in Seq(Control)
  /\ \A c \in Control : \E i \in DOMAIN ClearOldOrder : ClearOldOrder[i] = c
<1>1. /\ ClearOldOrder \in Seq(Control) /\ DOMAIN ClearOldOrder = 1 .. 6
      /\ ClearOldOrder[1] = HOLD_VEH_PHASES /\ ClearOldOrder[2] = OMIT_VEH_PHASES
      /\ ClearOldOrder[3] = OMIT_PED_PHASES /\ ClearOldOrder[4] = CALL_VEH_PHASES
      /\ ClearOldOrder[5] = CALL_PED_PHASES /\ ClearOldOrder[6] = FORCEOFF_PHASES
  BY DEF ClearOldOrder, Control
<1>2. QED
  BY <1>1 DEF Control

\* The first element of a queue, and the rest.
LEMMA HeadAndRest ==
  ASSUME NEW q, IsQueue(q), q # <<>>
  PROVE  /\ 1 \in DOMAIN q /\ Head(q) = q[1] /\ IsQueue(Tail(q))
         /\ \A i \in DOMAIN Tail(q) : i + 1 \in DOMAIN q /\ Tail(q)[i] = q[i + 1]
         /\ \A i \in DOMAIN q : q[i] = Head(q) \/ \E k \in DOMAIN Tail(q) : Tail(q)[k] = q[i]
<1> DEFINE S == {q[i] : i \in DOMAIN q}
<1>1. q \in Seq(S)
  BY DEF IsQueue
<1> HIDE DEF S
<1>2. /\ Len(q) \in Nat \ {0} /\ DOMAIN q = 1 .. Len(q) /\ Head(q) = q[1]
      /\ Tail(q) \in Seq(S) /\ Len(Tail(q)) = Len(q) - 1
      /\ DOMAIN Tail(q) = 1 .. Len(q) - 1
      /\ \A i \in 1 .. Len(q) - 1 : Tail(q)[i] = q[i + 1]
  BY <1>1
<1>3. IsQueue(Tail(q))
  BY <1>2, OwnElements
<1>4. ASSUME NEW i \in DOMAIN q, i # 1
      PROVE  i - 1 \in DOMAIN Tail(q) /\ Tail(q)[i - 1] = q[i]
  BY <1>2, <1>4
<1>5. ASSUME NEW i \in DOMAIN q
      PROVE  q[i] = Head(q) \/ \E k \in DOMAIN Tail(q) : Tail(q)[k] = q[i]
  <2>1. CASE i = 1
    BY <1>2, <2>1
  <2>2. CASE i # 1
    BY <1>4, <2>2
  <2>3. QED
    BY <2>1, <2>2
<1>6. \A i \in DOMAIN Tail(q) : i + 1 \in DOMAIN q /\ Tail(q)[i] = q[i + 1]
  BY <1>2
<1>7. 1 \in DOMAIN q
  BY <1>2
<1>8. QED
  BY <1>2, <1>3, <1>5, <1>6, <1>7

LEMMA PrepareMain ==
  ASSUME Shape, ReplyInv, BitsInv, ListInv, KeepInv, PrepareInv, MainNext
  PROVE  PrepareInv'
<1>0. /\ {"pc", "request", "list", "keep", "late", "ask", "sets", "value"} \subseteq DOMAIN main
      /\ DOMAIN status = Control /\ word = [c \in Control |-> word[c]]
  BY MainFields
<1> SUFFICES ASSUME Preparing'
             PROVE  PrepareInv'
  BY DEF PrepareInv
<1>1. CASE RemoveAllJobs
  <2>1. /\ main.pc = "remove" /\ main'.request = main.request /\ main'.list = main.list
        /\ main'.keep = main.keep
        /\ main.request = "schedule" => /\ main'.pc = "check" /\ main'.ask = LookUps(main.list)
                                        /\ (main'.late = (main.late \/ pool # {}))
        /\ jobs' = {} /\ status' = status
    BY <1>0, <1>1 DEF RemoveAllJobs
  <2>2. main.request = "schedule" /\ ~main.late /\ pool = {} /\ main'.pc = "check"
    BY <2>1 DEF Preparing
  <2>3. pool' = {}
    BY <1>1, <2>2 DEF RemoveAllJobs
  <2>4. \A c \in Control : status'[c] = {}
    BY <2>1, <2>2 DEF KeepInv
  <2>5. main'.keep = {}
    BY <2>1 DEF KeepInv
  <2>6. IsQueue(main'.ask) /\ \A i \in DOMAIN main'.ask : Keeps(main'.list, main'.ask[i])
    BY <2>1, <2>2, LookUpsOfList DEF ListInv
  <2>7. QED
    BY <2>1, <2>2, <2>3, <2>4, <2>5, <2>6 DEF PrepareInv
<1>2. CASE MainAsks
  <2>1. /\ main'.pc = main.pc /\ main'.request = main.request /\ main'.list = main.list
        /\ main'.late = main.late /\ main'.keep = main.keep /\ main'.ask = main.ask
        /\ main'.sets = main.sets /\ main'.value = main.value
        /\ UNCHANGED <<jobs, pool, status, word>>
    BY <1>0, <1>2 DEF MainAsks
  <2>2. QED
    BY <2>1 DEF PrepareInv, Preparing
<1>3. CASE MainTakesReply
  <2>1. /\ main'.pc = main.pc /\ main'.request = main.request /\ main'.list = main.list
        /\ main'.late = main.late /\ main'.ask = Tail(main.ask)
        /\ main'.keep = main.keep \/ main'.keep = main.keep \cup {Head(main.ask)}
        /\ UNCHANGED <<jobs, pool, status, word>>
    BY <1>0, <1>3 DEF MainTakesReply
  <2>2. main.pc = "check" /\ main.ask # <<>> /\ Preparing
    BY <1>3, <2>1 DEF MainTakesReply, ReplyInv, Preparing
  <2>3. IsQueue(main.ask) /\ \A i \in DOMAIN main.ask : Keeps(main.list, main.ask[i])
    BY <2>2 DEF PrepareInv
  <2>4. /\ 1 \in DOMAIN main.ask /\ Head(main.ask) = main.ask[1] /\ IsQueue(main'.ask)
        /\ \A i \in DOMAIN main'.ask : i + 1 \in DOMAIN main.ask /\ main'.ask[i] = main.ask[i + 1]
    BY <2>1, <2>2, <2>3, HeadAndRest
  <2>5. \A c \in main'.keep : Keeps(main'.list, c)
    BY <2>1, <2>2, <2>3, <2>4 DEF PrepareInv
  <2>6. \A i \in DOMAIN main'.ask : Keeps(main'.list, main'.ask[i])
    BY <2>1, <2>3, <2>4
  <2>7. QED
    BY <2>1, <2>2, <2>4, <2>5, <2>6 DEF PrepareInv
<1>4. CASE ChooseClears
  <2> DEFINE K == {i \in DOMAIN ClearOldOrder : ClearOldOrder[i] \notin main.keep}
  <2>1. /\ main.pc = "check" /\ main'.pc = "assign" /\ main'.request = main.request
        /\ main'.list = main.list /\ main'.late = main.late /\ main'.keep = main.keep
        /\ main'.sets = Keep(ClearOldOrder, K)
        /\ UNCHANGED <<jobs, pool, status, word>>
    BY <1>0, <1>4 DEF ChooseClears
  <2>2. Preparing
    BY <2>1 DEF Preparing
  <2>3. K \in SUBSET (DOMAIN ClearOldOrder) /\ ClearOldOrder \in Seq(Control)
    BY ClearOldCovers
  <2>4. main'.sets \in Seq(Control)
    <3> HIDE DEF K
    <3>1. QED
      BY <2>1, <2>3, KeepType
  <2>5. ASSUME NEW c \in Control, c \notin main.keep
        PROVE  \E i \in DOMAIN main'.sets : main'.sets[i] = c
    <3>1. PICK i \in DOMAIN ClearOldOrder : ClearOldOrder[i] = c
      BY ClearOldCovers
    <3>2. i \in K
      BY <2>5, <3>1
    <3> HIDE DEF K
    <3>3. QED
      BY <2>1, <2>3, <3>1, <3>2, KeepOnto
  <2>6. QED
    BY <2>1, <2>2, <2>4, <2>5 DEF PrepareInv
<1>5. CASE AssignZeros
  <2>1. /\ main.pc = "assign" /\ main'.pc = "read" /\ main'.request = main.request
        /\ main'.list = main.list /\ main'.late = main.late /\ main'.keep = main.keep
        /\ main'.sets = main.sets /\ main.sets # <<>>
        /\ UNCHANGED <<jobs, pool, word>>
    BY <1>0, <1>5 DEF AssignZeros
  <2>2. Preparing
    BY <2>1 DEF Preparing
  <2>3. \A c \in Control : status'[c] = {} \/ status'[c] = status[c]
    BY <1>0, <1>5 DEF AssignZeros
  <2>4. \A c \in Control : status'[c] = {}
    BY <2>2, <2>3 DEF PrepareInv
  <2>5. QED
    BY <2>1, <2>2, <2>4 DEF PrepareInv
<1>6. CASE ReadValue
  <2>1. /\ main.pc = "read" /\ main'.pc = "send" /\ main'.request = main.request
        /\ main'.list = main.list /\ main'.late = main.late /\ main'.keep = main.keep
        /\ main'.sets = main.sets /\ main'.value = status[Head(main.sets)]
        /\ UNCHANGED <<jobs, pool, status, word>>
    BY <1>0, <1>6 DEF ReadValue
  <2>2. Preparing
    BY <2>1 DEF Preparing
  <2>3. Head(main.sets) \in Control
    BY <2>1, <2>2 DEF PrepareInv
  <2>4. QED
    BY <2>1, <2>2, <2>3 DEF PrepareInv
<1>7. CASE SendValue
  <2>1. /\ main.pc = "send" /\ main'.pc = "assign" /\ main'.request = main.request
        /\ main'.list = main.list /\ main'.late = main.late /\ main'.keep = main.keep
        /\ main'.sets = Tail(main.sets)
        /\ UNCHANGED <<jobs, pool, status>>
        /\ word' = [word EXCEPT ![Head(main.sets)] = main.value]
    BY <1>0, <1>7 DEF SendValue
  <2>2. Preparing
    BY <2>1 DEF Preparing
  <2>3. /\ main.sets \in Seq(Control) /\ main.sets # <<>> /\ main.value = {}
        /\ \A c \in Control : word[c] # {} =>
              c \in main.keep \/ \E i \in DOMAIN main.sets : main.sets[i] = c
    BY <2>1, <2>2 DEF PrepareInv
  <2>4. IsQueue(main.sets) /\ main'.sets \in Seq(Control)
    BY <2>1, <2>3, OwnElements
  <2>5. \A i \in DOMAIN main.sets :
          main.sets[i] = Head(main.sets) \/ \E k \in DOMAIN main'.sets : main'.sets[k] = main.sets[i]
    BY <2>1, <2>3, <2>4, HeadAndRest
  <2>6. \A c \in Control : word'[c] = {} \/ (c # Head(main.sets) /\ word'[c] = word[c])
    BY <1>0, <2>1, <2>3
  <2>7. \A c \in Control : word'[c] # {} =>
              c \in main'.keep \/ \E i \in DOMAIN main'.sets : main'.sets[i] = c
    BY <2>1, <2>3, <2>5, <2>6
  <2>8. QED
    BY <2>1, <2>2, <2>4, <2>7 DEF PrepareInv
<1>8. CASE \/ \E s \in Schedule : ReceiveSchedule(s)
           \/ ReceiveClear \/ FinishClear \/ AddJobs \/ ReceiveCurrNextPhaseRequest \/ SendCurrNextPhases
           \/ \E green1, green2 \in BOOLEAN : ReceiveCurrPhases(green1, green2)
  <2>1. main'.pc \in {"remove", "idle", "listen", "report"}
    BY <1>0, <1>8 DEF ReceiveSchedule, ReceiveClear, FinishClear, AddJobs,
       ReceiveCurrNextPhaseRequest, SendCurrNextPhases, ReceiveCurrPhases
  <2>2. QED
    BY <2>1 DEF Preparing
<1>9. QED
  BY <1>1, <1>2, <1>3, <1>4, <1>5, <1>6, <1>7, <1>8 DEF MainNext

LEMMA PrepareNext ==
  ASSUME Shape, ReplyInv, BitsInv, ListInv, KeepInv, PrepareInv, [Next]_vars
  PROVE  PrepareInv'
<1>0. /\ {"pc", "request", "list", "keep", "late", "ask", "sets", "value"} \subseteq DOMAIN main
      /\ DOMAIN status = Control /\ IdleMain.request = "none"
  BY MainFields
<1>1. CASE PoolNext
  <2>1. main'.pc = main.pc /\ main'.request = main.request /\ (~main'.late => ~main.late)
    BY <1>0, <1>1 DEF PoolNext, SubmitJob, WriteBit, ReadBits, SendBits
  <2>2. jobs # {} \/ pool # {}
    BY <1>1 DEF PoolNext
  <2>3. QED
    BY <2>1, <2>2 DEF PrepareInv, Preparing
<1>2. CASE UpdateNext \/ Tick \/ UNCHANGED vars
  <2>1. UNCHANGED <<main, jobs, pool, status, word>>
    BY <1>2 DEF UpdateNext, StartUpdate, UpdateAsks, UpdateTakesReply, FinishUpdate, Tick, vars
  <2>2. QED
    BY <2>1 DEF PrepareInv, Preparing
<1>3. CASE BackupExpires
  <2>1. UNCHANGED <<main, jobs, pool, status>> /\ \A c \in Control : word'[c] = {}
    BY <1>3 DEF BackupExpires, NoBits
  <2>2. QED
    BY <2>1 DEF PrepareInv, Preparing
<1>4. ASSUME NEW orderly \in BOOLEAN, Restart(orderly)
      PROVE  PrepareInv'
  <2>1. main'.request = "none"
    BY <1>0, <1>4 DEF Restart
  <2>2. QED
    BY <2>1 DEF PrepareInv, Preparing
<1>5. QED
  BY <1>1, <1>2, <1>3, <1>4, PrepareMain DEF Next

LEMMA AskMain ==
  ASSUME Shape, ReplyInv, ListInv, KeepInv, PrepareInv, AskInv, MainNext
  PROVE  AskInv'
<1>0. /\ {"pc", "request", "list", "keep", "late", "ask", "sets", "value", "waiting", "crossed"}
           \subseteq DOMAIN main
      /\ DOMAIN status = Control /\ word = [c \in Control |-> word[c]]
  BY MainFields
<1> SUFFICES ASSUME Preparing', ~main'.crossed
             PROVE  AskInv'
  BY DEF AskInv
<1>1. CASE RemoveAllJobs
  <2>1. /\ main.pc = "remove" /\ main'.request = main.request /\ main'.list = main.list
        /\ main'.keep = main.keep /\ main'.waiting = main.waiting
        /\ main.request = "schedule" => main'.pc = "check" /\ main'.ask = LookUps(main.list)
    BY <1>0, <1>1 DEF RemoveAllJobs
  <2>2. main.request = "schedule" /\ main'.pc = "check" /\ ~main'.waiting
    BY <2>1 DEF Preparing, ReplyInv
  <2>3. \A c \in Control : Keeps(main'.list, c) => \E i \in DOMAIN main'.ask : main'.ask[i] = c
    BY <2>1, <2>2, LookUpsOfList DEF ListInv
  <2>4. QED
    BY <2>2, <2>3 DEF AskInv
<1>2. CASE MainAsks
  <2>1. /\ main'.pc = main.pc /\ main'.request = main.request /\ main'.list = main.list
        /\ main'.late = main.late /\ main'.keep = main.keep /\ main'.ask = main.ask
        /\ main'.crossed = main.crossed /\ main.ask # <<>>
        /\ word' = word /\ main.pc \in {"check", "report"}
    BY <1>0, <1>2 DEF MainAsks
  <2>2. main.pc = "check" /\ Preparing
    BY <2>1 DEF Preparing
  <2>3. Head(main.ask) \in Control
    <3>1. IsQueue(main.ask) /\ \A i \in DOMAIN main.ask : Keeps(main.list, main.ask[i])
      BY <2>2 DEF PrepareInv
    <3>2. 1 \in DOMAIN main.ask /\ Head(main.ask) = main.ask[1]
      BY <2>1, <3>1, HeadAndRest
    <3>3. QED
      BY <3>1, <3>2, KeepsKeepable
  <2>4. PICK positive \in Answer(Head(main.ask)) :
          replies' = Append(replies, [oid |-> Head(main.ask), positive |-> positive])
    BY <1>2 DEF MainAsks
  <2>5. positive = (word[Head(main.ask)] # {})
    BY <2>3 DEF Answer
  <2>6. Len(replies') = Len(replies) + 1 /\ Len(replies) \in Nat
        /\ replies'[Len(replies')] = [oid |-> Head(main.ask), positive |-> positive]
    <3> DEFINE S == {replies[i] : i \in DOMAIN replies}
               x == [oid |-> Head(main.ask), positive |-> positive]
    <3>1. replies \in Seq(S)
      BY DEF Shape, IsQueue
    <3> HIDE DEF S, x
    <3>2. Len(replies) \in Nat /\ Len(Append(replies, x)) = Len(replies) + 1
          /\ Append(replies, x)[Len(replies) + 1] = x
      BY <3>1
    <3>3. QED
      BY <2>4, <3>2 DEF x
  <2>7. word'[Head(main'.ask)] # {} => replies'[Len(replies')].positive
    <3>1. replies'[Len(replies')].positive = positive
      BY <2>6
    <3>2. word'[Head(main'.ask)] = word[Head(main.ask)]
      BY <2>1
    <3>3. QED
      BY <2>5, <3>1, <3>2, Zenon
  <2>8. QED
    BY <2>1, <2>2, <2>7 DEF AskInv
<1>3. CASE MainTakesReply
  <2>1. /\ main'.pc = main.pc /\ main'.request = main.request /\ main'.list = main.list
        /\ main'.late = main.late /\ main'.ask = Tail(main.ask) /\ main'.waiting = FALSE
        /\ main.waiting /\ replies # <<>> /\ word' = word
        /\ main'.crossed = (main.crossed \/ update.waiting \/ Head(replies).oid # Head(main.ask))
        /\ main'.keep = IF main.pc = "check" /\ Head(replies).positive
                        THEN main.keep \cup {Head(main.ask)} ELSE main.keep
    BY <1>0, <1>3 DEF MainTakesReply
  <2>2. /\ main.pc = "check" /\ main.ask # <<>> /\ Preparing
        /\ ~main.crossed /\ ~update.waiting /\ Head(replies).oid = Head(main.ask)
    BY <1>3, <2>1 DEF MainTakesReply, ReplyInv, Preparing
  <2>3. IsQueue(main.ask)
    BY <2>2 DEF PrepareInv
  <2>4. \A i \in DOMAIN main.ask :
          main.ask[i] = Head(main.ask) \/ \E k \in DOMAIN main'.ask : main'.ask[k] = main.ask[i]
    BY <2>1, <2>2, <2>3, HeadAndRest
  <2>5. Head(replies) = replies[Len(replies)]
    <3>1. Len(replies) = 1
      BY <2>1, <2>2 DEF ReplyInv, NoReplyLeftOver
    <3>2. IsQueue(replies)
      BY DEF Shape
    <3>3. QED
      BY <2>1, <3>1, <3>2, HeadAndRest
  <2>6. word[Head(main.ask)] # {} => Head(main.ask) \in main'.keep
    BY <2>1, <2>2, <2>5 DEF AskInv
  <2>7. ASSUME NEW c \in Control, Keeps(main.list, c), word[c] # {}
        PROVE  c \in main'.keep \/ \E i \in DOMAIN main'.ask : main'.ask[i] = c
    <3>1. c \in main.keep \/ \E i \in DOMAIN main.ask : main.ask[i] = c
      BY <2>2, <2>7 DEF AskInv
    <3>2. QED
      BY <2>1, <2>4, <2>6, <2>7, <3>1
  <2>8. QED
    BY <2>1, <2>2, <2>7 DEF AskInv
<1>4. CASE ChooseClears
  <2> DEFINE K == {i \in DOMAIN ClearOldOrder : ClearOldOrder[i] \notin main.keep}
  <2>1. /\ main.pc = "check" /\ main.ask = <<>> /\ main'.pc = "assign" /\ main'.request = main.request
        /\ main'.list = main.list /\ main'.late = main.late /\ main'.keep = main.keep
        /\ main'.crossed = main.crossed
        /\ main'.sets = Keep(ClearOldOrder, K) /\ word' = word
    BY <1>0, <1>4 DEF ChooseClears
  <2>2. Preparing /\ ~main.crossed
    BY <2>1 DEF Preparing
  <2>3. K \in SUBSET (DOMAIN ClearOldOrder) /\ ClearOldOrder \in Seq(Control)
    BY ClearOldCovers
  <2>4. \A i \in K : ClearOldOrder[i] \notin main.keep
    OBVIOUS
  <2>5. ASSUME NEW i \in DOMAIN main'.sets
        PROVE  main'.sets[i] \notin main.keep /\ main'.sets[i] \in Control
    <3> HIDE DEF K
    <3>1. Nth(K, i) \in K /\ main'.sets[i] = ClearOldOrder[Nth(K, i)]
      BY <2>1, <2>3, <2>5, KeepType
    <3>2. QED
      BY <2>3, <2>4, <3>1
  <2>6. \A c \in Control : Keeps(main.list, c) /\ word[c] # {} => c \in main.keep
    <3>1. DOMAIN main.ask = {}
      BY <2>1
    <3>2. QED
      BY <2>1, <2>2, <3>1 DEF AskInv
  <2>7. QED
    BY <2>1, <2>5, <2>6 DEF AskInv
<1>5. CASE AssignZeros \/ ReadValue
  <2>1. /\ main.pc \in {"assign", "read"} /\ main'.pc \in {"read", "send"} /\ main'.request = main.request
        /\ main'.list = main.list /\ main'.late = main.late
        /\ main'.crossed = main.crossed
        /\ main'.sets = main.sets /\ word' = word
    BY <1>0, <1>5 DEF AssignZeros, ReadValue
  <2>2. QED
    BY <2>1 DEF AskInv, Preparing
<1>6. CASE SendValue
  <2>1. /\ main.pc = "send" /\ main'.pc = "assign" /\ main'.request = main.request
        /\ main'.list = main.list /\ main'.late = main.late /\ main'.crossed = main.crossed
        /\ main'.sets = Tail(main.sets)
        /\ word' = [word EXCEPT ![Head(main.sets)] = main.value]
    BY <1>0, <1>6 DEF SendValue
  <2>2. Preparing /\ ~main.crossed
    BY <2>1 DEF Preparing
  <2>3. main.sets \in Seq(Control) /\ main.sets # <<>> /\ main.value = {}
    BY <2>1, <2>2 DEF PrepareInv
  <2>4. \A i \in DOMAIN main.sets : Keeps(main.list, main.sets[i]) => word[main.sets[i]] = {}
    BY <2>1, <2>2 DEF AskInv
  <2>5. \A i \in DOMAIN main'.sets : i + 1 \in DOMAIN main.sets /\ main'.sets[i] = main.sets[i + 1]
    <3>1. IsQueue(main.sets)
      BY <2>3, OwnElements
    <3>2. QED
      BY <2>1, <2>3, <3>1, HeadAndRest
  <2>6. \A c \in Control : word'[c] = {} \/ word'[c] = word[c]
    BY <1>0, <2>1, <2>3
  <2>7. ASSUME NEW i \in DOMAIN main'.sets, Keeps(main.list, main'.sets[i])
        PROVE  word'[main'.sets[i]] = {}
    <3>1. word[main'.sets[i]] = {}
      BY <2>4, <2>5, <2>7
    <3>2. main'.sets[i] \in Control
      BY <2>7, KeepsKeepable
    <3>3. QED
      BY <2>6, <3>1, <3>2
  <2>8. QED
    BY <2>1, <2>7 DEF AskInv
<1>8. CASE \/ \E s \in Schedule : ReceiveSchedule(s)
           \/ ReceiveClear \/ FinishClear \/ AddJobs \/ ReceiveCurrNextPhaseRequest \/ SendCurrNextPhases
           \/ \E green1, green2 \in BOOLEAN : ReceiveCurrPhases(green1, green2)
  <2>1. main'.pc \in {"remove", "idle", "listen", "report"}
    BY <1>0, <1>8 DEF ReceiveSchedule, ReceiveClear, FinishClear, AddJobs,
       ReceiveCurrNextPhaseRequest, SendCurrNextPhases, ReceiveCurrPhases
  <2>2. QED
    BY <2>1 DEF Preparing
<1>9. QED
  BY <1>1, <1>2, <1>3, <1>4, <1>5, <1>6, <1>8 DEF MainNext

LEMMA AskNext ==
  ASSUME Shape, ReplyInv, ListInv, KeepInv, PrepareInv, AskInv, [Next]_vars
  PROVE  AskInv'
<1>0. /\ {"pc", "request", "list", "keep", "late", "ask", "crossed"} \subseteq DOMAIN main
      /\ DOMAIN status = Control /\ IdleMain.request = "none"
  BY MainFields
<1>r. IsQueue(replies) /\ Len(replies) \in Nat
  BY OwnElements DEF Shape, IsQueue
<1>1. CASE PoolNext
  <2>1. main'.pc = main.pc /\ main'.request = main.request /\ (~main'.late => ~main.late)
    BY <1>0, <1>1 DEF PoolNext, SubmitJob, WriteBit, ReadBits, SendBits
  <2>2. jobs # {} \/ pool # {}
    BY <1>1 DEF PoolNext
  <2>3. ~Preparing'
    BY <2>1, <2>2 DEF PrepareInv, Preparing
  <2>4. QED
    BY <2>3 DEF AskInv
<1>2. CASE StartUpdate \/ FinishUpdate \/ Tick \/ UNCHANGED vars
  <2>1. UNCHANGED <<main, replies, word>>
    BY <1>2 DEF StartUpdate, FinishUpdate, Tick, vars
  <2>2. QED
    BY <2>1 DEF AskInv, Preparing
<1>3. CASE UpdateAsks
  <2>1. UNCHANGED <<main, word>>
    BY <1>3 DEF UpdateAsks
  <2> DEFINE oid == PlanOid[Len(update.got) + 1]
  <2>2. PICK positive \in Answer(oid) :
          replies' = Append(replies, [oid |-> oid, positive |-> positive])
    BY <1>3 DEF UpdateAsks
  <2>3. replies'[Len(replies')].oid = oid
    <3> DEFINE S == {replies[i] : i \in DOMAIN replies}
               x == [oid |-> oid, positive |-> positive]
    <3>1. replies \in Seq(S)
      BY DEF Shape, IsQueue
    <3>2. x.oid = oid
      OBVIOUS
    <3>3. replies' = Append(replies, x)
      BY <2>2
    <3> HIDE DEF S, x
    <3>4. Len(Append(replies, x)) = Len(replies) + 1 /\ Append(replies, x)[Len(replies) + 1] = x
      BY <3>1
    <3>5. QED
      BY <3>2, <3>3, <3>4
  <2>4. oid \notin Control
    <3>1. Len(update.got) \in Nat /\ Len(update.got) + 1 <= Len(PlanOid) /\ Len(PlanOid) \in Nat
          => Len(update.got) + 1 \in DOMAIN PlanOid
      BY OidAssumption
    <3>2. PlanOid \in Seq({PlanOid[i] : i \in DOMAIN PlanOid})
      BY OidAssumption
    <3>3. DOMAIN PlanOid = 1 .. Len(PlanOid) /\ Len(PlanOid) \in Nat
      <4> DEFINE S == {PlanOid[i] : i \in DOMAIN PlanOid}
      <4>1. PlanOid \in Seq(S)
        BY <3>2
      <4> HIDE DEF S
      <4>2. QED
        BY <4>1
    <3>4. Len(update.got) + 1 \in DOMAIN PlanOid
      BY <1>3, <3>1, <3>3 DEF UpdateAsks
    <3>5. QED
      BY <3>4, OidAssumption
  <2>5. ASSUME Preparing, main.pc = "check", main.ask # <<>>
        PROVE  Head(main.ask) \in Control
    <3>1. IsQueue(main.ask) /\ \A i \in DOMAIN main.ask : Keeps(main.list, main.ask[i])
      BY <2>5 DEF PrepareInv
    <3>2. 1 \in DOMAIN main.ask /\ Head(main.ask) = main.ask[1]
      BY <2>5, <3>1, HeadAndRest
    <3>3. QED
      BY <3>1, <3>2, KeepsKeepable
  <2>6. main.waiting => main.ask # <<>>
    BY DEF ReplyInv
  <2> HIDE DEF oid
  <2>7. QED
    BY <2>1, <2>3, <2>4, <2>5, <2>6 DEF AskInv, Preparing
<1>4. CASE UpdateTakesReply
  <2>1. UNCHANGED <<main, word>> /\ replies' = Tail(replies) /\ replies # <<>> /\ update.waiting
    BY <1>4 DEF UpdateTakesReply
  <2>2. main.waiting => replies'[Len(replies')] = replies[Len(replies)]
    <3>1. SUFFICES ASSUME main.waiting
                   PROVE  replies'[Len(replies')] = replies[Len(replies)]
      OBVIOUS
    <3>2. Len(replies) = 2
      BY <2>1, <3>1 DEF ReplyInv, NoReplyLeftOver
    <3>3. Len(Tail(replies)) = 1 /\ IsQueue(Tail(replies))
      BY <1>r, <2>1, <3>2, ReplyTaken
    <3>4. Tail(replies)[1] = replies[2]
      <4>1. 1 \in DOMAIN Tail(replies)
        BY <3>3 DEF IsQueue
      <4>2. Tail(replies)[1] = replies[1 + 1]
        BY <1>r, <2>1, <4>1, HeadAndRest
      <4>3. 1 + 1 = 2
        OBVIOUS
      <4>4. QED
        BY <4>2, <4>3, Zenon
    <3>5. QED
      BY <2>1, <3>2, <3>3, <3>4
  <2>3. QED
    BY <2>1, <2>2 DEF AskInv, Preparing
<1>5. CASE BackupExpires
  <2>1. UNCHANGED <<main, replies>> /\ \A c \in Control : word'[c] = {}
    BY <1>5 DEF BackupExpires, NoBits
  <2>2. ASSUME Preparing, main.pc = "check", main.waiting
        PROVE  word'[Head(main.ask)] = {}
    <3>1. /\ IsQueue(main.ask) /\ main.ask # <<>>
          /\ \A i \in DOMAIN main.ask : Keeps(main.list, main.ask[i])
      BY <2>2 DEF PrepareInv, ReplyInv
    <3>2. 1 \in DOMAIN main.ask /\ Head(main.ask) = main.ask[1]
      BY <3>1, HeadAndRest
    <3>3. QED
      BY <2>1, <3>1, <3>2, KeepsKeepable
  <2>3. ASSUME Preparing, main.pc # "check", NEW i \in DOMAIN main.sets
        PROVE  word'[main.sets[i]] = {}
    <3>1. main.sets[i] \in Control
      BY <2>3 DEF PrepareInv
    <3>2. QED
      BY <2>1, <3>1
  <2>4. QED
    BY <2>1, <2>2, <2>3 DEF AskInv, Preparing
<1>6. ASSUME NEW orderly \in BOOLEAN, Restart(orderly)
      PROVE  AskInv'
  <2>1. main'.request = "none"
    BY <1>0, <1>6 DEF Restart
  <2>2. QED
    BY <2>1 DEF AskInv, Preparing
<1>7. QED
  BY <1>1, <1>2, <1>3, <1>4, <1>5, <1>6, AskMain DEF Next, UpdateNext

-----------------------------------------------------------------------------
(* The jobs of a list *)

LEMMA CommandOfList ==
  ASSUME NEW list, IsScheduleList(list), NEW i \in DOMAIN list
  PROVE  /\ list[i].control \in Control /\ list[i].startTime \in Nat /\ list[i].endTime \in Nat
         /\ list[i].startTime < list[i].endTime
<1>1. list[i] \in Command /\ Valid(list[i])
  BY DEF IsScheduleList
<1>2. list[i].control \in Control /\ list[i].startTime \in Int /\ list[i].endTime \in Int
  BY <1>1, KeyType
<1>3. QED
  BY <1>1, <1>2 DEF Valid

\* The first end of a group is one of its ends, and none is earlier.
LEMMA FirstEndIsLeast ==
  ASSUME NEW list, IsScheduleList(list), NEW field, NEW i \in DOMAIN list
  PROVE  LET G == GroupOf(list, field, i)
         IN  /\ FirstEnd(list, G) \in Nat /\ \A j \in G : FirstEnd(list, G) <= list[j].endTime
             /\ \E j \in G : FirstEnd(list, G) = list[j].endTime
<1> DEFINE G == GroupOf(list, field, i)
           E == {list[j].endTime : j \in G}
           e == list[i].endTime
           B == {x \in E : x <= e}
<1>1. \A j \in G : j \in DOMAIN list
  BY DEF GroupOf
<1>2. \A j \in G : list[j].endTime \in Nat /\ list[j].endTime > 0
  BY <1>1, CommandOfList
<1>3. i \in G
  BY DEF GroupOf, Together
<1>4. e \in Nat /\ e \in B
  BY <1>2, <1>3
<1>5. B \in SUBSET (1 .. e)
  BY <1>2, <1>4
<1> HIDE DEF e
<1>6. PICK m \in B : \A x \in B : m <= x
  <2> HIDE DEF B
  <2>1. B # {}
    BY <1>4
  <2>2. QED
    BY <1>4, <1>5, <2>1, NthFirst
<1>7. ASSUME NEW j \in G
      PROVE  m <= list[j].endTime
  <2>1. list[j].endTime \in E /\ list[j].endTime \in Nat /\ m \in Nat /\ m <= e
    BY <1>2, <1>5, <1>6
  <2>2. CASE list[j].endTime <= e
    BY <1>6, <2>1, <2>2
  <2>3. CASE e < list[j].endTime
    BY <1>4, <2>1, <2>3
  <2>4. QED
    BY <1>4, <2>1, <2>2, <2>3
<1>8. m \in E
  BY <1>6
<1>9. FirstEnd(list, G) \in E /\ \A j \in G : FirstEnd(list, G) <= list[j].endTime
  BY <1>7, <1>8 DEF FirstEnd
<1>10. QED
  BY <1>2, <1>9

\* Groups of commands that go together are the same.
LEMMA SameGroup ==
  ASSUME NEW list, NEW field, NEW i, NEW h, Together(list[i], list[h], field)
  PROVE  GroupOf(list, field, i) = GroupOf(list, field, h)
BY DEF GroupOf, Together

\* What the jobs do that a list calls for, at times that count from its receipt.
LEMMA JobOfList ==
  ASSUME NEW list, IsScheduleList(list), NEW o \in JobsFor(list, 0, 0)
  PROVE  /\ o.control \in Control /\ o.action \in BOOLEAN /\ o.phases # {}
         /\ o.next \in Nat /\ o.end \in Nat /\ o.next <= o.end
         /\ \A p \in o.phases : \E k \in DOMAIN list :
              /\ list[k].control = o.control /\ list[k].phase = p
              /\ o.action => list[k].startTime = o.next /\ o.end <= list[k].endTime
              /\ ~o.action => list[k].endTime = o.next /\ list[k].endTime = o.end
<1>1. \/ \E i \in DOMAIN list : o = Activation(list, i, 0, 0)
      \/ \E i \in DOMAIN list : o = Deactivation(list, i, 0, 0)
  BY DEF JobsFor, Heads
<1>2. CASE \E i \in DOMAIN list : o = Activation(list, i, 0, 0)
  <2>1. PICK i \in DOMAIN list : o = Activation(list, i, 0, 0)
    BY <1>2
  <2> DEFINE G == GroupOf(list, "startTime", i)
  <2>2. /\ o.control = list[i].control /\ o.action = TRUE /\ o.phases = PhasesOf(list, G)
        /\ o.next = 0 + list[i].startTime /\ o.end = 0 + FirstEnd(list, G)
    BY <2>1 DEF Activation
  <2>3. FirstEnd(list, G) \in Nat /\ \A j \in G : FirstEnd(list, G) <= list[j].endTime
    BY FirstEndIsLeast
  <2>4. i \in G /\ \A j \in G : /\ j \in DOMAIN list /\ list[j].control = list[i].control
                                /\ list[j].startTime = list[i].startTime
    BY DEF GroupOf, Together
  <2>6. list[i].startTime \in Nat /\ o.next = list[i].startTime /\ o.end = FirstEnd(list, G)
    BY <2>2, <2>3, CommandOfList
  <2>7. o.next <= o.end
    <3>1. PICK j \in G : FirstEnd(list, G) = list[j].endTime
      BY FirstEndIsLeast
    <3>2. list[j].startTime < list[j].endTime /\ list[j].startTime = list[i].startTime
          /\ list[j].endTime \in Nat
      BY <2>4, CommandOfList
    <3>3. QED
      BY <2>6, <3>1, <3>2
  <2>8. o.phases # {}
    BY <2>2, <2>4 DEF PhasesOf
  <2>9. \A p \in o.phases : \E k \in DOMAIN list :
              /\ list[k].control = o.control /\ list[k].phase = p
              /\ list[k].startTime = o.next /\ o.end <= list[k].endTime
    <3>1. \A p \in o.phases : \E k \in G : list[k].phase = p
      BY <2>2 DEF PhasesOf
    <3> HIDE DEF G
    <3>2. QED
      BY <2>2, <2>3, <2>4, <2>6, <3>1
  <2>10. o.control \in Control
    BY <2>2, CommandOfList
  <2>11. QED
    BY <2>2, <2>3, <2>6, <2>7, <2>8, <2>9, <2>10
<1>3. CASE \E i \in DOMAIN list : o = Deactivation(list, i, 0, 0)
  <2>1. PICK i \in DOMAIN list : o = Deactivation(list, i, 0, 0)
    BY <1>3
  <2> DEFINE G == GroupOf(list, "endTime", i)
  <2>2. /\ o.control = list[i].control /\ o.action = FALSE /\ o.phases = PhasesOf(list, G)
        /\ o.next = 0 + list[i].endTime /\ o.end = 0 + list[i].endTime
    BY <2>1 DEF Deactivation
  <2>3. i \in G /\ \A j \in G : /\ j \in DOMAIN list /\ list[j].control = list[i].control
                                /\ list[j].endTime = list[i].endTime
    BY DEF GroupOf, Together
  <2>4. list[i].endTime \in Nat /\ o.next = list[i].endTime /\ o.end = list[i].endTime
        /\ o.control \in Control
    BY <2>2, CommandOfList
  <2>5. o.phases # {}
    BY <2>2, <2>3 DEF PhasesOf
  <2>6. \A p \in o.phases : \E k \in DOMAIN list :
              /\ list[k].control = o.control /\ list[k].phase = p
              /\ list[k].endTime = o.next /\ list[k].endTime = o.end
    <3>1. \A p \in o.phases : \E k \in G : list[k].phase = p
      BY <2>2 DEF PhasesOf
    <3> HIDE DEF G
    <3>2. QED
      BY <2>2, <2>3, <2>4, <3>1
  <2>7. o.next \in Nat /\ o.end \in Nat /\ o.next <= o.end
    BY <2>4
  <2>8. o.action \in BOOLEAN /\ ~o.action
    BY <2>2, Zenon
  <2>9. QED
    BY <2>4, <2>5, <2>6, <2>7, <2>8
<1>4. QED
  BY <1>1, <1>2, <1>3

\* The jobs that are put in the store are those of the list, later by the time of receipt.
LEMMA JobsAtBase ==
  ASSUME NEW list, IsScheduleList(list), NEW base \in Nat, NEW gen,
         NEW j \in JobsFor(list, base, gen)
  PROVE  \E o \in JobsFor(list, 0, 0) :
           /\ j.control = o.control /\ j.action = o.action /\ j.phases = o.phases
           /\ j.next = base + o.next /\ j.end = base + o.end
<1>1. CASE \E i \in Heads(list, "startTime") : j = Activation(list, i, base, gen)
  <2>1. PICK i \in Heads(list, "startTime") : j = Activation(list, i, base, gen)
    BY <1>1
  <2> DEFINE o == Activation(list, i, 0, 0)
  <2>2. i \in DOMAIN list /\ o \in JobsFor(list, 0, 0)
    BY DEF Heads, JobsFor
  <2>3. list[i].startTime \in Nat /\ FirstEnd(list, GroupOf(list, "startTime", i)) \in Nat
    BY <2>2, CommandOfList, FirstEndIsLeast
  <2>4. /\ j.control = o.control /\ j.action = o.action /\ j.phases = o.phases
        /\ j.next = base + list[i].startTime /\ o.next = 0 + list[i].startTime
        /\ j.end = base + FirstEnd(list, GroupOf(list, "startTime", i))
        /\ o.end = 0 + FirstEnd(list, GroupOf(list, "startTime", i))
    BY <2>1 DEF Activation
  <2> HIDE DEF o
  <2>5. j.next = base + o.next /\ j.end = base + o.end
    BY <2>3, <2>4
  <2>6. QED
    BY <2>2, <2>4, <2>5
<1>2. CASE \E i \in Heads(list, "endTime") : j = Deactivation(list, i, base, gen)
  <2>1. PICK i \in Heads(list, "endTime") : j = Deactivation(list, i, base, gen)
    BY <1>2
  <2> DEFINE o == Deactivation(list, i, 0, 0)
  <2>2. i \in DOMAIN list /\ o \in JobsFor(list, 0, 0)
    BY DEF Heads, JobsFor
  <2>3. list[i].endTime \in Nat
    BY <2>2, CommandOfList
  <2>4. /\ j.control = o.control /\ j.action = o.action /\ j.phases = o.phases
        /\ j.next = base + list[i].endTime /\ o.next = 0 + list[i].endTime
        /\ j.end = base + list[i].endTime /\ o.end = 0 + list[i].endTime
    BY <2>1 DEF Deactivation
  <2> HIDE DEF o
  <2>5. j.next = base + o.next /\ j.end = base + o.end
    BY <2>3, <2>4
  <2>6. QED
    BY <2>2, <2>4, <2>5
<1>3. QED
  BY <1>1, <1>2 DEF JobsFor

\* Every command of the list is activated at its start,
LEMMA EveryCommandStarts ==
  ASSUME NEW list, IsScheduleList(list), NEW base, NEW gen, NEW i \in DOMAIN list
  PROVE  \E j \in JobsFor(list, base, gen) :
           /\ j.action = TRUE /\ j.control = list[i].control /\ list[i].phase \in j.phases
           /\ j.next = base + list[i].startTime
           /\ j.end = base + FirstEnd(list, GroupOf(list, "startTime", i))
<1>1. PICK h \in Heads(list, "startTime") : Together(list[i], list[h], "startTime")
  BY StartGroupsMet
<1>2. GroupOf(list, "startTime", i) = GroupOf(list, "startTime", h)
  BY <1>1, SameGroup
<1>3. list[i].control = list[h].control /\ list[i].startTime = list[h].startTime
  BY <1>1 DEF Together
<1>4. i \in GroupOf(list, "startTime", h)
  BY <1>1 DEF GroupOf
<1>5. list[i].phase \in PhasesOf(list, GroupOf(list, "startTime", h))
  BY <1>4 DEF PhasesOf
<1>6. Activation(list, h, base, gen) \in JobsFor(list, base, gen)
  BY DEF JobsFor
<1>7. QED
  BY <1>2, <1>3, <1>5, <1>6 DEF Activation

\* and, if the ends are in order, deactivated at its end.
LEMMA EveryCommandEnds ==
  ASSUME NEW list, IsScheduleList(list), EndsInOrder(list), NEW base, NEW gen,
         NEW i \in DOMAIN list
  PROVE  \E j \in JobsFor(list, base, gen) :
           /\ j.action = FALSE /\ j.control = list[i].control /\ list[i].phase \in j.phases
           /\ j.next = base + list[i].endTime
<1>1. PICK h \in Heads(list, "endTime") : Together(list[i], list[h], "endTime")
  BY EndGroupsMet
<1>2. list[i].control = list[h].control /\ list[i].endTime = list[h].endTime
  BY <1>1 DEF Together
<1>3. i \in GroupOf(list, "endTime", h)
  BY <1>1 DEF GroupOf
<1>4. list[i].phase \in PhasesOf(list, GroupOf(list, "endTime", h))
  BY <1>3 DEF PhasesOf
<1>5. Deactivation(list, h, base, gen) \in JobsFor(list, base, gen)
  BY DEF JobsFor
<1>6. QED
  BY <1>2, <1>4, <1>5 DEF Deactivation

LEMMA RefreshPeriodType ==
  RefreshPeriod \in Nat /\ RefreshPeriod >= 1 /\ ntcipBackupTime \in Nat
    /\ RefreshPeriod < ntcipBackupTime
BY SchedulerAssumption

\* A job runs first at its start, and then again and again until its end.
LEMMA FiresFirst ==
  ASSUME NEW o, o.next \in Nat, o.end \in Nat, o.next <= o.end
  PROVE  o.next \in FireTimes(o)
<1>1. 0 \in 0 .. o.end - o.next /\ o.next = o.next + 0 * RefreshPeriod
  BY RefreshPeriodType
<1>2. o.next \in o.next .. o.end
  OBVIOUS
<1>3. QED
  BY <1>1, <1>2 DEF FireTimes

LEMMA FiresAgain ==
  ASSUME NEW o, o.next \in Nat, o.end \in Nat, NEW f \in FireTimes(o),
         f + RefreshPeriod <= o.end
  PROVE  f + RefreshPeriod \in FireTimes(o)
<1> DEFINE R == RefreshPeriod
<1>1. R \in Nat /\ R >= 1
  BY RefreshPeriodType
<1>2. f \in o.next .. o.end /\ \E k \in 0 .. o.end - o.next : f = o.next + k * R
  BY DEF FireTimes
<1>3. PICK k \in 0 .. o.end - o.next : f = o.next + k * R
  BY <1>2
<1>4. k \in Nat /\ f + R \in o.next .. o.end
  BY <1>1, <1>2
<1>5. (k + 1) * R = k * R + R /\ k * R \in Nat /\ k * R >= k
  <2> HIDE DEF R
  <2>1. (k + 1) * R = k * R + R /\ k * R \in Nat
    BY <1>1, <1>4
  <2>2. k * R >= k
    BY <1>1, <1>4
  <2>3. QED
    BY <2>1, <2>2
<1>6. k + 1 \in 0 .. o.end - o.next /\ f + R = o.next + (k + 1) * R
  <2> HIDE DEF R
  <2>1. QED
    BY <1>1, <1>3, <1>4, <1>5
<1>7. QED
  BY <1>4, <1>6 DEF FireTimes

LEMMA FireTimeRange ==
  ASSUME NEW o, o.next \in Nat, o.end \in Nat, NEW f \in FireTimes(o)
  PROVE  f \in Nat /\ o.next <= f /\ f <= o.end
BY DEF FireTimes

\* Jobs of a tame control that fall due together do the same.
LEMMA TameJobs ==
  ASSUME NEW list, NEW c, Tame(list, c),
         NEW o \in JobsFor(list, 0, 0), NEW q \in JobsFor(list, 0, 0),
         o.control = c, q.control = c, NEW f, f \in FireTimes(o), f \in FireTimes(q)
  PROVE  o.action = q.action /\ o.phases = q.phases
<1>1. o \in {l \in JobsFor(list, 0, 0) : l.control = c} /\ q \in {l \in JobsFor(list, 0, 0) : l.control = c}
  OBVIOUS
<1>2. <<o.action, o.phases>> # <<q.action, q.phases>> => FireTimes(o) \cap FireTimes(q) = {}
  BY <1>1 DEF Tame
<1>3. QED
  BY <1>2

-----------------------------------------------------------------------------
(***************************************************************************)
(* A schedule in force.  The predicates below are about a list that was    *)
(* received at a time "base", and the state at a time n: the jobs J in the *)
(* store, the instances P in the pool, the bits B and the word W of a      *)
(* control.  Times of the list count from base.                            *)
(***************************************************************************)

IsJobOf(base, j, o) ==
  /\ j.control = o.control /\ j.action = o.action /\ j.phases = o.phases
  /\ j.end = base + o.end /\ \E f \in FireTimes(o) : j.next = base + f

\* A job of the list that does a to control c falls due at the time "at".
FiringAt(list, at, c, a) ==
  \E o \in JobsFor(list, 0, 0) : o.control = c /\ o.action = a /\ at \in FireTimes(o)

\* An instance runs at the time at which its job falls due; unless a job that does the
\* opposite runs too, the bits that it has written are there.
IsInstanceOf(list, at, B, t, o) ==
  /\ t.control = o.control /\ t.action = o.action /\ t.todo \subseteq o.phases
  /\ at \in FireTimes(o)
  /\ t.pc = "send" => t.todo = {}
  /\ t.action = TRUE /\ ~FiringAt(list, at, t.control, FALSE) =>
       IF t.pc = "send" THEN o.phases \subseteq t.value ELSE o.phases \ t.todo \subseteq B
  /\ t.action = FALSE /\ ~FiringAt(list, at, t.control, TRUE) /\ t.pc # "send" =>
       (o.phases \ t.todo) \cap B = {}

JobsFit(list, base, n, J) ==
  \A j \in J : n <= j.next /\ \E o \in JobsFor(list, 0, 0) : IsJobOf(base, j, o)

PoolFits(list, base, n, S, P) ==
  \A t \in P : \E o \in JobsFor(list, 0, 0) : IsInstanceOf(list, n - base, S[t.control], t, o)

\* The job j does a to the word of the i-th command, for its phase among others.
Serves(list, j, i, a) ==
  j.action = a /\ j.control = list[i].control /\ list[i].phase \in j.phases

GroupEnd(list, i) == FirstEnd(list, GroupOf(list, "startTime", i))

Repeats(list, base, j, i) == Serves(list, j, i, TRUE) /\ j.end = base + GroupEnd(list, i)

\* A command will be activated at its start; after that it will be again within the
\* refresh period, or else its group ends within it.
StartsKnown(list, base, n, J) ==
  \A i \in DOMAIN list :
    \/ \E j \in J :
         /\ Repeats(list, base, j, i)
         /\ IF list[i].startTime > n - base THEN j.next = base + list[i].startTime
            ELSE j.next <= n + RefreshPeriod
    \/ list[i].startTime <= n - base /\ base + GroupEnd(list, i) < n + RefreshPeriod

\* A command that goes on will be deactivated at its end.
EndsKnown(list, base, n, J) ==
  \A i \in DOMAIN list :
    n - base < list[i].endTime =>
      \E j \in J : Serves(list, j, i, FALSE) /\ j.next = base + list[i].endTime

\* The commands of a control that have started and go on.
ActiveAt(list, at, c) ==
  {i \in DOMAIN list : list[i].control = c /\ list[i].startTime <= at /\ at < list[i].endTime}

\* The i-th command is about to be activated, or deactivated.
Doing(list, n, J, P, i, a) ==
  \/ \E j \in J : Serves(list, j, i, a) /\ j.next = n
  \/ \E t \in P : t.action = a /\ t.control = list[i].control /\ list[i].phase \in t.todo

\* A SET of the control is to come at this time.
Busy(n, J, P, c) == (\E j \in J : j.control = c /\ j.next = n) \/ (\E t \in P : t.control = c)

\* The last SET is recent enough to last until the next refresh, or the end of the group.
Fresh(list, base, J, last, i) ==
  \/ \E j \in J : Repeats(list, base, j, i) /\ j.next <= last + RefreshPeriod
  \/ base + GroupEnd(list, i) < last + RefreshPeriod

BitsOn(list, base, n, B, J, P, c) ==
  \A i \in ActiveAt(list, n - base, c) : list[i].phase \in B \/ Doing(list, n, J, P, i, TRUE)

ValuesOn(list, base, n, P, c) ==
  \A t \in P : t.control = c /\ t.pc = "send" =>
    \A i \in ActiveAt(list, n - base, c) : list[i].phase \in t.value

WordOn(list, base, n, last, W, J, P, c) ==
  \A i \in ActiveAt(list, n - base, c) :
    n - base < GroupEnd(list, i) =>
      Busy(n, J, P, c) \/ (list[i].phase \in W /\ Fresh(list, base, J, last, i))

\* A bit that is set is of a command that goes on, or that ends now and is about to be
\* deactivated.
BitsOff(list, base, n, B, J, P, c) ==
  \A p \in B : \E i \in DOMAIN list :
    /\ list[i].control = c /\ list[i].phase = p /\ list[i].startTime <= n - base
    /\ \/ n - base < list[i].endTime
       \/ n - base = list[i].endTime /\ Doing(list, n, J, P, i, FALSE)

ValuesOff(list, base, n, P, c) ==
  \A t \in P : t.control = c /\ t.pc = "send" =>
    \A p \in t.value : \E i \in ActiveAt(list, n - base, c) : list[i].phase = p

WordOff(list, base, n, W, J, P, c) ==
  Busy(n, J, P, c) \/ \A p \in W : \E i \in ActiveAt(list, n - base, c) : list[i].phase = p

-----------------------------------------------------------------------------
(* Instances of a tame control *)

\* Two instances of a tame control, or an instance and a job that is due, do the same.
LEMMA TameTogether ==
  ASSUME NEW list, NEW c, Tame(list, c), NEW at,
         NEW o \in JobsFor(list, 0, 0), NEW q \in JobsFor(list, 0, 0),
         o.control = c, q.control = c, at \in FireTimes(o), at \in FireTimes(q)
  PROVE  o.action = q.action /\ o.phases = q.phases
BY TameJobs

\* What does the opposite of an instance of a tame control is not due.
LEMMA NoOpposite ==
  ASSUME NEW list, NEW c, Tame(list, c), NEW at,
         NEW o \in JobsFor(list, 0, 0), o.control = c, at \in FireTimes(o), NEW a, a # o.action
  PROVE  ~FiringAt(list, at, c, a)
BY TameJobs DEF FiringAt

\* The job of the store that is due has an origin that falls due now.
LEMMA DueOrigin ==
  ASSUME NEW list, NEW base \in Nat, NEW n \in Nat, IsScheduleList(list),
         NEW j, NEW o \in JobsFor(list, 0, 0), IsJobOf(base, j, o), j.next = n
  PROVE  n - base \in FireTimes(o)
<1>1. PICK f \in FireTimes(o) : j.next = base + f
  BY DEF IsJobOf
<1>2. f \in Nat
  BY JobOfList, FireTimeRange
<1>3. f = n - base
  BY <1>1, <1>2
<1>4. QED
  BY <1>3

\* No bit of a tame control is taken back while its command goes on.
LEMMA NoEarlyEnd ==
  ASSUME NEW list, IsScheduleList(list), NEW c, Tame(list, c), NEW at \in Int,
         NEW o \in JobsFor(list, 0, 0), o.control = c, o.action = FALSE, at \in FireTimes(o),
         NEW i \in ActiveAt(list, at, c), list[i].phase \in o.phases
  PROVE  FALSE
<1>1. o.next \in Nat /\ o.end \in Nat /\ at <= o.end /\ o.next <= at
  BY JobOfList, FireTimeRange
<1>2. PICK k \in DOMAIN list : /\ list[k].control = c /\ list[k].phase = list[i].phase
                               /\ list[k].endTime = o.next /\ list[k].endTime = o.end
  BY JobOfList
<1>3. /\ i \in DOMAIN list /\ list[i].control = c
      /\ list[i].startTime <= at /\ at < list[i].endTime
  BY DEF ActiveAt
<1>4. /\ list[i].startTime \in Nat /\ list[i].endTime \in Nat
      /\ list[k].startTime \in Nat /\ list[k].endTime \in Nat /\ list[k].startTime < list[k].endTime
  BY <1>3, CommandOfList
<1>5. list[k].endTime = at
  BY <1>1, <1>2, <1>4
<1>6. i # k
  BY <1>3, <1>4, <1>5
<1>7. list[i].endTime < list[k].startTime \/ list[k].endTime < list[i].startTime
  BY <1>2, <1>3, <1>6 DEF Tame
<1>8. QED
  BY <1>3, <1>4, <1>5, <1>7

-----------------------------------------------------------------------------
(* The clock ticks: nothing is due, and no thread runs *)

LEMMA TickJobs ==
  ASSUME NEW list, NEW base \in Nat, NEW n \in Nat, NEW J, IsScheduleList(list),
         JobsFit(list, base, n, J), \A j \in J : ~(j.next <= n)
  PROVE  /\ JobsFit(list, base, n + 1, J)
         /\ StartsKnown(list, base, n, J) => StartsKnown(list, base, n + 1, J)
         /\ EndsKnown(list, base, n, J) => EndsKnown(list, base, n + 1, J)
<1>1. \A j \in J : j.next \in Nat
  <2>1. SUFFICES ASSUME NEW j \in J
                 PROVE  j.next \in Nat
    OBVIOUS
  <2>2. PICK o \in JobsFor(list, 0, 0) : IsJobOf(base, j, o)
    BY DEF JobsFit
  <2>3. PICK f \in FireTimes(o) : j.next = base + f
    BY <2>2 DEF IsJobOf
  <2>4. f \in Nat
    BY JobOfList, FireTimeRange
  <2>5. QED
    BY <2>3, <2>4
<1>2. \A i \in DOMAIN list : /\ list[i].startTime \in Nat /\ list[i].endTime \in Nat
                             /\ GroupEnd(list, i) \in Nat
  BY CommandOfList, FirstEndIsLeast DEF GroupEnd
<1>3. RefreshPeriod \in Nat
  BY RefreshPeriodType
<1>4. JobsFit(list, base, n + 1, J)
  BY <1>1 DEF JobsFit
<1>5. ASSUME StartsKnown(list, base, n, J), NEW i \in DOMAIN list
      PROVE  \/ \E j \in J :
                  /\ Repeats(list, base, j, i)
                  /\ IF list[i].startTime > (n + 1) - base THEN j.next = base + list[i].startTime
                     ELSE j.next <= (n + 1) + RefreshPeriod
             \/ list[i].startTime <= (n + 1) - base /\ base + GroupEnd(list, i) < (n + 1) + RefreshPeriod
  <2>1. CASE \E j \in J : /\ Repeats(list, base, j, i)
                          /\ IF list[i].startTime > n - base THEN j.next = base + list[i].startTime
                             ELSE j.next <= n + RefreshPeriod
    <3>1. PICK j \in J : /\ Repeats(list, base, j, i)
                         /\ IF list[i].startTime > n - base THEN j.next = base + list[i].startTime
                            ELSE j.next <= n + RefreshPeriod
      BY <2>1
    <3>2. IF list[i].startTime > (n + 1) - base THEN j.next = base + list[i].startTime
          ELSE j.next <= (n + 1) + RefreshPeriod
      BY <1>1, <1>2, <1>3, <3>1
    <3>3. QED
      BY <3>1, <3>2
  <2>2. CASE list[i].startTime <= n - base /\ base + GroupEnd(list, i) < n + RefreshPeriod
    BY <1>2, <1>3, <2>2
  <2>3. QED
    BY <1>5, <2>1, <2>2 DEF StartsKnown
<1>6. ASSUME EndsKnown(list, base, n, J), NEW i \in DOMAIN list, (n + 1) - base < list[i].endTime
      PROVE  \E j \in J : Serves(list, j, i, FALSE) /\ j.next = base + list[i].endTime
  <2>1. n - base < list[i].endTime
    BY <1>2, <1>6
  <2>2. QED
    BY <1>6, <2>1 DEF EndsKnown
<1>7. QED
  BY <1>4, <1>5, <1>6 DEF StartsKnown, EndsKnown

LEMMA TickOn ==
  ASSUME NEW list, NEW base \in Nat, NEW n \in Nat, NEW last \in Nat, NEW J, IsScheduleList(list),
         JobsFit(list, base, n, J), \A j \in J : ~(j.next <= n),
         StartsKnown(list, base, n, J), NEW B, NEW W, NEW c,
         BitsOn(list, base, n, B, J, {}, c), WordOn(list, base, n, last, W, J, {}, c)
  PROVE  /\ BitsOn(list, base, n + 1, B, J, {}, c)
         /\ ValuesOn(list, base, n + 1, {}, c)
         /\ WordOn(list, base, n + 1, last, W, J, {}, c)
<1>1. \A j \in J : j.next # n
  BY DEF JobsFit
<1>2. \A i \in DOMAIN list : /\ list[i].startTime \in Nat /\ list[i].endTime \in Nat
                             /\ GroupEnd(list, i) \in Nat
  BY CommandOfList, FirstEndIsLeast DEF GroupEnd
<1>3. ASSUME NEW i \in ActiveAt(list, (n + 1) - base, c), i \notin ActiveAt(list, n - base, c)
      PROVE  \E j \in J : Serves(list, j, i, TRUE) /\ j.next = n + 1
  <2>1. i \in DOMAIN list /\ list[i].startTime > n - base /\ list[i].startTime = (n + 1) - base
    BY <1>2, <1>3 DEF ActiveAt
  <2>2. PICK j \in J : Repeats(list, base, j, i) /\ j.next = base + list[i].startTime
    BY <1>2, <2>1 DEF StartsKnown
  <2>3. list[i].startTime \in Nat
    BY <1>2, <2>1
  <2>4. base + list[i].startTime = n + 1
    BY <2>1, <2>3
  <2>5. QED
    BY <2>2, <2>4 DEF Repeats
<1>4. ASSUME NEW i \in ActiveAt(list, (n + 1) - base, c)
      PROVE  list[i].phase \in B \/ Doing(list, n + 1, J, {}, i, TRUE)
  <2>1. CASE i \in ActiveAt(list, n - base, c)
    BY <1>1, <2>1 DEF BitsOn, Doing
  <2>2. CASE i \notin ActiveAt(list, n - base, c)
    BY <1>3, <2>2 DEF Doing
  <2>3. QED
    BY <2>1, <2>2
<1>5. ASSUME NEW i \in ActiveAt(list, (n + 1) - base, c), (n + 1) - base < GroupEnd(list, i)
      PROVE  Busy(n + 1, J, {}, c) \/ (list[i].phase \in W /\ Fresh(list, base, J, last, i))
  <2>1. CASE i \in ActiveAt(list, n - base, c)
    <3>1. n - base < GroupEnd(list, i)
      BY <1>2, <1>5 DEF ActiveAt
    <3>2. ~Busy(n, J, {}, c)
      BY <1>1 DEF Busy
    <3>3. QED
      BY <2>1, <3>1, <3>2 DEF WordOn
  <2>2. CASE i \notin ActiveAt(list, n - base, c)
    BY <1>3, <2>2 DEF Busy, Serves, ActiveAt
  <2>3. QED
    BY <2>1, <2>2
<1>6. QED
  BY <1>4, <1>5 DEF BitsOn, ValuesOn, WordOn

LEMMA TickOff ==
  ASSUME NEW list, NEW base \in Nat, NEW n \in Nat, NEW J, IsScheduleList(list),
         JobsFit(list, base, n, J), \A j \in J : ~(j.next <= n),
         EndsKnown(list, base, n, J), NEW B, NEW W, NEW c,
         BitsOff(list, base, n, B, J, {}, c), WordOff(list, base, n, W, J, {}, c)
  PROVE  /\ BitsOff(list, base, n + 1, B, J, {}, c)
         /\ ValuesOff(list, base, n + 1, {}, c)
         /\ WordOff(list, base, n + 1, W, J, {}, c)
<1>1. \A j \in J : j.next # n
  BY DEF JobsFit
<1>2. \A i \in DOMAIN list : list[i].startTime \in Nat /\ list[i].endTime \in Nat
  BY CommandOfList
<1>3. ASSUME NEW i \in DOMAIN list, n - base < list[i].endTime, ~((n + 1) - base < list[i].endTime)
      PROVE  /\ (n + 1) - base = list[i].endTime
             /\ \E j \in J : Serves(list, j, i, FALSE) /\ j.next = n + 1
  <2>1. (n + 1) - base = list[i].endTime
    BY <1>2, <1>3
  <2>2. PICK j \in J : Serves(list, j, i, FALSE) /\ j.next = base + list[i].endTime
    BY <1>3 DEF EndsKnown
  <2>3. base + list[i].endTime = n + 1
    <3>1. list[i].endTime \in Nat
      BY <1>2, <1>3
    <3>2. QED
      BY <2>1, <3>1
  <2>4. QED
    BY <2>1, <2>2, <2>3
<1>4. ASSUME NEW p \in B
      PROVE  \E i \in DOMAIN list :
               /\ list[i].control = c /\ list[i].phase = p /\ list[i].startTime <= (n + 1) - base
               /\ \/ (n + 1) - base < list[i].endTime
                  \/ (n + 1) - base = list[i].endTime /\ Doing(list, n + 1, J, {}, i, FALSE)
  <2>1. PICK i \in DOMAIN list :
               /\ list[i].control = c /\ list[i].phase = p /\ list[i].startTime <= n - base
               /\ \/ n - base < list[i].endTime
                  \/ n - base = list[i].endTime /\ Doing(list, n, J, {}, i, FALSE)
    BY DEF BitsOff
  <2>2. ~Doing(list, n, J, {}, i, FALSE)
    BY <1>1 DEF Doing
  <2>3. list[i].startTime \in Nat /\ list[i].endTime \in Nat
    BY <1>2
  <2>4. n - base < list[i].endTime /\ list[i].startTime <= (n + 1) - base
    <3>1. n - base < list[i].endTime
      BY <2>1, <2>2, Zenon
    <3>2. list[i].startTime <= n - base
      BY <2>1, Zenon
    <3>3. QED
      BY <2>3, <3>1, <3>2
  <2>5. CASE (n + 1) - base < list[i].endTime
    BY <2>1, <2>4, <2>5
  <2>6. CASE ~((n + 1) - base < list[i].endTime)
    <3>1. Doing(list, n + 1, J, {}, i, FALSE)
      BY <1>3, <2>4, <2>6 DEF Doing
    <3>2. QED
      BY <1>3, <2>1, <2>4, <2>6, <3>1
  <2>7. QED
    BY <2>5, <2>6
<1>5. WordOff(list, base, n + 1, W, J, {}, c)
  <2>1. ~Busy(n, J, {}, c)
    BY <1>1 DEF Busy
  <2>2. SUFFICES ASSUME ~Busy(n + 1, J, {}, c), NEW p \in W
                 PROVE  \E i \in ActiveAt(list, (n + 1) - base, c) : list[i].phase = p
    BY DEF WordOff
  <2>3. PICK i \in ActiveAt(list, n - base, c) : list[i].phase = p
    BY <2>1, <2>2 DEF WordOff
  <2>4. /\ i \in DOMAIN list /\ list[i].control = c /\ list[i].startTime <= (n + 1) - base
        /\ n - base < list[i].endTime
    BY <1>2, <2>3 DEF ActiveAt
  <2>5. (n + 1) - base < list[i].endTime
    BY <1>3, <2>2, <2>4 DEF Busy, Serves
  <2>6. QED
    BY <2>3, <2>4, <2>5 DEF ActiveAt
<1>6. QED
  BY <1>4, <1>5 DEF BitsOff, ValuesOff

-----------------------------------------------------------------------------
(* A job that is due is handed to the pool *)

\* J1 is the store without the job j, or with j at its next time; u is the new instance.
Submitted(J, J1, j, u) ==
  /\ J1 = IF j.action /\ j.next + RefreshPeriod <= j.end
          THEN (J \ {j}) \cup {[j EXCEPT !.next = j.next + RefreshPeriod]} ELSE J \ {j}
  /\ u.control = j.control /\ u.action = j.action /\ u.todo = j.phases /\ u.pc = "bits"

\* A job that is due is due at this very time, and is one of the list's.
LEMMA DueNow ==
  ASSUME NEW list, NEW base \in Nat, NEW n \in Nat, NEW J, IsScheduleList(list),
         JobsFit(list, base, n, J), NEW j \in J, j.next <= n
  PROVE  /\ j.next = n
         /\ \E o \in JobsFor(list, 0, 0) :
              /\ o.control = j.control /\ o.action = j.action /\ o.phases = j.phases
              /\ n - base \in FireTimes(o)
<1>1. PICK o \in JobsFor(list, 0, 0) : IsJobOf(base, j, o)
  BY DEF JobsFit
<1>2. PICK f \in FireTimes(o) : j.next = base + f
  BY <1>1 DEF IsJobOf
<1>3. f \in Nat
  BY JobOfList, FireTimeRange
<1>4. n <= j.next
  BY DEF JobsFit
<1>5. j.next = n
  BY <1>2, <1>3, <1>4
<1>6. n - base \in FireTimes(o)
  BY <1>1, <1>5, DueOrigin
<1>7. QED
  BY <1>1, <1>5, <1>6 DEF IsJobOf

LEMMA SubmitFits ==
  ASSUME NEW list, NEW base \in Nat, NEW n \in Nat, NEW J, IsScheduleList(list),
         JobsFit(list, base, n, J), NEW j \in J, j.next <= n,
         DOMAIN j = {"id", "control", "action", "phases", "next", "end"},
         NEW J1, NEW u, Submitted(J, J1, j, u)
  PROVE  /\ j.next = n /\ JobsFit(list, base, n, J1)
         /\ StartsKnown(list, base, n, J) => StartsKnown(list, base, n, J1)
         /\ EndsKnown(list, base, n, J) => EndsKnown(list, base, n, J1)
<1> DEFINE again == j.next + RefreshPeriod
           k == [j EXCEPT !.next = again]
<1>1. PICK o \in JobsFor(list, 0, 0) : IsJobOf(base, j, o)
  BY DEF JobsFit
<1>2. /\ o.next \in Nat /\ o.end \in Nat /\ o.next <= o.end /\ RefreshPeriod \in Nat
      /\ RefreshPeriod >= 1
  BY JobOfList, RefreshPeriodType
<1>3. PICK f \in FireTimes(o) : j.next = base + f
  BY <1>1 DEF IsJobOf
<1>4. f \in Nat /\ j.next \in Nat /\ j.end = base + o.end /\ j.end \in Nat
  BY <1>1, <1>2, <1>3, FireTimeRange DEF IsJobOf
<1>5. j.next = n
  BY DueNow
<1>7. /\ k.control = j.control /\ k.action = j.action /\ k.phases = j.phases
      /\ k.end = j.end /\ k.next = again
  OBVIOUS
<1> HIDE DEF k
<1>8. again = n + RefreshPeriod /\ again \in Nat /\ n <= again
  BY <1>2, <1>5
<1>9. ASSUME again <= j.end
      PROVE  IsJobOf(base, k, o)
  <2>1. f + RefreshPeriod <= o.end
    BY <1>2, <1>3, <1>4, <1>9
  <2>2. f + RefreshPeriod \in FireTimes(o)
    BY <1>2, <2>1, FiresAgain
  <2>3. k.next = base + (f + RefreshPeriod)
    BY <1>2, <1>3, <1>4, <1>7
  <2>4. QED
    BY <1>1, <1>7, <2>2, <2>3 DEF IsJobOf
<1>10. \A l \in J1 : l \in J \/ (l = k /\ again <= j.end)
  BY DEF Submitted, k
<1>11. \A l \in J : l # j => l \in J1
  BY DEF Submitted
<1>12. j.action /\ again <= j.end => k \in J1
  BY DEF Submitted, k
<1> HIDE DEF again
<1>13. JobsFit(list, base, n, J1)
  BY <1>7, <1>8, <1>9, <1>10 DEF JobsFit
<1>14. ASSUME StartsKnown(list, base, n, J), NEW i \in DOMAIN list
       PROVE  \/ \E l \in J1 :
                   /\ Repeats(list, base, l, i)
                   /\ IF list[i].startTime > n - base THEN l.next = base + list[i].startTime
                      ELSE l.next <= n + RefreshPeriod
              \/ list[i].startTime <= n - base /\ base + GroupEnd(list, i) < n + RefreshPeriod
  <2>0. list[i].startTime \in Nat
    BY CommandOfList
  <2>1. CASE \E l \in J : /\ l # j /\ Repeats(list, base, l, i)
                          /\ IF list[i].startTime > n - base THEN l.next = base + list[i].startTime
                             ELSE l.next <= n + RefreshPeriod
    BY <1>11, <2>1
  <2>2. CASE /\ Repeats(list, base, j, i)
             /\ IF list[i].startTime > n - base THEN j.next = base + list[i].startTime
                ELSE j.next <= n + RefreshPeriod
    <3>1. j.action = TRUE /\ j.end = base + GroupEnd(list, i)
      BY <2>2 DEF Repeats, Serves
    <3>2. ~(list[i].startTime > n - base)
      BY <1>5, <2>0, <2>2
    <3>3. CASE again <= j.end
      <4>1. k \in J1 /\ Repeats(list, base, k, i)
        BY <1>7, <1>12, <2>2, <3>1, <3>3 DEF Repeats, Serves
      <4>2. k.next <= n + RefreshPeriod
        BY <1>7, <1>8
      <4>3. QED
        BY <3>2, <4>1, <4>2
    <3>4. CASE ~(again <= j.end)
      <4>1. base + GroupEnd(list, i) < n + RefreshPeriod
        BY <1>4, <1>8, <3>1, <3>4
      <4>2. list[i].startTime <= n - base
        BY <2>0, <3>2
      <4>3. QED
        BY <4>1, <4>2
    <3>5. QED
      BY <3>3, <3>4
  <2>3. CASE list[i].startTime <= n - base /\ base + GroupEnd(list, i) < n + RefreshPeriod
    BY <2>3
  <2>4. QED
    BY <1>14, <2>1, <2>2, <2>3 DEF StartsKnown
<1>15. ASSUME EndsKnown(list, base, n, J), NEW i \in DOMAIN list, n - base < list[i].endTime
       PROVE  \E l \in J1 : Serves(list, l, i, FALSE) /\ l.next = base + list[i].endTime
  <2>1. PICK l \in J : Serves(list, l, i, FALSE) /\ l.next = base + list[i].endTime
    BY <1>15 DEF EndsKnown
  <2>2. list[i].endTime \in Nat
    BY CommandOfList
  <2>3. l # j
    BY <1>5, <1>15, <2>1, <2>2
  <2>4. QED
    BY <1>11, <2>1, <2>3
<1>17. StartsKnown(list, base, n, J) => StartsKnown(list, base, n, J1)
  BY <1>14 DEF StartsKnown
<1>18. EndsKnown(list, base, n, J) => EndsKnown(list, base, n, J1)
  BY <1>15 DEF EndsKnown
<1>19. QED
  BY <1>5, <1>13, <1>17, <1>18

\* The new instance has all of its bits to write.
LEMMA SubmitPool ==
  ASSUME NEW list, NEW base \in Nat, NEW n \in Nat, NEW J, IsScheduleList(list),
         JobsFit(list, base, n, J), NEW j \in J, j.next <= n,
         DOMAIN j = {"id", "control", "action", "phases", "next", "end"},
         NEW J1, NEW u, Submitted(J, J1, j, u),
         NEW S, NEW P, PoolFits(list, base, n, S, P)
  PROVE  PoolFits(list, base, n, S, P \cup {u})
<1>1. PICK o \in JobsFor(list, 0, 0) :
              /\ o.control = j.control /\ o.action = j.action /\ o.phases = j.phases
              /\ n - base \in FireTimes(o)
  BY DueNow
<1>2. /\ u.control = o.control /\ u.action = o.action /\ u.todo = o.phases /\ u.pc # "send"
  BY <1>1 DEF Submitted
<1>3. o.phases \ u.todo = {} /\ u.todo \subseteq o.phases
  BY <1>2
<1>4. IsInstanceOf(list, n - base, S[u.control], u, o)
  BY <1>1, <1>2, <1>3 DEF IsInstanceOf
<1>5. QED
  BY <1>4 DEF PoolFits

\* What the job was about to do is now the new instance's to do.
LEMMA SubmitDoing ==
  ASSUME NEW list, NEW n, NEW J, NEW j \in J, j.next = n, NEW J1, NEW u, Submitted(J, J1, j, u),
         NEW P
  PROVE  /\ \A i, a : Doing(list, n, J, P, i, a) => Doing(list, n, J1, P \cup {u}, i, a)
         /\ \A c : Busy(n, J, P, c) => Busy(n, J1, P \cup {u}, c)
         /\ \A base, last, i : Fresh(list, base, J, last, i) =>
              \/ Fresh(list, base, J1, last, i)
              \/ Busy(n, J1, P \cup {u}, list[i].control)
<1>1. \A l \in J : l # j => l \in J1
  BY DEF Submitted
<1>2. u.control = j.control /\ u.action = j.action /\ u.todo = j.phases /\ u \in P \cup {u}
  BY DEF Submitted
<1>3. ASSUME NEW i, NEW a, Doing(list, n, J, P, i, a)
      PROVE  Doing(list, n, J1, P \cup {u}, i, a)
  <2>1. CASE \E l \in J : l # j /\ Serves(list, l, i, a) /\ l.next = n
    BY <1>1, <2>1 DEF Doing
  <2>2. CASE Serves(list, j, i, a)
    BY <1>2, <2>2 DEF Doing, Serves
  <2>3. CASE \E t \in P : t.action = a /\ t.control = list[i].control /\ list[i].phase \in t.todo
    BY <2>3 DEF Doing
  <2>4. QED
    BY <1>3, <2>1, <2>2, <2>3 DEF Doing
<1>4. ASSUME NEW c, Busy(n, J, P, c)
      PROVE  Busy(n, J1, P \cup {u}, c)
  BY <1>1, <1>2, <1>4 DEF Busy
<1>5. ASSUME NEW base, NEW last, NEW i, Fresh(list, base, J, last, i)
      PROVE  Fresh(list, base, J1, last, i) \/ Busy(n, J1, P \cup {u}, list[i].control)
  <2>1. CASE \E l \in J : l # j /\ Repeats(list, base, l, i) /\ l.next <= last + RefreshPeriod
    BY <1>1, <2>1 DEF Fresh
  <2>2. CASE Repeats(list, base, j, i)
    BY <1>2, <2>2 DEF Repeats, Serves, Busy
  <2>3. CASE base + GroupEnd(list, i) < last + RefreshPeriod
    BY <2>3 DEF Fresh
  <2>4. QED
    BY <1>5, <2>1, <2>2, <2>3 DEF Fresh
<1>6. QED
  BY <1>3, <1>4, <1>5

LEMMA SubmitOn ==
  ASSUME NEW list, NEW base, NEW n, NEW last, NEW J, NEW j \in J, j.next = n, NEW J1, NEW u,
         Submitted(J, J1, j, u), NEW P, NEW B, NEW W, NEW c,
         BitsOn(list, base, n, B, J, P, c), ValuesOn(list, base, n, P, c),
         WordOn(list, base, n, last, W, J, P, c)
  PROVE  /\ BitsOn(list, base, n, B, J1, P \cup {u}, c)
         /\ ValuesOn(list, base, n, P \cup {u}, c)
         /\ WordOn(list, base, n, last, W, J1, P \cup {u}, c)
<1>1. BitsOn(list, base, n, B, J1, P \cup {u}, c)
  BY SubmitDoing, Zenon DEF BitsOn
<1>2. ValuesOn(list, base, n, P \cup {u}, c)
  BY DEF ValuesOn, Submitted
<1>3. ASSUME NEW i \in ActiveAt(list, n - base, c), n - base < GroupEnd(list, i)
      PROVE  Busy(n, J1, P \cup {u}, c) \/ (list[i].phase \in W /\ Fresh(list, base, J1, last, i))
  <2>1. list[i].control = c
    BY DEF ActiveAt
  <2>2. CASE Busy(n, J, P, c)
    BY <2>2, SubmitDoing, Zenon
  <2>3. CASE list[i].phase \in W /\ Fresh(list, base, J, last, i)
    <3>1. Fresh(list, base, J1, last, i) \/ Busy(n, J1, P \cup {u}, list[i].control)
      BY <2>3, SubmitDoing, Zenon
    <3>2. QED
      BY <2>1, <2>3, <3>1
  <2>4. QED
    BY <1>3, <2>2, <2>3 DEF WordOn
<1>4. QED
  BY <1>1, <1>2, <1>3 DEF WordOn

LEMMA SubmitOff ==
  ASSUME NEW list, NEW base, NEW n, NEW J, NEW j \in J, j.next = n, NEW J1, NEW u,
         Submitted(J, J1, j, u), NEW P, NEW B, NEW W, NEW c,
         BitsOff(list, base, n, B, J, P, c), ValuesOff(list, base, n, P, c),
         WordOff(list, base, n, W, J, P, c)
  PROVE  /\ BitsOff(list, base, n, B, J1, P \cup {u}, c)
         /\ ValuesOff(list, base, n, P \cup {u}, c)
         /\ WordOff(list, base, n, W, J1, P \cup {u}, c)
<1>1. BitsOff(list, base, n, B, J1, P \cup {u}, c)
  <2>1. ASSUME NEW i, Doing(list, n, J, P, i, FALSE)
        PROVE  Doing(list, n, J1, P \cup {u}, i, FALSE)
    BY <2>1, SubmitDoing, Zenon
  <2>2. QED
    BY <2>1, Zenon DEF BitsOff
<1>2. ValuesOff(list, base, n, P \cup {u}, c)
  BY DEF ValuesOff, Submitted
<1>3. WordOff(list, base, n, W, J1, P \cup {u}, c)
  BY SubmitDoing, Zenon DEF WordOff
<1>4. QED
  BY <1>1, <1>2, <1>3

-----------------------------------------------------------------------------
(* An instance writes a bit *)

\* u is the instance t with the bit p written; B1 are the control's bits then.
Written(t, u, p, B, B1) ==
  /\ p \in t.todo
  /\ u.control = t.control /\ u.action = t.action /\ u.todo = t.todo \ {p}
  /\ u.pc = t.pc /\ u.value = t.value
  /\ B1 = IF t.action THEN B \cup {p} ELSE B \ {p}

\* Whose bits the other instances write with it.
LEMMA WriteFits ==
  ASSUME NEW list, NEW at, IsScheduleList(list), NEW B, NEW B1, NEW t, NEW u, NEW p,
         Written(t, u, p, B, B1),
         NEW o \in JobsFor(list, 0, 0), IsInstanceOf(list, at, B, t, o)
  PROVE  /\ IsInstanceOf(list, at, B1, u, o)
         /\ \A v, q : v.control = t.control /\ IsInstanceOf(list, at, B, v, q)
                        => IsInstanceOf(list, at, B1, v, q)
<1>1. t.action \in BOOLEAN /\ t.action = o.action /\ o.control = t.control
  BY JobOfList DEF IsInstanceOf
<1>2. FiringAt(list, at, t.control, t.action)
  <2>1. o.control = t.control /\ o.action = t.action /\ at \in FireTimes(o)
    BY DEF IsInstanceOf
  <2>2. QED
    BY <2>1 DEF FiringAt
<1>3. CASE t.action = TRUE
  <2>1. B1 = B \cup {p} /\ FiringAt(list, at, t.control, TRUE)
    BY <1>2, <1>3 DEF Written
  <2>2. IsInstanceOf(list, at, B1, u, o)
    BY <1>3, <2>1 DEF IsInstanceOf, Written
  <2>3. ASSUME NEW v, NEW q, v.control = t.control, IsInstanceOf(list, at, B, v, q)
        PROVE  IsInstanceOf(list, at, B1, v, q)
    BY <2>1, <2>3 DEF IsInstanceOf
  <2>4. QED
    BY <2>2, <2>3
<1>4. CASE t.action = FALSE
  <2>1. B1 = B \ {p} /\ FiringAt(list, at, t.control, FALSE)
    BY <1>2, <1>4 DEF Written
  <2>2. IsInstanceOf(list, at, B1, u, o)
    BY <1>4, <2>1 DEF IsInstanceOf, Written
  <2>3. ASSUME NEW v, NEW q, v.control = t.control, IsInstanceOf(list, at, B, v, q)
        PROVE  IsInstanceOf(list, at, B1, v, q)
    BY <2>1, <2>3 DEF IsInstanceOf
  <2>4. QED
    BY <2>2, <2>3
<1>5. QED
  BY <1>1, <1>3, <1>4

\* An instance of a schedule in force is of one of the six controls.
LEMMA InstanceControl ==
  ASSUME NEW list, IsScheduleList(list), NEW base, NEW n, NEW S, NEW P, PoolFits(list, base, n, S, P),
         NEW t \in P
  PROVE  t.control \in Control
BY JobOfList DEF PoolFits, IsInstanceOf

\* The other controls' instances do not change.
LEMMA WritePool ==
  ASSUME NEW list, NEW base, NEW n, IsScheduleList(list), NEW S, NEW S1, NEW P, NEW t \in P, NEW u, NEW p,
         PoolFits(list, base, n, S, P), Written(t, u, p, S[t.control], S1[t.control]),
         \A c \in Control : c # t.control => S1[c] = S[c]
  PROVE  PoolFits(list, base, n, S1, (P \ {t}) \cup {u})
<1>1. PICK o \in JobsFor(list, 0, 0) : IsInstanceOf(list, n - base, S[t.control], t, o)
  BY DEF PoolFits
<1>2. /\ IsInstanceOf(list, n - base, S1[t.control], u, o)
      /\ \A v, q : v.control = t.control /\ IsInstanceOf(list, n - base, S[t.control], v, q)
           => IsInstanceOf(list, n - base, S1[t.control], v, q)
  BY <1>1, WriteFits
<1>3. u.control = t.control
  BY DEF Written
<1>4. ASSUME NEW v \in P
      PROVE  \E q \in JobsFor(list, 0, 0) : IsInstanceOf(list, n - base, S1[v.control], v, q)
  <2>1. PICK q \in JobsFor(list, 0, 0) : IsInstanceOf(list, n - base, S[v.control], v, q)
    BY DEF PoolFits
  <2>2. CASE v.control = t.control
    BY <1>2, <2>1, <2>2
  <2>3. CASE v.control # t.control
    BY <2>1, <2>3, InstanceControl
  <2>4. QED
    BY <2>2, <2>3
<1>5. QED
  BY <1>2, <1>3, <1>4 DEF PoolFits

LEMMA WriteBusy ==
  ASSUME NEW n, NEW J, NEW P, NEW t \in P, NEW u, NEW p, NEW B, NEW B1, Written(t, u, p, B, B1), NEW c
  PROVE  Busy(n, J, (P \ {t}) \cup {u}, c) <=> Busy(n, J, P, c)
BY DEF Busy, Written

\* What was to be done is still to be done, except for the bit that was written.
LEMMA WriteDoing ==
  ASSUME NEW list, NEW n, NEW J, NEW P, NEW t \in P, NEW u, NEW p, NEW B, NEW B1,
         Written(t, u, p, B, B1)
  PROVE  \A i, a : Doing(list, n, J, P, i, a) =>
           \/ Doing(list, n, J, (P \ {t}) \cup {u}, i, a)
           \/ t.action = a /\ t.control = list[i].control /\ list[i].phase = p
<1>1. SUFFICES ASSUME NEW i, NEW a, Doing(list, n, J, P, i, a)
               PROVE  \/ Doing(list, n, J, (P \ {t}) \cup {u}, i, a)
                      \/ t.action = a /\ t.control = list[i].control /\ list[i].phase = p
  OBVIOUS
<1>2. CASE \E l \in J : Serves(list, l, i, a) /\ l.next = n
  BY <1>2 DEF Doing
<1>3. CASE \E v \in P : v # t /\ v.action = a /\ v.control = list[i].control /\ list[i].phase \in v.todo
  BY <1>3 DEF Doing
<1>4. CASE t.action = a /\ t.control = list[i].control /\ list[i].phase \in t.todo
  BY <1>4 DEF Doing, Written
<1>5. QED
  BY <1>1, <1>2, <1>3, <1>4 DEF Doing

LEMMA WriteOn ==
  ASSUME NEW list, NEW base \in Nat, NEW n \in Nat, NEW last, NEW J, IsScheduleList(list),
         NEW P, NEW t \in P, NEW u, NEW p, NEW B, NEW B1, NEW W, Written(t, u, p, B, B1),
         NEW o \in JobsFor(list, 0, 0), IsInstanceOf(list, n - base, B, t, o),
         Tame(list, t.control),
         BitsOn(list, base, n, B, J, P, t.control), ValuesOn(list, base, n, P, t.control),
         WordOn(list, base, n, last, W, J, P, t.control)
  PROVE  LET P1 == (P \ {t}) \cup {u}
         IN  /\ BitsOn(list, base, n, B1, J, P1, t.control)
             /\ ValuesOn(list, base, n, P1, t.control)
             /\ WordOn(list, base, n, last, W, J, P1, t.control)
<1> DEFINE P1 == (P \ {t}) \cup {u}
           c == t.control
<1>1. /\ o.control = c /\ o.action = t.action /\ t.todo \subseteq o.phases
      /\ n - base \in FireTimes(o) /\ t.pc # "send"
  BY DEF IsInstanceOf, Written
<1>2. t.action \in BOOLEAN
  BY <1>1, JobOfList
<1>3. p \in o.phases /\ p \in t.todo
  BY <1>1 DEF Written
<1> HIDE DEF P1, c
<1>d. ASSUME NEW i, Doing(list, n, J, P, i, TRUE)
      PROVE  Doing(list, n, J, P1, i, TRUE) \/ (t.action = TRUE /\ list[i].phase = p)
  <2>1. \A k, a : Doing(list, n, J, P, k, a) =>
           Doing(list, n, J, P1, k, a) \/ (t.action = a /\ list[k].phase = p)
    BY WriteDoing DEF P1
  <2>2. QED
    BY <1>d, <2>1, Zenon
<1>4. ASSUME NEW i \in ActiveAt(list, n - base, c)
      PROVE  list[i].phase \in B1 \/ Doing(list, n, J, P1, i, TRUE)
  <2>1. CASE list[i].phase \in B
    <3>1. CASE t.action = TRUE
      BY <2>1, <3>1 DEF Written
    <3>2. CASE t.action = FALSE /\ list[i].phase # p
      BY <2>1, <3>2 DEF Written
    <3>3. CASE t.action = FALSE /\ list[i].phase = p
      <4>1. Tame(list, c) /\ n - base \in Int
        BY DEF c
      <4>2. o.action = FALSE /\ list[i].phase \in o.phases
        BY <1>1, <1>3, <3>3
      <4>3. FALSE
        BY <1>1, <4>1, <4>2, NoEarlyEnd
      <4>4. QED
        BY <4>3
    <3>4. QED
      BY <1>2, <3>1, <3>2, <3>3
  <2>2. CASE Doing(list, n, J, P, i, TRUE)
    <3>1. CASE Doing(list, n, J, P1, i, TRUE)
      BY <3>1
    <3>2. CASE t.action = TRUE /\ list[i].phase = p
      BY <3>2 DEF Written
    <3>3. QED
      BY <1>d, <2>2, <3>1, <3>2
  <2>3. QED
    BY <2>1, <2>2 DEF BitsOn, c
<1>5. ValuesOn(list, base, n, P1, c)
  <2>1. u.pc # "send"
    BY <1>1 DEF Written
  <2>2. QED
    BY <2>1 DEF ValuesOn, P1, c
<1>6. WordOn(list, base, n, last, W, J, P1, c)
  BY WriteBusy DEF WordOn, P1, c
<1>7. QED
  BY <1>4, <1>5, <1>6 DEF BitsOn, P1, c

LEMMA WriteOff ==
  ASSUME NEW list, NEW base \in Nat, NEW n \in Nat, NEW J, IsScheduleList(list), EndsInOrder(list),
         NEW P, NEW t \in P, NEW u, NEW p, NEW B, NEW B1, NEW W, Written(t, u, p, B, B1),
         NEW o \in JobsFor(list, 0, 0), IsInstanceOf(list, n - base, B, t, o),
         Tame(list, t.control),
         BitsOff(list, base, n, B, J, P, t.control), ValuesOff(list, base, n, P, t.control),
         WordOff(list, base, n, W, J, P, t.control)
  PROVE  LET P1 == (P \ {t}) \cup {u}
         IN  /\ BitsOff(list, base, n, B1, J, P1, t.control)
             /\ ValuesOff(list, base, n, P1, t.control)
             /\ WordOff(list, base, n, W, J, P1, t.control)
<1> DEFINE P1 == (P \ {t}) \cup {u}
           c == t.control
<1>1. /\ o.control = c /\ o.action = t.action /\ t.todo \subseteq o.phases
      /\ n - base \in FireTimes(o) /\ t.pc # "send"
  BY DEF IsInstanceOf, Written
<1>2. t.action \in BOOLEAN
  BY <1>1, JobOfList
<1>3. p \in o.phases /\ p \in t.todo
  BY <1>1 DEF Written
<1> HIDE DEF P1, c
<1>4. ASSUME NEW b \in B1
      PROVE  \E i \in DOMAIN list :
               /\ list[i].control = c /\ list[i].phase = b /\ list[i].startTime <= n - base
               /\ \/ n - base < list[i].endTime
                  \/ n - base = list[i].endTime /\ Doing(list, n, J, P1, i, FALSE)
  <2>1. CASE b \in B /\ (t.action = FALSE => b # p)
    <3>1. PICK i \in DOMAIN list :
               /\ list[i].control = c /\ list[i].phase = b /\ list[i].startTime <= n - base
               /\ \/ n - base < list[i].endTime
                  \/ n - base = list[i].endTime /\ Doing(list, n, J, P, i, FALSE)
      BY <2>1 DEF BitsOff, c
    <3>2. CASE Doing(list, n, J, P, i, FALSE)
      <4>1. ~(t.action = FALSE /\ t.control = list[i].control /\ list[i].phase = p)
        BY <2>1, <3>1, Zenon
      <4>2. Doing(list, n, J, P1, i, FALSE)
        <5>1. \A k, a : Doing(list, n, J, P, k, a) =>
                 \/ Doing(list, n, J, P1, k, a)
                 \/ t.action = a /\ t.control = list[k].control /\ list[k].phase = p
          BY WriteDoing DEF P1
        <5>2. QED
          BY <3>2, <4>1, <5>1, Zenon
      <4>3. QED
        BY <3>1, <4>2, Zenon
    <3>3. CASE n - base < list[i].endTime
      BY <3>1, <3>3, Zenon
    <3>4. QED
      BY <3>1, <3>2, <3>3, Zenon
  <2>2. CASE b = p /\ t.action = TRUE
    <3>1. o.action = TRUE
      BY <1>1, <2>2
    <3>2. PICK k \in DOMAIN list :
              /\ list[k].control = c /\ list[k].phase = p
              /\ list[k].startTime = o.next /\ o.end <= list[k].endTime
      BY <1>1, <1>3, <3>1, JobOfList
    <3>3. /\ o.next \in Nat /\ o.end \in Nat /\ o.next <= n - base /\ n - base <= o.end
      BY <1>1, JobOfList, FireTimeRange
    <3>4. list[k].endTime \in Nat
      BY CommandOfList
    <3>5. n - base # list[k].endTime
      <4>1. SUFFICES ASSUME n - base = list[k].endTime
                     PROVE  FALSE
        OBVIOUS
      <4>2. PICK q \in JobsFor(list, 0, 0) :
               /\ q.action = FALSE /\ q.control = list[k].control /\ q.next = 0 + list[k].endTime
        BY EveryCommandEnds
      <4>3. q.next = n - base
        BY <3>4, <4>1, <4>2
      <4>4. n - base \in FireTimes(q)
        BY <4>2, <4>3, JobOfList, FiresFirst
      <4>5. o.action = q.action
        BY <1>1, <3>2, <4>2, <4>4, TameTogether DEF c
      <4>6. QED
        BY <3>1, <4>2, <4>5
    <3>6. list[k].startTime <= n - base /\ n - base < list[k].endTime
      BY <3>2, <3>3, <3>4, <3>5
    <3>7. QED
      BY <2>2, <3>2, <3>6
  <2>3. QED
    BY <1>2, <2>1, <2>2 DEF Written
<1>5. ValuesOff(list, base, n, P1, c)
  <2>1. u.pc # "send"
    BY <1>1 DEF Written
  <2>2. QED
    BY <2>1 DEF ValuesOff, P1, c
<1>6. WordOff(list, base, n, W, J, P1, c)
  BY WriteBusy DEF WordOff, P1, c
<1>7. QED
  BY <1>4, <1>5, <1>6 DEF BitsOff, P1, c

\* The other controls do not notice.
LEMMA WriteElsewhere ==
  ASSUME NEW list, NEW base, NEW n, NEW last, NEW J,
         NEW P, NEW t \in P, NEW u, NEW p, NEW B, NEW B1, Written(t, u, p, B, B1),
         NEW A, NEW W, NEW c, c # t.control
  PROVE  LET P1 == (P \ {t}) \cup {u}
         IN  /\ BitsOn(list, base, n, A, J, P, c) => BitsOn(list, base, n, A, J, P1, c)
             /\ ValuesOn(list, base, n, P, c) => ValuesOn(list, base, n, P1, c)
             /\ WordOn(list, base, n, last, W, J, P, c) => WordOn(list, base, n, last, W, J, P1, c)
             /\ BitsOff(list, base, n, A, J, P, c) => BitsOff(list, base, n, A, J, P1, c)
             /\ ValuesOff(list, base, n, P, c) => ValuesOff(list, base, n, P1, c)
             /\ WordOff(list, base, n, W, J, P, c) => WordOff(list, base, n, W, J, P1, c)
<1> DEFINE P1 == (P \ {t}) \cup {u}
<1>1. u.control = t.control
  BY DEF Written
<1>2. Busy(n, J, P1, c) <=> Busy(n, J, P, c)
  BY WriteBusy
<1>3. \A i, a : list[i].control = c /\ Doing(list, n, J, P, i, a) => Doing(list, n, J, P1, i, a)
  BY WriteDoing
<1>4. ValuesOn(list, base, n, P, c) => ValuesOn(list, base, n, P1, c)
  BY <1>1 DEF ValuesOn
<1>5. ValuesOff(list, base, n, P, c) => ValuesOff(list, base, n, P1, c)
  BY <1>1 DEF ValuesOff
<1> HIDE DEF P1
<1>6. BitsOn(list, base, n, A, J, P, c) => BitsOn(list, base, n, A, J, P1, c)
  BY <1>3, Zenon DEF BitsOn, ActiveAt
<1>7. BitsOff(list, base, n, A, J, P, c) => BitsOff(list, base, n, A, J, P1, c)
  BY <1>3, Zenon DEF BitsOff
<1>8. WordOn(list, base, n, last, W, J, P, c) => WordOn(list, base, n, last, W, J, P1, c)
  BY <1>2, Zenon DEF WordOn
<1>9. WordOff(list, base, n, W, J, P, c) => WordOff(list, base, n, W, J, P1, c)
  BY <1>2, Zenon DEF WordOff
<1>10. QED
  BY <1>4, <1>5, <1>6, <1>7, <1>8, <1>9 DEF P1

-----------------------------------------------------------------------------
(* An instance reads its control's bits *)

\* u is the instance t with the value B read.
ReadIn(t, u, B) ==
  /\ t.pc = "bits" /\ t.todo = {}
  /\ u.control = t.control /\ u.action = t.action /\ u.todo = t.todo
  /\ u.pc = "send" /\ u.value = B

LEMMA ReadPool ==
  ASSUME NEW list, NEW base, NEW n, NEW S, NEW P, NEW t \in P, NEW u,
         PoolFits(list, base, n, S, P), ReadIn(t, u, S[t.control])
  PROVE  PoolFits(list, base, n, S, (P \ {t}) \cup {u})
<1>1. PICK o \in JobsFor(list, 0, 0) : IsInstanceOf(list, n - base, S[t.control], t, o)
  BY DEF PoolFits
<1>2. t.pc # "send" /\ o.phases \ t.todo = o.phases
  BY DEF ReadIn
<1>3. IsInstanceOf(list, n - base, S[u.control], u, o)
  BY <1>1, <1>2 DEF IsInstanceOf, ReadIn
<1>4. QED
  BY <1>3 DEF PoolFits

\* All that runs or is due at the time for a tame control does the same as t.
LEMMA DoingSame ==
  ASSUME NEW list, NEW base \in Nat, NEW n \in Nat, NEW J, IsScheduleList(list),
         JobsFit(list, base, n, J), NEW S, NEW P, PoolFits(list, base, n, S, P),
         NEW c, Tame(list, c), NEW o \in JobsFor(list, 0, 0), o.control = c,
         n - base \in FireTimes(o)
  PROVE  \A i, a : list[i].control = c /\ Doing(list, n, J, P, i, a) =>
           o.action = a /\ list[i].phase \in o.phases
<1>1. SUFFICES ASSUME NEW i, NEW a, list[i].control = c, Doing(list, n, J, P, i, a)
               PROVE  o.action = a /\ list[i].phase \in o.phases
  OBVIOUS
<1>2. CASE \E j \in J : Serves(list, j, i, a) /\ j.next = n
  <2>1. PICK j \in J : Serves(list, j, i, a) /\ j.next = n
    BY <1>2
  <2>2. PICK q \in JobsFor(list, 0, 0) : IsJobOf(base, j, q)
    BY DEF JobsFit
  <2>3. n - base \in FireTimes(q)
    BY <2>1, <2>2, DueOrigin
  <2>4. q.control = c /\ q.action = a /\ list[i].phase \in q.phases
    BY <1>1, <2>1, <2>2 DEF Serves, IsJobOf
  <2>5. o.action = q.action /\ o.phases = q.phases
    BY <2>3, <2>4, TameTogether
  <2>6. QED
    BY <2>4, <2>5
<1>3. CASE \E v \in P : v.action = a /\ v.control = list[i].control /\ list[i].phase \in v.todo
  <2>1. PICK v \in P : v.action = a /\ v.control = list[i].control /\ list[i].phase \in v.todo
    BY <1>3
  <2>2. PICK q \in JobsFor(list, 0, 0) : IsInstanceOf(list, n - base, S[v.control], v, q)
    BY DEF PoolFits
  <2>3. /\ q.control = c /\ q.action = a /\ list[i].phase \in q.phases
        /\ n - base \in FireTimes(q)
    BY <1>1, <2>1, <2>2 DEF IsInstanceOf
  <2>4. o.action = q.action /\ o.phases = q.phases
    BY <2>3, TameTogether
  <2>5. QED
    BY <2>3, <2>4
<1>4. QED
  BY <1>1, <1>2, <1>3 DEF Doing

LEMMA ReadDoing ==
  ASSUME NEW list, NEW n, NEW J, NEW P, NEW t \in P, NEW u, NEW B, ReadIn(t, u, B)
  PROVE  LET P1 == (P \ {t}) \cup {u}
         IN  /\ \A i, a : Doing(list, n, J, P, i, a) => Doing(list, n, J, P1, i, a)
             /\ \A c : Busy(n, J, P, c) <=> Busy(n, J, P1, c)
<1> DEFINE P1 == (P \ {t}) \cup {u}
<1>1. ASSUME NEW i, NEW a, Doing(list, n, J, P, i, a)
      PROVE  Doing(list, n, J, P1, i, a)
  <2>1. CASE \E l \in J : Serves(list, l, i, a) /\ l.next = n
    BY <2>1 DEF Doing
  <2>2. CASE \E v \in P : v # t /\ v.action = a /\ v.control = list[i].control /\ list[i].phase \in v.todo
    BY <2>2 DEF Doing
  <2>3. list[i].phase \notin t.todo
    BY DEF ReadIn
  <2>4. QED
    BY <1>1, <2>1, <2>2, <2>3 DEF Doing
<1>2. ASSUME NEW c
      PROVE  Busy(n, J, P, c) <=> Busy(n, J, P1, c)
  BY DEF Busy, ReadIn
<1>3. QED
  BY <1>1, <1>2

LEMMA ReadOn ==
  ASSUME NEW list, NEW base \in Nat, NEW n \in Nat, NEW last, NEW J, IsScheduleList(list),
         JobsFit(list, base, n, J), NEW S, NEW P, PoolFits(list, base, n, S, P),
         NEW t \in P, NEW u, ReadIn(t, u, S[t.control]), NEW c, Tame(list, c), NEW W,
         BitsOn(list, base, n, S[c], J, P, c), ValuesOn(list, base, n, P, c),
         WordOn(list, base, n, last, W, J, P, c)
  PROVE  LET P1 == (P \ {t}) \cup {u}
         IN  /\ BitsOn(list, base, n, S[c], J, P1, c)
             /\ ValuesOn(list, base, n, P1, c)
             /\ WordOn(list, base, n, last, W, J, P1, c)
<1> DEFINE P1 == (P \ {t}) \cup {u}
<1>1. /\ \A i, a : Doing(list, n, J, P, i, a) => Doing(list, n, J, P1, i, a)
      /\ \A d : Busy(n, J, P, d) <=> Busy(n, J, P1, d)
  BY ReadDoing
<1>2. PICK o \in JobsFor(list, 0, 0) : IsInstanceOf(list, n - base, S[t.control], t, o)
  BY DEF PoolFits
<1>3. /\ o.control = t.control /\ o.action = t.action /\ n - base \in FireTimes(o)
      /\ t.todo = {} /\ t.pc # "send"
  BY <1>2 DEF IsInstanceOf, ReadIn
<1>d. ASSUME t.control = c
      PROVE  \A i, a : list[i].control = c /\ Doing(list, n, J, P, i, a) =>
                        o.action = a /\ list[i].phase \in o.phases
  BY <1>3, <1>d, DoingSame
<1>4. ASSUME NEW i \in ActiveAt(list, n - base, c), t.control = c
      PROVE  list[i].phase \in u.value
  <2>1. u.value = S[c] /\ list[i].control = c
    BY <1>4 DEF ReadIn, ActiveAt
  <2>2. CASE Doing(list, n, J, P, i, TRUE)
    <3>1. o.action = TRUE /\ list[i].phase \in o.phases
      BY <1>d, <1>4, <2>1, <2>2, Zenon
    <3>2. ~FiringAt(list, n - base, c, FALSE)
      BY <1>3, <1>4, <3>1, NoOpposite
    <3>3. o.phases \subseteq S[c]
      BY <1>2, <1>3, <1>4, <3>1, <3>2 DEF IsInstanceOf
    <3>4. QED
      BY <2>1, <3>1, <3>3
  <2>3. QED
    BY <2>1, <2>2 DEF BitsOn
<1>5. ValuesOn(list, base, n, P1, c)
  BY <1>4 DEF ValuesOn, ReadIn
<1> HIDE DEF P1
<1>6. BitsOn(list, base, n, S[c], J, P1, c)
  BY <1>1, Zenon DEF BitsOn
<1>7. WordOn(list, base, n, last, W, J, P1, c)
  BY <1>1, Zenon DEF WordOn
<1>8. QED
  BY <1>5, <1>6, <1>7 DEF P1

LEMMA ReadOff ==
  ASSUME NEW list, NEW base \in Nat, NEW n \in Nat, NEW J, IsScheduleList(list),
         JobsFit(list, base, n, J), NEW S, NEW P, PoolFits(list, base, n, S, P),
         NEW t \in P, NEW u, ReadIn(t, u, S[t.control]), NEW c, Tame(list, c), NEW W,
         BitsOff(list, base, n, S[c], J, P, c), ValuesOff(list, base, n, P, c),
         WordOff(list, base, n, W, J, P, c)
  PROVE  LET P1 == (P \ {t}) \cup {u}
         IN  /\ BitsOff(list, base, n, S[c], J, P1, c)
             /\ ValuesOff(list, base, n, P1, c)
             /\ WordOff(list, base, n, W, J, P1, c)
<1> DEFINE P1 == (P \ {t}) \cup {u}
<1>1. /\ \A i, a : Doing(list, n, J, P, i, a) => Doing(list, n, J, P1, i, a)
      /\ \A d : Busy(n, J, P, d) <=> Busy(n, J, P1, d)
  BY ReadDoing
<1>2. PICK o \in JobsFor(list, 0, 0) : IsInstanceOf(list, n - base, S[t.control], t, o)
  BY DEF PoolFits
<1>3. /\ o.control = t.control /\ o.action = t.action /\ n - base \in FireTimes(o)
      /\ t.todo = {} /\ t.pc # "send"
  BY <1>2 DEF IsInstanceOf, ReadIn
<1>d. ASSUME t.control = c
      PROVE  \A i, a : list[i].control = c /\ Doing(list, n, J, P, i, a) =>
                        o.action = a /\ list[i].phase \in o.phases
  BY <1>3, <1>d, DoingSame
<1>4. ASSUME NEW p \in u.value, t.control = c
      PROVE  \E i \in ActiveAt(list, n - base, c) : list[i].phase = p
  <2>1. u.value = S[c]
    BY <1>4 DEF ReadIn
  <2>2. PICK i \in DOMAIN list :
          /\ list[i].control = c /\ list[i].phase = p /\ list[i].startTime <= n - base
          /\ \/ n - base < list[i].endTime
             \/ n - base = list[i].endTime /\ Doing(list, n, J, P, i, FALSE)
    BY <2>1 DEF BitsOff
  <2>3. ~Doing(list, n, J, P, i, FALSE)
    <3>1. SUFFICES ASSUME Doing(list, n, J, P, i, FALSE)
                   PROVE  FALSE
      OBVIOUS
    <3>2. o.action = FALSE /\ p \in o.phases
      BY <1>d, <1>4, <2>2, <3>1, Zenon
    <3>3. ~FiringAt(list, n - base, c, TRUE)
      BY <1>3, <1>4, <3>2, NoOpposite
    <3>4. o.phases \cap S[c] = {}
      BY <1>2, <1>3, <1>4, <3>2, <3>3 DEF IsInstanceOf
    <3>5. QED
      BY <2>1, <3>2, <3>4
  <2>4. n - base < list[i].endTime
    BY <2>2, <2>3, Zenon
  <2>5. QED
    BY <2>2, <2>4, Zenon DEF ActiveAt
<1>5. ValuesOff(list, base, n, P1, c)
  BY <1>4 DEF ValuesOff, ReadIn
<1> HIDE DEF P1
<1>6. BitsOff(list, base, n, S[c], J, P1, c)
  BY <1>1, Zenon DEF BitsOff
<1>7. WordOff(list, base, n, W, J, P1, c)
  BY <1>1, Zenon DEF WordOff
<1>8. QED
  BY <1>5, <1>6, <1>7 DEF P1

-----------------------------------------------------------------------------
(* The SET of an instance *)

\* Right after a SET a command lasts until the next activation, or until its group ends.
LEMMA FreshNow ==
  ASSUME NEW list, NEW base \in Nat, NEW n \in Nat, NEW J, IsScheduleList(list),
         StartsKnown(list, base, n, J), NEW c
  PROVE  \A i \in ActiveAt(list, n - base, c) : Fresh(list, base, J, n, i)
<1>1. SUFFICES ASSUME NEW i \in ActiveAt(list, n - base, c)
               PROVE  Fresh(list, base, J, n, i)
  OBVIOUS
<1>2. i \in DOMAIN list /\ list[i].startTime <= n - base
  BY DEF ActiveAt
<1>3. list[i].startTime \in Nat
  BY <1>2, CommandOfList
<1>4. ~(list[i].startTime > n - base)
  BY <1>2, <1>3
<1>5. QED
  BY <1>2, <1>4 DEF StartsKnown, Fresh

LEMMA SendOn ==
  ASSUME NEW list, NEW base \in Nat, NEW n \in Nat, NEW last, NEW J, IsScheduleList(list),
         NEW S, NEW P, PoolFits(list, base, n, S, P), StartsKnown(list, base, n, J),
         NEW t \in P, t.pc = "send", NEW c, NEW W, NEW W1, W1 = IF c = t.control THEN t.value ELSE W,
         BitsOn(list, base, n, S[c], J, P, c), ValuesOn(list, base, n, P, c),
         WordOn(list, base, n, last, W, J, P, c)
  PROVE  /\ BitsOn(list, base, n, S[c], J, P \ {t}, c)
         /\ ValuesOn(list, base, n, P \ {t}, c)
         /\ WordOn(list, base, n, n, W1, J, P \ {t}, c)
<1>1. t.todo = {}
  BY DEF PoolFits, IsInstanceOf
<1>2. \A i, a : Doing(list, n, J, P, i, a) => Doing(list, n, J, P \ {t}, i, a)
  BY <1>1 DEF Doing
<1>3. BitsOn(list, base, n, S[c], J, P \ {t}, c)
  BY <1>2, Zenon DEF BitsOn
<1>4. ValuesOn(list, base, n, P \ {t}, c)
  BY DEF ValuesOn
<1>5. ASSUME NEW i \in ActiveAt(list, n - base, c), n - base < GroupEnd(list, i)
      PROVE  Busy(n, J, P \ {t}, c) \/ (list[i].phase \in W1 /\ Fresh(list, base, J, n, i))
  <2>1. Fresh(list, base, J, n, i)
    BY FreshNow
  <2>2. CASE c = t.control
    BY <2>1, <2>2 DEF ValuesOn
  <2>3. CASE c # t.control
    <3>1. Busy(n, J, P, c) => Busy(n, J, P \ {t}, c)
      BY <2>3 DEF Busy
    <3>2. QED
      BY <1>5, <2>1, <2>3, <3>1 DEF WordOn
  <2>4. QED
    BY <2>2, <2>3
<1>6. QED
  BY <1>3, <1>4, <1>5 DEF WordOn

LEMMA SendOff ==
  ASSUME NEW list, NEW base, NEW n, NEW J,
         NEW S, NEW P, PoolFits(list, base, n, S, P),
         NEW t \in P, t.pc = "send", NEW c, NEW W, NEW W1, W1 = IF c = t.control THEN t.value ELSE W,
         BitsOff(list, base, n, S[c], J, P, c), ValuesOff(list, base, n, P, c),
         WordOff(list, base, n, W, J, P, c)
  PROVE  /\ BitsOff(list, base, n, S[c], J, P \ {t}, c)
         /\ ValuesOff(list, base, n, P \ {t}, c)
         /\ WordOff(list, base, n, W1, J, P \ {t}, c)
<1>1. t.todo = {}
  BY DEF PoolFits, IsInstanceOf
<1>2. \A i, a : Doing(list, n, J, P, i, a) => Doing(list, n, J, P \ {t}, i, a)
  BY <1>1 DEF Doing
<1>3. BitsOff(list, base, n, S[c], J, P \ {t}, c)
  BY <1>2, Zenon DEF BitsOff
<1>4. ValuesOff(list, base, n, P \ {t}, c)
  BY DEF ValuesOff
<1>5. CASE c = t.control
  BY <1>3, <1>4, <1>5 DEF ValuesOff, WordOff
<1>6. CASE c # t.control
  <2>1. Busy(n, J, P, c) => Busy(n, J, P \ {t}, c)
    BY <1>6 DEF Busy
  <2>2. QED
    BY <1>3, <1>4, <1>6, <2>1 DEF WordOff
<1>7. QED
  BY <1>5, <1>6

-----------------------------------------------------------------------------
(* The controller's backup time, and a new schedule *)

\* The backup time does not run out while a command of a tame control is in force.
LEMMA BackupOn ==
  ASSUME NEW list, NEW base \in Nat, NEW n \in Nat, NEW last \in Nat, NEW J, IsScheduleList(list),
         JobsFit(list, base, n, J), n - last >= ntcipBackupTime, NEW P, NEW c, NEW W, NEW W1,
         WordOn(list, base, n, last, W, J, P, c)
  PROVE  WordOn(list, base, n, last, W1, J, P, c)
<1>1. SUFFICES ASSUME NEW i \in ActiveAt(list, n - base, c), n - base < GroupEnd(list, i),
                      Fresh(list, base, J, last, i)
               PROVE  FALSE
  BY DEF WordOn
<1>2. /\ RefreshPeriod \in Nat /\ ntcipBackupTime \in Nat /\ RefreshPeriod < ntcipBackupTime
  BY RefreshPeriodType
<1>3. i \in DOMAIN list
  BY DEF ActiveAt
<1>4. GroupEnd(list, i) \in Nat
  BY <1>3, FirstEndIsLeast DEF GroupEnd
<1>5. CASE \E j \in J : Repeats(list, base, j, i) /\ j.next <= last + RefreshPeriod
  <2>1. PICK j \in J : j.next <= last + RefreshPeriod
    BY <1>5
  <2>2. PICK o \in JobsFor(list, 0, 0) : IsJobOf(base, j, o)
    BY DEF JobsFit
  <2>3. PICK f \in FireTimes(o) : j.next = base + f
    BY <2>2 DEF IsJobOf
  <2>4. f \in Nat
    BY JobOfList, FireTimeRange
  <2>5. j.next \in Nat /\ n <= j.next
    BY <2>3, <2>4 DEF JobsFit
  <2>6. QED
    BY <1>2, <2>1, <2>5
<1>6. CASE base + GroupEnd(list, i) < last + RefreshPeriod
  BY <1>1, <1>2, <1>4, <1>6
<1>7. QED
  BY <1>1, <1>5, <1>6 DEF Fresh

\* A schedule that was just put in the store.
LEMMA NewJobs ==
  ASSUME NEW list, NEW n \in Nat, NEW gen, NEW J, J = JobsFor(list, n, gen), IsScheduleList(list)
  PROVE  /\ JobsFit(list, n, n, J) /\ StartsKnown(list, n, n, J)
         /\ EndsInOrder(list) => EndsKnown(list, n, n, J)
<1>1. ASSUME NEW j \in J
      PROVE  n <= j.next /\ \E o \in JobsFor(list, 0, 0) : IsJobOf(n, j, o)
  <2>1. PICK o \in JobsFor(list, 0, 0) :
           /\ j.control = o.control /\ j.action = o.action /\ j.phases = o.phases
           /\ j.next = n + o.next /\ j.end = n + o.end
    BY JobsAtBase
  <2>2. o.next \in Nat /\ o.next \in FireTimes(o)
    BY JobOfList, FiresFirst
  <2>3. QED
    BY <2>1, <2>2 DEF IsJobOf
<1>2. ASSUME NEW i \in DOMAIN list
      PROVE  \E j \in J :
                   /\ Repeats(list, n, j, i)
                   /\ IF list[i].startTime > n - n THEN j.next = n + list[i].startTime
                      ELSE j.next <= n + RefreshPeriod
  <2>1. PICK j \in J :
           /\ j.action = TRUE /\ j.control = list[i].control /\ list[i].phase \in j.phases
           /\ j.next = n + list[i].startTime
           /\ j.end = n + FirstEnd(list, GroupOf(list, "startTime", i))
    BY EveryCommandStarts
  <2>2. Repeats(list, n, j, i)
    BY <2>1 DEF Repeats, Serves, GroupEnd
  <2>3. list[i].startTime \in Nat /\ RefreshPeriod \in Nat
    BY CommandOfList, RefreshPeriodType
  <2>4. QED
    BY <2>1, <2>2, <2>3
<1>3. ASSUME EndsInOrder(list), NEW i \in DOMAIN list
      PROVE  \E j \in J : Serves(list, j, i, FALSE) /\ j.next = n + list[i].endTime
  BY <1>3, EveryCommandEnds DEF Serves
<1>4. QED
  BY <1>1, <1>2, <1>3 DEF JobsFit, StartsKnown, EndsKnown

LEMMA NewOn ==
  ASSUME NEW list, NEW n \in Nat, NEW last, NEW gen, NEW J, J = JobsFor(list, n, gen), IsScheduleList(list),
         NEW B, NEW W, NEW c
  PROVE  /\ BitsOn(list, n, n, B, J, {}, c)
         /\ ValuesOn(list, n, n, {}, c)
         /\ WordOn(list, n, n, last, W, J, {}, c)
<1>1. ASSUME NEW i \in ActiveAt(list, n - n, c)
      PROVE  \E j \in J : Serves(list, j, i, TRUE) /\ j.next = n
  <2>1. i \in DOMAIN list /\ list[i].startTime <= n - n
    BY DEF ActiveAt
  <2>2. list[i].startTime = 0
    BY <2>1, CommandOfList
  <2>3. PICK j \in J :
           /\ j.action = TRUE /\ j.control = list[i].control /\ list[i].phase \in j.phases
           /\ j.next = n + list[i].startTime
    BY <2>1, EveryCommandStarts
  <2>4. j.next = n
    BY <2>2, <2>3
  <2>5. QED
    BY <2>3, <2>4 DEF Serves
<1>2. BitsOn(list, n, n, B, J, {}, c)
  BY <1>1 DEF BitsOn, Doing
<1>3. \A i \in ActiveAt(list, n - n, c) : Busy(n, J, {}, c)
  BY <1>1 DEF Busy, Serves, ActiveAt
<1>4. QED
  BY <1>2, <1>3 DEF ValuesOn, WordOn

LEMMA NewOff ==
  ASSUME NEW list, NEW n \in Nat, NEW gen, NEW J, J = JobsFor(list, n, gen), IsScheduleList(list),
         NEW W, NEW c, W # {} => Keeps(list, c)
  PROVE  /\ BitsOff(list, n, n, {}, J, {}, c)
         /\ ValuesOff(list, n, n, {}, c)
         /\ WordOff(list, n, n, W, J, {}, c)
<1>1. ASSUME W # {}
      PROVE  Busy(n, J, {}, c)
  <2>1. PICK i \in DOMAIN list : list[i].startTime = 0 /\ list[i].control = c
    BY <1>1 DEF Keeps
  <2>2. PICK j \in J : j.control = list[i].control /\ j.next = n + list[i].startTime
    BY EveryCommandStarts
  <2>3. QED
    BY <2>1, <2>2 DEF Busy
<1>2. QED
  BY <1>1 DEF BitsOff, ValuesOff, WordOff

-----------------------------------------------------------------------------
(* All that holds of a schedule in force, and that each step keeps it *)

On(list, base, n, last, B, W, J, P, c) ==
  /\ BitsOn(list, base, n, B, J, P, c) /\ ValuesOn(list, base, n, P, c)
  /\ WordOn(list, base, n, last, W, J, P, c)

Off(list, base, n, B, W, J, P, c) ==
  /\ BitsOff(list, base, n, B, J, P, c) /\ ValuesOff(list, base, n, P, c)
  /\ WordOff(list, base, n, W, J, P, c)

InForce(list, base, n, last, S, W, J, P) ==
  /\ JobsFit(list, base, n, J) /\ PoolFits(list, base, n, S, P)
  /\ StartsKnown(list, base, n, J)
  /\ \A c \in Control : Tame(list, c) => On(list, base, n, last, S[c], W[c], J, P, c)
  /\ EndsInOrder(list) =>
       /\ EndsKnown(list, base, n, J)
       /\ \A c \in Control : Tame(list, c) => Off(list, base, n, S[c], W[c], J, P, c)

LEMMA InForceTick ==
  ASSUME NEW list, NEW base \in Nat, NEW n \in Nat, NEW last \in Nat, NEW S, NEW W, NEW J,
         IsScheduleList(list), InForce(list, base, n, last, S, W, J, {}),
         \A j \in J : ~(j.next <= n)
  PROVE  InForce(list, base, n + 1, last, S, W, J, {})
<1>1. JobsFit(list, base, n, J) /\ StartsKnown(list, base, n, J)
  BY DEF InForce
<1>2. /\ JobsFit(list, base, n + 1, J) /\ StartsKnown(list, base, n + 1, J)
      /\ EndsKnown(list, base, n, J) => EndsKnown(list, base, n + 1, J)
  BY <1>1, TickJobs
<1>3. PoolFits(list, base, n + 1, S, {})
  BY DEF PoolFits
<1>4. ASSUME NEW c \in Control, Tame(list, c)
      PROVE  On(list, base, n + 1, last, S[c], W[c], J, {}, c)
  <2>1. BitsOn(list, base, n, S[c], J, {}, c) /\ WordOn(list, base, n, last, W[c], J, {}, c)
    BY <1>4 DEF InForce, On
  <2>2. QED
    BY <1>1, <2>1, TickOn DEF On
<1>5. ASSUME EndsInOrder(list), NEW c \in Control, Tame(list, c)
      PROVE  Off(list, base, n + 1, S[c], W[c], J, {}, c)
  <2>1. /\ BitsOff(list, base, n, S[c], J, {}, c) /\ WordOff(list, base, n, W[c], J, {}, c)
        /\ EndsKnown(list, base, n, J)
    BY <1>5 DEF InForce, Off
  <2>2. QED
    BY <1>1, <2>1, TickOff DEF Off
<1>6. EndsInOrder(list) => EndsKnown(list, base, n, J)
  BY DEF InForce
<1>7. QED
  BY <1>2, <1>3, <1>4, <1>5, <1>6 DEF InForce

LEMMA InForceSubmit ==
  ASSUME NEW list, NEW base \in Nat, NEW n \in Nat, NEW last, NEW S, NEW W, NEW J, NEW P,
         IsScheduleList(list), InForce(list, base, n, last, S, W, J, P),
         NEW j \in J, j.next <= n,
         DOMAIN j = {"id", "control", "action", "phases", "next", "end"},
         NEW J1, NEW u, Submitted(J, J1, j, u)
  PROVE  InForce(list, base, n, last, S, W, J1, P \cup {u})
<1>1. JobsFit(list, base, n, J) /\ PoolFits(list, base, n, S, P) /\ StartsKnown(list, base, n, J)
  BY DEF InForce
<1>2. /\ j.next = n /\ JobsFit(list, base, n, J1) /\ StartsKnown(list, base, n, J1)
      /\ EndsKnown(list, base, n, J) => EndsKnown(list, base, n, J1)
  BY <1>1, SubmitFits
<1>3. PoolFits(list, base, n, S, P \cup {u})
  BY <1>1, SubmitPool
<1>4. ASSUME NEW c \in Control, Tame(list, c)
      PROVE  On(list, base, n, last, S[c], W[c], J1, P \cup {u}, c)
  <2>1. On(list, base, n, last, S[c], W[c], J, P, c)
    BY <1>4 DEF InForce
  <2>2. QED
    BY <1>2, <2>1, SubmitOn DEF On
<1>5. ASSUME EndsInOrder(list), NEW c \in Control, Tame(list, c)
      PROVE  Off(list, base, n, S[c], W[c], J1, P \cup {u}, c)
  <2>1. Off(list, base, n, S[c], W[c], J, P, c)
    BY <1>5 DEF InForce
  <2>2. QED
    BY <1>2, <2>1, SubmitOff DEF Off
<1>6. EndsInOrder(list) => EndsKnown(list, base, n, J)
  BY DEF InForce
<1>7. QED
  BY <1>2, <1>3, <1>4, <1>5, <1>6 DEF InForce

LEMMA InForceWrite ==
  ASSUME NEW list, NEW base \in Nat, NEW n \in Nat, NEW last, NEW S, NEW S1, NEW W, NEW J, NEW P,
         IsScheduleList(list), InForce(list, base, n, last, S, W, J, P),
         NEW t \in P, NEW u, NEW p, Written(t, u, p, S[t.control], S1[t.control]),
         \A c \in Control : c # t.control => S1[c] = S[c]
  PROVE  InForce(list, base, n, last, S1, W, J, (P \ {t}) \cup {u})
<1> DEFINE P1 == (P \ {t}) \cup {u}
<1>1. JobsFit(list, base, n, J) /\ PoolFits(list, base, n, S, P) /\ StartsKnown(list, base, n, J)
  BY DEF InForce
<1>2. PoolFits(list, base, n, S1, P1)
  BY <1>1, WritePool
<1>3. PICK o \in JobsFor(list, 0, 0) : IsInstanceOf(list, n - base, S[t.control], t, o)
  BY <1>1 DEF PoolFits
<1>4. ASSUME NEW c \in Control, Tame(list, c)
      PROVE  On(list, base, n, last, S1[c], W[c], J, P1, c)
  <2>1. On(list, base, n, last, S[c], W[c], J, P, c)
    BY <1>4 DEF InForce
  <2>2. CASE c = t.control
    BY <1>3, <1>4, <2>1, <2>2, WriteOn DEF On
  <2>3. CASE c # t.control
    <3>1. S1[c] = S[c]
      BY <2>3
    <3>2. /\ BitsOn(list, base, n, S[c], J, P, c) => BitsOn(list, base, n, S[c], J, P1, c)
          /\ ValuesOn(list, base, n, P, c) => ValuesOn(list, base, n, P1, c)
          /\ WordOn(list, base, n, last, W[c], J, P, c) => WordOn(list, base, n, last, W[c], J, P1, c)
      BY <2>3, WriteElsewhere
    <3>3. QED
      BY <2>1, <3>1, <3>2 DEF On
  <2>4. QED
    BY <2>2, <2>3
<1>5. ASSUME EndsInOrder(list), NEW c \in Control, Tame(list, c)
      PROVE  Off(list, base, n, S1[c], W[c], J, P1, c)
  <2>1. Off(list, base, n, S[c], W[c], J, P, c)
    BY <1>5 DEF InForce
  <2>2. CASE c = t.control
    BY <1>3, <1>5, <2>1, <2>2, WriteOff DEF Off
  <2>3. CASE c # t.control
    <3>1. S1[c] = S[c]
      BY <2>3
    <3>2. /\ BitsOff(list, base, n, S[c], J, P, c) => BitsOff(list, base, n, S[c], J, P1, c)
          /\ ValuesOff(list, base, n, P, c) => ValuesOff(list, base, n, P1, c)
          /\ WordOff(list, base, n, W[c], J, P, c) => WordOff(list, base, n, W[c], J, P1, c)
      BY <2>3, WriteElsewhere
    <3>3. QED
      BY <2>1, <3>1, <3>2 DEF Off
  <2>4. QED
    BY <2>2, <2>3
<1>6. EndsInOrder(list) => EndsKnown(list, base, n, J)
  BY DEF InForce
<1>7. QED
  BY <1>1, <1>2, <1>4, <1>5, <1>6 DEF InForce

LEMMA InForceRead ==
  ASSUME NEW list, NEW base \in Nat, NEW n \in Nat, NEW last, NEW S, NEW W, NEW J, NEW P,
         IsScheduleList(list), InForce(list, base, n, last, S, W, J, P),
         NEW t \in P, NEW u, ReadIn(t, u, S[t.control])
  PROVE  InForce(list, base, n, last, S, W, J, (P \ {t}) \cup {u})
<1> DEFINE P1 == (P \ {t}) \cup {u}
<1>1. JobsFit(list, base, n, J) /\ PoolFits(list, base, n, S, P) /\ StartsKnown(list, base, n, J)
  BY DEF InForce
<1>2. PoolFits(list, base, n, S, P1)
  BY <1>1, ReadPool
<1>3. ASSUME NEW c \in Control, Tame(list, c)
      PROVE  On(list, base, n, last, S[c], W[c], J, P1, c)
  <2>1. On(list, base, n, last, S[c], W[c], J, P, c)
    BY <1>3 DEF InForce
  <2>2. QED
    BY <1>1, <1>3, <2>1, ReadOn DEF On
<1>4. ASSUME EndsInOrder(list), NEW c \in Control, Tame(list, c)
      PROVE  Off(list, base, n, S[c], W[c], J, P1, c)
  <2>1. Off(list, base, n, S[c], W[c], J, P, c)
    BY <1>4 DEF InForce
  <2>2. QED
    BY <1>1, <1>4, <2>1, ReadOff DEF Off
<1>5. EndsInOrder(list) => EndsKnown(list, base, n, J)
  BY DEF InForce
<1>6. QED
  BY <1>1, <1>2, <1>3, <1>4, <1>5 DEF InForce

LEMMA InForceSend ==
  ASSUME NEW list, NEW base \in Nat, NEW n \in Nat, NEW last, NEW S, NEW W, NEW W1, NEW J, NEW P,
         IsScheduleList(list), InForce(list, base, n, last, S, W, J, P),
         NEW t \in P, t.pc = "send", \A c \in Control : W1[c] = IF c = t.control THEN t.value ELSE W[c]
  PROVE  InForce(list, base, n, n, S, W1, J, P \ {t})
<1>1. JobsFit(list, base, n, J) /\ PoolFits(list, base, n, S, P) /\ StartsKnown(list, base, n, J)
  BY DEF InForce
<1>2. PoolFits(list, base, n, S, P \ {t})
  BY <1>1 DEF PoolFits
<1>3. ASSUME NEW c \in Control, Tame(list, c)
      PROVE  On(list, base, n, n, S[c], W1[c], J, P \ {t}, c)
  <2>1. On(list, base, n, last, S[c], W[c], J, P, c)
    BY <1>3 DEF InForce
  <2>2. W1[c] = IF c = t.control THEN t.value ELSE W[c]
    OBVIOUS
  <2>3. QED
    BY <1>1, <2>1, <2>2, SendOn DEF On
<1>4. ASSUME EndsInOrder(list), NEW c \in Control, Tame(list, c)
      PROVE  Off(list, base, n, S[c], W1[c], J, P \ {t}, c)
  <2>1. Off(list, base, n, S[c], W[c], J, P, c)
    BY <1>4 DEF InForce
  <2>2. W1[c] = IF c = t.control THEN t.value ELSE W[c]
    OBVIOUS
  <2>3. QED
    BY <1>1, <2>1, <2>2, SendOff DEF Off
<1>5. EndsInOrder(list) => EndsKnown(list, base, n, J)
  BY DEF InForce
<1>6. QED
  BY <1>1, <1>2, <1>3, <1>4, <1>5 DEF InForce

LEMMA InForceBackup ==
  ASSUME NEW list, NEW base \in Nat, NEW n \in Nat, NEW last \in Nat, NEW S, NEW W, NEW W1, NEW J, NEW P,
         IsScheduleList(list), InForce(list, base, n, last, S, W, J, P),
         n - last >= ntcipBackupTime, \A c \in Control : W1[c] = {}
  PROVE  InForce(list, base, n, last, S, W1, J, P)
<1>1. JobsFit(list, base, n, J)
  BY DEF InForce
<1>2. ASSUME NEW c \in Control, Tame(list, c)
      PROVE  On(list, base, n, last, S[c], W1[c], J, P, c)
  <2>1. On(list, base, n, last, S[c], W[c], J, P, c)
    BY <1>2 DEF InForce
  <2>2. WordOn(list, base, n, last, W1[c], J, P, c)
    BY <1>1, <2>1, BackupOn DEF On
  <2>3. QED
    BY <2>1, <2>2 DEF On
<1>3. ASSUME EndsInOrder(list), NEW c \in Control, Tame(list, c)
      PROVE  Off(list, base, n, S[c], W1[c], J, P, c)
  BY <1>3 DEF InForce, Off, WordOff
<1>4. QED
  BY <1>2, <1>3 DEF InForce

LEMMA InForceNew ==
  ASSUME NEW list, NEW n \in Nat, NEW last, NEW S, NEW W, NEW gen,
         IsScheduleList(list), \A c \in Control : S[c] = {},
         \A c \in Control : W[c] # {} => Keeps(list, c)
  PROVE  InForce(list, n, n, last, S, W, JobsFor(list, n, gen), {})
<1> DEFINE J == JobsFor(list, n, gen)
<1> HIDE DEF J
<1>1. /\ JobsFit(list, n, n, J) /\ StartsKnown(list, n, n, J)
      /\ EndsInOrder(list) => EndsKnown(list, n, n, J)
  BY NewJobs DEF J
<1>2. PoolFits(list, n, n, S, {})
  BY DEF PoolFits
<1>3. ASSUME NEW c \in Control
      PROVE  On(list, n, n, last, S[c], W[c], J, {}, c)
  BY NewOn DEF On, J
<1>4. ASSUME NEW c \in Control
      PROVE  Off(list, n, n, S[c], W[c], J, {}, c)
  <2>1. S[c] = {} /\ (W[c] # {} => Keeps(list, c))
    OBVIOUS
  <2>2. QED
    BY <2>1, NewOff DEF Off, J
<1>5. QED
  BY <1>1, <1>2, <1>3, <1>4 DEF InForce, J

-----------------------------------------------------------------------------
(* The invariant of a schedule that has been put in force *)

\* The schedule's jobs are in the store, and no late job of another one ran.
Settled ==
  main.request = "schedule" /\ ~main.late /\ main.pc \in {"idle", "listen", "report"}

SettledInv ==
  Settled => InForce(main.list, main.base, now, lastSet, status, word, jobs, pool)

\* Steps of the main loop that leave the schedule alone.
LEMMA SettledSame ==
  ASSUME SettledInv, Settled' => Settled, main'.list = main.list, main'.base = main.base,
         UNCHANGED <<now, lastSet, status, word, jobs, pool>>
  PROVE  SettledInv'
<1>1. SUFFICES ASSUME Settled'
               PROVE  InForce(main.list, main.base, now, lastSet, status, word, jobs, pool)
  BY DEF SettledInv
<1>2. QED
  BY <1>1 DEF SettledInv

LEMMA SettledMain ==
  ASSUME Shape, ReplyInv, TimeInv, ListInv, PrepareInv, SettledInv, MainNext
  PROVE  SettledInv'
<1>0. {"pc", "request", "list", "base", "ask", "waiting", "keep", "sets", "late"} \subseteq DOMAIN main
  BY MainFields
<1>1. CASE \/ \E s \in Schedule : ReceiveSchedule(s)
           \/ ReceiveClear \/ RemoveAllJobs \/ ChooseClears \/ AssignZeros \/ ReadValue
           \/ SendValue \/ FinishClear
  <2>1. \/ main'.pc \in {"remove", "check", "assign", "read", "send"}
        \/ main'.request = "clear"
    BY <1>0, <1>1 DEF ReceiveSchedule, ReceiveClear, RemoveAllJobs, ChooseClears, AssignZeros,
       ReadValue, SendValue, FinishClear
  <2>2. ~Settled'
    BY <2>1 DEF Settled
  <2>3. QED
    BY <2>2 DEF SettledInv
<1>2. CASE MainAsks \/ MainTakesReply
  <2>1. /\ main'.pc = main.pc /\ main'.request = main.request /\ main'.late = main.late
        /\ main'.list = main.list /\ main'.base = main.base
        /\ UNCHANGED <<now, lastSet, status, word, jobs, pool>>
    BY <1>0, <1>2 DEF MainAsks, MainTakesReply
  <2>2. QED
    BY <2>1, SettledSame DEF Settled
<1>3. CASE \/ ReceiveCurrNextPhaseRequest \/ SendCurrNextPhases
           \/ \E green1, green2 \in BOOLEAN : ReceiveCurrPhases(green1, green2)
  <2>1. /\ main.pc \in {"idle", "listen", "report"} /\ main'.request = main.request
        /\ main'.late = main.late /\ main'.list = main.list /\ main'.base = main.base
        /\ UNCHANGED <<now, lastSet, status, word, jobs, pool>>
    BY <1>0, <1>3 DEF ReceiveCurrNextPhaseRequest, SendCurrNextPhases, ReceiveCurrPhases
  <2>2. QED
    BY <2>1, SettledSame DEF Settled
<1>4. CASE AddJobs
  <2>1. SUFFICES ASSUME Settled'
                 PROVE  SettledInv'
    BY DEF SettledInv
  <2>2. /\ main.pc = "assign" /\ main.sets = <<>> /\ main.request = "schedule"
        /\ main'.list = main.list /\ main'.base = now /\ main'.late = main.late
        /\ jobs' = jobs \cup JobsFor(main.list, now, received)
        /\ UNCHANGED <<now, lastSet, status, word, pool>>
    BY <1>0, <1>4 DEF AddJobs
  <2>3. Preparing
    BY <2>1, <2>2 DEF Preparing, Settled
  <2>4. /\ jobs = {} /\ pool = {} /\ \A c \in Control : status[c] = {}
        /\ \A c \in main.keep : Keeps(main.list, c)
        /\ \A c \in Control : word[c] # {} =>
             c \in main.keep \/ \E i \in DOMAIN main.sets : main.sets[i] = c
    BY <2>2, <2>3 DEF PrepareInv
  <2>5. \A c \in Control : word[c] # {} => Keeps(main.list, c)
    BY <2>2, <2>4
  <2>6. IsScheduleList(main.list) /\ now \in Nat
    BY <2>2 DEF ListInv, TimeInv
  <2>7. InForce(main.list, now, now, lastSet, status, word, JobsFor(main.list, now, received), {})
    BY <2>4, <2>5, <2>6, InForceNew
  <2>8. /\ jobs' = JobsFor(main.list, now, received) /\ pool' = {}
    BY <2>2, <2>4
  <2>9. QED
    BY <2>2, <2>7, <2>8 DEF SettledInv
<1>5. QED
  BY <1>1, <1>2, <1>3, <1>4 DEF MainNext

LEMMA SettledPool ==
  ASSUME Shape, TimeInv, ListInv, SettledInv, PoolNext
  PROVE  SettledInv'
<1>0. /\ {"pc", "request", "list", "base", "late"} \subseteq DOMAIN main
      /\ DOMAIN status = Control /\ word = [c \in Control |-> word[c]]
      /\ now \in Nat /\ lastSet \in Nat /\ main.base \in Nat
  BY MainFields DEF TimeInv
<1>1. SUFFICES ASSUME Settled'
               PROVE  InForce(main'.list, main'.base, now', lastSet', status', word', jobs', pool')
  BY DEF SettledInv
<1>2. /\ main'.request = main.request /\ main'.pc = main.pc /\ main'.list = main.list
      /\ main'.base = main.base /\ (~main'.late => ~main.late)
  BY <1>0 DEF PoolNext, SubmitJob, WriteBit, ReadBits, SendBits
<1>3. Settled
  BY <1>1, <1>2 DEF Settled
<1>4. IsScheduleList(main.list)
  BY <1>3 DEF Settled, ListInv
<1>5. InForce(main.list, main.base, now, lastSet, status, word, jobs, pool)
  BY <1>3 DEF SettledInv
<1>6. PoolFits(main.list, main.base, now, status, pool)
  BY <1>5 DEF InForce
<1>7. ASSUME NEW j \in jobs, SubmitJob(j)
      PROVE  InForce(main'.list, main'.base, now', lastSet', status', word', jobs', pool')
  <2> DEFINE u == [ id |-> j.id, control |-> j.control, action |-> j.action,
                    todo |-> j.phases, pc |-> "bits", value |-> {}, late |-> FALSE ]
  <2>1. /\ j.next <= now /\ pool' = pool \cup {u}
        /\ jobs' = IF j.action /\ j.next + RefreshPeriod <= j.end
                   THEN (jobs \ {j}) \cup {[j EXCEPT !.next = j.next + RefreshPeriod]}
                   ELSE jobs \ {j}
        /\ UNCHANGED <<now, lastSet, status, word>>
    BY <1>7 DEF SubmitJob, Due
  <2>2. Submitted(jobs, jobs', j, u)
    BY <2>1 DEF Submitted
  <2>3. DOMAIN j = {"id", "control", "action", "phases", "next", "end"}
    BY DEF Shape
  <2> HIDE DEF u
  <2>4. InForce(main.list, main.base, now, lastSet, status, word, jobs', pool \cup {u})
    BY <1>0, <1>4, <1>5, <2>1, <2>2, <2>3, InForceSubmit
  <2>5. QED
    BY <1>2, <2>1, <2>4
<1>8. ASSUME NEW t \in pool, NEW p \in t.todo, WriteBit(t, p)
      PROVE  InForce(main'.list, main'.base, now', lastSet', status', word', jobs', pool')
  <2> DEFINE u == [t EXCEPT !.todo = @ \ {p}]
  <2>1. /\ pool' = (pool \ {t}) \cup {u}
        /\ status' = [status EXCEPT ![t.control] = IF t.action THEN @ \cup {p} ELSE @ \ {p}]
        /\ UNCHANGED <<now, lastSet, word, jobs>>
    BY <1>8 DEF WriteBit
  <2>2. t.control \in Control
    BY <1>4, <1>6, InstanceControl
  <2>3. /\ u.control = t.control /\ u.action = t.action /\ u.todo = t.todo \ {p}
        /\ u.pc = t.pc /\ u.value = t.value
    BY DEF Shape
  <2>4. /\ status'[t.control] = IF t.action THEN status[t.control] \cup {p} ELSE status[t.control] \ {p}
        /\ \A c \in Control : c # t.control => status'[c] = status[c]
    BY <1>0, <2>1, <2>2
  <2> HIDE DEF u
  <2>5. Written(t, u, p, status[t.control], status'[t.control])
    BY <2>3, <2>4 DEF Written
  <2>6. ASSUME NEW S1, S1 = status'
        PROVE  InForce(main.list, main.base, now, lastSet, S1, word, jobs, (pool \ {t}) \cup {u})
    <3>1. /\ Written(t, u, p, status[t.control], S1[t.control])
          /\ \A c \in Control : c # t.control => S1[c] = status[c]
      BY <2>4, <2>5, <2>6
    <3>2. QED
      BY <1>0, <1>4, <1>5, <3>1, InForceWrite
  <2>7. QED
    BY <1>2, <2>1, <2>6
<1>9. ASSUME NEW t \in pool, ReadBits(t)
      PROVE  InForce(main'.list, main'.base, now', lastSet', status', word', jobs', pool')
  <2> DEFINE u == [t EXCEPT !.pc = "send", !.value = status[t.control]]
  <2>1. /\ t.pc = "bits" /\ t.todo = {} /\ pool' = (pool \ {t}) \cup {u}
        /\ UNCHANGED <<now, lastSet, status, word, jobs>>
    BY <1>9 DEF ReadBits
  <2>2. /\ u.control = t.control /\ u.action = t.action /\ u.todo = t.todo
        /\ u.pc = "send" /\ u.value = status[t.control]
    BY DEF Shape
  <2> HIDE DEF u
  <2>3. ReadIn(t, u, status[t.control])
    BY <2>1, <2>2 DEF ReadIn
  <2>4. InForce(main.list, main.base, now, lastSet, status, word, jobs, (pool \ {t}) \cup {u})
    BY <1>0, <1>4, <1>5, <2>3, InForceRead
  <2>5. QED
    BY <1>2, <2>1, <2>4
<1>10. ASSUME NEW t \in pool, SendBits(t)
       PROVE  InForce(main'.list, main'.base, now', lastSet', status', word', jobs', pool')
  <2>1. /\ t.pc = "send" /\ pool' = pool \ {t} /\ lastSet' = now
        /\ word' = [word EXCEPT ![t.control] = t.value]
        /\ UNCHANGED <<now, status, jobs>>
    BY <1>10 DEF SendBits
  <2>2. \A c \in Control : word'[c] = IF c = t.control THEN t.value ELSE word[c]
    BY <1>0, <2>1
  <2>3. InForce(main.list, main.base, now, now, status, word', jobs, pool \ {t})
    BY <1>0, <1>4, <1>5, <2>1, <2>2, InForceSend
  <2>4. QED
    BY <1>2, <2>1, <2>3
<1>11. QED
  BY <1>7, <1>8, <1>9, <1>10 DEF PoolNext

LEMMA SettledNext ==
  ASSUME Shape, ReplyInv, TimeInv, ListInv, PrepareInv, SettledInv, [Next]_vars
  PROVE  SettledInv'
<1>1. CASE UpdateNext \/ UNCHANGED vars
  <2>1. UNCHANGED <<main, now, lastSet, status, word, jobs, pool>>
    BY <1>1 DEF UpdateNext, StartUpdate, UpdateAsks, UpdateTakesReply, FinishUpdate, vars
  <2>2. QED
    BY <2>1, SettledSame DEF Settled
<1>2. ASSUME Settled
      PROVE  /\ IsScheduleList(main.list)
             /\ InForce(main.list, main.base, now, lastSet, status, word, jobs, pool)
             /\ now \in Nat /\ lastSet \in Nat /\ main.base \in Nat
  BY <1>2 DEF Settled, ListInv, TimeInv, SettledInv
<1>3. CASE BackupExpires
  <2>1. /\ now - lastSet >= ntcipBackupTime /\ word' = NoBits
        /\ UNCHANGED <<main, now, lastSet, status, jobs, pool>>
    BY <1>3 DEF BackupExpires, BackupDue
  <2>2. \A c \in Control : word'[c] = {}
    BY <2>1 DEF NoBits
  <2>3. ASSUME Settled
        PROVE  InForce(main.list, main.base, now, lastSet, status, word', jobs, pool)
    BY <1>2, <2>1, <2>2, <2>3, InForceBackup
  <2>4. QED
    BY <2>1, <2>3 DEF SettledInv, Settled
<1>4. CASE Tick
  <2>1. /\ pool = {} /\ (\A j \in jobs : ~(j.next <= now)) /\ now' = now + 1
        /\ UNCHANGED <<main, lastSet, status, word, jobs, pool>>
    BY <1>4 DEF Tick, Due
  <2>2. ASSUME Settled
        PROVE  InForce(main.list, main.base, now + 1, lastSet, status, word, jobs, {})
    BY <1>2, <2>1, <2>2, InForceTick
  <2>3. QED
    BY <2>1, <2>2 DEF SettledInv, Settled
<1>5. ASSUME NEW orderly \in BOOLEAN, Restart(orderly)
      PROVE  SettledInv'
  <2>1. main'.request = "none"
    BY <1>5, MainFields DEF Restart
  <2>2. QED
    BY <2>1 DEF SettledInv, Settled
<1>6. QED
  BY <1>1, <1>3, <1>4, <1>5, SettledMain, SettledPool DEF Next

-----------------------------------------------------------------------------
(* The words of the controller *)

PcInv == main.pc \in MainPc

LEMMA PcNext ==
  ASSUME Shape, PcInv, [Next]_vars
  PROVE  PcInv'
<1>0. "pc" \in DOMAIN main /\ IdleMain.pc = "idle"
  BY MainFields
<1>1. CASE MainNext
  <2>1. main'.pc \in {main.pc, "idle", "remove", "check", "assign", "read", "send", "listen", "report"}
    BY <1>0, <1>1 DEF MainNext, ReceiveSchedule, ReceiveClear, RemoveAllJobs, MainAsks, MainTakesReply,
     ChooseClears, AssignZeros, ReadValue, SendValue, FinishClear, AddJobs,
     ReceiveCurrNextPhaseRequest, ReceiveCurrPhases, SendCurrNextPhases
  <2>2. QED
    BY <2>1 DEF PcInv, MainPc
<1>2. CASE PoolNext
  <2>1. main'.pc = main.pc
    BY <1>0, <1>2 DEF PoolNext, SubmitJob, WriteBit, ReadBits, SendBits
  <2>2. QED
    BY <2>1 DEF PcInv
<1>3. CASE UpdateNext \/ BackupExpires \/ Tick \/ UNCHANGED vars
  <2>1. UNCHANGED main
    BY <1>3 DEF UpdateNext, StartUpdate, UpdateAsks, UpdateTakesReply, FinishUpdate,
       BackupExpires, Tick, vars
  <2>2. QED
    BY <2>1 DEF PcInv
<1>4. ASSUME NEW orderly \in BOOLEAN, Restart(orderly)
      PROVE  PcInv'
  BY <1>0, <1>4 DEF Restart, PcInv, MainPc
<1>5. QED
  BY <1>1, <1>2, <1>3, <1>4 DEF Next

InForceInv ==
  /\ Shape /\ ReplyInv /\ BitsInv /\ PcInv /\ TimeInv /\ ListInv
  /\ KeepInv /\ PrepareInv /\ AskInv /\ SettledInv

LEMMA InForceInvariant == Spec => []InForceInv
<1>1. Init => InForceInv
  <2>1. SUFFICES ASSUME Init
                 PROVE  InForceInv
    OBVIOUS
  <2>2. Shape /\ ReplyInv /\ BitsInv
    BY <2>1, SchedulerStarts DEF SchedulerInv
  <2>3. /\ main.pc = "idle" /\ main.request = "none" /\ main.base = 0 /\ main.keep = {}
        /\ now = 0 /\ lastSet = 0
    BY <2>1 DEF Init, IdleMain
  <2>4. PcInv /\ TimeInv /\ ListInv /\ KeepInv
    BY <2>3 DEF PcInv, MainPc, TimeInv, ListInv, KeepInv
  <2>5. PrepareInv /\ AskInv /\ SettledInv
    BY <2>3 DEF PrepareInv, AskInv, SettledInv, Preparing, Settled
  <2>6. QED
    BY <2>2, <2>4, <2>5 DEF InForceInv
<1>2. InForceInv /\ [Next]_vars => InForceInv'
  <2>1. SUFFICES ASSUME InForceInv, [Next]_vars
                 PROVE  InForceInv'
    OBVIOUS
  <2>2. /\ Shape /\ ReplyInv /\ BitsInv /\ PcInv /\ TimeInv /\ ListInv
        /\ KeepInv /\ PrepareInv /\ AskInv /\ SettledInv
    BY <2>1 DEF InForceInv
  <2>3. Shape' /\ ReplyInv' /\ BitsInv' /\ PcInv' /\ TimeInv' /\ ListInv'
    BY <2>1, <2>2, ShapeNext, ReplyNext, BitsNext, PcNext, TimeNext, ListNext
  <2>4. KeepInv' /\ PrepareInv' /\ AskInv' /\ SettledInv'
    BY <2>1, <2>2, KeepNext, PrepareNext, AskNext, SettledNext
  <2>5. QED
    BY <2>3, <2>4 DEF InForceInv
<1>3. QED
  BY <1>1, <1>2, PTL DEF Spec

\* When all that was due is done, no SET is to come.
LEMMA QuietIsIdle ==
  ASSUME InForceInv, NEW c, Undisturbed(c)
  PROVE  /\ Settled /\ Tame(main.list, c) /\ ~Busy(now, jobs, pool, c)
         /\ InForce(main.list, main.base, now, lastSet, status, word, jobs, pool)
<1>1. /\ main.pc = "idle" /\ pool = {} /\ \A j \in jobs : ~(j.next <= now)
      /\ main.request = "schedule" /\ ~main.late /\ Tame(main.list, c)
  BY DEF Undisturbed, Quiet, Due
<1>2. Settled
  BY <1>1 DEF Settled
<1>3. InForce(main.list, main.base, now, lastSet, status, word, jobs, pool)
  BY <1>2 DEF InForceInv, SettledInv
<1>4. now \in Nat
  BY DEF InForceInv, TimeInv
<1>5. \A j \in jobs : j.next # now
  <2>1. now <= now
    BY <1>4
  <2>2. QED
    BY <1>1, <2>1
<1>6. QED
  BY <1>1, <1>2, <1>3, <1>5 DEF Busy

\* A command of a tame control is in force from its start to the first end of its group,
\* at every time at which all that was due is done: the refresh precedes the controller's
\* backup time, and no other thread takes it back.
THEOREM CommandsAreInForce == Spec => []CommandInForce
<1>1. InForceInv => CommandInForce
  <2>1. SUFFICES ASSUME InForceInv, NEW c \in Control, Undisturbed(c), NEW i \in Refreshed(c)
                 PROVE  main.list[i].phase \in word[c]
    BY DEF CommandInForce, PhasesOf
  <2>2. /\ Tame(main.list, c) /\ ~Busy(now, jobs, pool, c)
        /\ InForce(main.list, main.base, now, lastSet, status, word, jobs, pool)
    BY <2>1, QuietIsIdle
  <2>3. WordOn(main.list, main.base, now, lastSet, word[c], jobs, pool, c)
    BY <2>2 DEF InForce, On
  <2>4. i \in ActiveAt(main.list, now - main.base, c) /\ now - main.base < GroupEnd(main.list, i)
    BY DEF Refreshed, Current, Elapsed, ActiveAt, GroupEnd
  <2>5. QED
    BY <2>2, <2>3, <2>4 DEF WordOn
<1>2. QED
  BY <1>1, InForceInvariant, PTL

\* Nothing else is in force then, if the commands of each control end in the order in
\* which they start.
THEOREM NothingElseIsInForce == Spec => []NothingElseInForce
<1>1. InForceInv => NothingElseInForce
  <2>1. SUFFICES ASSUME InForceInv, NEW c \in Control, Undisturbed(c), EndsInOrder(main.list),
                        NEW p \in word[c]
                 PROVE  \E i \in Current(c) : main.list[i].phase = p
    BY DEF NothingElseInForce, PhasesOf
  <2>2. /\ Tame(main.list, c) /\ ~Busy(now, jobs, pool, c)
        /\ InForce(main.list, main.base, now, lastSet, status, word, jobs, pool)
    BY <2>1, QuietIsIdle
  <2>3. WordOff(main.list, main.base, now, word[c], jobs, pool, c)
    BY <2>1, <2>2 DEF InForce, Off
  <2>4. PICK i \in ActiveAt(main.list, now - main.base, c) : main.list[i].phase = p
    BY <2>2, <2>3 DEF WordOff
  <2>5. i \in Current(c)
    BY DEF ActiveAt, Current, Elapsed
  <2>6. QED
    BY <2>4, <2>5
<1>2. QED
  BY <1>1, InForceInvariant, PTL

\* What a deactivation takes back ends at the time at which it falls due.
LEMMA NothingEnds ==
  ASSUME NEW list, IsScheduleList(list), NEW c, NEW at \in Int,
         ~ \E i \in DOMAIN list : list[i].control = c /\ list[i].endTime = at
  PROVE  ~FiringAt(list, at, c, FALSE)
<1>1. SUFFICES ASSUME NEW o \in JobsFor(list, 0, 0), o.control = c, o.action = FALSE,
                      at \in FireTimes(o)
               PROVE  FALSE
  BY DEF FiringAt
<1>2. /\ o.next \in Nat /\ o.end \in Nat /\ o.next <= at /\ at <= o.end
  BY <1>1, JobOfList, FireTimeRange
<1>3. PICK p \in o.phases : TRUE
  BY JobOfList
<1>4. PICK k \in DOMAIN list :
        list[k].control = c /\ list[k].endTime = o.next /\ list[k].endTime = o.end
  BY <1>1, <1>3, JobOfList
<1>5. list[k].endTime \in Nat
  BY CommandOfList
<1>6. list[k].endTime = at
  BY <1>2, <1>4, <1>5
<1>7. QED
  BY <1>4, <1>6

\* The SET of an instance of a schedule in force has a bit in it, unless a command ends.
LEMMA SetIsForCause ==
  ASSUME NEW list, IsScheduleList(list), NEW base \in Nat, NEW n \in Nat, NEW S, NEW P,
         PoolFits(list, base, n, S, P), NEW t \in P, t.pc = "send",
         ~ \E i \in DOMAIN list : list[i].control = t.control /\ list[i].endTime = n - base
  PROVE  t.value # {}
<1>1. PICK o \in JobsFor(list, 0, 0) : IsInstanceOf(list, n - base, S[t.control], t, o)
  BY DEF PoolFits
<1>2. ~FiringAt(list, n - base, t.control, FALSE)
  <2>1. n - base \in Int
    OBVIOUS
  <2>2. QED
    BY <2>1, NothingEnds
<1>3. o.phases # {} /\ o.action \in BOOLEAN
  BY JobOfList
<1>4. /\ o.control = t.control /\ o.action = t.action /\ n - base \in FireTimes(o)
  BY <1>1 DEF IsInstanceOf
<1>5. t.action # FALSE
  BY <1>2, <1>4 DEF FiringAt
<1>6. t.action = TRUE
  BY <1>3, <1>4, <1>5
<1>7. o.phases \subseteq t.value
  BY <1>1, <1>2, <1>6 DEF IsInstanceOf
<1>8. QED
  BY <1>3, <1>7

\* A word with a bit set is emptied for one of the causes only: in particular not by a
\* refresh that read the status word while another thread was changing it, and not by a
\* new schedule that begins with a hold or omit of the same control; of the old schedule
\* no other word is left when the jobs of the new one are added.
THEOREM WordsAreEmptiedForCause == Spec => EmptiedForCause
<1> DEFINE Cause(c) ==
        \/ now - lastSet >= ntcipBackupTime \/ main'.request = "none"
        \/ \E i \in DOMAIN main.list : main.list[i].control = c /\ main.list[i].endTime = Elapsed
        \/ main.request = "clear"
        \/ SendValue /\ (~Keeps(main.list, c) \/ main.crossed)
        \/ main.late
<1>1. ASSUME InForceInv, Next, NEW c \in Control, word[c] # {}, word'[c] = {}
      PROVE  Cause(c)
  <2>0. /\ Shape /\ BitsInv /\ PcInv /\ TimeInv /\ ListInv /\ KeepInv /\ PrepareInv /\ AskInv
        /\ SettledInv /\ word = [d \in Control |-> word[d]]
    BY <1>1 DEF InForceInv, Shape
  <2>1. CASE SendValue
    <3>1. SUFFICES ASSUME ~main.late, ~main.crossed, main.request # "clear", main'.request # "none"
                   PROVE  Cause(c)
      BY <2>1
    <3>2. main.pc = "send" /\ word' = [word EXCEPT ![Head(main.sets)] = main.value]
      BY <2>1 DEF SendValue
    <3>3. main.request = "schedule"
      BY <2>0, <3>1, <3>2 DEF KeepInv
    <3>4. Preparing
      BY <3>1, <3>2, <3>3 DEF Preparing
    <3>5. main.sets \in Seq(Control) /\ main.sets # <<>>
      BY <2>0, <3>2, <3>4 DEF PrepareInv
    <3>6. 1 \in DOMAIN main.sets /\ Head(main.sets) = main.sets[1]
      BY <3>5
    <3>7. c = main.sets[1]
      BY <1>1, <2>0, <3>2, <3>6
    <3>8. Keeps(main.list, main.sets[1]) => word[main.sets[1]] = {}
      BY <2>0, <3>1, <3>2, <3>4, <3>6 DEF AskInv
    <3>9. QED
      BY <1>1, <2>1, <3>7, <3>8
  <2>2. ASSUME NEW t \in pool, SendBits(t)
        PROVE  Cause(c)
    <3>1. SUFFICES ASSUME ~main.late, main.request # "clear", main'.request # "none",
                          ~ \E i \in DOMAIN main.list :
                              main.list[i].control = c /\ main.list[i].endTime = Elapsed
                   PROVE  FALSE
      OBVIOUS
    <3>2. t.pc = "send" /\ word' = [word EXCEPT ![t.control] = t.value] /\ main' = main
      BY <2>2 DEF SendBits
    <3>3. main.request = "schedule"
      BY <2>0, <3>1, <3>2 DEF KeepInv
    <3>4. main.pc # "remove"
      BY <2>0, <2>2, <3>1, <3>3 DEF BitsInv
    <3>5. ~Preparing
      BY <2>0, <2>2 DEF PrepareInv
    <3>6. Settled
      BY <2>0, <3>1, <3>3, <3>4, <3>5 DEF Settled, Preparing, PcInv, MainPc
    <3>7. /\ PoolFits(main.list, main.base, now, status, pool) /\ IsScheduleList(main.list)
          /\ main.base \in Nat /\ now \in Nat
      BY <2>0, <3>3, <3>6 DEF SettledInv, InForce, ListInv, TimeInv
    <3>8. t.control = c /\ t.value = {}
      BY <1>1, <2>0, <3>2
    <3>9. t.value # {}
      BY <2>2, <3>1, <3>2, <3>7, <3>8, SetIsForCause DEF Elapsed
    <3>10. QED
      BY <3>8, <3>9
  <2>3. CASE BackupExpires
    BY <2>3 DEF BackupExpires, BackupDue
  <2>4. ASSUME NEW orderly \in BOOLEAN, Restart(orderly)
        PROVE  Cause(c)
    BY <2>4, MainFields, <2>0 DEF Restart
  <2>5. ASSUME MainNext, ~SendValue
        PROVE  word' = word
    BY <2>5 DEF MainNext, ReceiveSchedule, ReceiveClear, RemoveAllJobs, MainAsks, MainTakesReply,
     ChooseClears, AssignZeros, ReadValue, FinishClear, AddJobs,
     ReceiveCurrNextPhaseRequest, ReceiveCurrPhases, SendCurrNextPhases
  <2>6. ASSUME PoolNext, ~ \E t \in pool : SendBits(t)
        PROVE  word' = word
    BY <2>6 DEF PoolNext, SubmitJob, WriteBit, ReadBits
  <2>7. ASSUME UpdateNext \/ Tick
        PROVE  word' = word
    BY <2>7 DEF UpdateNext, StartUpdate, UpdateAsks, UpdateTakesReply, FinishUpdate, Tick
  <2> HIDE DEF Cause
  <2>8. QED
    BY <1>1, <2>1, <2>2, <2>3, <2>4, <2>5, <2>6, <2>7 DEF Next
<1>2. ASSUME InForceInv, AddJobs, ~main.late, NEW c \in Control, word[c] # {}
      PROVE  Keeps(main.list, c)
  <2>1. main.pc = "assign" /\ main.sets = <<>> /\ main.request = "schedule"
    BY <1>2 DEF AddJobs
  <2>2. PrepareInv /\ Preparing
    BY <1>2, <2>1 DEF InForceInv, Preparing
  <2>3. c \in main.keep
    BY <1>2, <2>1, <2>2 DEF PrepareInv
  <2>4. QED
    BY <2>2, <2>3 DEF PrepareInv
<1> HIDE DEF Cause
<1>3. InForceInv /\ [Next]_vars =>
        [ /\ \A c \in Control : word[c] # {} /\ word'[c] = {} => Cause(c)
          /\ AddJobs /\ ~main.late =>
               \A c \in Control : word[c] # {} => Keeps(main.list, c) ]_vars
  BY <1>1, <1>2
<1>4. QED
  BY <1>3, InForceInvariant, PTL DEF Spec, EmptiedForCause, Cause
==============================================================================

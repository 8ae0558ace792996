------------------------ MODULE PhaseControlScheduler ------------------------
(***************************************************************************)
(* The phase control side of the Traffic Controller Interface: the main    *)
(* loop turns a schedule into background jobs, and the threads that run    *)
(* the jobs set the six control words of the signal controller.            *)
(*                                                                         *)
(* Threads and what they share:                                            *)
(*   - the main loop, stopped before each access to shared state;          *)
(*   - one thread per job instance (the pool of the background scheduler), *)
(*     which changes a status word bit by bit, reads it, and sends it;     *)
(*   - the update of the timing plan, run by the other scheduler, which    *)
(*     reads from the SNMP engine over the same socket as the main loop.   *)
(*                                                                         *)
(* The SNMP engine serves its socket in order, so what it answers and what *)
(* it sets is fixed when the datagram is sent.  A tick is the tenth of a   *)
(* second to which start and end times are rounded.                        *)
(***************************************************************************)
EXTENDS Integers, Sequences, FiniteSets, VectorOps

CONSTANTS
  Phase,            \* the phases, numbered from 1
  Schedule,         \* the schedules that the solver may send
  PlanOid,          \* the objects that make up a timing plan, in reading order
  ntcipBackupTime,  \* after so many ticks without a SET the controller reverts
  RefreshPeriod,    \* the interval of an activation, ntcipBackupTime_Sec - 1
  MaxMessages, MaxUpdates, MaxTime   \* bounds of the explored behaviours

CALL_VEH_PHASES == "call_veh"
CALL_PED_PHASES == "call_ped"
FORCEOFF_PHASES == "forceoff"
HOLD_VEH_PHASES == "hold"
OMIT_VEH_PHASES == "omit_veh"
OMIT_PED_PHASES == "omit_ped"

Control == { CALL_VEH_PHASES, CALL_PED_PHASES, FORCEOFF_PHASES,
             HOLD_VEH_PHASES, OMIT_VEH_PHASES, OMIT_PED_PHASES }

Command == [control : Control, phase : Phase, startTime : Int, endTime : Int]

ASSUME SchedulerAssumption ==
  /\ Phase \subseteq Nat \ {0}
  /\ Schedule \subseteq Seq(Command)
  /\ ntcipBackupTime \in Nat /\ RefreshPeriod \in 1 .. ntcipBackupTime - 1
  /\ MaxMessages \in Nat /\ MaxUpdates \in Nat /\ MaxTime \in Nat

\* Objects read in sendCurrentAndNextPhasesDict.
PHASE_GROUP_STATUS_NEXT == "next"
VEHICLE_CALLS == "vehicleCalls"
PEDESTRIAN_CALLS == "pedestrianCalls"

StatusOid == {PHASE_GROUP_STATUS_NEXT, VEHICLE_CALLS, PEDESTRIAN_CALLS}

ASSUME OidAssumption ==
  /\ \A i \in DOMAIN PlanOid : PlanOid[i] \notin Control \cup StatusOid
  /\ PlanOid \in Seq({PlanOid[i] : i \in DOMAIN PlanOid})

Oid == Control \cup StatusOid \cup {PlanOid[i] : i \in DOMAIN PlanOid}

VARIABLES
  now,
  status,    \* phaseControls[control]["status"], the phases whose bit is set
  word,      \* the controller's word of each control, as last set
  lastSet,   \* when the controller last received a SET of a control word
  jobs,      \* the jobs in the job store of the background scheduler
  pool,      \* the job instances that its threads are running
  main,      \* the main loop
  update,    \* the thread that updates the timing plan
  replies,   \* replies waiting at the SNMP socket
  plan,      \* currentTimingPlanJson, by the objects whose values it holds
  received,  \* number of messages taken from the main socket
  updates    \* number of timing plan updates started

vars == <<now, status, word, lastSet, jobs, pool, main, update, replies, plan,
          received, updates>>

-----------------------------------------------------------------------------
(* From a schedule to jobs *)

\* Commands whose times make sense; the others are dropped.
Valid(c) == c.startTime < c.endTime /\ c.startTime >= 0

\* A strict order that sorts as the code does: type, start, end, phase.  The
\* numbers stand for the alphabetical order of the types' names.
TypeRank(control) ==
  CASE control = CALL_PED_PHASES -> 1
    [] control = CALL_VEH_PHASES -> 2
    [] control = FORCEOFF_PHASES -> 3
    [] control = HOLD_VEH_PHASES -> 4
    [] control = OMIT_PED_PHASES -> 5
    [] control = OMIT_VEH_PHASES -> 6

SortKey(c) == <<TypeRank(c.control), c.startTime, c.endTime, c.phase>>

KeyLess(a, b) ==
  \E k \in 1 .. 4 : a[k] < b[k] /\ \A j \in 1 .. k - 1 : a[j] = b[j]

\* The place of the i-th command in the sorted list; equal ones keep their order.
PlaceOf(s, i) ==
  Cardinality({j \in DOMAIN s : \/ KeyLess(SortKey(s[j]), SortKey(s[i]))
                                \/ SortKey(s[j]) = SortKey(s[i]) /\ j <= i})

Sorted(s) ==
  [n \in DOMAIN s |-> s[CHOOSE i \in DOMAIN s : PlaceOf(s, i) = n]]

scheduleDataStructure(s) == Sorted(Keep(s, {i \in DOMAIN s : Valid(s[i])}))

\* Commands that have the same startTime, or the same endTime.
Together(a, b, field) == a.control = b.control /\ a[field] = b[field]

\* The list is walked from the front; the walk gathers the commands that go
\* together from the whole list, then advances by as many places as it gathered.
GroupOf(list, field, i) == {j \in DOMAIN list : Together(list[j], list[i], field)}

NextPlace(list, field, i) == i + Cardinality(GroupOf(list, field, i))

\* Sets of places that the walk, once at one of them, does not leave.
IsWalk(list, field, H) ==
  /\ 1 \in DOMAIN list => 1 \in H
  /\ \A i \in H : NextPlace(list, field, i) \in DOMAIN list =>
                    NextPlace(list, field, i) \in H

\* The places at which the walk stops: the smallest of those sets.
Heads(list, field) ==
  {i \in DOMAIN list : \A H \in SUBSET DOMAIN list : IsWalk(list, field, H) => i \in H}

PhasesOf(list, G) == {list[j].phase : j \in G}

FirstEnd(list, G) ==
  CHOOSE e \in {list[j].endTime : j \in G} : \A j \in G : e <= list[j].endTime

\* An activation repeats from its start to the first end of its group.
Activation(list, i, base, gen) ==
  LET G == GroupOf(list, "startTime", i)
  IN  [ id |-> <<"on", i, gen>>, control |-> list[i].control, action |-> TRUE,
        phases |-> PhasesOf(list, G), next |-> base + list[i].startTime,
        end |-> base + FirstEnd(list, G) ]

\* A deactivation runs once.
Deactivation(list, i, base, gen) ==
  [ id |-> <<"off", i, gen>>, control |-> list[i].control, action |-> FALSE,
    phases |-> PhasesOf(list, GroupOf(list, "endTime", i)),
    next |-> base + list[i].endTime, end |-> base + list[i].endTime ]

JobsFor(list, base, gen) ==
  {Activation(list, i, base, gen) : i \in Heads(list, "startTime")}
    \cup {Deactivation(list, i, base, gen) : i \in Heads(list, "endTime")}

-----------------------------------------------------------------------------
(* The state *)

NoBits == [c \in Control |-> {}]

\* The order in which clearAllNtcipCommandsFromSignalController, and
\* clearOldSchedule after its conditional part, go through the controls.
ClearAllWithoutHolds == << CALL_VEH_PHASES, CALL_PED_PHASES, FORCEOFF_PHASES,
                           OMIT_VEH_PHASES, OMIT_PED_PHASES >>   \* mutant
ClearAllOrder == << CALL_VEH_PHASES, CALL_PED_PHASES, FORCEOFF_PHASES,
                    HOLD_VEH_PHASES, OMIT_VEH_PHASES, OMIT_PED_PHASES >>
ClearOldWithoutOmits == << HOLD_VEH_PHASES, CALL_VEH_PHASES, CALL_PED_PHASES,
                           FORCEOFF_PHASES >>                    \* mutant
ClearOldOrder == << HOLD_VEH_PHASES, OMIT_VEH_PHASES, OMIT_PED_PHASES,
                    CALL_VEH_PHASES, CALL_PED_PHASES, FORCEOFF_PHASES >>

Keepable == {HOLD_VEH_PHASES, OMIT_VEH_PHASES, OMIT_PED_PHASES}

Job == [ id : {"on", "off"} \X Nat \X Nat, control : Control, action : BOOLEAN,
         phases : SUBSET Phase, next : Int, end : Int ]

\* A running setPhaseControl: the bits still to write, then the value to send.
\* "late" marks an instance that outlived the removal of its job.
Instance == [ id : {"on", "off"} \X Nat \X Nat, control : Control, action : BOOLEAN,
              todo : SUBSET Phase, pc : {"bits", "send"},
              value : SUBSET Phase, late : BOOLEAN ]

(***************************************************************************)
(* The main loop: the request it works on, the list of the schedule last   *)
(* put in the job store and the time that happened, and the local          *)
(* variables of the functions it is in.  "late" and "crossed" only serve   *)
(* to state properties: a job of the previous schedule ran after the       *)
(* status words were reset; a reply was taken that may be another's.       *)
(***************************************************************************)
MainPc == {"idle", "remove", "check", "assign", "read", "send", "listen", "report"}

MainLoop ==
  [ pc : MainPc, request : {"none", "clear", "schedule"}, list : Seq(Command),
    base : Int, ask : Seq(Oid), waiting : BOOLEAN, keep : SUBSET Control,
    sets : Seq(Control), value : SUBSET Phase, late : BOOLEAN, crossed : BOOLEAN ]

IdleMain ==
  [ pc |-> "idle", request |-> "none", list |-> <<>>, base |-> 0, ask |-> <<>>,
    waiting |-> FALSE, keep |-> {}, sets |-> <<>>, value |-> {},
    late |-> FALSE, crossed |-> FALSE ]

Update == [reading : BOOLEAN, waiting : BOOLEAN, got : Seq(Oid)]
IdleUpdate == [reading |-> FALSE, waiting |-> FALSE, got |-> <<>>]

Reply == [oid : Oid, positive : BOOLEAN]

Init ==
  /\ now = 0 /\ lastSet = 0
  /\ status = NoBits /\ word = NoBits
  /\ jobs = {} /\ pool = {}
  /\ main = IdleMain /\ update = IdleUpdate /\ replies = <<>>
  /\ plan = PlanOid         \* read alone, in the constructor
  /\ received = 0 /\ updates = 0

-----------------------------------------------------------------------------
(* The main loop *)

\* Mutant: the status words are not reset.
ReceiveWithoutReset(s) ==
  /\ main.pc = "idle" /\ received < MaxMessages
  /\ received' = received + 1
  /\ main' = [main EXCEPT !.pc = "remove", !.request = "schedule",
                          !.list = scheduleDataStructure(s), !.late = pool # {}]
  /\ UNCHANGED <<now, status, word, lastSet, jobs, pool, update, replies, plan, updates>>

\* resetAllPhaseControls precedes the removal of the old jobs.
ReceiveSchedule(s) ==
  /\ main.pc = "idle" /\ received < MaxMessages
  /\ received' = received + 1
  /\ status' = NoBits
  /\ main' = [main EXCEPT !.pc = "remove", !.request = "schedule",
                          !.list = scheduleDataStructure(s), !.late = pool # {}]
  /\ UNCHANGED <<now, word, lastSet, jobs, pool, update, replies, plan, updates>>

ReceiveClear ==
  /\ main.pc = "idle" /\ received < MaxMessages
  /\ received' = received + 1
  /\ main' = [main EXCEPT !.pc = "remove", !.request = "clear", !.list = <<>>,
                          !.late = FALSE]
  /\ UNCHANGED <<now, status, word, lastSet, jobs, pool, update, replies, plan, updates>>

\* The controls that clearOldSchedule looks up, one for each command that
\* starts at once and may be in force already.
StartsNow(c) == c.startTime = 0 /\ c.control \in Keepable
LookUps(list) ==
  LET now0 == Keep(list, {i \in DOMAIN list : StartsNow(list[i])})
  IN  [n \in 1 .. Len(now0) |-> now0[n].control]

\* remove_all_jobs leaves the instances that already run alone.
RemoveAllJobs ==
  /\ main.pc = "remove"
  /\ jobs' = {}
  /\ pool' = {[t EXCEPT !.late = TRUE] : t \in pool}
  /\ main' = IF main.request = "clear"
             THEN [main EXCEPT !.pc = "assign", !.sets = ClearAllOrder,
                               !.late = pool # {}]
             ELSE [main EXCEPT !.pc = "check", !.ask = LookUps(main.list),
                               !.late = @ \/ pool # {}]
  /\ UNCHANGED <<now, status, word, lastSet, update, replies, plan, received, updates>>

\* Whether the value that the controller has for an object may be above zero.
Answer(oid) == IF oid \in Control THEN {word[oid] # {}} ELSE BOOLEAN

\* Mutant: the request is sent twice.
AskTwice ==
  /\ main.pc \in {"check", "report"} /\ main.ask # <<>> /\ ~main.waiting
  /\ \E positive \in Answer(Head(main.ask)) :
       LET reply == [oid |-> Head(main.ask), positive |-> positive]
       IN  replies' = replies \o <<reply, reply>>
  /\ main' = [main EXCEPT !.waiting = TRUE]
  /\ UNCHANGED <<now, status, word, lastSet, jobs, pool, update, plan, received, updates>>

\* Snmp.getValue: send the request ...
MainAsks ==
  /\ main.pc \in {"check", "report"} /\ main.ask # <<>> /\ ~main.waiting
  /\ \E positive \in Answer(Head(main.ask)) :
       replies' = Append(replies, [oid |-> Head(main.ask), positive |-> positive])
  /\ main' = [main EXCEPT !.waiting = TRUE]
  /\ UNCHANGED <<now, status, word, lastSet, jobs, pool, update, plan, received, updates>>

\* ... and take whatever reply comes next.
MainTakesReply ==
  /\ main.waiting /\ replies # <<>>
  /\ replies' = Tail(replies)
  /\ main' = [main EXCEPT
       !.waiting = FALSE, !.ask = Tail(@),
       !.keep = IF main.pc = "check" /\ Head(replies).positive
                THEN @ \cup {Head(main.ask)} ELSE @,
       !.crossed = @ \/ update.waiting \/ Head(replies).oid # Head(main.ask)]
  /\ UNCHANGED <<now, status, word, lastSet, jobs, pool, update, plan, received, updates>>

\* Mutant: the answers of the controller are ignored.
ClearEverything ==
  /\ main.pc = "check" /\ main.ask = <<>>
  /\ main' = [main EXCEPT !.pc = "assign", !.sets = ClearOldOrder]
  /\ UNCHANGED <<now, status, word, lastSet, jobs, pool, update, replies, plan, received, updates>>

ChooseClears ==
  /\ main.pc = "check" /\ main.ask = <<>>
  /\ LET cleared == {i \in DOMAIN ClearOldOrder : ClearOldOrder[i] \notin main.keep}
     IN  main' = [main EXCEPT !.pc = "assign", !.sets = Keep(ClearOldOrder, cleared)]
  /\ UNCHANGED <<now, status, word, lastSet, jobs, pool, update, replies, plan, received, updates>>

\* setPhaseControl without phases: a new array of zeros, its value, the SET.
AssignZeros ==
  /\ main.pc = "assign" /\ main.sets # <<>>
  /\ status' = [status EXCEPT ![Head(main.sets)] = {}]
  /\ main' = [main EXCEPT !.pc = "read"]
  /\ UNCHANGED <<now, word, lastSet, jobs, pool, update, replies, plan, received, updates>>

ReadValue ==
  /\ main.pc = "read"
  /\ main' = [main EXCEPT !.pc = "send", !.value = status[Head(main.sets)]]
  /\ UNCHANGED <<now, status, word, lastSet, jobs, pool, update, replies, plan, received, updates>>

SendValue ==
  /\ main.pc = "send"
  /\ word' = [word EXCEPT ![Head(main.sets)] = main.value]
  /\ lastSet' = now
  /\ main' = [main EXCEPT !.pc = "assign", !.sets = Tail(@), !.value = {}]
  /\ UNCHANGED <<now, status, jobs, pool, update, replies, plan, received, updates>>

\* The end of the two kinds of request.
FinishClear ==
  /\ main.pc = "assign" /\ main.sets = <<>> /\ main.request = "clear"
  /\ status' = NoBits
  /\ main' = [main EXCEPT !.pc = "idle"]
  /\ UNCHANGED <<now, word, lastSet, jobs, pool, update, replies, plan, received, updates>>

AddJobs ==
  /\ main.pc = "assign" /\ main.sets = <<>> /\ main.request = "schedule"
  /\ jobs' = jobs \cup JobsFor(main.list, now, received)
  /\ main' = [main EXCEPT !.pc = "idle", !.base = now, !.keep = {}, !.crossed = FALSE]
  /\ UNCHANGED <<now, status, word, lastSet, pool, update, replies, plan, received, updates>>

\* sendCurrentAndNextPhasesDict waits for the MAP-SPaT broadcaster, then reads
\* what the colours of the two rings call for.
ReceiveCurrNextPhaseRequest ==
  /\ main.pc = "idle" /\ received < MaxMessages
  /\ received' = received + 1
  /\ main' = [main EXCEPT !.pc = "listen"]
  /\ UNCHANGED <<now, status, word, lastSet, jobs, pool, update, replies, plan, updates>>

ReceiveCurrPhases(green1, green2) ==
  /\ main.pc = "listen"
  /\ main' = [main EXCEPT !.pc = "report",
       !.ask = (IF green1 /\ green2 THEN <<>> ELSE <<PHASE_GROUP_STATUS_NEXT>>)
            \o (IF green1 \/ green2 THEN <<VEHICLE_CALLS, PEDESTRIAN_CALLS>> ELSE <<>>)]
  /\ UNCHANGED <<now, status, word, lastSet, jobs, pool, update, replies, plan, received, updates>>

SendCurrNextPhases ==
  /\ main.pc = "report" /\ main.ask = <<>>
  /\ main' = [main EXCEPT !.pc = "idle", !.crossed = FALSE]
  /\ UNCHANGED <<now, status, word, lastSet, jobs, pool, update, replies, plan, received, updates>>

-----------------------------------------------------------------------------
(* The background scheduler and its threads *)

Due(j) == j.next <= now

\* Mutant: an activation is not repeated.
SubmitOnce(j) ==
  /\ j \in jobs /\ Due(j)
  /\ jobs' = jobs \ {j}
  /\ pool' = pool \cup {[ id |-> j.id, control |-> j.control, action |-> j.action,
                          todo |-> j.phases, pc |-> "bits", value |-> {}, late |-> FALSE ]}
  /\ main' = [main EXCEPT
       !.late = @ \/ (main.pc = "remove" /\ main.request = "schedule")]
  /\ UNCHANGED <<now, status, word, lastSet, update, replies, plan, received, updates>>

\* A due job is handed to the pool and gets its next time, if it has one left.
SubmitJob(j) ==
  LET again == j.next + RefreshPeriod
      rest == jobs \ {j}
  IN  /\ j \in jobs /\ Due(j)
      /\ jobs' = IF j.action /\ again <= j.end
                 THEN rest \cup {[j EXCEPT !.next = again]} ELSE rest
      /\ pool' = pool \cup {[ id |-> j.id, control |-> j.control, action |-> j.action,
                              todo |-> j.phases, pc |-> "bits", value |-> {},
                              late |-> FALSE ]}
      /\ main' = [main EXCEPT
           !.late = @ \/ (main.pc = "remove" /\ main.request = "schedule")]
      /\ UNCHANGED <<now, status, word, lastSet, update, replies, plan, received, updates>>

\* setPhaseControl with phases, a bit at a time in the array of that moment,
WriteBit(t, p) ==
  /\ t \in pool /\ p \in t.todo
  /\ status' = [status EXCEPT ![t.control] = IF t.action THEN @ \cup {p} ELSE @ \ {p}]
  /\ pool' = (pool \ {t}) \cup {[t EXCEPT !.todo = @ \ {p}]}
  /\ UNCHANGED <<now, word, lastSet, jobs, main, update, replies, plan, received, updates>>

\* its value when all are written,
ReadBits(t) ==
  /\ t \in pool /\ t.pc = "bits" /\ t.todo = {}
  /\ pool' = (pool \ {t}) \cup {[t EXCEPT !.pc = "send", !.value = status[t.control]]}
  /\ UNCHANGED <<now, status, word, lastSet, jobs, main, update, replies, plan, received, updates>>

\* and the SET.
SendBits(t) ==
  /\ t \in pool /\ t.pc = "send"
  /\ word' = [word EXCEPT ![t.control] = t.value]
  /\ lastSet' = now
  /\ pool' = pool \ {t}
  /\ UNCHANGED <<now, status, jobs, main, update, replies, plan, received, updates>>

-----------------------------------------------------------------------------
(* updateAndSendActiveTimingPlan on the thread of the other scheduler *)

StartUpdate ==
  /\ ~update.reading /\ updates < MaxUpdates
  /\ updates' = updates + 1
  /\ update' = [IdleUpdate EXCEPT !.reading = TRUE]
  /\ UNCHANGED <<now, status, word, lastSet, jobs, pool, main, replies, plan, received>>

UpdateAsks ==
  /\ update.reading /\ ~update.waiting /\ Len(update.got) < Len(PlanOid)
  /\ LET oid == PlanOid[Len(update.got) + 1]
     IN  \E positive \in Answer(oid) :
           replies' = Append(replies, [oid |-> oid, positive |-> positive])
  /\ update' = [update EXCEPT !.waiting = TRUE]
  /\ UNCHANGED <<now, status, word, lastSet, jobs, pool, main, plan, received, updates>>

UpdateTakesReply ==
  /\ update.waiting /\ replies # <<>>
  /\ replies' = Tail(replies)
  /\ update' = [update EXCEPT !.waiting = FALSE, !.got = Append(@, Head(replies).oid)]
  /\ UNCHANGED <<now, status, word, lastSet, jobs, pool, main, plan, received, updates>>

FinishUpdate ==
  /\ update.reading /\ Len(update.got) = Len(PlanOid)
  /\ plan' = update.got
  /\ update' = IdleUpdate
  /\ UNCHANGED <<now, status, word, lastSet, jobs, pool, main, replies, received, updates>>

-----------------------------------------------------------------------------
(* Time, the signal controller, and a restart of the process *)

SomethingSet == \E c \in Control : word[c] # {}
BackupDue == SomethingSet /\ now - lastSet >= ntcipBackupTime

\* The controller has not heard a SET for its backup time and forgets them all.
BackupExpires ==
  /\ BackupDue
  /\ word' = NoBits
  /\ UNCHANGED <<now, status, lastSet, jobs, pool, main, update, replies, plan,
                 received, updates>>

\* The threads keep up with the clock; only a wait for a reply takes time.
Tick ==
  /\ now < MaxTime
  /\ pool = {} /\ (\A j \in jobs : ~Due(j)) /\ ~BackupDue
  /\ main.pc \in {"idle", "listen"} \/ main.waiting
  /\ now' = now + 1
  /\ UNCHANGED <<status, word, lastSet, jobs, pool, main, update, replies, plan,
                 received, updates>>

\* The process is started again.  One that was stopped, or that failed, has
\* cleared the controller at exit (stopBackgroundScheduler, after its threads
\* were joined); one that was killed has not.
Restart(orderly) ==
  /\ received < MaxMessages
  /\ received' = received + 1
  /\ word' = IF orderly THEN NoBits ELSE word
  /\ lastSet' = IF orderly THEN now ELSE lastSet
  /\ status' = NoBits /\ jobs' = {} /\ pool' = {}
  /\ main' = IdleMain /\ update' = IdleUpdate /\ replies' = <<>>
  /\ plan' = PlanOid
  /\ UNCHANGED <<now, updates>>

MainNext ==
  \/ \E s \in Schedule : ReceiveSchedule(s)
  \/ ReceiveClear
  \/ RemoveAllJobs
  \/ MainAsks
  \/ MainTakesReply
  \/ ChooseClears
  \/ AssignZeros
  \/ ReadValue
  \/ SendValue
  \/ FinishClear
  \/ AddJobs
  \/ ReceiveCurrNextPhaseRequest
  \/ \E green1, green2 \in BOOLEAN : ReceiveCurrPhases(green1, green2)
  \/ SendCurrNextPhases

PoolNext ==
  \/ \E j \in jobs : SubmitJob(j)
  \/ \E t \in pool : \E p \in t.todo : WriteBit(t, p)
  \/ \E t \in pool : ReadBits(t)
  \/ \E t \in pool : SendBits(t)

UpdateNext ==
  \/ StartUpdate
  \/ UpdateAsks
  \/ UpdateTakesReply
  \/ FinishUpdate

Next ==
  \/ MainNext \/ PoolNext \/ UpdateNext \/ BackupExpires \/ Tick
  \/ \E orderly \in BOOLEAN : Restart(orderly)

Spec == Init /\ [][Next]_vars

-----------------------------------------------------------------------------
(* Properties *)

TypeOK ==
  /\ now \in Nat /\ lastSet \in Nat
  /\ status \in [Control -> SUBSET Phase] /\ word \in [Control -> SUBSET Phase]
  /\ jobs \subseteq Job /\ pool \subseteq Instance
  /\ main \in MainLoop /\ update \in Update
  /\ replies \in Seq(Reply) /\ plan \in Seq(Oid)
  /\ received \in Nat /\ updates \in Nat

\* Every thread that waits has a reply coming, and no reply is left over for a
\* later request to take: swapped replies do not put the socket out of step
\* (Snmp.getValue takes the next datagram, whatever request it answers).
NoReplyLeftOver ==
  Len(replies) = (IF main.waiting THEN 1 ELSE 0) + (IF update.waiting THEN 1 ELSE 0)

\* Once a clear request is done, nothing is on and nothing will come on, unless
\* a job ran while the jobs were removed (the Clear branch of the main loop).
ClearIsFinal ==
  main.pc = "idle" /\ main.request = "clear" /\ ~main.late =>
    word = NoBits /\ status = NoBits /\ jobs = {} /\ pool = {}

\* The bits of the old schedule are gone from the status words before a job of
\* the new one reads them, unless an old job ran after resetAllPhaseControls.
NoForeignBits ==
  main.request = "schedule" /\ ~main.late =>
    \A c \in Control :
      status[c] \subseteq
        PhasesOf(main.list, {i \in DOMAIN main.list : main.list[i].control = c})

\* All that was due is done.
Quiet == main.pc = "idle" /\ pool = {} /\ \A j \in jobs : ~Due(j)

\* A control for which the threads cannot disagree: its different jobs never
\* fall due together, and no phase gets the command twice at a time.
FireTimes(j) ==
  {t \in j.next .. j.end : \E k \in 0 .. j.end - j.next : t = j.next + k * RefreshPeriod}

Tame(list, control) ==
  /\ \A j, k \in {l \in JobsFor(list, 0, 0) : l.control = control} :
       <<j.action, j.phases>> # <<k.action, k.phases>> =>
         FireTimes(j) \cap FireTimes(k) = {}
  /\ \A i, k \in {l \in DOMAIN list : list[l].control = control} :
       i # k /\ list[i].phase = list[k].phase =>
         list[i].endTime < list[k].startTime \/ list[k].endTime < list[i].startTime

\* Every command that starts later also ends later, or at the same time, so that
\* the walk that forms the end groups meets each of them.
EndsInOrder(list) ==
  \A i, k \in DOMAIN list :
    i < k /\ list[i].control = list[k].control => list[i].endTime <= list[k].endTime

Undisturbed(control) ==
  /\ Quiet /\ main.request = "schedule" /\ ~main.late
  /\ Tame(main.list, control)

Elapsed == now - main.base

\* The commands of a control that the schedule has for this time, and those
\* among them whose group goes on.
Current(control) ==
  {i \in DOMAIN main.list :
     /\ main.list[i].control = control
     /\ main.list[i].startTime <= Elapsed /\ Elapsed < main.list[i].endTime}

Refreshed(control) ==
  {i \in Current(control) :
     Elapsed < FirstEnd(main.list, GroupOf(main.list, "startTime", i))}

\* From its start to the first end of its group a command is in force: it is
\* activated, refreshed before the controller's backup time runs out, and no
\* other job takes it back (schedulePhaseControlActivation).
CommandInForce ==
  \A c \in Control :
    Undisturbed(c) => PhasesOf(main.list, Refreshed(c)) \subseteq word[c]

\* Nothing is in force before its start or after its end, and nothing of the
\* schedule before it, if the commands end in the order in which they start
\* (schedulePhaseControlDeactivation of the end groups).
NothingElseInForce ==
  \A c \in Control :
    Undisturbed(c) /\ EndsInOrder(main.list) =>
      word[c] \subseteq PhasesOf(main.list, Current(c))

\* The same for every schedule, as the comment on processReceivedSchedule has
\* it: "Ending the scheudled commands after their EndTime is reached".
EndedCommandsAreLifted ==
  \A c \in Control :
    Undisturbed(c) => word[c] \subseteq PhasesOf(main.list, Current(c))

\* The only words that are carried over into a new schedule: those of a hold or
\* an omit with which it begins.  Calls and force-offs never are.
Keeps(list, c) ==
  c \in Keepable /\ \E i \in DOMAIN list : list[i].startTime = 0 /\ list[i].control = c

\* A word with a bit set is not emptied but by the backup time, by the end of
\* the process, at the time when one of the schedule's commands of that control
\* ends, by a clear request, or while a new schedule is taken over: then every
\* call and force-off, even if the new schedule begins with it, and every hold
\* and omit with which it does not begin.  When the jobs of the new schedule are
\* added nothing else is left, and a hold or omit with which it begins was kept;
\* unless a late job or a reply to another thread misled it (clearOldSchedule).
EmptiedForCause ==
  [][ /\ \A c \in Control : word[c] # {} /\ word'[c] = {} =>
           \/ now - lastSet >= ntcipBackupTime \/ main'.request = "none"
           \/ \E i \in DOMAIN main.list :
                main.list[i].control = c /\ main.list[i].endTime = Elapsed
           \/ main.request = "clear"
           \/ SendValue /\ (~Keeps(main.list, c) \/ main.crossed)
           \/ main.late
      /\ AddJobs /\ ~main.late =>
           \A c \in Control : word[c] # {} => Keeps(main.list, c) ]_vars
==============================================================================

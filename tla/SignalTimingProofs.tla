-------------------------- MODULE SignalTimingProofs --------------------------
(***************************************************************************)
(* The times of every schedule, for every timing plan, every signal status *)
(* and every list: the barrier, the green times, and the callers.          *)
(***************************************************************************)
EXTENDS SignalTiming, VectorOpsProofs

(***************************************************************************)
(* Beside a left turn the other ring has a phase of its own.  Where it has *)
(* none, its starting phase has no times: it is a command of the schedule  *)
(* and not a duration of the results, and all times move by one phase.     *)
(***************************************************************************)
IsOpposed(times) ==
  \A t \in times.active :
    t % 2 = 1 => \E q \in times.active :
                   Side(q) = Side(t) /\ \A r \in {1, 2} : ~({t, q} \subseteq Ring(r))

LeftTurnsAreOpposed == \A times \in Plans : IsOpposed(times)

-----------------------------------------------------------------------------
(* What is known at each stage *)

ListIsKnown ==
  /\ emergencyVehicleStatus \in BOOLEAN
  /\ requestedSignalGroup \subseteq Phase
  /\ \A p \in requestedSignalGroup :
       plan.minGreen[p] > 0 \/ (emergencyVehicleStatus /\ Associated(p) \in requestedSignalGroup)
  /\ \A q \in priorityRequestList :
       q.eta \in Nat /\ q.duration \in Nat /\ q.requestedPhase \in plan.active \cup requestedSignalGroup
  /\ signalCoordination => plan.coordinated # NoPhases

\* The phases of an emergency plan have times of their own or of others.
ListIsTimed == \A p \in requestedSignalGroup : plan.minGreen[p] > 0

\* What a ring is taken to have had of its starting phase it has had, or else, where the
\* cycle counts, its least green.
ElapsedWasGreen(r) ==
  \/ status.elapsed[r] <= HasHad(r, 1)
  \/ signalCoordination /\ plan.minGreen[status.start[r]] <= HasHad(r, 1)

StatusIsKnown ==
  /\ status \in [start : Ring(1) \X Ring(2), init : [{1, 2} -> Nat], elapsed : [{1, 2} -> Int],
                 earlyReturn : [{1, 2} -> Nat], ped : SUBSET plan.active]
  /\ Side(status.start[1]) = Side(status.start[2])
  /\ \A r \in {1, 2} :
       /\ report[r] \in Reports \cup {NoReport}
       /\ plan.minGreen[status.start[r]] > 0
       /\ Serving(report[r]) => status.start[r] \in plan.active
       /\ status.start[r] \in plan.active => ElapsedWasGreen(r)

\* A phase without a least green has no greatest.
ModelIsKnown ==
  /\ signalPlan.phases = phasesOfModel
  /\ signalPlan.gmin = modifyGreenTimeForPedCalls(plan.minGreen)
  /\ signalPlan.gmax \in [Phase -> Int]
  /\ \A p \in Phase : plan.minGreen[p] = 0 => signalPlan.gmax[p] = 0

EventLists(s) == << createEventList(1, obtainRequiredSignalGroup(1), s[1]),
                    createEventList(2, obtainRequiredSignalGroup(2), s[2]) >>

ScheduleIsKnown == schedule = NoSchedule \/ \E s \in Solutions : schedule = EventLists(s)

IInv ==
  /\ IsTimingPlan(plan) /\ IsOpposed(plan) /\ point \in {"left", "right"}
  /\ stage \in {"list", "status", "emergency", "input", "model", "schedule"}
  /\ stage # "list" => ListIsKnown
  /\ stage \in {"emergency", "input", "model", "schedule"} => StatusIsKnown
  /\ stage \in {"input", "model", "schedule"} => ListIsTimed
  /\ stage \in {"model", "schedule"} => ModelIsKnown
  /\ IF stage = "schedule" THEN ScheduleIsKnown ELSE schedule = NoSchedule

-----------------------------------------------------------------------------
(* Running totals *)

\* Induction up to eight.
LEMMA UpToEight ==
  ASSUME NEW S, 0 \in S, \A m \in 1 .. 8 : m - 1 \in S => m \in S
  PROVE  \A m \in 0 .. 8 : m \in S
<1>1. 1 \in S /\ 2 \in S /\ 3 \in S /\ 4 \in S
  OBVIOUS
<1>2. 5 \in S /\ 6 \in S /\ 7 \in S /\ 8 \in S
  BY <1>1
<1>3. QED
  BY <1>1, <1>2

\* Each time is the one before it and the duration between them.  The lengths are bounded
\* since induction over all numbers is out of the prover's reach.
LEMMA CumulativeTimes ==
  ASSUME NEW from \in Int, NEW n \in 0 .. 8, NEW v \in [1 .. n -> Int]
  PROVE  /\ Cumulative(from, v)[0] = from
         /\ \A i \in 0 .. n : Cumulative(from, v)[i] \in Int
         /\ \A i \in 1 .. n : Cumulative(from, v)[i] = Cumulative(from, v)[i - 1] + v[i]
<1> DEFINE t1 == from + v[1]
           t2 == t1 + v[2]
           t3 == t2 + v[3]
           t4 == t3 + v[4]
           t5 == t4 + v[5]
           t6 == t5 + v[6]
           t7 == t6 + v[7]
           f == [i \in 0 .. n |-> CASE i = 0 -> from [] i = 1 -> t1 [] i = 2 -> t2 [] i = 3 -> t3
                                    [] i = 4 -> t4 [] i = 5 -> t5 [] i = 6 -> t6 [] i = 7 -> t7
                                    [] i = 8 -> t7 + v[8]]
           time == Cumulative(from, v)
<1>1. f = [i \in 0 .. n |-> f[i]]
  OBVIOUS
<1>2. f[0] = from
  OBVIOUS
<1>3. ASSUME NEW i \in 1 .. n
      PROVE  f[i] = f[i - 1] + v[i]
  <2> HIDE DEF t1, t2, t3, t4, t5, t6, t7
  <2>1. i - 1 \in 0 .. n /\ i \in {1, 2, 3, 4, 5, 6, 7, 8}
    OBVIOUS
  <2>2. QED
    BY <2>1 DEF t1, t2, t3, t4, t5, t6, t7
<1>5. Len(v) = n
  OBVIOUS
<1>6. f = [i \in 0 .. Len(v) |-> IF i = 0 THEN from ELSE f[i - 1] + v[i]]
  <2> HIDE DEF f
  <2>1. QED
    BY <1>1, <1>2, <1>3, <1>5
<1>7. time = [i \in 0 .. Len(v) |-> IF i = 0 THEN from ELSE time[i - 1] + v[i]]
  <2> HIDE DEF f
  <2>1. QED
    BY <1>6 DEF Cumulative
<1> HIDE DEF time, f
<1>8. time[0] = from /\ \A i \in 1 .. n : time[i] = time[i - 1] + v[i]
  BY <1>5, <1>7
<1>9. \A i \in 0 .. n : time[i] \in Int
  <2> DEFINE S == {i \in 0 .. 8 : i <= n => time[i] \in Int}
  <2>1. 0 \in S
    BY <1>8
  <2>2. ASSUME NEW i \in 1 .. 8, i - 1 \in S
        PROVE  i \in S
    <3>1. ASSUME i <= n
          PROVE  time[i] \in Int
      <4>1. i \in 1 .. n /\ i - 1 <= n /\ v[i] \in Int
        BY <3>1
      <4>2. time[i - 1] \in Int
        BY <2>2, <4>1
      <4>3. time[i] = time[i - 1] + v[i]
        BY <1>8, <4>1
      <4>4. QED
        BY <4>1, <4>2, <4>3
    <3>2. QED
      BY <3>1
  <2>3. \A i \in 0 .. 8 : i \in S
    <3> HIDE DEF S
    <3>1. QED
      BY <2>1, <2>2, UpToEight
  <2>4. \A i \in 0 .. n : i \in 0 .. 8 /\ i <= n
    OBVIOUS
  <2>5. QED
    BY <2>3, <2>4
<1>10. QED
  BY <1>8, <1>9 DEF time

\* Time does not run back, and stands still where the durations are zero.
LEMMA TimeRuns ==
  ASSUME NEW from \in Int, NEW v \in [1 .. 8 -> Nat], NEW i \in 0 .. 8, NEW j \in 0 .. 8, i <= j
  PROVE  /\ Cumulative(from, v)[i] \in Int /\ Cumulative(from, v)[j] \in Int
         /\ Cumulative(from, v)[i] <= Cumulative(from, v)[j]
         /\ (\A k \in 1 .. 8 : i < k /\ k <= j => v[k] = 0) =>
              Cumulative(from, v)[i] = Cumulative(from, v)[j]
<1> DEFINE time == Cumulative(from, v)
           still == \A k \in 1 .. 8 : i < k /\ k <= j => v[k] = 0
           S == {m \in 0 .. 8 : i <= m /\ m <= j =>
                                  time[i] <= time[m] /\ (still => time[i] = time[m])}
<1>1. /\ \A m \in 0 .. 8 : time[m] \in Int
      /\ \A m \in 1 .. 8 : time[m] = time[m - 1] + v[m]
  <2>1. v \in [1 .. 8 -> Int] /\ 8 \in 0 .. 8
    OBVIOUS
  <2>2. QED
    BY <2>1, CumulativeTimes
<1>2. \A m \in 1 .. 8 : v[m] \in Nat /\ m - 1 \in 0 .. 8
  OBVIOUS
<1> HIDE DEF time
<1>3. 0 \in S
  BY <1>1
<1>4. ASSUME NEW m \in 1 .. 8, m - 1 \in S
      PROVE  m \in S
  <2>1. CASE m <= i \/ j < m
    BY <1>1, <2>1
  <2>2. CASE i < m /\ m <= j
    <3>1. time[i] <= time[m - 1] /\ (still => time[i] = time[m - 1])
      BY <1>4, <2>2
    <3>2. still => v[m] = 0
      BY <2>2
    <3> HIDE DEF still
    <3>3. QED
      BY <1>1, <1>2, <2>2, <3>1, <3>2
  <2>3. QED
    BY <2>1, <2>2
<1>5. \A m \in 0 .. 8 : m \in S
  <2> HIDE DEF S
  <2>1. QED
    BY <1>3, <1>4, UpToEight
<1>6. QED
  BY <1>1, <1>5 DEF time

\* The times between the durations that are kept, when only zeros are left out.
LEMMA TimesKept ==
  ASSUME NEW from \in Int, NEW v \in [1 .. 8 -> Nat], NEW K \in SUBSET (1 .. 8),
         \A k \in (1 .. 8) \ K : v[k] = 0,
         NEW n \in 1 .. Cardinality(K)
  PROVE  Cumulative(from, Keep(v, K))[n - 1] = Cumulative(from, v)[Nth(K, n) - 1]
<1> DEFINE time == Cumulative(from, v)
           kept == Cumulative(from, Keep(v, K))
           c == Cardinality(K)
           P(m) == m <= c => kept[m - 1] = time[Nth(K, m) - 1] /\ kept[m] = time[Nth(K, m)]
           S == {m \in 0 .. 8 : m = 0 \/ P(m)}
<1>1. c \in 0 .. 8
  BY PositionsFinite
<1>2. \A m \in 1 .. c : Nth(K, m) \in K /\ Nth(K, m) \in 1 .. 8
  <2>1. \A m \in 1 .. c : Nth(K, m) \in K
    BY NthType
  <2>2. QED
    BY <2>1
<1>3. /\ Keep(v, K) \in [1 .. c -> Int]
      /\ \A m \in 1 .. c : Keep(v, K)[m] = v[Nth(K, m)]
  BY <1>2 DEF Keep
<1> HIDE DEF c
<1>4. /\ kept[0] = from /\ \A m \in 0 .. c : kept[m] \in Int
      /\ \A m \in 1 .. c : kept[m] = kept[m - 1] + v[Nth(K, m)]
  <2> DEFINE w == Keep(v, K)
  <2>1. /\ Cumulative(from, w)[0] = from
        /\ \A m \in 0 .. c : Cumulative(from, w)[m] \in Int
        /\ \A m \in 1 .. c : Cumulative(from, w)[m] = Cumulative(from, w)[m - 1] + w[m]
    <3> HIDE DEF w
    <3>1. w \in [1 .. c -> Int]
      BY <1>3 DEF w
    <3>2. QED
      BY <1>1, <3>1, CumulativeTimes
  <2>2. QED
    BY <1>3, <2>1
<1>5. /\ time[0] = from /\ \A m \in 0 .. 8 : time[m] \in Int
      /\ \A m \in 1 .. 8 : time[m] = time[m - 1] + v[m]
  <2>1. v \in [1 .. 8 -> Int] /\ 8 \in 0 .. 8
    OBVIOUS
  <2>2. QED
    BY <2>1, CumulativeTimes
<1>6. ASSUME NEW i \in 0 .. 8, NEW j \in 0 .. 8, i <= j, \A k \in K : ~(i < k /\ k <= j)
      PROVE  time[i] = time[j]
  BY <1>6, TimeRuns
<1> HIDE DEF time, kept
<1>7. ASSUME NEW m \in 1 .. c, kept[m - 1] = time[Nth(K, m) - 1]
      PROVE  P(m)
  BY <1>2, <1>4, <1>5, <1>7
<1>8. 1 \in S
  <2>1. ASSUME 1 <= c
        PROVE  kept[0] = time[Nth(K, 1) - 1]
    <3>1. K # {}
      BY <1>1, <1>2, <2>1
    <3>2. Nth(K, 1) \in K /\ \A k \in K : Nth(K, 1) <= k
      BY <3>1, NthFirst
    <3>3. Nth(K, 1) - 1 \in 0 .. 8 /\ Nth(K, 1) \in Int
      BY <1>1, <1>2, <2>1
    <3>4. \A k \in K : k \in Int /\ ~(0 < k /\ k <= Nth(K, 1) - 1)
      <4>1. \A k \in K : k \in Int
        OBVIOUS
      <4>2. QED
        BY <3>2, <3>3, <4>1
    <3>5. time[0] = time[Nth(K, 1) - 1]
      BY <1>6, <3>3, <3>4
    <3>6. QED
      BY <1>4, <1>5, <3>5
  <2>2. 1 <= c => P(1)
    BY <1>1, <1>7, <2>1
  <2>3. QED
    BY <2>2
<1>9. ASSUME NEW m \in 1 .. 8, m - 1 \in S
      PROVE  m \in S
  <2>1. CASE m = 1
    BY <1>8, <2>1
  <2>2. CASE c < m
    BY <1>1, <2>2
  <2>3. CASE m # 1 /\ m <= c
    <3> DEFINE l == m - 1
    <3>1. l \in 1 .. c /\ l + 1 \in 1 .. c /\ l + 1 = m /\ m \in 1 .. c
      BY <1>1, <2>3
    <3>2. kept[m - 1] = time[Nth(K, l)]
      BY <1>9, <2>3, <3>1
    <3>3. /\ Nth(K, l) \in K /\ Nth(K, m) \in K /\ Nth(K, l) < Nth(K, m)
          /\ \A k \in K : ~(Nth(K, l) < k /\ k < Nth(K, m))
      BY <3>1, NthNext DEF c
    <3>4. Nth(K, l) \in 0 .. 8 /\ Nth(K, m) - 1 \in 0 .. 8 /\ Nth(K, l) <= Nth(K, m) - 1
      BY <1>2, <3>1, <3>3
    <3>5. \A k \in K : ~(Nth(K, l) < k /\ k <= Nth(K, m) - 1)
      <4>1. \A k \in K : k \in Int
        OBVIOUS
      <4>2. QED
        BY <3>3, <3>4, <4>1
    <3>6. time[Nth(K, l)] = time[Nth(K, m) - 1]
      BY <1>6, <3>4, <3>5
    <3>7. P(m)
      BY <1>7, <3>1, <3>2, <3>6
    <3>8. QED
      BY <3>7
  <2>4. QED
    BY <1>1, <2>1, <2>2, <2>3
<1>10. \A m \in 0 .. 8 : m \in S
  <2>1. 0 \in S
    OBVIOUS
  <2> HIDE DEF S
  <2>2. QED
    BY <1>9, <2>1, UpToEight
<1>11. QED
  <2>1. n \in 0 .. 8 /\ n # 0 /\ n <= c
    BY <1>1 DEF c
  <2>2. QED
    BY <1>10, <2>1 DEF time, kept

-----------------------------------------------------------------------------
(* The data of the model *)

\* A phase that is in use has a least green and a clearance, any other has no times, and is
\* a left turn.
LEMMA PhaseTimes ==
  ASSUME IsTimingPlan(plan), NEW p \in Phase
  PROVE  /\ plan.minGreen[p] \in Nat /\ plan.maxGreen[p] \in Nat /\ plan.splitGreen[p] \in Nat
         /\ plan.redClear[p] \in Nat /\ plan.pedService[p] \in Nat /\ clearance(p) \in Nat
         /\ plan.minGreen[p] > 0 => clearance(p) > 0
         /\ plan.minGreen[p] = 0 =>
              /\ p \notin plan.active /\ p % 2 = 1
              /\ plan.maxGreen[p] = 0 /\ plan.splitGreen[p] = 0 /\ clearance(p) = 0
<1>1. /\ {plan.minGreen[p], plan.maxGreen[p], plan.splitGreen[p], plan.yellowChange[p],
          plan.redClear[p], plan.pedService[p]} \subseteq Nat
      /\ plan.minGreen[p] <= plan.maxGreen[p] /\ plan.minGreen[p] <= plan.splitGreen[p]
      /\ \/ plan.minGreen[p] > 2 * Second /\ plan.yellowChange[p] + plan.redClear[p] > 0
         \/ /\ p \notin plan.active /\ p % 2 = 1
            /\ plan.maxGreen[p] = 0 /\ plan.splitGreen[p] = 0
            /\ plan.yellowChange[p] = 0 /\ plan.redClear[p] = 0
  BY DEF IsTimingPlan
<1>2. /\ plan.minGreen[p] \in Nat /\ plan.maxGreen[p] \in Nat /\ plan.splitGreen[p] \in Nat
      /\ plan.yellowChange[p] \in Nat /\ plan.redClear[p] \in Nat /\ plan.pedService[p] \in Nat
  BY <1>1
<1>3. QED
  BY <1>1, <1>2 DEF clearance, Second

\* Pedestrians who cross or wait do so at phases in use.
LEMMA Pedestrians ==
  ASSUME StatusIsKnown
  PROVE  servedPedestrians \subseteq plan.active
BY DEF StatusIsKnown, servedPedestrians, Walking

\* The least greens of the model are those of the plan, and long enough for pedestrians.
LEMMA LeastGreens ==
  ASSUME IsTimingPlan(plan), StatusIsKnown, ModelIsKnown, NEW p \in Phase
  PROVE  /\ signalPlan.gmin[p] \in Nat /\ plan.minGreen[p] <= signalPlan.gmin[p]
         /\ plan.minGreen[p] = 0 => signalPlan.gmin[p] = 0
         /\ p \in servedPedestrians => plan.pedService[p] <= signalPlan.gmin[p]
<1>1. signalPlan.gmin[p] = IF p \in servedPedestrians THEN Larger(plan.minGreen[p], plan.pedService[p])
                                                      ELSE plan.minGreen[p]
  BY DEF ModelIsKnown, modifyGreenTimeForPedCalls
<1>2. plan.minGreen[p] \in Nat /\ plan.pedService[p] \in Nat
  BY PhaseTimes
<1>3. plan.minGreen[p] = 0 => p \notin servedPedestrians
  BY PhaseTimes, Pedestrians
<1>4. QED
  BY <1>1, <1>2, <1>3 DEF Larger

-----------------------------------------------------------------------------
(* The turns of a ring, and a course of it *)

\* Eight turns follow one another, in three cycles of a ring's four phases; only the first is the
\* starting phase in the first cycle.
LEMMA TurnsOfRing ==
  ASSUME NEW r \in {1, 2}, status.start[r] \in Ring(r)
  PROVE  /\ Turns(r) = [i \in 1 .. 8 |-> Turns(r)[i]]
         /\ Turns(r)[1] = <<1, status.start[r]>>
         /\ \A i \in 1 .. 8 :
              /\ Turns(r)[i][1] \in 1 .. 3 /\ Turns(r)[i][2] \in Ring(r) /\ Turns(r)[i][2] \in Phase
              /\ 4 * (Turns(r)[i][1] - 1) + Turns(r)[i][2] = status.start[r] + i - 1
              /\ i # 1 => Turns(r)[i] # <<1, status.start[r]>>
<1>1. Turns(r) = [i \in 1 .. 8 |-> Turns(r)[i]]
  BY DEF Turns
<1>2. ASSUME NEW i \in 1 .. 8
      PROVE  /\ Turns(r)[i][1] \in 1 .. 3 /\ Turns(r)[i][2] \in Ring(r) /\ Turns(r)[i][2] \in Phase
             /\ 4 * (Turns(r)[i][1] - 1) + Turns(r)[i][2] = status.start[r] + i - 1
  BY DEF Turns, Ring, Phase
<1>3. Turns(r)[1] = <<1, status.start[r]>>
  BY DEF Turns, Ring
<1>4. ASSUME NEW i \in 1 .. 8, Turns(r)[i] = <<1, status.start[r]>>
      PROVE  i = 1
  BY <1>2, <1>4 DEF Ring
<1>5. QED
  BY <1>1, <1>2, <1>3, <1>4

\* What a phase of the schedule must be: its turn, and what the results give for it.
CourseFits(r, c) ==
  /\ c.green \in [1 .. 8 -> Nat] /\ c.duration \in [1 .. 8 -> Nat]
  /\ c.time = Cumulative(status.init[r], c.duration)
  /\ \A i \in (1 .. 8) \ TurnsInUse(r) : c.green[i] = 0 /\ c.duration[i] = 0
  /\ \A i \in TurnsInUse(r) :
       /\ c.duration[i] = c.green[i] + clearance(Turns(r)[i][2]) /\ c.duration[i] # 0
       /\ i # 1 => c.green[i] # 0
       /\ signalPlan.gmin[Turns(r)[i][2]] <=
            c.green[i] + (IF i = 1 THEN status.elapsed[r] ELSE 0)

\* A turn in use has a green that completes its least one, and a clearance; any other has
\* neither.
LEMMA GreensOfTurn ==
  ASSUME IsTimingPlan(plan), StatusIsKnown, ModelIsKnown, NEW r \in {1, 2}, NEW i \in 1 .. 8,
         NEW g \in Greens(r, Turns(r)[i])
  PROVE  /\ g \in Nat
         /\ i \notin TurnsInUse(r) => g = 0 /\ PhaseDuration(Turns(r)[i], g) = 0
         /\ i \in TurnsInUse(r) =>
              /\ PhaseDuration(Turns(r)[i], g) = g + clearance(Turns(r)[i][2])
              /\ clearance(Turns(r)[i][2]) \in Nat \ {0}
              /\ i # 1 => g # 0
              /\ signalPlan.gmin[Turns(r)[i][2]] <= g + (IF i = 1 THEN status.elapsed[r] ELSE 0)
<1> DEFINE turn == Turns(r)[i]
           p == turn[2]
<1>1. /\ status.start[r] \in Ring(r) /\ status.elapsed[r] \in Int /\ status.earlyReturn[r] \in Nat
      /\ plan.minGreen[status.start[r]] > 0
  BY DEF StatusIsKnown
<1>2. /\ p \in Ring(r) /\ p \in Phase
      /\ i # 1 => turn # <<1, status.start[r]>>
      /\ i = 1 => turn = <<1, status.start[r]>> /\ p = status.start[r]
  BY <1>1, TurnsOfRing
<1>3. /\ plan.minGreen[p] \in Nat /\ clearance(p) \in Nat
      /\ plan.minGreen[p] > 0 => clearance(p) > 0
      /\ plan.minGreen[p] = 0 => p \notin plan.active /\ clearance(p) = 0
  BY <1>2, PhaseTimes
<1>4. /\ signalPlan.gmin[p] \in Nat /\ plan.minGreen[p] <= signalPlan.gmin[p]
      /\ plan.minGreen[p] = 0 => signalPlan.gmin[p] = 0
  BY <1>2, LeastGreens
<1>5. signalPlan.gmax[p] \in Int /\ (plan.minGreen[p] = 0 => signalPlan.gmax[p] = 0)
  BY <1>2 DEF ModelIsKnown
<1>6. i = 1 => InModel(turn)
  BY <1>2 DEF InModel, ModelIsKnown, phasesOfModel, startingPhases
<1>7. i \in TurnsInUse(r) <=> InModel(turn) /\ plan.minGreen[p] > 0
  BY <1>1, <1>2, <1>6 DEF TurnsInUse, inUse, InModel
<1>8. PassedGrn(r, turn) = IF i = 1 THEN status.elapsed[r] ELSE 0
  BY <1>2 DEF PassedGrn
<1>9. plan.minGreen[p] = 0 => turn # <<1, plan.coordinated[r]>>
  <2>1. plan.minGreen[p] = 0 => p \notin plan.active
    BY <1>3
  <2>2. plan.coordinated[r] = 0 \/ plan.coordinated[r] \in plan.active
    BY DEF IsTimingPlan, NoPhases
  <2>3. p # 0
    BY <1>2 DEF Phase
  <2>4. QED
    BY <2>1, <2>2, <2>3
<1> HIDE DEF turn, p
<1>10. CASE ~InModel(turn)
  <2>1. g = 0
    BY <1>10 DEF Greens, turn
  <2>2. QED
    BY <1>7, <1>10, <2>1 DEF PhaseDuration, turn
<1>11. CASE InModel(turn)
  <2>1. g \in GrnMin(r, turn) .. GrnMax(r, turn)
    BY <1>11 DEF Greens, turn
  <2>2. GrnMin(r, turn) = Larger(0, signalPlan.gmin[p] - (IF i = 1 THEN status.elapsed[r] ELSE 0))
    BY <1>8 DEF GrnMin, p
  <2>3. GrnMax(r, turn) = gmaxPerRng(r, turn) - (IF i = 1 THEN status.elapsed[r] ELSE 0)
    BY <1>8 DEF GrnMax
  <2>4. /\ gmaxPerRng(r, turn) \in Int
        /\ plan.minGreen[p] = 0 => gmaxPerRng(r, turn) = 0
    BY <1>1, <1>5, <1>9 DEF gmaxPerRng, p
  <2>5. PhaseDuration(turn, g) = g + clearance(p)
    BY <1>11 DEF PhaseDuration, p
  <2>6. /\ g \in Int /\ 0 <= g
        /\ signalPlan.gmin[p] <= g + (IF i = 1 THEN status.elapsed[r] ELSE 0)
        /\ g <= gmaxPerRng(r, turn) - (IF i = 1 THEN status.elapsed[r] ELSE 0)
    BY <1>1, <1>4, <2>1, <2>2, <2>3, <2>4 DEF Larger
  <2>7. CASE plan.minGreen[p] = 0
    <3>1. i # 1
      BY <1>1, <1>2, <2>7
    <3>2. g = 0 /\ clearance(p) = 0
      BY <1>3, <2>4, <2>6, <2>7, <3>1
    <3>3. QED
      BY <1>7, <2>5, <2>7, <3>2 DEF turn, p
  <2>8. CASE plan.minGreen[p] > 0
    <3>1. i # 1 => g # 0
      BY <1>3, <1>4, <2>6, <2>8
    <3>2. QED
      BY <1>3, <1>7, <1>11, <2>5, <2>6, <2>8, <3>1 DEF turn, p
  <2>9. QED
    BY <1>3, <2>7, <2>8
<1>12. QED
  BY <1>10, <1>11

\* All courses GLPK may choose from are of that kind.
LEMMA CoursesFit ==
  ASSUME IsTimingPlan(plan), StatusIsKnown, ModelIsKnown, NEW r \in {1, 2}, NEW c \in Courses(r)
  PROVE  CourseFits(r, c)
<1> DEFINE turns == Turns(r)
           greens(i) == Greens(r, turns[i])
<1>1. PICK green \in greens(1) \X greens(2) \X greens(3) \X greens(4)
                      \X greens(5) \X greens(6) \X greens(7) \X greens(8) : c = Course(r, green)
  BY DEF Courses
<1>2. green = [i \in 1 .. 8 |-> green[i]]
  OBVIOUS
<1>3. \A i \in 1 .. 8 : green[i] \in greens(i)
  OBVIOUS
<1> DEFINE duration == [i \in 1 .. 8 |-> PhaseDuration(turns[i], green[i])]
<1>4. /\ c.green = green /\ c.duration = duration
      /\ c.time = Cumulative(status.init[r], duration)
  BY <1>1 DEF Course
<1> HIDE DEF greens
<1>5. ASSUME NEW i \in 1 .. 8
      PROVE  /\ green[i] \in Nat /\ duration[i] = PhaseDuration(turns[i], green[i])
             /\ i \notin TurnsInUse(r) => green[i] = 0 /\ duration[i] = 0
             /\ i \in TurnsInUse(r) =>
                  /\ duration[i] = green[i] + clearance(turns[i][2])
                  /\ clearance(turns[i][2]) \in Nat \ {0}
                  /\ i # 1 => green[i] # 0
                  /\ signalPlan.gmin[turns[i][2]] <= green[i] + (IF i = 1 THEN status.elapsed[r] ELSE 0)
  <2>1. green[i] \in Greens(r, turns[i])
    BY <1>3 DEF greens
  <2>2. duration[i] = PhaseDuration(turns[i], green[i])
    OBVIOUS
  <2> HIDE DEF duration
  <2>3. QED
    BY <2>1, <2>2, GreensOfTurn
<1>6. \A i \in 1 .. 8 : duration[i] \in Nat
  BY <1>5
<1>7. TurnsInUse(r) \subseteq 1 .. 8
  BY DEF TurnsInUse
<1>8. c.green \in [1 .. 8 -> Nat] /\ c.duration \in [1 .. 8 -> Nat]
  <2>1. duration = [i \in 1 .. 8 |-> duration[i]]
    OBVIOUS
  <2> HIDE DEF duration
  <2>2. QED
    BY <1>2, <1>4, <1>5, <1>6, <2>1
<1> HIDE DEF duration
<1>9. ASSUME NEW i \in TurnsInUse(r)
      PROVE  /\ c.duration[i] = c.green[i] + clearance(Turns(r)[i][2]) /\ c.duration[i] # 0
             /\ i # 1 => c.green[i] # 0
             /\ signalPlan.gmin[Turns(r)[i][2]] <=
                  c.green[i] + (IF i = 1 THEN status.elapsed[r] ELSE 0)
  BY <1>4, <1>5, <1>7
<1>10. QED
  BY <1>4, <1>5, <1>8, <1>9 DEF CourseFits

-----------------------------------------------------------------------------
(* From the results to the schedule *)

\* The zeros that are erased are those of the phases that are not in use, so that phases and
\* times stay together: the n-th command is about the n-th turn in use.
LEMMA CommandsOfTurns ==
  ASSUME IsTimingPlan(plan), StatusIsKnown, NEW r \in {1, 2}, NEW c, CourseFits(r, c)
  PROVE  LET U == TurnsInUse(r)
             events == createEventList(r, obtainRequiredSignalGroup(r), c)
         IN  /\ U \in SUBSET (1 .. 8) /\ 1 \in U
             /\ DOMAIN events = 1 .. Cardinality(U) /\ Len(events) = Cardinality(U)
             /\ Cardinality(U) \in Nat
             /\ \A n \in 1 .. Cardinality(U) :
                  LET u == Nth(U, n)
                      from == c.time[u - 1]
                      end == from + c.green[u]
                  IN  /\ u \in U /\ (u = 1 <=> n = 1)
                      /\ events[n].commandPhase = Turns(r)[u][2]
                      /\ point = "left" => /\ events[n].commandStartTime = from
                                           /\ events[n].commandEndTime = end
                      /\ point # "left" => events[n].commandStartTime = end
<1> DEFINE U == TurnsInUse(r)
           size == Cardinality(U)
           phaseAt == [i \in 1 .. 8 |-> Turns(r)[i][2]]
           phases == obtainRequiredSignalGroup(r)
           N == {i \in 1 .. 8 : c.green[i] # 0}
           greens == greenTimes(phases, c)
           ends == Cumulative(status.init[r], phaseDurations(c))
<1>1. U \in SUBSET (1 .. 8) /\ 1 \in U
  BY DEF TurnsInUse
<1>2. /\ c.green \in [1 .. 8 -> Nat] /\ c.duration \in [1 .. 8 -> Nat]
      /\ c.time = Cumulative(status.init[r], c.duration) /\ status.init[r] \in Int
      /\ \A i \in (1 .. 8) \ U : c.green[i] = 0 /\ c.duration[i] = 0
      /\ \A i \in U : c.duration[i] # 0 /\ (i # 1 => c.green[i] # 0)
  BY DEF CourseFits, StatusIsKnown
<1> HIDE DEF U
<1>3. size \in Nat /\ 1 \in 1 .. size /\ Nth(U, 1) = 1
  BY <1>1, PositionsFinite, NthOne
<1>4. \A n \in 1 .. size : Nth(U, n) \in U /\ Nth(U, n) \in 1 .. 8
  <2>1. \A n \in 1 .. size : Nth(U, n) \in U
    BY <1>1, NthType
  <2>2. QED
    BY <1>1, <2>1
<1>5. phases = [n \in 1 .. size |-> Turns(r)[Nth(U, n)][2]]
  <2>1. phases = [n \in 1 .. size |-> phaseAt[Nth(U, n)]]
    BY DEF obtainRequiredSignalGroup, Keep, U
  <2>2. QED
    BY <1>4, <2>1
<1>6. DOMAIN phases = 1 .. size /\ Len(phases) = size
  <2> HIDE DEF phases
  <2>1. QED
    BY <1>3, <1>5
<1>7. phaseDurations(c) = Keep(c.duration, U)
  <2>1. {i \in DOMAIN c.duration : c.duration[i] # 0} = U
    BY <1>1, <1>2
  <2>2. QED
    BY <2>1 DEF phaseDurations, NotZero
<1>8. \A n \in 1 .. size : ends[n - 1] = c.time[Nth(U, n) - 1]
  <2> DEFINE from == status.init[r]
             v == c.duration
  <2>1. from \in Int /\ v \in [1 .. 8 -> Nat] /\ \A k \in (1 .. 8) \ U : v[k] = 0
    BY <1>2
  <2>2. c.time = Cumulative(from, v) /\ ends = Cumulative(from, Keep(v, U))
    BY <1>2, <1>7
  <2> HIDE DEF from, v, ends
  <2>3. QED
    BY <1>1, <2>1, <2>2, TimesKept
<1>9. NotZero(c.green) = Keep(c.green, N)
  <2>1. {i \in DOMAIN c.green : c.green[i] # 0} = N
    BY <1>2
  <2>2. QED
    BY <2>1 DEF NotZero
<1>10. \A n \in 1 .. size : greens[n] = c.green[Nth(U, n)]
  <2>1. CASE c.green[1] # 0
    <3>1. N = U
      BY <1>1, <1>2, <2>1
    <3>2. NotZero(c.green) = [n \in 1 .. size |-> c.green[Nth(U, n)]]
      BY <1>9, <3>1 DEF Keep
    <3>3. Len(NotZero(c.green)) = size
      BY <1>3, <3>2
    <3> HIDE DEF phases
    <3>4. greens = NotZero(c.green)
      BY <1>6, <3>3 DEF greenTimes
    <3>5. QED
      BY <3>2, <3>4
  <2>2. CASE c.green[1] = 0
    <3> DEFINE L == U \ {1}
               less == Cardinality(L)
    <3>1. N = L
      BY <1>1, <1>2, <2>2
    <3>2. /\ less + 1 = size
          /\ \A n \in 1 .. less : Nth(L, n) = Nth(U, n + 1)
      BY <1>1, NthTail
    <3>3. less \in Nat
      BY <1>1, PositionsFinite
    <3>4. NotZero(c.green) = [n \in 1 .. less |-> c.green[Nth(L, n)]]
      BY <1>9, <3>1 DEF Keep
    <3> HIDE DEF L, less, phases
    <3>5. ASSUME NEW n \in 1 .. less
          PROVE  c.green[Nth(L, n)] = c.green[Nth(U, n + 1)] /\ c.green[Nth(L, n)] \in Nat
      <4>1. n + 1 \in 1 .. size
        BY <3>2, <3>3
      <4>2. QED
        BY <1>2, <1>4, <3>2, <4>1
    <3>6. NotZero(c.green) \in Seq(Nat) /\ Len(NotZero(c.green)) = less
      BY <3>3, <3>4, <3>5
    <3>7. greens = <<0>> \o NotZero(c.green)
      BY <1>6, <3>2, <3>3, <3>6 DEF greenTimes
    <3>8. ASSUME NEW n \in 1 .. size
          PROVE  greens[n] = c.green[Nth(U, n)]
      <4>1. CASE n = 1
        BY <1>3, <2>2, <3>6, <3>7, <4>1
      <4>2. CASE n # 1
        <5> DEFINE m == n - 1
        <5>1. m \in 1 .. less /\ m + 1 = n
          BY <3>2, <3>3, <4>2
        <5>2. greens[n] = NotZero(c.green)[m]
          BY <3>6, <3>7, <5>1
        <5>3. NotZero(c.green)[m] = c.green[Nth(L, m)]
          BY <3>4, <5>1
        <5>4. QED
          BY <3>5, <5>1, <5>2, <5>3
      <4>3. QED
        BY <4>1, <4>2
    <3>9. QED
      BY <3>8
  <2>3. QED
    BY <2>1, <2>2
<1> DEFINE events == createEventList(r, phases, c)
<1>11. /\ DOMAIN events = 1 .. size
       /\ \A n \in 1 .. size :
            /\ events[n].commandPhase = phases[n]
            /\ point = "left" => /\ events[n].commandStartTime = ends[n - 1]
                                 /\ events[n].commandEndTime = ends[n - 1] + greens[n]
            /\ point # "left" => events[n].commandStartTime = ends[n - 1] + greens[n]
  <2> HIDE DEF phases
  <2>1. events = [i \in 1 .. size |->
           IF point = "left"
           THEN [commandPhase |-> phases[i], commandStartTime |-> ends[i - 1],
                 commandEndTime |-> ends[i - 1] + greens[i]]
           ELSE [commandPhase |-> phases[i], commandStartTime |-> ends[i - 1] + greens[i],
                 commandEndTime |-> ends[i - 1] + greens[i] + 3 * Second]]
    BY <1>6 DEF createEventList
  <2> HIDE DEF ends, greens, events
  <2>2. QED
    BY <2>1
<1>12. Len(events) = size
  <2>1. events = [n \in 1 .. size |-> events[n]]
    <3>1. events = [n \in DOMAIN phases |-> events[n]]
      <4> HIDE DEF phases
      <4>1. QED
        BY DEF createEventList
    <3>2. QED
      BY <1>6, <3>1
  <2> HIDE DEF events
  <2>2. QED
    BY <1>3, <2>1
<1>13. ASSUME NEW n \in 1 .. size
       PROVE  Nth(U, n) = 1 <=> n = 1
  <2>1. Nth(U, n) = 1 => Rank(U, 1) = n
    BY <1>1, NthType
  <2>2. Rank(U, 1) = 1
    BY <1>1, <1>3, NthType
  <2>3. QED
    BY <1>3, <2>1, <2>2
<1> HIDE DEF events, ends, greens, phases
<1>14. ASSUME NEW n \in 1 .. size
       PROVE  LET u == Nth(U, n)
                  from == c.time[u - 1]
                  end == from + c.green[u]
              IN  /\ u \in U /\ (u = 1 <=> n = 1)
                  /\ events[n].commandPhase = Turns(r)[u][2]
                  /\ point = "left" => /\ events[n].commandStartTime = from
                                       /\ events[n].commandEndTime = end
                  /\ point # "left" => events[n].commandStartTime = end
  BY <1>4, <1>5, <1>8, <1>10, <1>11, <1>13
<1>15. QED
  BY <1>1, <1>3, <1>11, <1>12, <1>14 DEF U, events, phases

-----------------------------------------------------------------------------
(* The greens of a schedule *)

\* What is sent of a ring: its turns in use in order, each from when it begins, for as long
\* as its green, and clear when the next begins.
RingIsSent(r, c) ==
  /\ CourseFits(r, c)
  /\ Len(schedule[r]) \in Nat /\ DOMAIN schedule[r] = 1 .. Len(schedule[r])
  /\ DOMAIN schedule[r] = 1 .. Cardinality(TurnsInUse(r))
  /\ \A u \in TurnsInUse(r) : \E i \in DOMAIN schedule[r] : Nth(TurnsInUse(r), i) = u
  /\ \A i \in DOMAIN schedule[r] :
       LET u == Nth(TurnsInUse(r), i)
       IN  /\ u \in TurnsInUse(r) /\ u \in 1 .. 8 /\ (u = 1 <=> i = 1)
           /\ schedule[r][i].commandPhase = Turns(r)[u][2]
           /\ GreenFrom(r, i) = c.time[u - 1]
           /\ GreenTo(r, i) = c.time[u - 1] + c.green[u]
           /\ ClearAt(r, i) = c.time[u]

\* createEventList sends a course that way, for the holds and for the force-offs.
LEMMA RingSent ==
  ASSUME IsTimingPlan(plan), StatusIsKnown, point \in {"left", "right"},
         NEW r \in {1, 2}, NEW c, CourseFits(r, c),
         schedule[r] = createEventList(r, obtainRequiredSignalGroup(r), c)
  PROVE  RingIsSent(r, c)
<1> DEFINE U == TurnsInUse(r)
           size == Cardinality(U)
           events == schedule[r]
<1>1. /\ U \in SUBSET (1 .. 8) /\ 1 \in U
      /\ DOMAIN events = 1 .. size /\ Len(events) = size /\ size \in Nat
      /\ \A n \in 1 .. size :
           /\ Nth(U, n) \in U /\ (Nth(U, n) = 1 <=> n = 1)
           /\ events[n].commandPhase = Turns(r)[Nth(U, n)][2]
           /\ point = "left" =>
                /\ events[n].commandStartTime = c.time[Nth(U, n) - 1]
                /\ events[n].commandEndTime = c.time[Nth(U, n) - 1] + c.green[Nth(U, n)]
           /\ point # "left" =>
                events[n].commandStartTime = c.time[Nth(U, n) - 1] + c.green[Nth(U, n)]
  BY CommandsOfTurns
<1>2. /\ status.start[r] \in Ring(r) /\ status.init[r] \in Int
      /\ \A i \in 1 .. 8 : Turns(r)[i][2] \in Phase
  BY TurnsOfRing DEF StatusIsKnown
<1>3. /\ c.green \in [1 .. 8 -> Nat] /\ c.duration \in [1 .. 8 -> Nat]
      /\ c.time = Cumulative(status.init[r], c.duration)
      /\ \A u \in (1 .. 8) \ U : c.duration[u] = 0
      /\ \A u \in U : c.duration[u] = c.green[u] + clearance(Turns(r)[u][2])
  BY DEF CourseFits
<1>4. /\ c.time[0] = status.init[r] /\ \A i \in 0 .. 8 : c.time[i] \in Int
      /\ \A i \in 1 .. 8 : c.time[i] = c.time[i - 1] + c.duration[i]
  <2> DEFINE from == status.init[r]
             v == c.duration
             time == Cumulative(from, v)
  <2>1. from \in Int /\ v \in [1 .. 8 -> Int] /\ 8 \in 0 .. 8 /\ c.time = time
    BY <1>2, <1>3
  <2> HIDE DEF from, v
  <2>2. /\ time[0] = from /\ \A i \in 0 .. 8 : time[i] \in Int
        /\ \A i \in 1 .. 8 : time[i] = time[i - 1] + v[i]
    BY <2>1, CumulativeTimes
  <2>3. QED
    BY <2>1, <2>2 DEF from, v
<1> HIDE DEF U, events
<1>5. ASSUME NEW u \in U
      PROVE  /\ u \in 1 .. 8 /\ c.time[u] = c.time[u - 1] + c.green[u] + clearance(Turns(r)[u][2])
             /\ c.time[u - 1] \in Int /\ c.green[u] \in Nat /\ clearance(Turns(r)[u][2]) \in Nat
  <2>1. u \in 1 .. 8 /\ u - 1 \in 0 .. 8
    BY <1>1
  <2>2. clearance(Turns(r)[u][2]) \in Nat
    BY <1>2, <2>1, PhaseTimes
  <2>3. c.green[u] \in Nat /\ c.time[u - 1] \in Int
    BY <1>3, <1>4, <2>1
  <2>4. c.time[u] = c.time[u - 1] + (c.green[u] + clearance(Turns(r)[u][2]))
    BY <1>3, <1>4, <2>1
  <2>5. QED
    BY <2>1, <2>2, <2>3, <2>4
<1>6. ASSUME NEW i \in 1 .. size
      PROVE  /\ GreenFrom(r, i) = c.time[Nth(U, i) - 1]
             /\ GreenTo(r, i) = c.time[Nth(U, i) - 1] + c.green[Nth(U, i)]
             /\ ClearAt(r, i) = c.time[Nth(U, i)]
  <2> DEFINE u == Nth(U, i)
  <2>1. u \in U /\ (u = 1 <=> i = 1)
    BY <1>1
  <2>2. GreenTo(r, i) = c.time[u - 1] + c.green[u]
    BY <1>1 DEF GreenTo, events
  <2>3. ClearAt(r, i) = c.time[u]
    <3>1. ClearAt(r, i) = GreenTo(r, i) + clearance(Turns(r)[u][2])
      BY <1>1 DEF ClearAt, events
    <3>2. QED
      BY <1>5, <2>1, <2>2, <3>1
  <2>4. GreenFrom(r, i) = c.time[u - 1]
    <3>1. CASE point = "left"
      BY <1>1, <3>1 DEF GreenFrom, events
    <3>2. CASE point # "left" /\ i = 1
      BY <1>4, <2>1, <3>2 DEF GreenFrom
    <3>3. CASE point # "left" /\ i # 1
      <4> DEFINE m == i - 1
                 w == Nth(U, m)
      <4>1. m \in 1 .. size /\ m + 1 \in 1 .. size /\ m + 1 = i
        BY <1>1, <3>3
      <4>2. /\ w \in U /\ events[m].commandPhase = Turns(r)[w][2]
            /\ events[m].commandStartTime = c.time[w - 1] + c.green[w]
        BY <1>1, <3>3, <4>1
      <4>3. GreenFrom(r, i) = events[m].commandStartTime + clearance(events[m].commandPhase)
        BY <3>3 DEF GreenFrom, events
      <4>4. GreenFrom(r, i) = c.time[w]
        BY <1>5, <4>2, <4>3
      <4>5. w < u /\ \A k \in U : ~(w < k /\ k < u)
        BY <1>1, <4>1, NthNext
      <4>6. w \in 0 .. 8 /\ u - 1 \in 0 .. 8 /\ w <= u - 1
        BY <1>5, <2>1, <4>2, <4>5
      <4>7. \A k \in 1 .. 8 : w < k /\ k <= u - 1 => c.duration[k] = 0
        <5>1. \A k \in 1 .. 8 : w < k /\ k <= u - 1 => k < u
          BY <4>6
        <5>2. QED
          BY <1>3, <4>5, <5>1
      <4>8. c.time[w] = c.time[u - 1]
        BY <1>2, <1>3, <4>6, <4>7, TimeRuns
      <4>9. QED
        BY <4>4, <4>8
    <3>4. QED
      BY <3>1, <3>2, <3>3
  <2>5. QED
    BY <2>2, <2>3, <2>4
<1>7. ASSUME NEW u \in U
      PROVE  \E i \in 1 .. size : Nth(U, i) = u
  BY <1>1, NthUnique
<1>8. /\ Len(schedule[r]) \in Nat /\ DOMAIN schedule[r] = 1 .. Len(schedule[r])
      /\ DOMAIN schedule[r] = 1 .. size
  BY <1>1 DEF events
<1>9. \A i \in 1 .. size : /\ Nth(U, i) \in U /\ Nth(U, i) \in 1 .. 8 /\ (Nth(U, i) = 1 <=> i = 1)
                           /\ schedule[r][i].commandPhase = Turns(r)[Nth(U, i)][2]
  BY <1>1, <1>5 DEF events
<1>10. QED
  BY <1>6, <1>7, <1>8, <1>9 DEF RingIsSent, U

-----------------------------------------------------------------------------
(* The barrier *)

\* A solution has one course for each ring; both cross the barrier at the same times.
LEMMA SolutionsServeAndCross ==
  ASSUME NEW s \in Solutions
  PROVE  /\ s[1] \in ServingCourses(1) /\ s[2] \in ServingCourses(2)
         /\ CrossingTimes(1, s[1]) = CrossingTimes(2, s[2])
<1> DEFINE timed(r) == {<<c, CrossingTimes(r, c)>> : c \in ServingCourses(r)}
           at(ring, times) == {x[1] : x \in {y \in ring : y[2] = times}}
<1>1. PICK times : s \in at(timed(1), times) \X at(timed(2), times)
  BY DEF Solutions
<1>2. ASSUME NEW r \in {1, 2}, NEW c \in at(timed(r), times)
      PROVE  c \in ServingCourses(r) /\ CrossingTimes(r, c) = times
  OBVIOUS
<1>3. s[1] \in at(timed(1), times) /\ s[2] \in at(timed(2), times)
  BY <1>1
<1> HIDE DEF at, timed
<1>4. QED
  BY <1>2, <1>3

\* Of two turns on different sides of the barrier the earlier is over, and clear, when the
\* rings cross the barrier together, and the later begins no sooner.
LEMMA CrossedBetween ==
  ASSUME IsTimingPlan(plan), StatusIsKnown, ModelIsKnown,
         NEW r \in {1, 2}, NEW o \in {1, 2}, r # o,
         NEW c, CourseFits(r, c), NEW d, CourseFits(o, d),
         CrossingTimes(r, c) = CrossingTimes(o, d),
         NEW u \in TurnsInUse(r), NEW w \in TurnsInUse(o),
         Side(Turns(r)[u][2]) # Side(Turns(o)[w][2]),
         \/ Turns(r)[u][1] < Turns(o)[w][1]
         \/ Turns(r)[u][1] = Turns(o)[w][1] /\ Side(Turns(r)[u][2]) < Side(Turns(o)[w][2])
  PROVE  c.time[u] <= d.time[w - 1]
<1> DEFINE k == Turns(r)[u][1]
           p == Turns(r)[u][2]
           l == Turns(o)[w][1]
           q == Turns(o)[w][2]
           x == <<k, Side(p)>>
           before(ring) == TurnsBefore(ring, x)
           start(ring) == status.start[ring]
<1>1. /\ start(1) \in Ring(1) /\ start(2) \in Ring(2) /\ Side(start(1)) = Side(start(2))
      /\ start(r) \in Ring(r) /\ start(o) \in Ring(o)
      /\ status.init[r] \in Int /\ status.init[o] \in Int
  BY DEF StatusIsKnown
<1>2. u \in 1 .. 8 /\ w \in 1 .. 8
  BY DEF TurnsInUse
<1>3. /\ k \in 1 .. 3 /\ p \in Ring(r) /\ p \in Phase /\ 4 * (k - 1) + p = start(r) + u - 1
      /\ l \in 1 .. 3 /\ q \in Ring(o) /\ q \in Phase /\ 4 * (l - 1) + q = start(o) + w - 1
  BY <1>1, <1>2, TurnsOfRing
<1>4. Turns(o)[1] = <<1, start(o)>>
  BY <1>1, TurnsOfRing
<1> HIDE DEF k, p, l, q, start
<1>5. \A ring \in {1, 2} : \A f \in Ring(ring) :
        /\ Side(f) \in {1, 2} /\ f \in Int
        /\ Side(f) = 1 => f >= 4 * (ring - 1) + 1 /\ f <= 4 * (ring - 1) + 2
        /\ Side(f) = 2 => f >= 4 * (ring - 1) + 3 /\ f <= 4 * (ring - 1) + 4 /\ f \in Barrier(2)
  BY DEF Ring, Side, Barrier
<1>6. /\ Side(p) # Side(q) /\ (k < l \/ (k = l /\ Side(p) = 1 /\ Side(q) = 2))
      /\ Side(p) \in {1, 2} /\ Side(q) \in {1, 2}
  <2>1. Side(p) \in {1, 2} /\ Side(q) \in {1, 2}
    BY <1>3, <1>5
  <2>2. Side(p) # Side(q) /\ (k < l \/ (k = l /\ Side(p) < Side(q)))
    BY DEF k, p, l, q
  <2>3. QED
    BY <2>1, <2>2
<1>7. k = 3 => /\ l = 3 /\ Side(p) = 1 /\ Side(q) = 2 /\ q < start(o)
               /\ Side(start(r)) = 2 /\ q \in Group(o, 2)
  <2> SUFFICES ASSUME k = 3
               PROVE  /\ l = 3 /\ Side(p) = 1 /\ Side(q) = 2 /\ q < start(o)
                      /\ Side(start(r)) = 2 /\ q \in Group(o, 2)
    OBVIOUS
  <2>1. l = 3 /\ Side(p) = 1 /\ Side(q) = 2
    BY <1>3, <1>6
  <2>2. start(o) \in Int /\ q \in Int
    BY <1>1, <1>3, <1>5
  <2>3. q < start(o)
    BY <1>2, <1>3, <2>1, <2>2
  <2>4. Side(start(o)) = 2
    BY <1>1, <1>3, <1>5, <2>1, <2>2, <2>3
  <2>5. Side(start(r)) = 2
    BY <1>1, <2>4
  <2>6. w # 1
    <3>1. w = 1 => l = 1
      BY <1>4 DEF l
    <3>2. QED
      BY <2>1, <3>1
  <2>7. q \in phasesOfModel
    BY <2>6 DEF TurnsInUse, inUse, ModelIsKnown, q
  <2>8. QED
    BY <1>3, <1>5, <2>1, <2>3, <2>5, <2>7 DEF Group
<1>8. k = 1 /\ Side(p) = 1 => Side(start(r)) = 1 /\ Side(start(o)) = 1 /\ Side(start(1)) = 1
  <2> SUFFICES ASSUME k = 1, Side(p) = 1
               PROVE  Side(start(r)) = 1
    BY <1>1
  <2>1. start(r) \in Int /\ p \in Int
    BY <1>1, <1>3, <1>5
  <2>2. start(r) <= p
    BY <1>2, <1>3, <2>1
  <2>3. QED
    BY <1>1, <1>3, <1>5, <2>1, <2>2
<1>9. x \in Crossings
  <2>1. CASE k = 1 /\ Side(p) = 1
    BY <1>8, <2>1 DEF Crossings, start
  <2>2. CASE k = 3
    <3>1. \E ring \in {1, 2} : \E f \in Group(ring, 2) : f < status.start[ring]
      BY <1>7, <2>2 DEF start
    <3>2. QED
      BY <1>7, <2>2, <3>1 DEF Crossings
  <2>3. CASE k = 2 \/ (k = 1 /\ Side(p) = 2)
    BY <1>6, <2>3 DEF Crossings
  <2>4. QED
    BY <1>3, <1>6, <2>1, <2>2, <2>3
<1>10. \A ring \in {1, 2} :
         before(ring) = 4 * (k - 1) + 2 * Side(p) + 4 * (ring - 1) + 1 - start(ring)
  BY DEF TurnsBefore, start
<1>11. before(r) \in 0 .. 8 /\ u <= before(r)
  <2>1. before(r) = 4 * (k - 1) + 2 * Side(p) + 4 * (r - 1) + 1 - start(r)
    BY <1>10
  <2>2. /\ start(r) \in Int /\ p \in Int /\ 4 * (r - 1) + 1 <= start(r)
        /\ (k = 3 => 4 * (r - 1) + 3 <= start(r)) /\ p <= 4 * (r - 1) + 2 * Side(p)
    BY <1>1, <1>3, <1>5, <1>6, <1>7
  <2>3. u <= before(r)
    BY <1>2, <1>3, <1>6, <2>1, <2>2
  <2>4. before(r) <= 8
    BY <1>3, <1>6, <1>7, <2>1, <2>2
  <2>5. before(r) \in Int
    BY <1>3, <1>6, <2>1, <2>2
  <2> HIDE DEF before
  <2>6. QED
    BY <1>2, <2>3, <2>4, <2>5
<1>12. before(o) \in 0 .. 8 /\ before(o) <= w - 1 /\ w - 1 \in 0 .. 8
  <2>1. before(o) = 4 * (k - 1) + 2 * Side(p) + 4 * (o - 1) + 1 - start(o)
    BY <1>10
  <2>2. /\ start(o) \in Int /\ q \in Int /\ start(o) <= 4 * (o - 1) + 4
        /\ (k = 1 /\ Side(p) = 1 => start(o) <= 4 * (o - 1) + 2)
        /\ 4 * (o - 1) + 1 <= q /\ (Side(q) = 2 => 4 * (o - 1) + 3 <= q)
    BY <1>1, <1>3, <1>5, <1>6, <1>8
  <2>3. before(o) <= w - 1
    BY <1>2, <1>3, <1>6, <2>1, <2>2
  <2>4. 0 <= before(o)
    BY <1>3, <1>6, <2>1, <2>2
  <2>5. before(o) \in Int
    BY <1>3, <1>6, <2>1, <2>2
  <2> HIDE DEF before
  <2>6. QED
    BY <1>2, <2>3, <2>4, <2>5
<1>13. c.time[before(r)] = d.time[before(o)]
  <2>1. CrossingTimes(r, c)[x] = c.time[before(r)] /\ CrossingTimes(o, d)[x] = d.time[before(o)]
    BY <1>9 DEF CrossingTimes
  <2>2. QED
    BY <2>1
<1> HIDE DEF before
<1>14. c.time[u] <= c.time[before(r)] /\ c.time[u] \in Int /\ c.time[before(r)] \in Int
  <2>1. c.duration \in [1 .. 8 -> Nat] /\ c.time = Cumulative(status.init[r], c.duration)
    BY DEF CourseFits
  <2>2. u \in 0 .. 8
    BY <1>2
  <2>3. QED
    BY <1>1, <1>11, <2>1, <2>2, TimeRuns
<1>15. d.time[before(o)] <= d.time[w - 1] /\ d.time[w - 1] \in Int
  <2>1. d.duration \in [1 .. 8 -> Nat] /\ d.time = Cumulative(status.init[o], d.duration)
    BY DEF CourseFits
  <2>2. QED
    BY <1>1, <1>12, <2>1, TimeRuns
<1>16. QED
  BY <1>13, <1>14, <1>15

-----------------------------------------------------------------------------
(* The signal status *)

\* A ring that reports starts with a phase in use of its own; one that does not starts with
\* the through phase opposite to the other's, which has the times of that one.
LEMMA StartingPhases ==
  ASSUME IsOpposed(plan), IsTimingPlan(plan),
         NEW reports \in Reports \X Reports, Possible(reports), NEW r \in {1, 2}
  PROVE  /\ startingPhase(reports, r) \in Ring(r)
         /\ plan.minGreen[startingPhase(reports, r)] > 0
         /\ startingPhase(reports, r) \in plan.active <=> reports[r] # NoReport
         /\ Side(startingPhase(reports, r)) = Side(startingPhase(reports, 3 - r))
<1>1. plan.active \subseteq Phase /\ 3 - r \in {1, 2} /\ 3 - (3 - r) = r
  BY DEF IsTimingPlan
<1>2. ASSUME NEW o \in {1, 2}, reports[o] # NoReport
      PROVE  /\ startOf(reports[o]) \in plan.active \cap Ring(o)
             /\ startingPhase(reports, o) = startOf(reports[o])
  BY <1>2 DEF Possible, PhasesOf, startOf, startingPhase
<1>3. \A p \in plan.active : plan.minGreen[p] > 0
  BY <1>1, PhaseTimes
<1>4. \A p \in Phase : /\ Opposite(p) \in Phase /\ Side(Opposite(p)) = Side(p)
                       /\ (p \in Ring(1) <=> Opposite(p) \in Ring(2))
                       /\ (p \in Ring(2) <=> Opposite(p) \in Ring(1))
                       /\ (Opposite(p) % 2 = p % 2) /\ p \in Barrier(Side(p))
  <2>1. \A p \in {1, 2, 3, 4, 5, 6, 7, 8} :
          /\ Opposite(p) \in 1 .. 8 /\ Side(Opposite(p)) = Side(p)
          /\ (p \in 1 .. 4 <=> Opposite(p) \in 5 .. 8)
          /\ (p \in 5 .. 8 <=> Opposite(p) \in 1 .. 4)
          /\ (Opposite(p) % 2 = p % 2) /\ p \in Barrier(Side(p))
    BY DEF Opposite, Side, Barrier
  <2>2. \A p \in Phase : p \in {1, 2, 3, 4, 5, 6, 7, 8}
    BY DEF Phase
  <2>3. QED
    BY <2>1, <2>2 DEF Phase, Ring
<1>5. ASSUME NEW o \in {1, 2}, reports[o] = NoReport
      PROVE  /\ startOf(reports[3 - o]) \in plan.active \cap Ring(3 - o)
             /\ startingPhase(reports, o) = Opposite(startOf(reports[3 - o]))
             /\ startingPhase(reports, 3 - o) = startOf(reports[3 - o])
             /\ startingPhase(reports, o) \in Ring(o) /\ startingPhase(reports, o) \notin plan.active
             /\ startOf(reports[3 - o]) % 2 = 0
  <2> DEFINE p == startOf(reports[3 - o])
  <2>1. 3 - o \in {1, 2} /\ reports[3 - o] # NoReport
    <3>1. reports # <<NoReport, NoReport>>
      BY DEF Possible
    <3>2. reports = <<reports[1], reports[2]>>
      OBVIOUS
    <3>3. QED
      BY <1>5, <3>1, <3>2
  <2>2. p \in plan.active \cap Ring(3 - o) /\ startingPhase(reports, 3 - o) = p
    BY <1>2, <2>1
  <2>3. startingPhase(reports, o) = Opposite(p)
    BY <1>5 DEF startingPhase
  <2>4. plan.active \cap Ring(o) \cap Barrier(Side(p)) = {}
    BY <1>5 DEF Possible
  <2>5. p \in Phase /\ Opposite(p) \in Ring(o)
    BY <1>1, <1>4, <2>2
  <2>6. Opposite(p) \notin plan.active
    BY <1>4, <2>4, <2>5
  <2>7. p % 2 = 0
    <3>1. ASSUME p % 2 = 1
          PROVE  FALSE
      <4>1. PICK q \in plan.active : Side(q) = Side(p) /\ \A x \in {1, 2} : ~({p, q} \subseteq Ring(x))
        BY <2>2, <3>1 DEF IsOpposed
      <4>2. q \in Phase /\ q \notin Ring(3 - o)
        BY <1>1, <2>1, <2>2, <4>1
      <4>3. q \in Ring(o)
        BY <4>2 DEF Phase, Ring
      <4>4. q \in Barrier(Side(p))
        BY <1>4, <4>1, <4>2
      <4>5. QED
        BY <2>4, <4>1, <4>3, <4>4
    <3>2. p % 2 \in {0, 1}
      BY <2>5 DEF Phase
    <3>3. QED
      BY <3>1, <3>2
  <2>8. QED
    BY <2>2, <2>3, <2>5, <2>6, <2>7
<1>6. CASE reports[r] = NoReport
  <2> DEFINE p == startOf(reports[3 - r])
  <2>1. /\ p \in Phase /\ startingPhase(reports, r) = Opposite(p) /\ p % 2 = 0
        /\ startingPhase(reports, 3 - r) = p
    BY <1>1, <1>5, <1>6
  <2>2. Opposite(p) \in Phase /\ Opposite(p) % 2 = 0 /\ Side(Opposite(p)) = Side(p)
    BY <1>4, <2>1
  <2>3. plan.minGreen[Opposite(p)] \in Nat /\ plan.minGreen[Opposite(p)] # 0
    BY <2>2, PhaseTimes
  <2>4. QED
    BY <1>5, <1>6, <2>1, <2>2, <2>3
<1>7. CASE reports[r] # NoReport
  <2>1. startingPhase(reports, r) \in plan.active \cap Ring(r)
    BY <1>2, <1>7
  <2>2. Side(startingPhase(reports, r)) = Side(startingPhase(reports, 3 - r))
    <3>1. CASE reports[3 - r] = NoReport
      <4>1. /\ startingPhase(reports, 3 - r) = Opposite(startOf(reports[3 - (3 - r)]))
            /\ startingPhase(reports, 3 - (3 - r)) = startOf(reports[3 - (3 - r)])
        BY <1>1, <1>5, <3>1
      <4>2. /\ startingPhase(reports, 3 - r) = Opposite(startingPhase(reports, r))
        BY <1>1, <4>1
      <4>3. QED
        BY <1>1, <1>4, <2>1, <4>2
    <3>2. CASE reports[3 - r] # NoReport
      <4>1. NoReport \notin {reports[1], reports[2]}
        BY <1>7, <3>2
      <4>2. Side(startOf(reports[1])) = Side(startOf(reports[2]))
        BY <4>1 DEF Possible
      <4>3. QED
        BY <1>1, <1>2, <1>7, <3>2, <4>2
    <3>3. QED
      BY <3>1, <3>2
  <2>3. QED
    BY <1>3, <1>7, <2>1, <2>2
<1>8. QED
  BY <1>6, <1>7

\* The time until a ring's starting phase begins, and the green it is said to have had.
LEMMA ReportedTimes ==
  ASSUME IsTimingPlan(plan), NEW reports \in Reports \X Reports, Possible(reports), NEW r \in {1, 2}
  PROVE  /\ initPhase(reports, r) \in Nat
         /\ reportedGreen(reports, r) \in Nat /\ greenInGmax(reports, r) \in Nat
         /\ reports[r] # NoReport =>
              /\ reportedGreen(reports, r) = IF Serving(reports[r]) THEN reports[r].elapsed ELSE 0
              /\ greenInGmax(reports, r) <= reportedGreen(reports, r)
<1>1. plan.active \subseteq Phase /\ 3 - r \in {1, 2}
  BY DEF IsTimingPlan
<1>2. ASSUME NEW o \in {1, 2}, reports[o] # NoReport
      PROVE  /\ reports[o].current \in Phase /\ reports[o].elapsed \in Nat
             /\ reports[o].state \in {"green", "yellow", "red"}
             /\ Serving(reports[o]) =>
                  reports[o].inGmax \in Nat /\ reports[o].inGmax <= reports[o].elapsed
  <2>1. PhasesOf(reports[o]) \subseteq plan.active
    BY <1>2 DEF Possible
  <2>2. reports[o].current \in Phase
    BY <1>1, <2>1 DEF PhasesOf
  <2>3. reports[o] \in Reports \ {NoReport}
    BY <1>2
  <2>4. QED
    BY <2>2, <2>3, TimingAssumption DEF Serving
<1>3. ASSUME NEW o \in {1, 2}, reports[o] # NoReport
      PROVE  initOf(reports[o]) \in Nat
  <2> DEFINE ring == reports[o]
  <2>1. ring.current \in Phase /\ ring.elapsed \in Nat /\ ring.state \in {"green", "yellow", "red"}
    BY <1>2, <1>3
  <2>2. clearance(ring.current) \in Nat /\ plan.redClear[ring.current] \in Nat
    BY <2>1, PhaseTimes
  <2> HIDE DEF ring
  <2>3. initOf(ring) \in Nat
    BY <2>1, <2>2 DEF initOf, Larger
  <2>4. QED
    BY <2>3 DEF ring
<1>4. reports[r] # NoReport \/ reports[3 - r] # NoReport
  <2>1. reports # <<NoReport, NoReport>> /\ reports = <<reports[1], reports[2]>>
    BY DEF Possible
  <2>2. QED
    BY <2>1
<1>5. initPhase(reports, r) \in Nat
  BY <1>1, <1>3, <1>4 DEF initPhase
<1>6. reportedGreen(reports, r) \in Nat
  BY <1>1, <1>2, <1>4 DEF reportedGreen
<1>7. greenInGmax(reports, r) \in Nat
  BY <1>2 DEF greenInGmax, Serving
<1>8. reports[r] # NoReport =>
        /\ reportedGreen(reports, r) = IF Serving(reports[r]) THEN reports[r].elapsed ELSE 0
        /\ greenInGmax(reports, r) <= reportedGreen(reports, r)
  BY <1>2 DEF greenInGmax, reportedGreen
<1>9. QED
  BY <1>5, <1>6, <1>7, <1>8

\* A green is not taken to be longer than it is reported, nor less than nothing.
LEMMA ElapsedGreens ==
  ASSUME IsOpposed(plan), IsTimingPlan(plan),
         NEW reports \in Reports \X Reports, Possible(reports), NEW r \in {1, 2}, NEW called
  PROVE  /\ elapsedGreen(reports, r, called) \in Nat
         /\ reports[r] # NoReport => elapsedGreen(reports, r, called) <= reportedGreen(reports, r)
<1>1. startingPhase(reports, r) \in Phase
  BY StartingPhases DEF Ring, Phase
<1>2. plan.minGreen[startingPhase(reports, r)] \in Nat
  BY <1>1, PhaseTimes
<1>3. /\ reportedGreen(reports, r) \in Nat /\ greenInGmax(reports, r) \in Nat
      /\ reports[r] # NoReport => greenInGmax(reports, r) <= reportedGreen(reports, r)
  BY ReportedTimes
<1>4. QED
  BY <1>2, <1>3 DEF elapsedGreen, Larger

\* Nor is a coordinated one, unless it has had its least green.
LEMMA CoordinatedGreens ==
  ASSUME IsOpposed(plan), IsTimingPlan(plan), plan.coordinated # NoPhases,
         NEW reports \in Reports \X Reports, Possible(reports), NEW r \in {1, 2},
         NEW starts, starts[r] = startingPhase(reports, r),
         NEW cycle \in Cycles, NEW calls, NEW called
  PROVE  LET passed == coordinationStatus(reports, starts, cycle, calls, called)[r]
         IN  /\ passed[1] \in Int /\ passed[2] \in Int
             /\ \/ passed[1] >= 0 /\ passed[1] <= reportedGreen(reports, r)
                \/ plan.minGreen[starts[r]] <= reportedGreen(reports, r)
<1> DEFINE coord == plan.coordinated[r]
           elapsed == reportedGreen(reports, r)
           inGmax == greenInGmax(reports, r)
           least == plan.minGreen[coord]
           greatest == plan.splitGreen[coord]
           limit == upperLimitOfGreenTimeForCoordinatedPhase
           permissive == permissivePeriod(calls)
           early == earlyReturn(elapsed, cycle, permissive)
           passed == coordinationStatus(reports, starts, cycle, calls, called)[r]
<1>1. plan.coordinated[1] \in Phase /\ plan.coordinated[2] \in Phase /\ coord \in Phase
  <2>1. plan.active \subseteq Phase /\
        plan.coordinated \in (Ring(1) \cap plan.active) \X (Ring(2) \cap plan.active)
    BY DEF IsTimingPlan
  <2>2. QED
    BY <2>1
<1>2. /\ least \in Nat /\ greatest \in Nat
      /\ plan.splitGreen[plan.coordinated[1]] \in Nat /\ plan.splitGreen[plan.coordinated[2]] \in Nat
  BY <1>1, PhaseTimes
<1>3. elapsed \in Nat /\ inGmax \in Nat
  BY ReportedTimes
<1>4. cycle.elapsed \in Int /\ cycle.length \in Int
  BY TimingAssumption
<1>5. limit \in Int
  <2> DEFINE a == plan.splitGreen[plan.coordinated[1]]
             b == plan.splitGreen[plan.coordinated[2]]
  <2>1. {plan.splitGreen[plan.coordinated[x]] : x \in {1, 2}} = {a, b}
    OBVIOUS
  <2>2. limit = CHOOSE x \in {a, b} : \A other \in {a, b} : x <= other
    BY <2>1 DEF upperLimitOfGreenTimeForCoordinatedPhase
  <2>3. \E x \in {a, b} : \A other \in {a, b} : x <= other
    <3>1. a <= b \/ b <= a
      BY <1>2
    <3>2. a <= a /\ b <= b
      BY <1>2
    <3>3. QED
      BY <3>1, <3>2
  <2> HIDE DEF a, b
  <2>4. limit \in {a, b}
    BY <2>2, <2>3
  <2>5. QED
    BY <1>2, <2>4 DEF a, b
<1> HIDE DEF coord, elapsed, inGmax, least, greatest, limit, permissive
<1>6. early \in Int
  BY <1>3, <1>4 DEF earlyReturn
<1>7. passed = IF initPhase(reports, r) # 0 THEN <<elapsed, 0>>
               ELSE IF starts[r] # coord THEN <<IF elapsed >= greatest THEN greatest ELSE elapsed, 0>>
               ELSE coordinatedGreen(r, elapsed, inGmax, cycle, permissive, called)
  BY DEF coordinationStatus, coord, elapsed, inGmax, greatest, permissive
<1> DEFINE green == coordinatedGreen(r, elapsed, inGmax, cycle, permissive, called)
<1>8. /\ green[1] \in Int /\ green[2] \in Int
      /\ elapsed < least => green[1] = elapsed
  <2> HIDE DEF early
  <2>1. green =
          LET conflict == called /\ cycle.length - cycle.elapsed >= permissive
              timedOut == IF cycle.elapsed < limit
                          THEN IF inGmax >= least THEN greatest - (limit - cycle.elapsed) ELSE elapsed
                          ELSE IF early >= 0 \/ inGmax >= greatest THEN greatest ELSE inGmax
          IN  IF elapsed < least THEN <<elapsed, early>>
              ELSE IF early > 0 /\ elapsed - early < least
              THEN <<IF elapsed < early THEN least ELSE elapsed - early, early>>
              ELSE IF ~conflict THEN <<least, early>>
              ELSE IF inGmax = 0 THEN <<elapsed, early>>
              ELSE <<timedOut, IF early >= 0 /\ cycle.elapsed <= limit THEN 0 ELSE early>>
    BY DEF coordinatedGreen, coord, least, greatest, limit, early
  <2> HIDE DEF green
  <2>2. QED
    BY <1>2, <1>3, <1>4, <1>5, <1>6, <2>1
<1> HIDE DEF green, passed
<1>9. passed[1] \in Int /\ passed[2] \in Int
  BY <1>2, <1>3, <1>7, <1>8 DEF green, greatest
<1>10. (passed[1] >= 0 /\ passed[1] <= elapsed) \/ plan.minGreen[starts[r]] <= elapsed
  <2>1. CASE initPhase(reports, r) # 0 \/ starts[r] # coord
    BY <1>2, <1>3, <1>7, <2>1
  <2>2. CASE initPhase(reports, r) = 0 /\ starts[r] = coord
    <3>1. passed = green /\ plan.minGreen[starts[r]] = least
      BY <1>7, <2>2 DEF green, least
    <3>2. QED
      BY <1>2, <1>3, <1>8, <3>1
  <2>3. QED
    BY <2>1, <2>2
<1>11. QED
  BY <1>9, <1>10 DEF passed, elapsed

-----------------------------------------------------------------------------
(* The greatest greens *)

\* A green for every phase, and none for one that has no times.
IsGreen(g) == g \in [Phase -> Nat] /\ \A p \in Phase : plan.minGreen[p] = 0 => g[p] = 0

\* Without an emergency vehicle the model may hold left turns that have no times.
LEMMA PhasesInModel ==
  ASSUME IsTimingPlan(plan), ListIsKnown, ListIsTimed, StatusIsKnown
  PROVE  /\ phasesOfModel \subseteq Phase
         /\ \A p \in phasesOfModel : plan.minGreen[p] > 0 \/ (~emergencyVehicleStatus /\ p % 2 = 1)
<1>1. startingPhases \subseteq Phase /\ \A p \in startingPhases : plan.minGreen[p] > 0
  BY DEF StatusIsKnown, startingPhases, Ring, Phase
<1>2. requestedSignalGroup \subseteq Phase /\ \A p \in requestedSignalGroup : plan.minGreen[p] > 0
  BY DEF ListIsKnown, ListIsTimed
<1>3. \A p \in Phase : plan.minGreen[p] > 0 \/ p % 2 = 1
  BY PhaseTimes
<1>4. QED
  BY <1>1, <1>2, <1>3 DEF phasesOfModel

\* Priority stretches only a green there is.
LEMMA GreensStretched ==
  ASSUME IsTimingPlan(plan)
  PROVE  IsGreen(modifyGreenMax(maxGreen))
<1>1. \A p \in Phase : maxGreen[p] \in Nat /\ (plan.minGreen[p] = 0 => maxGreen[p] = 0)
  BY PhaseTimes DEF maxGreen
<1>2. Extension \in Nat
  BY TimingAssumption
<1>3. QED
  BY <1>1, <1>2 DEF IsGreen, modifyGreenMax

\* Pedestrians make a green longer, and only where they cross.
LEMMA GreensForPedestrians ==
  ASSUME IsTimingPlan(plan), StatusIsKnown, NEW g, IsGreen(g)
  PROVE  IsGreen(modifyGreenTimeForPedCalls(g))
<1>1. \A p \in Phase : /\ plan.pedService[p] \in Nat /\ g[p] \in Nat
                       /\ plan.minGreen[p] = 0 => p \notin servedPedestrians /\ g[p] = 0
  BY PhaseTimes, Pedestrians DEF IsGreen
<1>2. QED
  BY <1>1 DEF IsGreen, modifyGreenTimeForPedCalls, Larger

\* Some phase has the greatest of the greens: induction over the phases up to a number.
LEMMA GreatestExists ==
  ASSUME NEW side \in SUBSET Phase, side # {}, NEW g \in [Phase -> Nat]
  PROVE  \E q \in side : \A x \in side : g[x] <= g[q]
<1> DEFINE upTo(m) == {x \in side : x <= m}
           S == {m \in 0 .. 8 : upTo(m) # {} => \E q \in upTo(m) : \A x \in upTo(m) : g[x] <= g[q]}
<1>1. \A x \in side : x \in 1 .. 8 /\ g[x] \in Nat
  BY DEF Phase
<1>2. 0 \in S
  BY <1>1
<1>3. ASSUME NEW m \in 1 .. 8, m - 1 \in S
      PROVE  m \in S
  <2>1. \A x \in side : x <= m <=> x <= m - 1 \/ x = m
    BY <1>1
  <2>2. CASE m \notin side
    <3>1. upTo(m) = upTo(m - 1)
      BY <2>1, <2>2
    <3> HIDE DEF upTo
    <3>2. QED
      BY <1>3, <3>1
  <2>3. CASE m \in side
    <3>1. upTo(m) = upTo(m - 1) \cup {m}
      BY <2>1, <2>3
    <3>2. \A x \in upTo(m) : g[x] \in Nat
      BY <1>1
    <3>3. upTo(m - 1) # {} => \E q \in upTo(m - 1) : \A x \in upTo(m - 1) : g[x] <= g[q]
      BY <1>3
    <3> HIDE DEF upTo
    <3>4. CASE upTo(m - 1) = {}
      BY <3>1, <3>2, <3>4
    <3>5. CASE upTo(m - 1) # {}
      <4>1. PICK q \in upTo(m - 1) : \A x \in upTo(m - 1) : g[x] <= g[q]
        BY <3>3, <3>5
      <4>2. q \in upTo(m) /\ m \in upTo(m)
        BY <3>1
      <4>3. CASE g[m] <= g[q]
        <5>1. \A x \in upTo(m) : g[x] <= g[q]
          BY <3>1, <4>1, <4>3
        <5>2. QED
          BY <4>2, <5>1
      <4>4. CASE g[q] <= g[m]
        <5>1. \A x \in upTo(m) : g[x] <= g[m]
          BY <3>1, <3>2, <4>1, <4>2, <4>4
        <5>2. QED
          BY <4>2, <5>1
      <4>5. g[m] <= g[q] \/ g[q] <= g[m]
        BY <3>2, <4>2
      <4>6. QED
        BY <4>3, <4>4, <4>5
    <3>6. QED
      BY <3>4, <3>5
  <2>4. QED
    BY <2>2, <2>3
<1>4. \A m \in 0 .. 8 : m \in S
  <2> HIDE DEF S
  <2>1. QED
    BY <1>2, <1>3, UpToEight
<1>5. upTo(8) = side
  BY <1>1
<1>6. 8 \in S
  BY <1>4
<1> HIDE DEF upTo
<1>7. QED
  BY <1>5, <1>6

\* For emergency vehicles a green becomes that of another phase with times.
LEMMA GreensForEmergency ==
  ASSUME IsTimingPlan(plan), ListIsKnown, ListIsTimed, StatusIsKnown, NEW g, IsGreen(g)
  PROVE  IsGreen(validateGmaxForEVSignalTimingPlan(g))
<1> DEFINE side(p) == phasesOfModel \cap Barrier(Side(p))
           best(p) == CHOOSE q \in side(p) : \A x \in side(p) : g[x] <= g[q]
<1>1. ASSUME NEW p \in Phase, p \in phasesOfModel
      PROVE  g[best(p)] \in Nat
  <2>1. phasesOfModel \subseteq Phase
    BY PhasesInModel
  <2>2. p \in Barrier(Side(p))
    BY DEF Side, Barrier, Phase
  <2>3. side(p) \in SUBSET Phase /\ side(p) # {} /\ g \in [Phase -> Nat]
    BY <1>1, <2>1, <2>2 DEF IsGreen
  <2>4. \E q \in side(p) : \A x \in side(p) : g[x] <= g[q]
    <3> HIDE DEF side
    <3>1. QED
      BY <2>3, GreatestExists
  <2>5. best(p) \in side(p)
    <3> HIDE DEF side
    <3>1. QED
      BY <2>4
  <2>6. QED
    BY <2>3, <2>5
<1>2. validateGmaxForEVSignalTimingPlan(g) =
        IF ~emergencyVehicleStatus THEN g
        ELSE [p \in Phase |-> IF p \notin phasesOfModel \/ plan.minGreen[p] = 0 THEN g[p] ELSE g[best(p)]]
  BY DEF validateGmaxForEVSignalTimingPlan
<1> HIDE DEF best
<1>3. QED
  BY <1>1, <1>2 DEF IsGreen

\* What is added for pedestrians is added to a phase that has a green.
LEMMA LastOfGroup ==
  ASSUME IsTimingPlan(plan), ListIsKnown, ListIsTimed, StatusIsKnown, NEW r \in {1, 2}, NEW b \in {1, 2},
         NEW p \in Group(r, b), p = LastOf(Group(r, b))
  PROVE  plan.minGreen[p] > 0
<1>1. p \in phasesOfModel /\ p \in Phase
  BY PhasesInModel DEF Group
<1>2. CASE emergencyVehicleStatus
  BY <1>1, <1>2, PhasesInModel
<1>3. CASE ~emergencyVehicleStatus
  <2> DEFINE last == 4 * (r - 1) + 2 * b
  <2>1. last \in Group(r, b) /\ last % 2 = 0 /\ last \in Int /\ \A q \in Group(r, b) : q <= last /\ q \in Int
    BY <1>3 DEF Group, phasesOfModel, Ring, Barrier, Phase
  <2>2. LastOf(Group(r, b)) = last
    <3> DEFINE group == Group(r, b)
    <3>1. \A q \in group : (\A x \in group : x <= q) => q = last
      BY <2>1
    <3> HIDE DEF group, last
    <3>2. (CHOOSE q \in group : \A x \in group : x <= q) = last
      BY <2>1, <3>1 DEF group
    <3>3. QED
      BY <3>2 DEF group, LastOf
  <2>3. QED
    BY <1>1, <2>1, <2>2, PhasesInModel
<1>4. QED
  BY <1>2, <1>3

\* The ring with the shorter greens is given the difference where it has a green.
LEMMA GreensAdjusted ==
  ASSUME IsTimingPlan(plan), ListIsKnown, ListIsTimed, StatusIsKnown, NEW g, IsGreen(g)
  PROVE  IsGreen(adjustGreenTimeForPedCall(g))
<1> DEFINE ring(p) == IF p < 5 THEN 1 ELSE 2
           slack(p) == Larger(0, Slack(g, ring(p), Side(p)))
<1>1. g \in [Phase -> Nat] /\ phasesOfModel \subseteq Phase
  BY PhasesInModel DEF IsGreen
<1>2. ASSUME NEW r \in {1, 2}, NEW b \in {1, 2}
      PROVE  calulateGmax(g, r, b) \in Nat
  <2>1. \A p \in Phase : WholeSeconds(g[p]) \in Nat
    BY <1>1 DEF WholeSeconds, Second
  <2> DEFINE left == 4 * (r - 1) + 2 * (b - 1) + 1
  <2>2. left \in Phase /\ left + 1 \in Phase
    BY DEF Phase
  <2> HIDE DEF left
  <2>3. /\ (IF left \in phasesOfModel THEN WholeSeconds(g[left]) ELSE 0) \in Nat
        /\ (IF left + 1 \in phasesOfModel THEN WholeSeconds(g[left + 1]) ELSE 0) \in Nat
    BY <2>1, <2>2
  <2>4. QED
    BY <2>3 DEF calulateGmax, left
<1>3. ASSUME NEW p \in Phase
      PROVE  /\ ring(p) \in {1, 2} /\ Side(p) \in {1, 2} /\ slack(p) \in Nat
  <2>1. ring(p) \in {1, 2} /\ 3 - ring(p) \in {1, 2} /\ Side(p) \in {1, 2}
    BY DEF Side
  <2>2. Slack(g, ring(p), Side(p)) \in Int
    <3> HIDE DEF ring
    <3>1. calulateGmax(g, ring(p), Side(p)) \in Nat /\ calulateGmax(g, 3 - ring(p), Side(p)) \in Nat
      BY <1>2, <2>1
    <3>2. QED
      BY <3>1 DEF Slack
  <2>3. QED
    BY <2>1, <2>2 DEF Larger
<1>4. ASSUME NEW p \in Phase, p \in Group(ring(p), Side(p)), p = LastOf(Group(ring(p), Side(p)))
      PROVE  plan.minGreen[p] > 0
  <2> HIDE DEF ring
  <2>1. QED
    BY <1>3, <1>4, LastOfGroup
<1>5. adjustGreenTimeForPedCall(g) =
        IF servedPedestrians = {} THEN g
        ELSE [p \in Phase |-> IF p \in Group(ring(p), Side(p)) /\ p = LastOf(Group(ring(p), Side(p)))
                              THEN g[p] + slack(p) ELSE g[p]]
  BY DEF adjustGreenTimeForPedCall
<1> HIDE DEF ring, slack
<1>6. \A p \in Phase : plan.minGreen[p] \in Nat
  BY PhaseTimes
<1>7. QED
  BY <1>1, <1>3, <1>4, <1>5, <1>6 DEF IsGreen

\* So all that is done to the greatest greens leaves phases without times without a green.
LEMMA GreatestGreens ==
  ASSUME IsTimingPlan(plan), ListIsKnown, ListIsTimed, StatusIsKnown
  PROVE  IsGreen(greatestGreen)
BY GreensStretched, GreensForPedestrians, GreensForEmergency, GreensAdjusted DEF greatestGreen

\* What is made of the greens that have passed is never more than what has passed.
LEMMA PassedGreens ==
  ASSUME IsTimingPlan(plan), ListIsKnown, ListIsTimed, StatusIsKnown, NEW r \in {1, 2}
  PROVE  LET passed == modifyCurrentSignalStatus(greatestGreen)
         IN  /\ passed \in [{1, 2} -> Int]
             /\ passed[r] <= status.elapsed[r] \/ passed[r] <= 0
<1> DEFINE greatest(x) == greatestGreen[status.start[x]]
           capped(x) == IF status.elapsed[x] > greatest(x) THEN greatest(x) ELSE status.elapsed[x]
           remaining == Larger(greatest(1) - capped(1), greatest(2) - capped(2))
<1>1. \A x \in {1, 2} : greatest(x) \in Int /\ status.elapsed[x] \in Int
  <2>1. \A x \in {1, 2} : status.start[x] \in Phase /\ status.elapsed[x] \in Int
    BY DEF StatusIsKnown, Ring, Phase
  <2>2. greatestGreen \in [Phase -> Nat]
    BY GreatestGreens DEF IsGreen
  <2>3. QED
    BY <2>1, <2>2
<1>2. modifyCurrentSignalStatus(greatestGreen) =
        [x \in {1, 2} |-> Larger(0, IF AreLast THEN greatest(x) - remaining ELSE capped(x))]
  BY DEF modifyCurrentSignalStatus
<1> HIDE DEF greatest
<1>3. /\ \A x \in {1, 2} : capped(x) \in Int /\ capped(x) <= status.elapsed[x]
      /\ remaining \in Int /\ \A x \in {1, 2} : greatest(x) - capped(x) <= remaining
  BY <1>1 DEF Larger
<1> HIDE DEF capped, remaining
<1>4. QED
  BY <1>1, <1>2, <1>3 DEF Larger

-----------------------------------------------------------------------------
(* The invariant is inductive *)

\* No ring has had less than nothing of its green.
LEMMA HadIsNatural ==
  ASSUME NEW r \in {1, 2}, report[r] \in Reports \cup {NoReport}
  PROVE  HasHad(r, 1) \in Nat
<1>1. Serving(report[r]) => report[r].elapsed \in Nat
  BY TimingAssumption DEF Serving
<1>2. QED
  BY <1>1 DEF HasHad

\* ReceiveList: times of requests and planned phases are known from the lists.
LEMMA ListReceived ==
  ASSUME IInv, ReceiveList
  PROVE  IInv'
<1>1. IsTimingPlan(plan) /\ IsOpposed(plan) /\ schedule = NoSchedule /\ point \in {"left", "right"}
  BY DEF IInv, ReceiveList
<1>2. /\ plan' = plan /\ point' = point /\ schedule' = schedule /\ stage' = "status"
  BY DEF ReceiveList
<1>3. CASE /\ emergencyVehicleStatus' = FALSE /\ requestedSignalGroup' = {}
           /\ \/ priorityRequestList' \in PriorityLists
              \/ plan.coordinated # NoPhases /\ priorityRequestList' \in CoordinationLists
  <2>1. \A q \in priorityRequestList' : q.eta \in Nat /\ q.duration \in Nat
    BY <1>3, TimingAssumption
  <2>2. signalCoordination' => plan.coordinated # NoPhases
    <3>1. CASE priorityRequestList' \in PriorityLists
      <4>1. \E q \in priorityRequestList' : q.type # Coordination
        BY <3>1, TimingAssumption
      <4>2. QED
        BY <4>1 DEF signalCoordination
    <3>2. QED
      BY <1>3, <3>1
  <2>3. \A q \in priorityRequestList' : q.requestedPhase \in plan.active \cup requestedSignalGroup'
    BY DEF ReceiveList
  <2>4. ListIsKnown'
    BY <1>2, <1>3, <2>1, <2>2, <2>3 DEF ListIsKnown
  <2>5. QED
    BY <1>1, <1>2, <2>4 DEF IInv
<1>4. CASE /\ emergencyVehicleStatus' = TRUE
           /\ \E list \in EmergencyLists : /\ priorityRequestList' = list.requests
                                           /\ requestedSignalGroup' = list.phases
  <2>1. PICK list \in EmergencyLists : /\ priorityRequestList' = list.requests
                                       /\ requestedSignalGroup' = list.phases
    BY <1>4
  <2>2. /\ \A q \in priorityRequestList' : q.eta \in Nat /\ q.duration \in Nat
        /\ \E q \in priorityRequestList' : q.type # Coordination
        /\ requestedSignalGroup' \subseteq Phase
    BY <2>1, TimingAssumption
  <2>3. /\ \A q \in priorityRequestList' : q.requestedPhase \in plan.active \cup requestedSignalGroup'
        /\ \A p \in requestedSignalGroup' :
             plan.minGreen[p] > 0 \/ Associated(p) \in requestedSignalGroup'
    BY DEF ReceiveList
  <2>4. ListIsKnown'
    BY <1>2, <1>4, <2>2, <2>3 DEF ListIsKnown, signalCoordination
  <2>5. QED
    BY <1>1, <1>2, <2>4 DEF IInv
<1>5. QED
  BY <1>3, <1>4 DEF ReceiveList

\* getCurrentSignalStatus: where the starting phases are in use, the elapsed greens are those of
\* the ring itself, no longer than reported.
LEMMA StatusReceived ==
  ASSUME IInv, getCurrentSignalStatus
  PROVE  IInv'
<1>1. /\ IsTimingPlan(plan) /\ IsOpposed(plan) /\ point \in {"left", "right"}
      /\ ListIsKnown /\ schedule = NoSchedule
  BY DEF IInv, getCurrentSignalStatus
<1>2. /\ plan' = plan /\ point' = point /\ schedule' = schedule
      /\ stage' = IF emergencyVehicleStatus THEN "emergency" ELSE "input"
      /\ emergencyVehicleStatus' = emergencyVehicleStatus
      /\ priorityRequestList' = priorityRequestList
      /\ requestedSignalGroup' = requestedSignalGroup
  BY DEF getCurrentSignalStatus
<1>3. ListIsKnown' /\ (signalCoordination' <=> signalCoordination)
  BY <1>1, <1>2 DEF ListIsKnown, signalCoordination
<1>4. PICK reports \in Reports \X Reports, calls \in CallSettings,
           cycle \in IF signalCoordination THEN Cycles ELSE {NoCycle} :
       /\ Possible(reports)
       /\ calls.vehicle \cup calls.pedestrian \subseteq plan.active
       /\ report' = reports /\ status' = trafficControllerStatus(reports, calls, cycle)
  BY DEF getCurrentSignalStatus
<1> DEFINE starts == <<startingPhase(reports, 1), startingPhase(reports, 2)>>
           called == (calls.vehicle \cup calls.pedestrian) \ {starts[1], starts[2]} # {}
           passed == IF signalCoordination
                     THEN coordinationStatus(reports, starts, cycle, calls, called)
                     ELSE [r \in {1, 2} |-> <<elapsedGreen(reports, r, called), 0>>]
           elapsed == validateElapsedGreenTime(starts, [r \in {1, 2} |-> passed[r][1]])
           early == [r \in {1, 2} |-> Larger(0, passed[r][2])]
           init == [r \in {1, 2} |-> initPhase(reports, r)]
           ped == conflictingPedCallList(starts, calls.pedestrian)
<1>5. /\ Possible(reports) /\ report' = reports /\ calls.pedestrian \subseteq plan.active
      /\ status' = [start |-> starts, init |-> init, elapsed |-> elapsed, earlyReturn |-> early,
                    ped |-> ped]
  BY <1>4 DEF trafficControllerStatus
<1>6. ASSUME NEW r \in {1, 2}
      PROVE  /\ starts[r] \in Ring(r) /\ plan.minGreen[starts[r]] > 0
             /\ starts[r] \in plan.active <=> reports[r] # NoReport
             /\ starts[r] = startingPhase(reports, r)
  BY <1>1, <1>5, StartingPhases
<1>7. Side(starts[1]) = Side(starts[2])
  <2>1. Side(startingPhase(reports, 1)) = Side(startingPhase(reports, 3 - 1))
    BY <1>1, <1>5, StartingPhases
  <2>2. 3 - 1 = 2
    OBVIOUS
  <2>3. QED
    BY <2>1, <2>2
<1> HIDE DEF starts
<1>8. ASSUME NEW r \in {1, 2}
      PROVE  /\ passed[r][1] \in Int /\ passed[r][2] \in Int
             /\ reports[r] # NoReport =>
                  \/ passed[r][1] >= 0 /\ passed[r][1] <= reportedGreen(reports, r)
                  \/ signalCoordination /\ plan.minGreen[starts[r]] <= reportedGreen(reports, r)
  <2>1. CASE signalCoordination
    <3>1. plan.coordinated # NoPhases /\ cycle \in Cycles
      BY <1>1, <2>1 DEF ListIsKnown
    <3>2. passed[r] = coordinationStatus(reports, starts, cycle, calls, called)[r]
      BY <2>1
    <3> HIDE DEF passed, called
    <3>3. QED
      BY <1>1, <1>5, <1>6, <2>1, <3>1, <3>2, CoordinatedGreens
  <2>2. CASE ~signalCoordination
    <3>1. passed[r] = <<elapsedGreen(reports, r, called), 0>>
      BY <2>2
    <3> HIDE DEF passed, called
    <3>2. /\ elapsedGreen(reports, r, called) \in Nat
          /\ reports[r] # NoReport => elapsedGreen(reports, r, called) <= reportedGreen(reports, r)
      BY <1>1, <1>5, ElapsedGreens
    <3>3. QED
      BY <3>1, <3>2
  <2>3. QED
    BY <2>1, <2>2
<1> HIDE DEF passed
<1>9. \A r \in {1, 2} : early[r] \in Nat
  BY <1>8 DEF Larger
<1>10. /\ elapsed \in [{1, 2} -> Int]
       /\ \A r \in {1, 2} :
            starts[r] \in plan.active /\ passed[r][1] >= 0 => elapsed[r] = passed[r][1]
  <2> DEFINE green == [r \in {1, 2} |-> IF passed[r][1] < 0 THEN Larger(0, passed[3 - r][1])
                                        ELSE passed[r][1]]
  <2>1. \A r \in {1, 2} : 3 - r \in {1, 2}
    OBVIOUS
  <2>2. /\ \A r \in {1, 2} : green[r] \in Int
        /\ \A r \in {1, 2} : passed[r][1] >= 0 => green[r] = passed[r][1]
    BY <1>8, <2>1 DEF Larger
  <2>3. elapsed = [r \in {1, 2} |-> IF starts[r] \notin plan.active THEN green[3 - r] ELSE green[r]]
    BY <2>1 DEF validateElapsedGreenTime
  <2> HIDE DEF green, elapsed
  <2>4. QED
    BY <2>1, <2>2, <2>3
<1>11. init \in [{1, 2} -> Nat]
  BY <1>1, <1>5, ReportedTimes
<1>12. ped \subseteq plan.active
  BY <1>5 DEF conflictingPedCallList
<1>13. starts \in Ring(1) \X Ring(2)
  BY <1>6 DEF starts
<1> HIDE DEF early, init, ped, elapsed
<1>14. status' \in [start : Ring(1) \X Ring(2), init : [{1, 2} -> Nat], elapsed : [{1, 2} -> Int],
                    earlyReturn : [{1, 2} -> Nat], ped : SUBSET plan.active]
  <2>1. early \in [{1, 2} -> Nat]
    BY <1>9 DEF early
  <2>2. QED
    BY <1>5, <1>10, <1>11, <1>12, <1>13, <2>1
<1>15. /\ status'.start = starts /\ status'.elapsed = elapsed
  BY <1>5
<1>16. ASSUME NEW r \in {1, 2}
       PROVE  /\ report'[r] \in Reports \cup {NoReport}
              /\ plan.minGreen[starts[r]] > 0
              /\ Serving(report'[r]) => starts[r] \in plan.active
              /\ starts[r] \in plan.active => ElapsedWasGreen(r)'
  <2>1. report'[r] = reports[r] /\ reports[r] \in Reports
    BY <1>5
  <2>2. Serving(reports[r]) => starts[r] \in plan.active
    BY <1>6 DEF Serving
  <2>3. ASSUME starts[r] \in plan.active
        PROVE  ElapsedWasGreen(r)'
    <3>1. reports[r] # NoReport
      BY <1>6, <2>3
    <3>2. HasHad(r, 1)' = reportedGreen(reports, r)
      BY <1>1, <1>5, <2>1, <3>1, ReportedTimes DEF HasHad
    <3>3. /\ passed[r][1] >= 0 => status'.elapsed[r] = passed[r][1]
          /\ status'.start[r] = starts[r]
      BY <1>10, <1>15, <2>3
    <3>4. QED
      BY <1>2, <1>3, <1>8, <3>1, <3>2, <3>3 DEF ElapsedWasGreen
  <2>4. QED
    BY <1>6, <2>1, <2>2, <2>3
<1>17. StatusIsKnown'
  BY <1>2, <1>7, <1>14, <1>15, <1>16 DEF StatusIsKnown
<1>18. stage' = "input" => ListIsTimed'
  BY <1>1, <1>2 DEF ListIsKnown, ListIsTimed
<1>19. QED
  BY <1>1, <1>2, <1>3, <1>17, <1>18 DEF IInv

\* getEVTrafficSignalPlan: a phase that has no times is a left turn, and the phase whose times
\* it takes is a through phase, which has some; the starting phases keep their own.
LEMMA EmergencyPlanMade ==
  ASSUME IInv, getEVTrafficSignalPlan
  PROVE  IInv'
<1> DEFINE source(p) == IF p \in phasesOfModel /\ plan.minGreen[p] = 0 /\ Associated(p) \in phasesOfModel
                        THEN Associated(p) ELSE p
           taken(times) == [p \in Phase |-> times[source(p)]]
<1>1. /\ IsTimingPlan(plan) /\ IsOpposed(plan) /\ point \in {"left", "right"}
      /\ ListIsKnown /\ StatusIsKnown /\ schedule = NoSchedule
  BY DEF IInv, getEVTrafficSignalPlan
<1>2. /\ stage' = "input"
      /\ plan' = [ active |-> plan.active, coordinated |-> plan.coordinated,
                   minGreen |-> taken(plan.minGreen), maxGreen |-> taken(plan.maxGreen),
                   splitGreen |-> taken(plan.splitGreen), pedService |-> taken(plan.pedService),
                   yellowChange |-> taken(plan.yellowChange), redClear |-> taken(plan.redClear) ]
      /\ UNCHANGED <<emergencyVehicleStatus, priorityRequestList, requestedSignalGroup,
                     report, pedCalls, status, signalPlan, point, schedule>>
  BY DEF getEVTrafficSignalPlan
<1>3. ASSUME NEW p \in Phase
      PROVE  /\ source(p) \in Phase /\ plan.minGreen[p] \in Nat
             /\ plan.minGreen[p] > 0 => source(p) = p
             /\ source(p) # p => plan.minGreen[source(p)] > 0
  <2>1. plan.minGreen[p] = 0 => Associated(p) \in Phase /\ Associated(p) % 2 = 0
    <3>1. plan.minGreen[p] = 0 => p % 2 = 1
      BY <1>1, PhaseTimes
    <3>2. p \in {1, 2, 3, 4, 5, 6, 7, 8}
      BY DEF Phase
    <3>3. QED
      BY <3>1, <3>2 DEF Associated, Phase
  <2>2. \A q \in Phase : plan.minGreen[q] \in Nat /\ (plan.minGreen[q] = 0 => q % 2 = 1)
    BY <1>1, PhaseTimes
  <2>3. QED
    BY <2>1, <2>2
<1> HIDE DEF source
<1>4. ASSUME NEW p \in Phase
      PROVE  /\ plan'.minGreen[p] = plan.minGreen[source(p)]
             /\ plan'.maxGreen[p] = plan.maxGreen[source(p)]
             /\ plan'.splitGreen[p] = plan.splitGreen[source(p)]
             /\ plan'.pedService[p] = plan.pedService[source(p)]
             /\ plan'.yellowChange[p] = plan.yellowChange[source(p)]
             /\ plan'.redClear[p] = plan.redClear[source(p)]
  BY <1>2
<1>5. plan'.active = plan.active /\ plan'.coordinated = plan.coordinated
  BY <1>2
<1>6. IsTimingPlan(plan')
  <2>1. ASSUME NEW p \in Phase
        PROVE  /\ {plan'.minGreen[p], plan'.maxGreen[p], plan'.splitGreen[p], plan'.yellowChange[p],
                   plan'.redClear[p], plan'.pedService[p]} \subseteq Nat
               /\ plan'.minGreen[p] <= plan'.maxGreen[p] /\ plan'.minGreen[p] <= plan'.splitGreen[p]
               /\ \/ plan'.minGreen[p] > 2 * Second /\ plan'.yellowChange[p] + plan'.redClear[p] > 0
                  \/ /\ p \notin plan'.active /\ p % 2 = 1
                     /\ plan'.maxGreen[p] = 0 /\ plan'.splitGreen[p] = 0
                     /\ plan'.yellowChange[p] = 0 /\ plan'.redClear[p] = 0
    <3>1. source(p) \in Phase
      BY <1>3
    <3>2. /\ {plan.minGreen[source(p)], plan.maxGreen[source(p)], plan.splitGreen[source(p)],
              plan.yellowChange[source(p)], plan.redClear[source(p)],
              plan.pedService[source(p)]} \subseteq Nat
          /\ plan.minGreen[source(p)] <= plan.maxGreen[source(p)]
          /\ plan.minGreen[source(p)] <= plan.splitGreen[source(p)]
          /\ \/ /\ plan.minGreen[source(p)] > 2 * Second
                /\ plan.yellowChange[source(p)] + plan.redClear[source(p)] > 0
             \/ /\ source(p) \notin plan.active /\ source(p) % 2 = 1
                /\ plan.maxGreen[source(p)] = 0 /\ plan.splitGreen[source(p)] = 0
                /\ plan.yellowChange[source(p)] = 0 /\ plan.redClear[source(p)] = 0
      BY <1>1, <3>1 DEF IsTimingPlan
    <3>3. CASE source(p) = p
      BY <1>4, <1>5, <3>2, <3>3
    <3>4. CASE source(p) # p
      <4>1. plan.minGreen[source(p)] # 0
        BY <1>3, <3>4
      <4>2. plan.minGreen[source(p)] = 0 <=> ~(plan.minGreen[source(p)] > 2 * Second)
        <5>1. plan.minGreen[source(p)] \in Nat /\ plan.maxGreen[source(p)] \in Nat
          BY <3>2
        <5>2. QED
          BY <3>2, <5>1 DEF Second
      <4>3. QED
        BY <1>4, <1>5, <3>2, <4>1, <4>2
    <3>5. QED
      BY <3>3, <3>4
  <2>2. QED
    BY <1>1, <1>5, <2>1 DEF IsTimingPlan
<1>7. IsOpposed(plan')
  BY <1>1, <1>5 DEF IsOpposed
<1>8. \A p \in Phase : plan.minGreen[p] > 0 => plan'.minGreen[p] = plan.minGreen[p]
  BY <1>3, <1>4
<1>9. ListIsKnown' /\ (signalCoordination' <=> signalCoordination)
  <2>1. signalCoordination' <=> signalCoordination
    BY <1>2 DEF signalCoordination
  <2>2. \A p \in requestedSignalGroup : plan.minGreen[p] > 0 => plan'.minGreen[p] > 0
    BY <1>1, <1>8 DEF ListIsKnown
  <2>3. QED
    BY <1>1, <1>2, <1>5, <2>1, <2>2 DEF ListIsKnown
<1>10. ListIsTimed'
  <2>1. ASSUME NEW p \in requestedSignalGroup
        PROVE  plan'.minGreen[p] > 0
    <3>1. p \in Phase
      BY <1>1 DEF ListIsKnown
    <3>2. CASE plan.minGreen[p] > 0
      BY <1>8, <3>1, <3>2
    <3>3. CASE ~(plan.minGreen[p] > 0)
      <4>1. emergencyVehicleStatus /\ Associated(p) \in requestedSignalGroup /\ plan.minGreen[p] = 0
        BY <1>1, <1>3, <3>1, <3>3 DEF ListIsKnown
      <4>2. source(p) = Associated(p)
        BY <4>1 DEF source, phasesOfModel
      <4>3. Associated(p) # p
        BY <3>1 DEF Associated, Opposite, Phase
      <4>4. QED
        BY <1>3, <1>4, <3>1, <4>2, <4>3
    <3>4. QED
      BY <3>2, <3>3
  <2>2. QED
    BY <1>2, <2>1 DEF ListIsTimed
<1>11. StatusIsKnown'
  <2>1. /\ status' = status /\ report' = report /\ plan'.active = plan.active
        /\ \A r \in {1, 2} : status.start[r] \in Phase
    BY <1>1, <1>2, <1>5 DEF StatusIsKnown, Ring, Phase
  <2>2. \A r \in {1, 2} : plan'.minGreen[status.start[r]] = plan.minGreen[status.start[r]]
    BY <1>1, <1>8, <2>1 DEF StatusIsKnown
  <2>3. \A r \in {1, 2} : HasHad(r, 1)' = HasHad(r, 1)
    BY <2>1 DEF HasHad
  <2>4. \A r \in {1, 2} : ElapsedWasGreen(r) => ElapsedWasGreen(r)'
    BY <1>9, <2>1, <2>2, <2>3 DEF ElapsedWasGreen
  <2>5. QED
    BY <1>1, <2>1, <2>2, <2>4 DEF StatusIsKnown
<1>12. QED
  BY <1>1, <1>2, <1>6, <1>7, <1>9, <1>10, <1>11 DEF IInv

\* setOptimizationInput: greens are only made shorter, and the model's data are as computed.
LEMMA InputSet ==
  ASSUME IInv, setOptimizationInput
  PROVE  IInv'
<1> DEFINE elapsed == modifyCurrentSignalStatus(greatestGreen)
<1>1. /\ IsTimingPlan(plan) /\ IsOpposed(plan) /\ point \in {"left", "right"}
      /\ ListIsKnown /\ ListIsTimed /\ StatusIsKnown /\ schedule = NoSchedule
  BY DEF IInv, setOptimizationInput
<1>2. /\ plan' = plan /\ point' = point /\ schedule' = schedule /\ stage' = "model"
      /\ emergencyVehicleStatus' = emergencyVehicleStatus
      /\ priorityRequestList' = priorityRequestList
      /\ requestedSignalGroup' = requestedSignalGroup /\ report' = report
      /\ status' = [status EXCEPT !.elapsed = elapsed]
      /\ signalPlan' = [ phases |-> phasesOfModel, gmin |-> modifyGreenTimeForPedCalls(plan.minGreen),
                         gmax |-> greatestGreen ]
  BY DEF setOptimizationInput
<1>3. ListIsKnown' /\ ListIsTimed' /\ (signalCoordination' <=> signalCoordination)
  BY <1>1, <1>2 DEF ListIsKnown, ListIsTimed, signalCoordination
<1>4. /\ elapsed \in [{1, 2} -> Int]
      /\ \A r \in {1, 2} : elapsed[r] <= status.elapsed[r] \/ elapsed[r] <= 0
  BY <1>1, PassedGreens
<1> HIDE DEF elapsed
<1>5. /\ status' \in [start : Ring(1) \X Ring(2), init : [{1, 2} -> Nat], elapsed : [{1, 2} -> Int],
                      earlyReturn : [{1, 2} -> Nat], ped : SUBSET plan.active]
      /\ status'.start = status.start /\ status'.ped = status.ped /\ status'.elapsed = elapsed
  BY <1>1, <1>2, <1>4 DEF StatusIsKnown
<1>6. ASSUME NEW r \in {1, 2}, status.start[r] \in plan.active
      PROVE  ElapsedWasGreen(r)'
  <2>1. HasHad(r, 1) \in Nat /\ HasHad(r, 1)' = HasHad(r, 1)
    BY <1>1, <1>2, HadIsNatural DEF StatusIsKnown, HasHad
  <2>2. status.elapsed[r] \in Int /\ elapsed[r] \in Int /\ ElapsedWasGreen(r)
    BY <1>1, <1>4, <1>6 DEF StatusIsKnown
  <2>3. QED
    BY <1>2, <1>3, <1>4, <1>5, <2>1, <2>2 DEF ElapsedWasGreen
<1>7. StatusIsKnown'
  BY <1>1, <1>2, <1>5, <1>6 DEF StatusIsKnown
<1>8. ModelIsKnown'
  <2>1. phasesOfModel' = phasesOfModel
    BY <1>2, <1>5 DEF phasesOfModel, startingPhases
  <2>2. servedPedestrians' = servedPedestrians
    BY <1>2, <1>5 DEF servedPedestrians
  <2>3. modifyGreenTimeForPedCalls(plan.minGreen)' = modifyGreenTimeForPedCalls(plan.minGreen)
    BY <1>2, <2>2 DEF modifyGreenTimeForPedCalls
  <2>4. greatestGreen \in [Phase -> Int] /\ \A p \in Phase : plan.minGreen[p] = 0 => greatestGreen[p] = 0
    BY <1>1, GreatestGreens DEF IsGreen
  <2>5. QED
    BY <1>2, <2>1, <2>3, <2>4 DEF ModelIsKnown
<1>9. QED
  BY <1>1, <1>2, <1>3, <1>7, <1>8 DEF IInv

\* What is known does not depend on the stage.
LEMMA StillKnown ==
  ASSUME UNCHANGED <<plan, emergencyVehicleStatus, priorityRequestList, requestedSignalGroup,
                     report, pedCalls, status, signalPlan, point>>
  PROVE  /\ ListIsKnown => ListIsKnown'
         /\ ListIsTimed => ListIsTimed'
         /\ StatusIsKnown => StatusIsKnown'
         /\ ModelIsKnown => ModelIsKnown'
         /\ Solutions' = Solutions
         /\ \A s : EventLists(s)' = EventLists(s)
<1>1. signalCoordination' <=> signalCoordination
  BY DEF signalCoordination
<1>2. ListIsKnown => ListIsKnown'
  BY <1>1 DEF ListIsKnown
<1>3. StatusIsKnown => StatusIsKnown'
  <2>1. \A r \in {1, 2} : HasHad(r, 1)' = HasHad(r, 1)
    BY DEF HasHad
  <2>2. QED
    BY <1>1, <2>1 DEF StatusIsKnown, ElapsedWasGreen
<1>4. ModelIsKnown => ModelIsKnown'
  <2>1. phasesOfModel' = phasesOfModel /\ servedPedestrians' = servedPedestrians
    BY DEF phasesOfModel, startingPhases, servedPedestrians
  <2>2. QED
    BY <2>1 DEF ModelIsKnown, modifyGreenTimeForPedCalls
<1>5. \A r : Turns(r)' = Turns(r)
  BY DEF Turns
<1>6. Solutions' = Solutions
  <2>1. \A r, turn : Greens(r, turn)' = Greens(r, turn)
    BY DEF Greens, InModel, GrnMin, GrnMax, PassedGrn, gmaxPerRng
  <2>2. \A r, green : Course(r, green)' = Course(r, green)
    <3>1. \A turn, green : PhaseDuration(turn, green)' = PhaseDuration(turn, green)
      BY DEF PhaseDuration, InModel, clearance
    <3>2. QED
      BY <1>5, <3>1 DEF Course
  <2>3. \A r : Courses(r)' = Courses(r)
    BY <1>5, <2>1, <2>2 DEF Courses
  <2>4. \A r : ServingCourses(r)' = ServingCourses(r)
    <3>1. \A turns, c, q : Serves(turns, c, q)' = Serves(turns, c, q)
      BY DEF Serves, InModel
    <3>2. QED
      BY <1>5, <2>3, <3>1 DEF ServingCourses
  <2>5. \A r, c : CrossingTimes(r, c)' = CrossingTimes(r, c)
    BY DEF CrossingTimes, TurnsBefore, Crossings, Group, phasesOfModel, startingPhases
  <2>6. QED
    BY <2>4, <2>5 DEF Solutions
<1>7. \A s : EventLists(s)' = EventLists(s)
  <2>1. \A r : obtainRequiredSignalGroup(r)' = obtainRequiredSignalGroup(r)
    BY <1>5 DEF obtainRequiredSignalGroup, TurnsInUse, inUse
  <2>2. QED
    BY <2>1 DEF EventLists, createEventList
<1>8. ListIsTimed => ListIsTimed'
  BY DEF ListIsTimed
<1>9. QED
  BY <1>2, <1>3, <1>4, <1>6, <1>7, <1>8

\* getScheduleforTCI: the schedule is that of a solution.
LEMMA ScheduleMade ==
  ASSUME IInv, getScheduleforTCI
  PROVE  IInv'
<1>1. /\ IsTimingPlan(plan) /\ IsOpposed(plan) /\ point \in {"left", "right"}
      /\ ListIsKnown /\ ListIsTimed /\ StatusIsKnown /\ ModelIsKnown
  BY DEF IInv, getScheduleforTCI
<1>2. /\ stage' = "schedule"
      /\ UNCHANGED <<plan, emergencyVehicleStatus, priorityRequestList, requestedSignalGroup,
                     report, pedCalls, status, signalPlan, point>>
  BY DEF getScheduleforTCI
<1>3. schedule' = NoSchedule \/ \E s \in Solutions : schedule' = EventLists(s)
  BY DEF getScheduleforTCI, EventLists
<1>4. ListIsKnown' /\ ListIsTimed' /\ StatusIsKnown' /\ ModelIsKnown' /\ ScheduleIsKnown'
  BY <1>1, <1>2, <1>3, StillKnown DEF ScheduleIsKnown
<1>5. QED
  BY <1>1, <1>2, <1>4 DEF IInv

\* The invariant holds in every state.
LEMMA SignalTimingInvariant ==
  ASSUME LeftTurnsAreOpposed
  PROVE  Spec => []IInv
<1>1. Init => IInv
  BY TimingAssumption DEF Init, IInv, LeftTurnsAreOpposed
<1>2. IInv /\ [Next]_vars => IInv'
  <2> SUFFICES ASSUME IInv, [Next]_vars
               PROVE  IInv'
    OBVIOUS
  <2>1. CASE ReceiveList
    BY <2>1, ListReceived
  <2>2. CASE getCurrentSignalStatus
    BY <2>2, StatusReceived
  <2>3. CASE setOptimizationInput
    BY <2>3, InputSet
  <2>4. CASE getScheduleforTCI
    BY <2>4, ScheduleMade
  <2>5. CASE FinishList
    BY <2>5, TimingAssumption DEF IInv, FinishList, LeftTurnsAreOpposed
  <2>6. CASE UNCHANGED vars
    <3>1. /\ stage' = stage /\ schedule' = schedule
          /\ UNCHANGED <<plan, emergencyVehicleStatus, priorityRequestList, requestedSignalGroup,
                         report, pedCalls, status, signalPlan, point>>
      BY <2>6 DEF vars
    <3>2. ScheduleIsKnown => ScheduleIsKnown'
      BY <3>1, StillKnown DEF ScheduleIsKnown
    <3>3. QED
      BY <3>1, <3>2, StillKnown DEF IInv
  <2>7. CASE getEVTrafficSignalPlan
    BY <2>7, EmergencyPlanMade
  <2>8. QED
    BY <2>1, <2>2, <2>3, <2>4, <2>5, <2>6, <2>7 DEF Next
<1>3. QED
  BY <1>1, <1>2, PTL DEF Spec

-----------------------------------------------------------------------------
(* The properties follow from the invariant *)

\* What is sent are the two courses of one solution.
LEMMA Sent ==
  ASSUME IInv, stage = "schedule", schedule # NoSchedule
  PROVE  /\ IsTimingPlan(plan) /\ ListIsKnown /\ ListIsTimed /\ StatusIsKnown /\ ModelIsKnown
         /\ \E c \in ServingCourses(1), d \in ServingCourses(2) :
              RingIsSent(1, c) /\ RingIsSent(2, d) /\ CrossingTimes(1, c) = CrossingTimes(2, d)
<1>1. /\ IsTimingPlan(plan) /\ point \in {"left", "right"}
      /\ ListIsKnown /\ ListIsTimed /\ StatusIsKnown /\ ModelIsKnown
  BY DEF IInv
<1>2. PICK s \in Solutions : schedule = EventLists(s)
  BY DEF IInv, ScheduleIsKnown
<1>3. /\ s[1] \in ServingCourses(1) /\ s[2] \in ServingCourses(2)
      /\ CrossingTimes(1, s[1]) = CrossingTimes(2, s[2])
  BY SolutionsServeAndCross
<1>4. CourseFits(1, s[1]) /\ CourseFits(2, s[2])
  BY <1>1, <1>3, CoursesFit DEF ServingCourses
<1>5. /\ schedule[1] = createEventList(1, obtainRequiredSignalGroup(1), s[1])
      /\ schedule[2] = createEventList(2, obtainRequiredSignalGroup(2), s[2])
  BY <1>2 DEF EventLists
<1>6. RingIsSent(1, s[1]) /\ RingIsSent(2, s[2])
  BY <1>1, <1>4, <1>5, RingSent
<1>7. QED
  BY <1>1, <1>3, <1>6

\* Without a schedule there is nothing to show.
LEMMA NothingSent ==
  ASSUME IInv, ~(stage = "schedule" /\ schedule # NoSchedule)
  PROVE  schedule[1] = <<>> /\ schedule[2] = <<>>
BY DEF IInv, NoSchedule

\* Of two greens on different sides of the barrier there is a crossing between one's end and
\* the other's beginning, and the rings make it together.
LEMMA InvariantRespectsBarrier ==
  ASSUME IInv
  PROVE  BarrierIsRespected
<1>1. CASE ~(stage = "schedule" /\ schedule # NoSchedule)
  <2>1. schedule[1] = <<>> /\ schedule[2] = <<>>
    BY <1>1, NothingSent
  <2>2. QED
    BY <2>1 DEF BarrierIsRespected
<1>2. CASE stage = "schedule" /\ schedule # NoSchedule
  <2>1. IsTimingPlan(plan) /\ StatusIsKnown /\ ModelIsKnown
    BY <1>2, Sent
  <2>2. PICK c, d : RingIsSent(1, c) /\ RingIsSent(2, d) /\ CrossingTimes(1, c) = CrossingTimes(2, d)
    BY <1>2, Sent
  <2>3. ASSUME NEW i \in DOMAIN schedule[1], NEW j \in DOMAIN schedule[2],
               Side(schedule[1][i].commandPhase) # Side(schedule[2][j].commandPhase)
        PROVE  ClearAt(1, i) <= GreenFrom(2, j) \/ ClearAt(2, j) <= GreenFrom(1, i)
    <3> DEFINE u == Nth(TurnsInUse(1), i)
               w == Nth(TurnsInUse(2), j)
    <3>1. /\ u \in TurnsInUse(1) /\ u \in 1 .. 8 /\ schedule[1][i].commandPhase = Turns(1)[u][2]
          /\ GreenFrom(1, i) = c.time[u - 1] /\ ClearAt(1, i) = c.time[u]
          /\ CourseFits(1, c)
      BY <2>2 DEF RingIsSent
    <3>2. /\ w \in TurnsInUse(2) /\ w \in 1 .. 8 /\ schedule[2][j].commandPhase = Turns(2)[w][2]
          /\ GreenFrom(2, j) = d.time[w - 1] /\ ClearAt(2, j) = d.time[w]
          /\ CourseFits(2, d)
      BY <2>2 DEF RingIsSent
    <3> HIDE DEF u, w
    <3>3. /\ Turns(1)[u][1] \in 1 .. 3 /\ Turns(2)[w][1] \in 1 .. 3
          /\ Side(Turns(1)[u][2]) \in {1, 2} /\ Side(Turns(2)[w][2]) \in {1, 2}
          /\ Side(Turns(1)[u][2]) # Side(Turns(2)[w][2])
      BY <2>1, <2>3, <3>1, <3>2, TurnsOfRing DEF StatusIsKnown, Side
    <3>4. CASE \/ Turns(1)[u][1] < Turns(2)[w][1]
               \/ Turns(1)[u][1] = Turns(2)[w][1] /\ Side(Turns(1)[u][2]) < Side(Turns(2)[w][2])
      <4>1. c.time[u] <= d.time[w - 1]
        BY <2>1, <2>2, <3>1, <3>2, <3>3, <3>4, CrossedBetween
      <4>2. QED
        BY <3>1, <3>2, <4>1
    <3>5. CASE \/ Turns(2)[w][1] < Turns(1)[u][1]
               \/ Turns(2)[w][1] = Turns(1)[u][1] /\ Side(Turns(2)[w][2]) < Side(Turns(1)[u][2])
      <4>1. d.time[w] <= c.time[u - 1]
        BY <2>1, <2>2, <3>1, <3>2, <3>3, <3>5, CrossedBetween
      <4>2. QED
        BY <3>1, <3>2, <4>1
    <3>6. QED
      BY <3>3, <3>4, <3>5
  <2>4. ASSUME NEW r \in {1, 2}, NEW e, RingIsSent(r, e), NEW i \in 2 .. Len(schedule[r])
        PROVE  ClearAt(r, i - 1) <= GreenFrom(r, i)
    <3> DEFINE U == TurnsInUse(r)
               m == i - 1
               v == Nth(U, m)
               u == Nth(U, i)
    <3>1. i \in DOMAIN schedule[r] /\ m \in DOMAIN schedule[r] /\ m + 1 = i
      BY <2>4 DEF RingIsSent
    <3>2. /\ u \in U /\ u \in 1 .. 8 /\ GreenFrom(r, i) = e.time[u - 1]
          /\ v \in U /\ v \in 1 .. 8 /\ ClearAt(r, m) = e.time[v]
          /\ e.duration \in [1 .. 8 -> Nat] /\ e.time = Cumulative(status.init[r], e.duration)
      BY <2>4, <3>1 DEF RingIsSent, CourseFits
    <3>3. v < u
      <4>1. U \in SUBSET (1 .. 8)
        BY DEF TurnsInUse
      <4>2. DOMAIN schedule[r] = 1 .. Cardinality(U)
        BY <2>4 DEF RingIsSent
      <4>3. QED
        BY <3>1, <4>1, <4>2, NthNext
    <3> HIDE DEF u, v
    <3>4. v \in 0 .. 8 /\ u - 1 \in 0 .. 8 /\ v <= u - 1
      <4>1. u \in 1 .. 8 /\ v \in 1 .. 8
        BY <3>2
      <4>2. QED
        BY <3>3, <4>1
    <3>5. status.init[r] \in Int
      BY <2>1, <2>4 DEF StatusIsKnown
    <3>6. e.time[v] <= e.time[u - 1]
      BY <3>2, <3>4, <3>5, TimeRuns
    <3>7. QED
      BY <3>2, <3>6
  <2>5. \A r \in {1, 2} : \A i \in 2 .. Len(schedule[r]) : ClearAt(r, i - 1) <= GreenFrom(r, i)
    BY <2>2, <2>4
  <2>6. QED
    BY <2>3, <2>5 DEF BarrierIsRespected
<1>3. QED
  BY <1>1, <1>2

\* The greens that are sent: the turn's, in the time it has between its neighbours.
LEMMA GreenIsSent ==
  ASSUME IsTimingPlan(plan), StatusIsKnown, NEW r \in {1, 2}, NEW c, RingIsSent(r, c),
         NEW i \in DOMAIN schedule[r]
  PROVE  LET u == Nth(TurnsInUse(r), i)
         IN  /\ GreenTo(r, i) - GreenFrom(r, i) = c.green[u]
             /\ c.green[u] \in Nat /\ c.time[u - 1] \in Int
             /\ GreenTo(r, i) = c.time[u - 1] + c.green[u] /\ GreenFrom(r, i) = c.time[u - 1]
<1> DEFINE u == Nth(TurnsInUse(r), i)
<1>1. /\ u \in 1 .. 8 /\ GreenFrom(r, i) = c.time[u - 1] /\ GreenTo(r, i) = c.time[u - 1] + c.green[u]
      /\ c.green \in [1 .. 8 -> Nat] /\ c.duration \in [1 .. 8 -> Nat]
      /\ c.time = Cumulative(status.init[r], c.duration)
  BY DEF RingIsSent, CourseFits
<1> HIDE DEF u
<1>2. status.init[r] \in Int /\ u - 1 \in 0 .. 8 /\ u - 1 <= u - 1
  BY <1>1 DEF StatusIsKnown
<1>3. c.time[u - 1] \in Int
  BY <1>1, <1>2, TimeRuns
<1>4. c.green[u] \in Nat
  BY <1>1
<1>5. QED
  BY <1>1, <1>3, <1>4 DEF u

\* The least green of the model is that of the plan and of the pedestrians, and what a ring is
\* taken to have had of it, it has had.
LEMMA InvariantKeepsGreenTimes ==
  ASSUME IInv
  PROVE  GreenTimesAreKept
<1>1. CASE ~(stage = "schedule" /\ schedule # NoSchedule)
  <2>1. schedule[1] = <<>> /\ schedule[2] = <<>>
    BY <1>1, NothingSent
  <2>2. QED
    BY <2>1 DEF GreenTimesAreKept
<1>2. CASE stage = "schedule" /\ schedule # NoSchedule
  <2>1. IsTimingPlan(plan) /\ StatusIsKnown /\ ModelIsKnown
    BY <1>2, Sent
  <2>2. \E c, d : RingIsSent(1, c) /\ RingIsSent(2, d)
    BY <1>2, Sent
  <2>3. ASSUME NEW r \in {1, 2}, NEW c, RingIsSent(r, c), NEW i \in DOMAIN schedule[r],
               schedule[r][i].commandPhase \in plan.active
        PROVE  LET p == schedule[r][i].commandPhase
                   green == HasHad(r, i) + GreenTo(r, i) - GreenFrom(r, i)
               IN  /\ green >= plan.minGreen[p]
                   /\ ~signalCoordination /\ (p \in status.ped \/ (i = 1 /\ Walking(report[r]))) =>
                        green >= plan.pedService[p]
    <3> DEFINE u == Nth(TurnsInUse(r), i)
               p == schedule[r][i].commandPhase
               passed == IF i = 1 THEN status.elapsed[r] ELSE 0
               green == HasHad(r, i) + GreenTo(r, i) - GreenFrom(r, i)
    <3>1. /\ u \in TurnsInUse(r) /\ u \in 1 .. 8 /\ (u = 1 <=> i = 1) /\ p = Turns(r)[u][2]
          /\ signalPlan.gmin[p] <= c.green[u] + passed
      BY <2>3 DEF RingIsSent, CourseFits
    <3>2. /\ status.start[r] \in Ring(r) /\ status.elapsed[r] \in Int
          /\ report[r] \in Reports \cup {NoReport}
      BY <2>1 DEF StatusIsKnown
    <3>3. p \in Phase /\ (i = 1 => p = status.start[r])
      BY <3>1, <3>2, TurnsOfRing
    <3>4. /\ signalPlan.gmin[p] \in Nat /\ plan.minGreen[p] <= signalPlan.gmin[p]
          /\ p \in servedPedestrians => plan.pedService[p] <= signalPlan.gmin[p]
          /\ plan.minGreen[p] \in Nat /\ plan.pedService[p] \in Nat
      BY <2>1, <3>3, LeastGreens, PhaseTimes
    <3>5. HasHad(r, i) \in Nat
      <4>1. Serving(report[r]) => report[r].elapsed \in Nat
        BY <3>2, TimingAssumption DEF Serving
      <4>2. QED
        BY <4>1 DEF HasHad
    <3>6. \/ passed <= HasHad(r, i)
          \/ signalCoordination /\ plan.minGreen[p] <= HasHad(r, i)
      <4>1. i = 1 => ElapsedWasGreen(r)
        BY <2>1, <2>3, <3>3 DEF StatusIsKnown
      <4>2. QED
        BY <3>3, <3>5, <4>1 DEF ElapsedWasGreen
    <3>7. /\ GreenTo(r, i) = c.time[u - 1] + c.green[u] /\ GreenFrom(r, i) = c.time[u - 1]
          /\ c.green[u] \in Nat /\ c.time[u - 1] \in Int
      BY <2>1, <2>3, GreenIsSent
    <3>8. green = HasHad(r, i) + c.green[u]
      BY <3>5, <3>7
    <3>9. passed \in Int
      BY <3>2
    <3>10. p \in status.ped \/ (i = 1 /\ Walking(report[r])) => p \in servedPedestrians
      BY <3>3 DEF servedPedestrians
    <3> HIDE DEF u, p, passed, green
    <3>11. green >= plan.minGreen[p]
      BY <3>1, <3>4, <3>5, <3>6, <3>7, <3>8, <3>9
    <3>12. ~signalCoordination /\ p \in servedPedestrians => green >= plan.pedService[p]
      BY <3>1, <3>4, <3>5, <3>6, <3>7, <3>8, <3>9
    <3>13. QED
      BY <3>10, <3>11, <3>12 DEF p, green
  <2>4. QED
    BY <2>2, <2>3 DEF GreenTimesAreKept
<1>3. QED
  BY <1>1, <1>2

\* The turn that serves a request is in the schedule, since a phase that is asked for is in use or planned for.
LEMMA InvariantServesCallers ==
  ASSUME IInv
  PROVE  EveryCallerGetsAGreen
<1> SUFFICES ASSUME stage = "schedule", schedule # NoSchedule,
                    NEW q \in priorityRequestList, q.eta >= Second
             PROVE  \E r \in {1, 2} : \E i \in DOMAIN schedule[r] :
                      /\ schedule[r][i].commandPhase = q.requestedPhase
                      /\ GreenTo(r, i) >= q.eta + q.duration
                      /\ GreenTo(r, i) - GreenFrom(r, i) >= q.duration
  BY DEF EveryCallerGetsAGreen
<1>1. IsTimingPlan(plan) /\ ListIsKnown /\ ListIsTimed /\ StatusIsKnown /\ ModelIsKnown
  BY Sent
<1>2. PICK c \in ServingCourses(1), d \in ServingCourses(2) : RingIsSent(1, c) /\ RingIsSent(2, d)
  BY Sent
<1>3. /\ q.eta \in Nat /\ q.duration \in Nat
      /\ q.requestedPhase \in plan.active \cup requestedSignalGroup
  BY <1>1 DEF ListIsKnown
<1>4. q.requestedPhase \in Phase
  BY <1>1, <1>3 DEF IsTimingPlan, ListIsKnown
<1>5. ASSUME NEW r \in {1, 2}, NEW e \in ServingCourses(r), RingIsSent(r, e),
             q.requestedPhase \in Ring(r)
      PROVE  \E i \in DOMAIN schedule[r] :
               /\ schedule[r][i].commandPhase = q.requestedPhase
               /\ GreenTo(r, i) >= q.eta + q.duration
               /\ GreenTo(r, i) - GreenFrom(r, i) >= q.duration
  <2>1. Serves(Turns(r), e, q)
    BY <1>5 DEF ServingCourses
  <2>2. Rl(q) \in Nat /\ Rl(q) # 0 /\ Rl(q) <= q.eta
    BY <1>3 DEF Rl, Second, ETA_Range
  <2>3. PICK u \in 1 .. 8 :
          /\ InModel(Turns(r)[u]) /\ Turns(r)[u][2] = q.requestedPhase
          /\ e.time[u - 1] + e.green[u] >= Ru(q) /\ e.green[u] >= Ru(q) - Rl(q)
    BY <2>1, <2>2 DEF Serves
  <2>4. plan.minGreen[q.requestedPhase] > 0
    BY <1>1, <1>3, <1>4, PhaseTimes DEF ListIsTimed
  <2>5. u \in TurnsInUse(r)
    BY <1>5, <2>3, <2>4 DEF TurnsInUse, inUse, InModel
  <2>6. PICK i \in DOMAIN schedule[r] : Nth(TurnsInUse(r), i) = u
    BY <1>5, <2>5 DEF RingIsSent
  <2>7. schedule[r][i].commandPhase = q.requestedPhase
    BY <1>5, <2>3, <2>6 DEF RingIsSent
  <2>8. /\ GreenTo(r, i) - GreenFrom(r, i) = e.green[u]
        /\ e.green[u] \in Nat /\ e.time[u - 1] \in Int
        /\ GreenTo(r, i) = e.time[u - 1] + e.green[u]
    BY <1>1, <1>5, <2>6, GreenIsSent
  <2>9. Ru(q) = q.eta + q.duration
    BY DEF Ru
  <2>10. e.green[u] >= q.duration
    BY <1>3, <2>2, <2>3, <2>8, <2>9
  <2>11. QED
    BY <2>3, <2>7, <2>8, <2>9, <2>10
<1>6. q.requestedPhase \in Ring(1) \/ q.requestedPhase \in Ring(2)
  BY <1>4 DEF Phase, Ring
<1>7. QED
  BY <1>2, <1>5, <1>6

-----------------------------------------------------------------------------
(* The theorems *)

\* Whatever GLPK's solution, the two rings are never sent to different sides of the barrier
\* at the same time, and no ring into a phase before the one before it has cleared
\* (setConstraints, readOptimalSignalPlan, createEventList).
THEOREM BarrierIsAlwaysRespected ==
  ASSUME LeftTurnsAreOpposed
  PROVE  Spec => []BarrierIsRespected
<1>1. Spec => []IInv
  BY SignalTimingInvariant
<1>2. IInv => BarrierIsRespected
  BY InvariantRespectsBarrier
<1>3. QED
  BY <1>1, <1>2, PTL

\* Whatever is reported of a green and made of it, every phase of a schedule gets its least
\* green with what it has had, and the time pedestrians need where they are counted
\* (modifyTrafficControllerStatus, modifyGreenTimeForPedCalls, modifyCurrentSignalStatus).
THEOREM GreenTimesAreAlwaysKept ==
  ASSUME LeftTurnsAreOpposed
  PROVE  Spec => []GreenTimesAreKept
<1>1. Spec => []IInv
  BY SignalTimingInvariant
<1>2. IInv => GreenTimesAreKept
  BY InvariantKeepsGreenTimes
<1>3. QED
  BY <1>1, <1>2, PTL

\* A schedule that is sent has a green for every caller of the list, beyond the end of his
\* arrival and as long as it takes (generateDatFile, setConstraints, createEventList).
THEOREM EveryCallerAlwaysGetsAGreen ==
  ASSUME LeftTurnsAreOpposed
  PROVE  Spec => []EveryCallerGetsAGreen
<1>1. Spec => []IInv
  BY SignalTimingInvariant
<1>2. IInv => EveryCallerGetsAGreen
  BY InvariantServesCallers
<1>3. QED
  BY <1>1, <1>2, PTL
==============================================================================

---------------------------- MODULE MCSignalTiming ----------------------------
(* Small timing plans, reports and lists for TLC; times in half seconds. *)
EXTENDS SignalTiming

\* Times of through phases on both sides of the barrier, left turns, and phases not in use.
Times(active, major, minor, left) ==
  [p \in 1 .. 8 |-> IF p \in {2, 6} THEN major ELSE IF p \in {4, 8} THEN minor
                    ELSE IF p \in active THEN left ELSE 0]

MCPlan(active, crossing, coordinated) ==
  [ active |-> active,
    minGreen |-> Times(active, 11, 10, 5),
    maxGreen |-> Times(active, 12, 11, 6),
    splitGreen |-> Times(active, 13, 10, 6),
    coordinated |-> coordinated,
    yellowChange |-> Times(active, 2, 2, 2),
    redClear |-> Times(active, 1, 2, 1),
    pedService |-> Times(active, crossing, 14, 0) ]

\* A crossroads without left turns, and a junction with one left turn and no phase 8.
MCPlans == { MCPlan({2, 4, 6, 8}, 12, <<2, 6>>), MCPlan({1, 2, 4, 6}, 12, <<2, 6>>) }

\* The main road is wide: it takes longer to cross than the others may have green.
MCWidePlans == { MCPlan({1, 2, 4, 6}, 17, <<0, 0>>) }

Green(p, elapsed, inGmax, walking) ==
  [state |-> "green", current |-> p, elapsed |-> elapsed, inGmax |-> inGmax, walking |-> walking]

\* A green that has just begun and pedestrians walk, one that rests, and one that is being
\* timed out; clearing phases, one of them in red for longer than it takes.
MCReports ==
  {NoReport}
    \cup UNION { {Green(p, 4, 0, TRUE), Green(p, 19, 0, FALSE), Green(p, 19, 12, FALSE)} :
                 p \in {1, 2, 4, 6, 8} }
    \cup { r \in [state : {"yellow", "red"}, current : 1 .. 8, next : 1 .. 8, elapsed : {0, 2}] :
             /\ <<r.current, r.next>> \in {<<1, 2>>, <<2, 4>>, <<4, 1>>, <<4, 2>>, <<6, 8>>, <<8, 6>>,
                                           <<6, 6>>}
             /\ r.state = "red" <=> r.elapsed = 2 }

MCCallSettings ==
  { [vehicle |-> {}, pedestrian |-> {}], [vehicle |-> {2, 4}, pedestrian |-> {4, 6}] }

Call(type, p, eta, duration) ==
  [type |-> type, requestedPhase |-> p, eta |-> eta, duration |-> duration]

MCPriorityLists ==
  { {Call("truck", 2, 0, 2)}, {Call("transit", 4, 20, 2), Call(Coordination, 6, 8, 4)} }

\* The left turn of the approach is planned for too, where the signal is green on the other
\* road, whether it is in use or not.
MCEmergencyLists ==
  { [requests |-> {Call("emergencyVehicle", 4, 12, 2)}, phases |-> {2, 4, 6, 8}],
    [requests |-> {Call("emergencyVehicle", p, 12, 2) : p \in {4, 7}}, phases |-> {2, 4, 6, 7}] }

\* The two requests of a cycle, one for each coordinated phase.
MCCoordinationLists == { {Call(Coordination, 2, 8, 6), Call(Coordination, 6, 8, 6)} }

\* Before the first cycle; in a cycle, when its greens are about to end and to end, and near
\* its end.
MCCycles == [length : {40}, elapsed : {-1, 10, 12, 13, 37}]
==============================================================================

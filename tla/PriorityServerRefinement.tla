----------------------- MODULE PriorityServerRefinement -----------------------
(* The Priority Request Server implements the priority service. *)
EXTENDS PriorityRequestServer

IDsOf(infos) == {infos[i].vehicleID : i \in DOMAIN infos}

Emergencies == {v \in Vehicle : RoleOf[v] = "fire"}
Eligibles == {v \in Vehicle : RoleOf[v] # "otherRole"} \cup CoordinationID

GrantedIDs(table) ==
  {table[i].vehicleID : i \in {j \in DOMAIN table : table[j].prsStatus = "granted"}}

\* The emergency vehicles of whose two entries one is missing.
Halved(table) ==
  {v \in Emergencies : \E i \in DOMAIN table : PositionsOf(table, v) = {i}}

Service == INSTANCE PriorityService WITH
  Requester    <- Vehicle \cup CoordinationID,
  Emergency    <- Emergencies,
  Coordination <- CoordinationID,
  Partner      <- [c \in CoordinationID |-> Associate(c)],
  Eligible     <- Eligibles,
  active       <- IDsOf(ART),
  halved       <- Halved(ART),
  granted      <- GrantedIDs(ART),
  plan         <- IDsOf(solver.requestorInfo)

\* Every step of the server is a step the service allows: an emergency vehicle
\* pre-empts all others, a new requester is planned for in the step that admits
\* it, and only cancellation, silence or a crash ends a service - or, once a
\* coordination request has come without its partner, the erasure of a pair of
\* which one is missing, at the cost of exactly one request of another.
ImplementsService == Service!ServSpec
==============================================================================

--------------------------- MODULE PriorityService ---------------------------
(***************************************************************************)
(* What the Priority Request Server promises, without its table: who is    *)
(* being served, who has been granted priority, and for whom the solver    *)
(* was asked to plan; and at whose cost an incomplete pair is erased.      *)
(***************************************************************************)
EXTENDS FiniteSets

CONSTANTS
  Requester,     \* everybody who may ask for priority
  Emergency,     \* those who pre-empt the others
  Coordination,  \* the virtual requesters of signal coordination
  Partner,       \* of each of them the one it comes and goes with
  Eligible       \* those who can be granted priority at all

VARIABLES
  active,   \* who is being served
  halved,   \* the emergency vehicles of whose two requests one was lost
  granted, plan

servVars == <<active, halved, granted, plan>>

Grantable(served) ==
  IF served \cap Emergency # {} THEN served \cap Emergency
                                ELSE served \cap Eligible

\* After the last emergency vehicle has gone, the plan is dropped altogether.
PlanWithout(gone, served) ==
  IF gone \cap Emergency # {} /\ served \cap Emergency = {} THEN {} ELSE served

\* What goes in pairs, and has lost the other half.
Incomplete(v) ==
  v \in halved \/ (v \in Coordination /\ Partner[v] \notin active)

ServInit == active = {} /\ halved = {} /\ granted = {} /\ plan = {}

\* A new request, or a significant change of one, is planned for at once.
Serve(v) ==
  /\ v \notin halved
  /\ active' = active \cup {v}
  /\ granted' = Grantable(active')
  /\ plan' = active'
  /\ UNCHANGED halved

\* Any other accepted request only brings the grants up to date.
Review ==
  /\ granted' = Grantable(active)
  /\ UNCHANGED <<active, halved, plan>>

Cancel(v) ==
  /\ v \in active
  /\ active' = active \ {v}
  /\ halved' = halved \ {v}
  /\ granted' = Grantable(active')
  /\ plan' = PlanWithout({v}, active')

\* Requesters that fell silent are dropped; the remaining grants stay put.
Expire(gone) ==
  /\ gone # {} /\ gone \subseteq active
  /\ \A v \in gone : ~Incomplete(v)
  /\ active' = active \ gone
  /\ granted' = granted \ gone
  /\ plan' = PlanWithout(gone, active')
  /\ UNCHANGED halved

(***************************************************************************)
(* The flaw of the service: where the other half of v is missing, one of   *)
(* w's requests is lost in its place.  Whoever has but one is evicted.     *)
(***************************************************************************)
LoseInstead(v, w, kept) ==
  /\ v \in active /\ Incomplete(v) /\ w \in active \ {v}
  /\ IF w \in Emergency \ halved
       THEN active' = kept /\ halved' = (halved \ {v}) \cup {w}
       ELSE active' = kept \ {w} /\ halved' = halved \ {v, w}

ServeInstead(v, w) ==
  /\ v \in halved /\ LoseInstead(v, w, active)
  /\ granted' = Grantable(active')
  /\ plan' = active'

ExpireInstead(v, w) ==
  /\ LoseInstead(v, w, active \ {v})
  /\ granted' = granted \cap active'
  /\ plan' = PlanWithout({v}, active')

Coordinate(requests) ==
  /\ active' = (active \ Coordination) \cup requests
  /\ granted' = Grantable(active')
  /\ plan' = active'
  /\ UNCHANGED halved

\* Withdrawn coordination requests stay in the plan until its next change.
Withdraw ==
  /\ active' = active \ Coordination
  /\ granted' = granted \ Coordination
  /\ UNCHANGED <<halved, plan>>

Clear == active = {} /\ plan' = {} /\ UNCHANGED <<active, halved, granted>>

Forget == active' = {} /\ halved' = {} /\ granted' = {} /\ UNCHANGED plan

ServNext ==
  \/ \E v \in Requester \ Coordination : Serve(v) \/ Cancel(v)
  \/ \E v \in Requester \ Coordination : Expire({v})
  \/ \E c \in Coordination : Expire({c, Partner[c]})
  \/ \E v, w \in Requester : ServeInstead(v, w) \/ ExpireInstead(v, w)
  \/ \E requests \in (SUBSET Coordination) \ {{}} : Coordinate(requests)
  \/ Review \/ Withdraw \/ Clear \/ Forget

ServSpec == ServInit /\ [][ServNext]_servVars

\* While an emergency vehicle is being served it has priority, all of them have
\* and nobody else: what drivers may rely on, whoever comes, goes or expires.
Preemption ==
  active \cap Emergency # {} => granted = active \cap Emergency

\* An emergency vehicle is never dropped from the plan by another's departure.
EmergencyPlanned == active \cap Emergency \subseteq plan
==============================================================================

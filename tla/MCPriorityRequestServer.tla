----------------------- MODULE MCPriorityRequestServer -----------------------
(* Small instances of the Priority Request Server for TLC. *)
EXTENDS PriorityRequestServer, TLC

MCRoleOf == [v \in Vehicle |-> IF v \in 601 .. 609 THEN "fire"
                               ELSE IF v \in 610 .. 619 THEN "transit"
                               ELSE IF v \in 620 .. 629 THEN "truck"
                               ELSE "otherRole"]

MCCoordination ==
  { <<>>,
    << [vehicleID |-> 1, requestedPhase |-> 2],
       [vehicleID |-> 2, requestedPhase |-> 6] >> }

\* The two requests of a cycle can fall due one second apart: rounding down to
\* whole milliseconds treats them differently (CoordinationRequestManager.py).
MCOddCoordination ==
  MCCoordination \cup { << [vehicleID |-> 2, requestedPhase |-> 6] >> }

MCNoCoordination == {}
==============================================================================

---------------------- MODULE MCPriorityRequestExchange ----------------------
(* Small instances of the exchange between vehicles and server. *)
EXTENDS PriorityRequestExchange

MCRole(id) == IF id \in 601 .. 609 THEN "fire"
              ELSE IF id \in 610 .. 619 THEN "transit" ELSE "truck"
MCRoles == [id \in Vehicle |-> MCRole(id)]

MCIDs == [g \in Generator |-> {601}]
MCTruckIDs == [g \in Generator |-> {620}]
MCTransitIDs == [g \in Generator |-> {610}]

MCNoCoordination == {}
MCCoordination == { <<>>,
                    << [vehicleID |-> 1, requestedPhase |-> 2],
                       [vehicleID |-> 2, requestedPhase |-> 6] >> }
==============================================================================

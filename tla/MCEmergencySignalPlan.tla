------------------------ MODULE MCEmergencySignalPlan ------------------------
(* The plan for emergency vehicles with constants for TLC. *)
EXTENDS EmergencySignalPlan

\* A full intersection, and two with a road on one side only.
MCActiveSets == { 1 .. 8, {1, 2, 4, 6}, {2, 5, 6, 8} }

Other(type, p) == [vehicleType |-> type, requestedPhase |-> p, dilemmaZoneStatus |-> FALSE]

\* Nobody, a truck on any phase, two trucks with the same green, or one of each other type.
MCOtherRequests ==
  {{}, {Other(Truck, 2), Other(Truck, 6)}, {Other(Truck, 4), Other(Truck, 7)},
   {Other(Transit, 3), Other(CoordinationVehicleType, 2), Other(CoordinationVehicleType, 6)}}
    \cup {{Other(Truck, p)} : p \in Phase}

\* The types without weight, if any.
MCWeightSettings == {{}, {EmergencyVehicle}}
==============================================================================

----------------------- MODULE MCPriorityRequestSolver -----------------------
(* The Priority Request Solver with constants for TLC. *)
EXTENDS PriorityRequestSolver

\* One of each mode, and those that mix modes.
MCRequestLists == { {EmergencyVehicle, Truck}, {Transit}, {CoordinationVehicleType},
                    {EmergencyVehicle, CoordinationVehicleType} }

\* Nothing is without weight, or emergency vehicles and trucks are.
MCWeightSettings == {{}, {EmergencyVehicle, Truck}}
==============================================================================

---------------------- MODULE MCPriorityServerRefinement ----------------------
(* The refinement on the small instances of MCPriorityRequestServer. *)
EXTENDS MCPriorityRequestServer, PriorityServerRefinement
==============================================================================

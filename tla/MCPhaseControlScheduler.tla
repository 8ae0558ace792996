----------------------- MODULE MCPhaseControlScheduler -----------------------
(* Small instances of the phase control scheduler. *)
EXTENDS PhaseControlScheduler

Cmd(c, p, s, e) == [control |-> c, phase |-> p, startTime |-> s, endTime |-> e]

MCPlanOid == <<"minGreen">>

\* Holds that end apart, with a command that is dropped; an unsorted list of
\* holds, the first with a refresh that falls due together with its end; an
\* omit longer than the backup time, and a forceoff.
MCSchedules ==
  { << Cmd("hold", 2, 0, 4), Cmd("hold", 1, 0, 3), Cmd("hold", 2, 0, 0) >>,
    << Cmd("hold", 2, 3, 4), Cmd("hold", 1, 0, 2) >>,
    << Cmd("omit_veh", 1, 0, 5), Cmd("forceoff", 1, 0, 1) >> }

\* A hold that starts and ends within a longer one, and one that ends with the
\* longer one.
MCNestedSchedules ==
  { << Cmd("hold", 2, 0, 5), Cmd("hold", 1, 1, 2), Cmd("hold", 3, 4, 5) >> }
=============================================================================

---------------------------- MODULE MCInjection ----------------------------
(* Constants of Injection for TLC: two methods of a container whose           *)
(* constructor wants an asynchronous session and a synchronous clock, and a   *)
(* plain field that wants them in the other order; a lone one awaits nothing. *)
EXTENDS Injection

CONSTANTS m1, m2, plain, lone, session, clock

MCFields == {m1, m2, plain, lone}
MCDeps == {session, clock}
MCPlan == [c \in MCFields \cup {Box} |->
  CASE c = m1 -> <<Box, session>> [] c = m2 -> <<Box, clock>>
    [] c = plain -> <<clock, session>> [] c = lone -> <<clock>>
    [] c = Box -> <<session, clock>>]
=============================================================================

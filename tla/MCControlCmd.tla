---------------------------- MODULE MCControlCmd ----------------------------
(* A small instance of ControlCmd for TLC: a scan finds two groups due and   *)
(* one without a rule, or the latter alone.                                  *)
EXTENDS ControlCmd, TLC

MCProcs == 1..3
MCGroups == {10, 20, 30}
MCPgrp == 1 :> 10 @@ 2 :> 20 @@ 3 :> 30
MCSeen ==
  {[procs |-> {1, 2, 3}, diff |-> {1, 2}], [procs |-> {3}, diff |-> {3}]}
=============================================================================

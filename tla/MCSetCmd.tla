----------------------------- MODULE MCSetCmd -----------------------------
(* A small instance of SetCmd for TLC.  Four groups are due, enough to fill  *)
(* every channel of capacity 1 and every hand; a fifth one has a rule that   *)
(* cannot be resolved; process 7 has no rule.                                *)
EXTENDS SetCmd, TLC

MCProcs == 1..7
MCGroups == {10, 20, 30, 40, 50}
MCRuled == 1..6
MCPgrp ==
  1 :> 10 @@ 2 :> 10 @@ 3 :> 20 @@ 4 :> 30 @@ 5 :> 40 @@ 6 :> 50 @@ 7 :> 40

(* Process 1 leads group 10 when the scan sees it, and process 2 otherwise;  *)
(* only the first makes the group due for an adjustment.                     *)
MCScans ==
  {[num |-> 1, procs |-> S, diff |-> {1, 3, 4, 5}] :
     S \in {{}, {7}, {2}, {2, 3}, {1, 2, 3, 4, 5, 7}, {2, 3, 4, 5},
            {1, 2, 3, 6}}}
=============================================================================

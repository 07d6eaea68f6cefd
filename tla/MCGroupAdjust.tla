---------------------------- MODULE MCGroupAdjust ---------------------------
(* A small instance of GroupAdjust for TLC: two pids, so that members may    *)
(* differ, a child may be forked during a pass and lead once its parent has  *)
(* exited; two workers and one change, so that passes overlap and one may    *)
(* still apply the rule that the other has seen replaced; rules with an      *)
(* attribute only, with a cgroup and scope properties, and with scope        *)
(* properties alone; processes that start in each kind of unit, and reach    *)
(* the other places by what is done to them.                                 *)
EXTENDS GroupAdjust

MCRules ==
  {[want |-> {"nice"}, key |-> FALSE, props |-> FALSE],
   [want |-> {"ioclass"}, key |-> TRUE, props |-> TRUE],
   [want |-> {"sched"}, key |-> FALSE, props |-> TRUE]}

MCStarts == {Session, Place("managed", "other"), Place("elsewhere", "other")}
=============================================================================

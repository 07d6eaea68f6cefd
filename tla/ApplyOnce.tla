----------------------------- MODULE ApplyOnce -----------------------------
(* What "nicy set" promises for one snapshot of the running processes: each  *)
(* process group that differs from its rule is adjusted exactly once, in any *)
(* order and several at a time, and the command returns when all have been.  *)
(* A snapshot in which some rule cannot be resolved aborts the command       *)
(* instead, at any moment.                                                   *)
CONSTANT Job       \* every group job there may be

VARIABLES
  target,          \* the jobs the snapshot calls for
  resolved,        \* every rule the snapshot needs can be resolved
  taken,           \* the jobs started
  applied,         \* the jobs finished
  outcome          \* "scan", "busy", "returned" or "aborted"

vars == <<target, resolved, taken, applied, outcome>>

Init ==
  /\ target = {} /\ resolved = TRUE
  /\ taken = {} /\ applied = {}
  /\ outcome = "scan"

Scan ==
  /\ outcome = "scan"
  /\ target' \in SUBSET Job
  /\ resolved' \in BOOLEAN
  /\ outcome' = "busy"
  /\ UNCHANGED <<taken, applied>>

Start ==
  /\ outcome = "busy"
  /\ \E j \in target \ taken : taken' = taken \cup {j}
  /\ UNCHANGED <<target, resolved, applied, outcome>>

Finish ==
  /\ outcome = "busy"
  /\ \E j \in taken \ applied : applied' = applied \cup {j}
  /\ UNCHANGED <<target, resolved, taken, outcome>>

Return ==
  /\ outcome = "busy" /\ resolved /\ applied = target
  /\ outcome' = "returned"
  /\ UNCHANGED <<target, resolved, taken, applied>>

Abort ==
  /\ outcome = "busy" /\ ~resolved
  /\ outcome' = "aborted"
  /\ UNCHANGED <<target, resolved, taken, applied>>

Next == Scan \/ Start \/ Finish \/ Return \/ Abort

Ended == outcome \in {"returned", "aborted"}

Spec == Init /\ [][Next]_vars /\ <>Ended
=============================================================================

------------------------------ MODULE SetCmd ------------------------------
(* "nicy set": doSetCmd starts the workers and GenerateGroupJobs, feeds them *)
(* one snapshot, closes the channel and waits for everybody.                 *)
EXTENDS Pipeline

CONSTANT Scans      \* the snapshots FilteredProcs(filter) may return

ASSUME ScansAssumption == Scans \subseteq Snapshot

VARIABLES
  main,             \* the command's own goroutine
  sent,             \* the snapshot it sent, once it has
  log,              \* the group jobs the workers took, in order
  applied           \* the group jobs whose Run has returned

vars == <<pipelineVars, main, sent, log, applied>>

Init ==
  /\ PipelineInit
  /\ main = "send" /\ sent = {} /\ log = <<>> /\ applied = {}

MainSend ==
  /\ main = "send" /\ Room(inputs)
  /\ \E s \in Scans : inputs' = Offer(inputs, s) /\ sent' = {s}
  /\ main' = "close"
  /\ UNCHANGED <<procs, groupjobs, jobs, filter, split, prepare, worker,
                 generate, inner, wg, status, log, applied>>

MainClose ==
  /\ main = "close"
  /\ inputs' = Close(inputs)
  /\ main' = "wait"
  /\ UNCHANGED <<procs, groupjobs, jobs, filter, split, prepare, worker,
                 generate, inner, wg, status, sent, log, applied>>

MainReturn ==
  /\ main = "wait" /\ wg = 0
  /\ main' = "done"
  /\ UNCHANGED <<pipelineVars, sent, log, applied>>

Stage == StageStep /\ UNCHANGED <<main, sent, log, applied>>

Take(w) ==
  /\ WorkerReceive(w)
  /\ log' = Append(log, First(jobs))
  /\ UNCHANGED <<main, sent, applied>>

Run(w) ==
  /\ WorkerRun(w)
  /\ applied' = applied \cup worker[w].hand
  /\ UNCHANGED <<main, sent, log>>

Leave(w) == WorkerDone(w) /\ UNCHANGED <<main, sent, log, applied>>

Work(w) == Take(w) \/ Run(w) \/ Leave(w)

Terminated == main = "done" \/ status # "running"

Step ==
  /\ status = "running"
  /\ MainSend \/ MainClose \/ MainReturn \/ Stage \/ \E w \in Workers : Work(w)

Next == Step \/ (Terminated /\ UNCHANGED vars)

(* The Go scheduler runs every goroutine that can run, and a group job's     *)
(* commands (renice, systemctl, busctl...) return.                           *)
Fairness ==
  /\ WF_vars(status = "running" /\ (MainSend \/ MainClose \/ MainReturn))
  /\ WF_vars(status = "running" /\ Stage)
  /\ \A w \in Workers : WF_vars(status = "running" /\ Work(w))

Spec == Init /\ [][Next]_vars /\ Fairness

-----------------------------------------------------------------------------
TypeOK ==
  /\ PipelineTypeOK
  /\ main \in {"send", "close", "wait", "done"}
  /\ sent \in SUBSET Scans
  /\ log \in Seq(GroupJob)
  /\ applied \in SUBSET GroupJob

(* A send on a closed channel, and a second close, panic in Go: a closed     *)
(* channel never grows and is never opened again, and the goroutine that     *)
(* closes one finds it open, although each is closed by the goroutine        *)
(* upstream and only the order of its statements keeps it from going on.     *)
ClosedForGood(ch, next) ==
  ch.closed => next.closed /\ Len(next.buf) <= Len(ch.buf)

ClosesOpen ==
  /\ MainClose => ~inputs.closed
  /\ FilterDone => ~procs.closed
  /\ SplitDone => ~groupjobs.closed
  /\ PrepareDone => ~jobs.closed

NoSendOnClosed ==
  [][/\ ClosedForGood(inputs, inputs') /\ ClosedForGood(procs, procs')
     /\ ClosedForGood(groupjobs, groupjobs') /\ ClosedForGood(jobs, jobs')
     /\ ClosesOpen]_vars

(* No group job is run twice, or sits in two places at once: every job is    *)
(* due for the snapshot sent and is handed on by one goroutine to one other. *)
Taken == Range(log)

EachJobOnce ==
  /\ IsInjective(log) /\ IsInjective(jobs.buf) /\ IsInjective(groupjobs.buf)
  /\ Taken \cap (Content(jobs) \cup prepare.hand \cup Content(groupjobs)
                 \cup split.hand \cup split.todo) = {}
  /\ Content(jobs) \cap (prepare.hand \cup Content(groupjobs)
                         \cup split.hand \cup split.todo) = {}
  /\ prepare.hand \cap (Content(groupjobs) \cup split.hand \cup split.todo) = {}
  /\ Content(groupjobs) \cap (split.hand \cup split.todo) = {}
  /\ split.hand \cap split.todo = {}

(* wg.Wait releases doSetCmd only when nothing is left to do: when the       *)
(* command returns, each group job the snapshot called for, and no other,    *)
(* has been run to its end, and nobody holds a job or waits for one.         *)
CompleteAtReturn ==
  main = "done" =>
    /\ applied = UNION {Due(s) : s \in sent}
    /\ filter.done /\ split.done /\ prepare.done /\ generate = "done"
    /\ \A w \in Workers : worker[w].done /\ worker[w].hand = {}
    /\ jobs.buf = <<>> /\ groupjobs.buf = <<>> /\ procs.buf = <<>>
    /\ inputs.buf = <<>>

(* The WaitGroups count the goroutines still running, so that Done never     *)
(* takes a counter below zero (a panic) and Wait never returns early.        *)
Running(g) == IF g.done THEN 0 ELSE 1

WaitGroups ==
  /\ inner = Running(filter) + Running(split) + Running(prepare)
  /\ wg = Cardinality({w \in Workers : ~worker[w].done})
          + (IF generate = "done" THEN 0 ELSE 1)
  /\ generate = "done" => inner = 0

-----------------------------------------------------------------------------
Outcome ==
  CASE status # "running" -> "aborted"
    [] status = "running" /\ main = "done" -> "returned"
    [] status = "running" /\ main = "send" -> "scan"
    [] OTHER -> "busy"

A == INSTANCE ApplyOnce WITH
       Job <- GroupJob,
       target <- UNION {Due(s) : s \in sent},
       resolved <- \A s \in sent : \A j \in ByPgrp(Matching(s)) : ~IsBroken(j),
       taken <- Taken,
       applied <- applied,
       outcome <- Outcome

(* The pipeline implements the one-shot application of the presets.          *)
ImplementsApplyOnce == A!Spec
=============================================================================

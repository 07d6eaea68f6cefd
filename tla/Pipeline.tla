------------------------------ MODULE Pipeline ------------------------------
(* The goroutines between a scan of /proc and the commands that adjust       *)
(* process groups, shared by "nicy set" and "nicy control":                  *)
(*                                                                           *)
(*   inputs --> FilteredProcs --> procs --> RawGroupJobs --> groupjobs       *)
(*          --> the preparing goroutine --> jobs --> the workers             *)
(*                                                                           *)
(* Arrows are buffered Go channels of capacity Cap; a goroutine holds at     *)
(* most the item it received and has not sent yet.  The feeder of "inputs"   *)
(* and the fate of the command belong to SetCmd and ControlCmd.              *)
EXTENDS Integers, Sequences, FiniteSets, Functions

CONSTANTS
  Procs,      \* process ids
  Groups,     \* process group ids
  Pgrp,       \* the process group of a process
  Ruled,      \* processes whose command name has a rule (RuleFilter)
  Broken,     \* processes whose rule names a profile or cgroup nobody defines
  Workers,    \* the goMaxProcs + 1 goroutines that run group jobs
  Cap         \* capacity of the buffered channels (8 in the code)

ASSUME ProcsAssumption ==
  /\ Procs \subseteq Nat
  /\ Pgrp \in [Procs -> Groups]
  /\ Ruled \subseteq Procs
  /\ Broken \subseteq Ruled
ASSUME WorkersAssumption == IsFiniteSet(Workers) /\ Workers # {}
ASSUME CapAssumption == Cap \in Nat \ {0}

VARIABLES
  inputs,     \* snapshots of the scan
  procs,      \* snapshots reduced to the processes with a rule
  groupjobs,  \* group jobs to prepare
  jobs,       \* group jobs to run
  filter,     \* the FilteredProcs goroutine
  split,      \* the RawGroupJobs goroutine; todo: what ByPgrp still has to give
  prepare,    \* the goroutine that calls PrepareAdjust
  worker,     \* the goroutines that call Run
  generate,   \* "wait" or "done": GenerateGroupJobs itself
  inner,      \* its WaitGroup
  wg,         \* the command's WaitGroup
  status      \* "running", or how the process ended

pipelineVars == <<inputs, procs, groupjobs, jobs, filter, split, prepare,
                  worker, generate, inner, wg, status>>

-----------------------------------------------------------------------------
(* Data.  A snapshot is what one scan saw: the processes, and those whose    *)
(* attributes differed from their rule when the scan read them.              *)

Snapshot == [num : Nat, procs : SUBSET Procs, diff : SUBSET Procs]
GroupJob == [num : Nat, pids : SUBSET Procs, due : BOOLEAN]

Leader(pids) == CHOOSE p \in pids : \A q \in pids : p <= q

Matching(s) == [s EXCEPT !.procs = @ \cap Ruled]

Members(s, g) == {p \in s.procs : Pgrp[p] = g}

ByPgrp(s) ==
  {[num |-> s.num, pids |-> Members(s, g),
    due |-> Leader(Members(s, g)) \in s.diff] : g \in {Pgrp[p] : p \in s.procs}}

(* The group jobs a snapshot calls for.                                      *)
Due(s) == {j \in ByPgrp(Matching(s)) : j.due}

IsBroken(j) == Leader(j.pids) \in Broken

-----------------------------------------------------------------------------
(* Channels.                                                                 *)

Open == [buf |-> <<>>, closed |-> FALSE]
Room(ch) == Len(ch.buf) < Cap
Offer(ch, x) == [ch EXCEPT !.buf = Append(@, x)]
Ready(ch) == ch.buf # <<>>
First(ch) == Head(ch.buf)
Rest(ch) == [ch EXCEPT !.buf = Tail(@)]
Close(ch) == [ch EXCEPT !.closed = TRUE]
Drained(ch) == ch.buf = <<>> /\ ch.closed
Content(ch) == Range(ch.buf)

Idle == [hand |-> {}, done |-> FALSE]
Waiting(g) == g.hand = {} /\ ~g.done

-----------------------------------------------------------------------------

(* Slip: one worker is missing from the WaitGroup.                           *)
PipelineInitShort ==
  /\ inputs = Open /\ procs = Open /\ groupjobs = Open /\ jobs = Open
  /\ filter = Idle
  /\ split = [hand |-> {}, todo |-> {}, done |-> FALSE]
  /\ prepare = Idle
  /\ worker = [w \in Workers |-> Idle]
  /\ generate = "wait"
  /\ inner = 3
  /\ wg = Cardinality(Workers)
  /\ status = "running"

PipelineInit ==
  /\ inputs = Open /\ procs = Open /\ groupjobs = Open /\ jobs = Open
  /\ filter = Idle
  /\ split = [hand |-> {}, todo |-> {}, done |-> FALSE]
  /\ prepare = Idle
  /\ worker = [w \in Workers |-> Idle]
  /\ generate = "wait"
  /\ inner = 3
  /\ wg = Cardinality(Workers) + 1
  /\ status = "running"

(* Slip: a snapshot without a process that has a rule blocks the stage.      *)
FilterReceiveBlocks ==
  /\ Waiting(filter) /\ Ready(inputs)
  /\ Matching(First(inputs)).procs # {}
  /\ inputs' = Rest(inputs)
  /\ filter' = [filter EXCEPT !.hand = {Matching(First(inputs))}]
  /\ UNCHANGED <<procs, groupjobs, jobs, split, prepare, worker, generate,
                 inner, wg, status>>

(* FilteredProcs: a snapshot without a process that has a rule is dropped.   *)
FilterReceive ==
  /\ Waiting(filter) /\ Ready(inputs)
  /\ inputs' = Rest(inputs)
  /\ LET kept == Matching(First(inputs))
     IN  filter' = [filter EXCEPT !.hand =
                      IF kept.procs = {} THEN {} ELSE {kept}]
  /\ UNCHANGED <<procs, groupjobs, jobs, split, prepare, worker, generate,
                 inner, wg, status>>

FilterSend ==
  /\ Room(procs)
  /\ \E s \in filter.hand : procs' = Offer(procs, s)
  /\ filter' = [filter EXCEPT !.hand = {}]
  /\ UNCHANGED <<inputs, groupjobs, jobs, split, prepare, worker, generate,
                 inner, wg, status>>

(* Slip: the deferred wg.Done is missing.                                    *)
FilterDoneUncounted ==
  /\ Waiting(filter) /\ Drained(inputs)
  /\ procs' = Close(procs)
  /\ filter' = [filter EXCEPT !.done = TRUE]
  /\ UNCHANGED <<inputs, groupjobs, jobs, split, prepare, worker, generate,
                 inner, wg, status>>

(* Slip: the channel is closed while a snapshot is still in hand.            *)
FilterDoneEarly ==
  /\ ~filter.done /\ Drained(inputs)
  /\ procs' = Close(procs)
  /\ filter' = [filter EXCEPT !.done = TRUE]
  /\ inner' = inner - 1
  /\ UNCHANGED <<inputs, groupjobs, jobs, split, prepare, worker, generate,
                 wg, status>>

FilterDone ==
  /\ Waiting(filter) /\ Drained(inputs)
  /\ procs' = Close(procs)
  /\ filter' = [filter EXCEPT !.done = TRUE]
  /\ inner' = inner - 1
  /\ UNCHANGED <<inputs, groupjobs, jobs, split, prepare, worker, generate,
                 wg, status>>

(* Slip: the next snapshot is taken before the groups of this one are out.   *)
SplitReceiveMixed ==
  /\ Waiting(split) /\ Ready(procs)
  /\ procs' = Rest(procs)
  /\ split' = [split EXCEPT !.todo = @ \cup ByPgrp(First(procs))]
  /\ UNCHANGED <<inputs, groupjobs, jobs, filter, prepare, worker, generate,
                 inner, wg, status>>

(* RawGroupJobs: the groups of a snapshot come out of ByPgrp in map order.   *)
SplitReceive ==
  /\ Waiting(split) /\ split.todo = {} /\ Ready(procs)
  /\ procs' = Rest(procs)
  /\ split' = [split EXCEPT !.todo = ByPgrp(First(procs))]
  /\ UNCHANGED <<inputs, groupjobs, jobs, filter, prepare, worker, generate,
                 inner, wg, status>>

(* Slip: the group stays in the list, to be given again.                     *)
SplitReviewAgain(j) ==
  /\ split.hand = {} /\ j \in split.todo
  /\ IF IsBroken(j)
       THEN status' = "fatal" /\ UNCHANGED split
       ELSE /\ split' = [split EXCEPT !.hand = IF j.due THEN {j} ELSE {}]
            /\ UNCHANGED status
  /\ UNCHANGED <<inputs, procs, groupjobs, jobs, filter, prepare, worker,
                 generate, inner, wg>>

(* Slip: an error value where the process should exit.                       *)
SplitReviewPanics(j) ==
  /\ split.hand = {} /\ j \in split.todo
  /\ IF IsBroken(j)
       THEN status' = "error" /\ UNCHANGED split
       ELSE /\ split' = [split EXCEPT !.todo = @ \ {j},
                                      !.hand = IF j.due THEN {j} ELSE {}]
            /\ UNCHANGED status
  /\ UNCHANGED <<inputs, procs, groupjobs, jobs, filter, prepare, worker,
                 generate, inner, wg>>

(* DiffReview asks for the leader's rule, and RequestRule calls fatal when   *)
(* Expand misses a profile or a cgroup: the whole process exits.             *)
SplitReview(j) ==
  /\ split.hand = {} /\ j \in split.todo
  /\ IF IsBroken(j)
       THEN status' = "fatal" /\ UNCHANGED split
       ELSE /\ split' = [split EXCEPT !.todo = @ \ {j},
                                      !.hand = IF j.due THEN {j} ELSE {}]
            /\ UNCHANGED status
  /\ UNCHANGED <<inputs, procs, groupjobs, jobs, filter, prepare, worker,
                 generate, inner, wg>>

SplitSend ==
  /\ Room(groupjobs)
  /\ \E j \in split.hand : groupjobs' = Offer(groupjobs, j)
  /\ split' = [split EXCEPT !.hand = {}]
  /\ UNCHANGED <<inputs, procs, jobs, filter, prepare, worker, generate,
                 inner, wg, status>>

SplitDone ==
  /\ Waiting(split) /\ split.todo = {} /\ Drained(procs)
  /\ groupjobs' = Close(groupjobs)
  /\ split' = [split EXCEPT !.done = TRUE]
  /\ inner' = inner - 1
  /\ UNCHANGED <<inputs, procs, jobs, filter, prepare, worker, generate,
                 wg, status>>

(* Slip: a job is dropped when the next channel is full.                     *)
PrepareReceiveDrops ==
  /\ Waiting(prepare) /\ Ready(groupjobs)
  /\ groupjobs' = Rest(groupjobs)
  /\ prepare' = [prepare EXCEPT !.hand =
                   IF Room(jobs) THEN {First(groupjobs)} ELSE {}]
  /\ UNCHANGED <<inputs, procs, jobs, filter, split, worker, generate,
                 inner, wg, status>>

(* The goroutine of GenerateGroupJobs that prepares the commands of a job.   *)
PrepareReceive ==
  /\ Waiting(prepare) /\ Ready(groupjobs)
  /\ groupjobs' = Rest(groupjobs)
  /\ prepare' = [prepare EXCEPT !.hand = {First(groupjobs)}]
  /\ UNCHANGED <<inputs, procs, jobs, filter, split, worker, generate,
                 inner, wg, status>>

PrepareSend ==
  /\ Room(jobs)
  /\ \E j \in prepare.hand : jobs' = Offer(jobs, j)
  /\ prepare' = [prepare EXCEPT !.hand = {}]
  /\ UNCHANGED <<inputs, procs, groupjobs, filter, split, worker, generate,
                 inner, wg, status>>

(* Slip: the channel of the workers is left open.                            *)
PrepareDoneOpen ==
  /\ Waiting(prepare) /\ Drained(groupjobs)
  /\ prepare' = [prepare EXCEPT !.done = TRUE]
  /\ inner' = inner - 1
  /\ UNCHANGED <<inputs, procs, groupjobs, jobs, filter, split, worker,
                 generate, wg, status>>

PrepareDone ==
  /\ Waiting(prepare) /\ Drained(groupjobs)
  /\ jobs' = Close(jobs)
  /\ prepare' = [prepare EXCEPT !.done = TRUE]
  /\ inner' = inner - 1
  /\ UNCHANGED <<inputs, procs, groupjobs, filter, split, worker, generate,
                 wg, status>>

(* GenerateGroupJobs returns when its three goroutines have.                 *)
GenerateDone ==
  /\ generate = "wait" /\ inner = 0
  /\ generate' = "done"
  /\ wg' = wg - 1
  /\ UNCHANGED <<inputs, procs, groupjobs, jobs, filter, split, prepare,
                 worker, inner, status>>

(* A worker ranges over the jobs; Run always returns nil, so the loop ends   *)
(* only with the channel.                                                    *)
WorkerReceive(w) ==
  /\ Waiting(worker[w]) /\ Ready(jobs)
  /\ jobs' = Rest(jobs)
  /\ worker' = [worker EXCEPT ![w].hand = {First(jobs)}]
  /\ UNCHANGED <<inputs, procs, groupjobs, filter, split, prepare, generate,
                 inner, wg, status>>

WorkerRun(w) ==
  /\ worker[w].hand # {}
  /\ worker' = [worker EXCEPT ![w].hand = {}]
  /\ UNCHANGED <<inputs, procs, groupjobs, jobs, filter, split, prepare,
                 generate, inner, wg, status>>

WorkerDone(w) ==
  /\ Waiting(worker[w]) /\ Drained(jobs)
  /\ worker' = [worker EXCEPT ![w].done = TRUE]
  /\ wg' = wg - 1
  /\ UNCHANGED <<inputs, procs, groupjobs, jobs, filter, split, prepare,
                 generate, inner, status>>

(* Every step of the goroutines that is no concern of the commands.          *)
StageStep ==
  \/ FilterReceive \/ FilterSend \/ FilterDone
  \/ SplitReceive \/ (\E j \in split.todo : SplitReview(j)) \/ SplitSend
  \/ SplitDone
  \/ PrepareReceive \/ PrepareSend \/ PrepareDone \/ GenerateDone

-----------------------------------------------------------------------------
Channel(T) == [buf : Seq(T), closed : BOOLEAN]

PipelineTypeOK ==
  /\ inputs \in Channel(Snapshot) /\ procs \in Channel(Snapshot)
  /\ groupjobs \in Channel(GroupJob) /\ jobs \in Channel(GroupJob)
  /\ filter \in [hand : SUBSET Snapshot, done : BOOLEAN]
  /\ split \in [hand : SUBSET GroupJob, todo : SUBSET GroupJob, done : BOOLEAN]
  /\ prepare \in [hand : SUBSET GroupJob, done : BOOLEAN]
  /\ worker \in [Workers -> [hand : SUBSET GroupJob, done : BOOLEAN]]
  /\ generate \in {"wait", "done"}
  /\ inner \in Int /\ wg \in Int
  /\ status \in {"running", "fatal", "exit0", "exit1"}
=============================================================================

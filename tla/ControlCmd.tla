----------------------------- MODULE ControlCmd -----------------------------
(* "nicy control": doControlCmd feeds the same pipeline with one snapshot at *)
(* every tick until a signal tells it to stop.  The channels are never       *)
(* closed and nobody waits for the WaitGroup: when the command returns, or   *)
(* exits, the process ends with whatever its goroutines were doing.          *)
EXTENDS Pipeline

CONSTANTS
  Seen,       \* what a scan may find: records [procs, diff]
  MaxScans,   \* bound on the number of scans
  Verbose     \* --verbose or --dry-run: SIGUSR2 reloads the presets

ASSUME SeenAssumption ==
  Seen \subseteq [procs : SUBSET Procs, diff : SUBSET Procs]
ASSUME ControlAssumption == MaxScans \in Nat \ {0} /\ Verbose \in BOOLEAN

VARIABLES
  main,       \* "first", then "loop", "reload" while it reads the presets
  ticker,     \* the goroutine that scans at every tick
  signals,    \* signalChan, of capacity 1
  cancelled,  \* ctx
  serving,    \* the workers past their only look at ctx
  scans,      \* the snapshots taken, in order
  taken       \* the group jobs the workers took

ownVars == <<main, ticker, signals, cancelled, serving, scans, taken>>
vars == <<pipelineVars, ownVars>>

Signals == {"USR1", "USR2", "INT"}

Init ==
  /\ PipelineInit
  /\ main = "first"
  /\ ticker = [hand |-> {}, at |-> "unborn"]
  /\ signals = <<>> /\ cancelled = FALSE
  /\ serving = {} /\ scans = <<>> /\ taken = {}

NewSnapshot(seen) ==
  [num |-> Len(scans) + 1, procs |-> seen.procs, diff |-> seen.diff]

(* The first scan is made and sent before the ticker goroutine starts.       *)
MainFirst ==
  /\ main = "first" /\ Room(inputs)
  /\ \E seen \in Seen :
       /\ inputs' = Offer(inputs, NewSnapshot(seen))
       /\ scans' = Append(scans, NewSnapshot(seen))
  /\ wg' = wg + 1
  /\ ticker' = [ticker EXCEPT !.at = "select"]
  /\ main' = "loop"
  /\ UNCHANGED <<procs, groupjobs, jobs, filter, split, prepare, worker,
                 generate, inner, status, signals, cancelled, serving,
                 taken>>

(* The timer ticks at any time, and a tick nobody has taken yet swallows the *)
(* next ones: a scan may start whenever the ticker goroutine is in select.   *)
TickerScan ==
  /\ ticker.at = "select" /\ Len(scans) < MaxScans
  /\ \E seen \in Seen :
       /\ ticker' = [hand |-> {NewSnapshot(seen)}, at |-> "send"]
       /\ scans' = Append(scans, NewSnapshot(seen))
  /\ UNCHANGED <<pipelineVars, main, signals, cancelled, serving, taken>>

TickerSend ==
  /\ ticker.at = "send" /\ Room(inputs)
  /\ \E s \in ticker.hand : inputs' = Offer(inputs, s)
  /\ ticker' = [hand |-> {}, at |-> "select"]
  /\ UNCHANGED <<procs, groupjobs, jobs, filter, split, prepare, worker,
                 generate, inner, wg, status, main, signals, cancelled,
                 serving, scans, taken>>

(* Slip: wg.Done where ctx is done, and a break, which leaves the select and *)
(* not the loop around it.                                                   *)
TickerLeaveBreaks ==
  /\ ticker.at = "select" /\ cancelled
  /\ wg' = wg - 1
  /\ UNCHANGED <<inputs, procs, groupjobs, jobs, filter, split, prepare,
                 worker, generate, inner, status, ownVars>>

TickerLeave ==
  /\ ticker.at = "select" /\ cancelled
  /\ ticker' = [ticker EXCEPT !.at = "done"]
  /\ wg' = wg - 1
  /\ UNCHANGED <<inputs, procs, groupjobs, jobs, filter, split, prepare,
                 worker, generate, inner, status, main, signals,
                 cancelled, serving, scans, taken>>

(* signal.Notify never blocks: with a signal pending, the next one is lost.  *)
Deliver(s) ==
  /\ signals' = IF signals = <<>> THEN <<s>> ELSE signals
  /\ UNCHANGED <<pipelineVars, main, ticker, cancelled, serving, scans,
                 taken>>

(* Slip: SIGUSR1 is received and nothing comes of it.                        *)
MainSignalDeaf ==
  /\ main = "loop" /\ signals # <<>>
  /\ signals' = <<>>
  /\ cancelled' = (cancelled \/ Head(signals) = "INT")
  /\ status' = IF Head(signals) = "INT" THEN "exit1" ELSE status
  /\ main' = IF Head(signals) = "USR2" /\ Verbose THEN "reload" ELSE main
  /\ UNCHANGED <<inputs, procs, groupjobs, jobs, filter, split, prepare,
                 worker, generate, inner, wg, ticker, serving, scans,
                 taken>>

MainSignal ==
  /\ main = "loop" /\ signals # <<>>
  /\ signals' = <<>>
  /\ cancelled' = (cancelled \/ Head(signals) \in {"USR1", "INT"})
  /\ status' = IF Head(signals) = "INT" THEN "exit1" ELSE status
  /\ main' = IF Head(signals) = "USR2" /\ Verbose THEN "reload" ELSE main
  /\ UNCHANGED <<inputs, procs, groupjobs, jobs, filter, split, prepare,
                 worker, generate, inner, wg, ticker, serving, scans,
                 taken>>

MainReloaded ==
  /\ main = "reload" /\ main' = "loop"
  /\ UNCHANGED <<pipelineVars, ticker, signals, cancelled, serving,
                 scans, taken>>

(* LoadFromConfig writes the maps that RuleFilter and RequestRule read in    *)
(* other goroutines, without a lock: the runtime may notice and abort.       *)
ReloadRace ==
  /\ main = "reload"
  /\ (Waiting(filter) /\ Ready(inputs)) \/ (split.hand = {} /\ split.todo # {})
  /\ status' = "fatal"
  /\ UNCHANGED <<inputs, procs, groupjobs, jobs, filter, split, prepare,
                 worker, generate, inner, wg, ownVars>>

(* doControlCmd returns nil, and so does main.                               *)
MainReturn ==
  /\ main = "loop" /\ cancelled
  /\ status' = "exit0"
  /\ UNCHANGED <<inputs, procs, groupjobs, jobs, filter, split, prepare,
                 worker, generate, inner, wg, ownVars>>

Stage == StageStep /\ UNCHANGED ownVars

(* A worker looks at ctx once, before it ranges over the jobs.               *)
Serve(w) ==
  /\ w \notin serving /\ ~worker[w].done
  /\ IF cancelled
       THEN /\ worker' = [worker EXCEPT ![w].done = TRUE]
            /\ wg' = wg - 1
            /\ UNCHANGED serving
       ELSE serving' = serving \cup {w} /\ UNCHANGED <<worker, wg>>
  /\ UNCHANGED <<inputs, procs, groupjobs, jobs, filter, split, prepare,
                 generate, inner, status, main, ticker, signals,
                 cancelled, scans, taken>>

Take(w) ==
  /\ w \in serving /\ WorkerReceive(w)
  /\ taken' = taken \cup {First(jobs)}
  /\ UNCHANGED <<main, ticker, signals, cancelled, serving, scans>>

Run(w) == WorkerRun(w) /\ UNCHANGED ownVars

Work(w) == Serve(w) \/ Take(w) \/ Run(w)
Main == MainFirst \/ MainSignal \/ MainReloaded
Ticker == TickerScan \/ TickerSend \/ TickerLeave

Next ==
  \/ /\ status = "running"
     /\ \/ Main \/ MainReturn \/ ReloadRace \/ Stage \/ Ticker
        \/ \E s \in Signals : Deliver(s)
        \/ \E w \in Workers : Work(w)
  \/ status # "running" /\ UNCHANGED vars

(* The timer ticks, the scheduler runs every goroutine that can run, and a   *)
(* select with several cases ready picks one at random: ctx.Done, once       *)
(* ready, is taken at some iteration of the loop however often a signal is   *)
(* ready too, hence strong fairness.  Commands return.  Signals need not     *)
(* come.                                                                     *)
Fairness ==
  /\ WF_vars(status = "running" /\ Main)
  /\ SF_vars(status = "running" /\ MainReturn)
  /\ WF_vars(status = "running" /\ Stage)
  /\ WF_vars(status = "running" /\ Ticker)
  /\ \A w \in Workers : WF_vars(status = "running" /\ Work(w))

Spec == Init /\ [][Next]_vars /\ Fairness

-----------------------------------------------------------------------------
(* The goroutines that have called wg.Add and not yet wg.Done.               *)
Alive ==
  Cardinality({w \in Workers : ~worker[w].done})
    + (IF generate = "done" THEN 0 ELSE 1)
    + (IF ticker.at \in {"select", "send"} THEN 1 ELSE 0)

(* The types; the counter of the WaitGroup is that of the goroutines still   *)
(* running, for a Done too many panics.                                      *)
TypeOK ==
  /\ PipelineTypeOK
  /\ wg = Alive
  /\ main = "first" => ticker.at = "unborn"
  /\ main \in {"first", "loop", "reload"}
  /\ ticker \in [hand : SUBSET Snapshot,
                 at : {"unborn", "select", "send", "done"}]
  /\ cancelled \in BOOLEAN
  /\ signals \in Seq(Signals)
  /\ serving \in SUBSET Workers
  /\ scans \in Seq(Snapshot) /\ taken \in SUBSET GroupJob

(* Snapshots and jobs stay in the order of the scans all along the pipeline: *)
(* no job of an earlier scan is taken by a worker after a later one's, which *)
(* would set a group back to what an older scan called for.                  *)
Upstream ==
  <<Content(jobs), prepare.hand, Content(groupjobs), split.hand \cup split.todo,
    Content(procs), filter.hand, Content(inputs), ticker.hand>>

Sorted(buf) == \A i, k \in 1..Len(buf) : i <= k => buf[i].num <= buf[k].num

InScanOrder ==
  /\ \A x \in taken : \A k \in DOMAIN Upstream : \A y \in Upstream[k] :
       x.num <= y.num
  /\ \A i, k \in DOMAIN Upstream : i < k =>
       \A x \in Upstream[i], y \in Upstream[k] : x.num <= y.num
  /\ Sorted(jobs.buf) /\ Sorted(groupjobs.buf)
  /\ Sorted(procs.buf) /\ Sorted(inputs.buf)

(* Nothing gets lost on the way: a group job that a scan calls for has been  *)
(* taken, or it is in the pipeline, or its snapshot is - and only one of the *)
(* three.                                                                    *)
PendingJobs ==
  Content(jobs) \cup prepare.hand \cup Content(groupjobs)
    \cup split.hand \cup {j \in split.todo : j.due}

PendingScans ==
  Content(procs) \cup filter.hand \cup Content(inputs) \cup ticker.hand

Accounted ==
  \A i \in DOMAIN scans : \A j \in Due(scans[i]) :
    /\ j \in taken \cup PendingJobs \/ \E s \in PendingScans : s.num = i
    /\ ~(j \in taken /\ j \in PendingJobs)
    /\ (\E s \in PendingScans : s.num = i) => j \notin taken \cup PendingJobs

(* No scan waits in the pipeline forever, whatever the workers are busy      *)
(* with: each goes through, or the process ends.                             *)
Pending(n) ==
  (\E s \in PendingScans : s.num = n) \/ (\E j \in PendingJobs : j.num = n)

Drains ==
  \A n \in 1..MaxScans : Pending(n) ~> (~Pending(n) \/ status # "running")

(* A signal that reached signalChan and asks to stop is obeyed, even while   *)
(* the pipeline is full or other signals come.                               *)
Obeyed ==
  /\ (signals = <<"USR1">>) ~> (status # "running")
  /\ (signals = <<"INT">>) ~> (status # "running")
=============================================================================

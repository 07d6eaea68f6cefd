--------------------------- MODULE ControlCmdProofs ---------------------------
(* "nicy control" serves the scans in their order and loses nothing on the   *)
(* way, for any processes, rules, number of workers, capacity and number of  *)
(* scans, whatever signals come.                                             *)
EXTENDS ControlCmd, SequenceTheorems, FiniteSetTheorems, TLAPS

-----------------------------------------------------------------------------
(* What the channel operators of Pipeline preserve and return: the facts the *)
(* proofs cite instead of the definitions.                                   *)

(* An empty buffer, and only that, has no content.                           *)
LEMMA EmptyContent ==
  ASSUME NEW T, NEW ch \in Channel(T)
  PROVE  /\ Content(ch) \in SUBSET T
         /\ ch.buf = <<>> <=> Content(ch) = {}
<1>1. ch.buf \in Seq(T)
  BY DEF Channel
<1>2. Content(ch) = {ch.buf[i] : i \in 1 .. Len(ch.buf)}
  BY <1>1, RangeEquality DEF Content
<1>3. Len(ch.buf) \in Nat /\ (ch.buf = <<>> <=> Len(ch.buf) = 0)
  BY <1>1, EmptySeq, LenProperties
<1>4. Content(ch) \in SUBSET T
  BY <1>1, RangeOfSeq DEF Content
<1>5. CASE Len(ch.buf) = 0
  BY <1>2, <1>3, <1>4, <1>5
<1>6. CASE Len(ch.buf) # 0
  <2>1. 1 \in 1 .. Len(ch.buf)
    BY <1>3, <1>6
  <2> QED
    BY <2>1, <1>2, <1>3, <1>4, <1>6
<1> QED
  BY <1>5, <1>6

(* A send adds its item to the content, once if it was not there before.     *)
LEMMA OfferContent ==
  ASSUME NEW T, NEW ch \in Channel(T), NEW x \in T
  PROVE  /\ Offer(ch, x) \in Channel(T)
         /\ Offer(ch, x).closed = ch.closed
         /\ Content(Offer(ch, x)) = Content(ch) \cup {x}
         /\ Len(Offer(ch, x).buf) = Len(ch.buf) + 1
         /\ IsInjective(ch.buf) /\ x \notin Content(ch)
              => IsInjective(Offer(ch, x).buf)
<1> DEFINE b == ch.buf
           c == Append(b, x)
<1>1. b \in Seq(T) /\ Offer(ch, x).buf = c /\ Offer(ch, x).closed = ch.closed
  BY DEF Channel, Offer
<1>2. /\ c \in Seq(T)
      /\ Len(c) = Len(b) + 1
      /\ \A i \in 1 .. Len(b) : c[i] = b[i]
      /\ c[Len(b) + 1] = x
  BY <1>1, AppendProperties
<1>3. Len(b) \in Nat /\ DOMAIN b = 1 .. Len(b) /\ DOMAIN c = 1 .. Len(b) + 1
  BY <1>1, <1>2, LenProperties
<1>4. Offer(ch, x) \in Channel(T)
  BY <1>2 DEF Channel, Offer
<1>5. Range(c) = Range(b) \cup {x}
  BY <1>2, <1>3 DEF Range
<1>6. ASSUME IsInjective(b), x \notin Range(b)
      PROVE  IsInjective(c)
  BY <1>2, <1>3, <1>6 DEF IsInjective, Range
<1> QED
  BY <1>1, <1>2, <1>4, <1>5, <1>6 DEF Content

(* A receive takes one item out of the content, the only one of its kind in  *)
(* a buffer without duplicates.                                              *)
LEMMA RestContent ==
  ASSUME NEW T, NEW ch \in Channel(T), Ready(ch)
  PROVE  /\ First(ch) \in T
         /\ Rest(ch) \in Channel(T)
         /\ Rest(ch).closed = ch.closed
         /\ Content(ch) = Content(Rest(ch)) \cup {First(ch)}
         /\ Len(Rest(ch).buf) = Len(ch.buf) - 1
         /\ IsInjective(ch.buf)
              => IsInjective(Rest(ch).buf) /\ First(ch) \notin Content(Rest(ch))
<1> DEFINE b == ch.buf
           c == Tail(b)
<1>1. /\ b \in Seq(T) /\ b # <<>>
      /\ Rest(ch).buf = c /\ Rest(ch).closed = ch.closed
  BY DEF Channel, Rest, Ready
<1>2. /\ c \in Seq(T)
      /\ Len(c) = Len(b) - 1
      /\ \A i \in 1 .. Len(c) : c[i] = b[i+1]
      /\ Head(b) \in T
  BY <1>1, HeadTailProperties
<1>3. /\ Len(b) \in Nat \ {0} /\ DOMAIN b = 1 .. Len(b)
      /\ DOMAIN c = 1 .. Len(b) - 1
  BY <1>1, <1>2, LenProperties, EmptySeq
<1>4. Head(b) = b[1]
  BY <1>1
<1>5. Rest(ch) \in Channel(T)
  BY <1>2 DEF Channel, Rest
<1>6. Range(b) = Range(c) \cup {Head(b)}
  <2>1. ASSUME NEW i \in 1 .. Len(b) PROVE b[i] \in Range(c) \cup {Head(b)}
    <3>1. CASE i = 1
      BY <1>4, <3>1
    <3>2. CASE i # 1
      <4>1. i - 1 \in 1 .. Len(c) /\ c[i-1] = b[i]
        BY <1>2, <1>3, <3>2
      <4> QED
        BY <4>1, <1>2, <1>3 DEF Range
    <3> QED
      BY <3>1, <3>2
  <2>2. ASSUME NEW i \in 1 .. Len(c) PROVE c[i] \in Range(b)
    BY <1>2, <1>3 DEF Range
  <2>3. Head(b) \in Range(b)
    BY <1>3, <1>4 DEF Range
  <2> QED
    BY <2>1, <2>2, <2>3, <1>2, <1>3 DEF Range
<1>7. ASSUME IsInjective(b)
      PROVE  IsInjective(c) /\ Head(b) \notin Range(c)
  <2>1. IsInjective(c)
    <3>1. ASSUME NEW i \in 1 .. Len(c), NEW k \in 1 .. Len(c), c[i] = c[k]
          PROVE  i = k
      <4>1. i + 1 \in DOMAIN b /\ k + 1 \in DOMAIN b
        BY <1>2, <1>3
      <4>2. b[i+1] = b[k+1]
        BY <1>2, <3>1
      <4> QED
        BY <4>1, <4>2, <1>7 DEF IsInjective
    <3> QED
      BY <3>1, <1>2, <1>3 DEF IsInjective
  <2>2. ASSUME NEW i \in 1 .. Len(c) PROVE c[i] # b[1]
    BY <1>2, <1>3, <1>7 DEF IsInjective
  <2>3. Head(b) \notin Range(c)
    BY <2>2, <1>2, <1>3, <1>4 DEF Range
  <2> QED
    BY <2>1, <2>3
<1> QED
  BY <1>1, <1>2, <1>5, <1>6, <1>7 DEF Content, First

(* The group jobs of a snapshot are group jobs, and ask for no process       *)
(* without a rule.                                                           *)
LEMMA ByPgrpType ==
  ASSUME NEW s \in Snapshot
  PROVE  /\ Matching(s) \in Snapshot
         /\ ByPgrp(s) \in SUBSET GroupJob
         /\ Due(s) \in SUBSET GroupJob
         /\ Matching(s).procs = {} => ByPgrp(Matching(s)) = {}
<1>1. ASSUME NEW t \in Snapshot PROVE ByPgrp(t) \in SUBSET GroupJob
  <2>1. ASSUME NEW g PROVE Members(t, g) \in SUBSET Procs
    BY DEF Snapshot, Members
  <2>2. ASSUME NEW g
        PROVE  [num |-> t.num, pids |-> Members(t, g),
                due |-> Leader(Members(t, g)) \in t.diff] \in GroupJob
    <3>1. (Leader(Members(t, g)) \in t.diff) \in BOOLEAN
      OBVIOUS
    <3>2. t.num \in Nat
      BY DEF Snapshot
    <3> QED
      BY <2>1, <3>1, <3>2, Zenon DEF GroupJob
  <2> QED
    BY <2>2 DEF ByPgrp
<1>2. Matching(s) \in Snapshot
  BY DEF Snapshot, Matching
<1>3. Matching(s).procs = {} => ByPgrp(Matching(s)) = {}
  BY DEF ByPgrp
<1> QED
  BY <1>1, <1>2, <1>3 DEF Due

-----------------------------------------------------------------------------
(* Types: what a step of the goroutines in the middle, or of a worker, keeps *)
(* of the pipeline.                                                          *)

LEMMA InitPipelineType == PipelineInit => PipelineTypeOK
<1> SUFFICES ASSUME PipelineInit PROVE PipelineTypeOK
  OBVIOUS
<1>1. Cardinality(Workers) \in Nat
  BY WorkersAssumption, FS_CardinalityType
<1>2. \A T : Open \in Channel(T)
  BY EmptySeq DEF Open, Channel
<1> QED
  BY <1>1, <1>2 DEF PipelineInit, PipelineTypeOK, Idle

LEMMA StageType ==
  ASSUME PipelineTypeOK, StageStep
  PROVE  PipelineTypeOK'
<1> USE DEF PipelineTypeOK, Idle, Waiting
<1>1. CASE FilterReceive
  <2>1. First(inputs) \in Snapshot /\ inputs' \in Channel(Snapshot)
    BY <1>1, RestContent DEF FilterReceive
  <2>2. Matching(First(inputs)) \in Snapshot
    BY <2>1, ByPgrpType
  <2> QED
    BY <1>1, <2>1, <2>2 DEF FilterReceive
<1>2. CASE FilterSend
  <2>1. PICK s \in filter.hand : procs' = Offer(procs, s)
    BY <1>2 DEF FilterSend
  <2>2. procs' \in Channel(Snapshot)
    BY <2>1, OfferContent
  <2> QED
    BY <1>2, <2>2 DEF FilterSend
<1>3. CASE FilterDone
  <2>1. procs' \in Channel(Snapshot)
    BY <1>3 DEF FilterDone, Channel, Close
  <2>2. filter' \in [hand : SUBSET Snapshot, done : BOOLEAN]
    BY <1>3 DEF FilterDone
  <2>3. inner' \in Int
    BY <1>3 DEF FilterDone
  <2> QED
    BY <1>3, <2>1, <2>2, <2>3 DEF FilterDone
<1>4. CASE SplitReceive
  <2>1. First(procs) \in Snapshot /\ procs' \in Channel(Snapshot)
    BY <1>4, RestContent DEF SplitReceive
  <2>2. ByPgrp(First(procs)) \in SUBSET GroupJob
    BY <2>1, ByPgrpType
  <2> QED
    BY <1>4, <2>1, <2>2 DEF SplitReceive
<1>5. CASE \E j \in split.todo : SplitReview(j)
  <2>1. PICK j \in split.todo : SplitReview(j)
    BY <1>5
  <2>2. split' \in [hand : SUBSET GroupJob, todo : SUBSET GroupJob, done : BOOLEAN]
    <3>1. CASE IsBroken(j)
      BY <2>1, <3>1 DEF SplitReview
    <3>2. CASE ~IsBroken(j)
      <4>1. (IF j.due THEN {j} ELSE {}) \in SUBSET GroupJob
        OBVIOUS
      <4>2. split' = [split EXCEPT !.todo = @ \ {j},
                                   !.hand = IF j.due THEN {j} ELSE {}]
        BY <2>1, <3>2 DEF SplitReview
      <4> QED
        BY <4>1, <4>2
    <3> QED
      BY <3>1, <3>2
  <2>3. status' \in {"running", "fatal", "exit0", "exit1"}
    BY <2>1 DEF SplitReview
  <2> QED
    BY <1>5, <2>1, <2>2, <2>3 DEF SplitReview
<1>6. CASE SplitSend
  <2>1. PICK j \in split.hand : groupjobs' = Offer(groupjobs, j)
    BY <1>6 DEF SplitSend
  <2>2. groupjobs' \in Channel(GroupJob)
    BY <2>1, OfferContent
  <2> QED
    BY <1>6, <2>2 DEF SplitSend
<1>7. CASE SplitDone
  <2>1. groupjobs' \in Channel(GroupJob)
    BY <1>7 DEF SplitDone, Channel, Close
  <2>2. split' \in [hand : SUBSET GroupJob, todo : SUBSET GroupJob,
                  done : BOOLEAN]
    BY <1>7 DEF SplitDone
  <2>3. inner' \in Int
    BY <1>7 DEF SplitDone
  <2> QED
    BY <1>7, <2>1, <2>2, <2>3 DEF SplitDone
<1>8. CASE PrepareReceive
  <2>1. First(groupjobs) \in GroupJob /\ groupjobs' \in Channel(GroupJob)
    BY <1>8, RestContent DEF PrepareReceive
  <2> QED
    BY <1>8, <2>1 DEF PrepareReceive
<1>9. CASE PrepareSend
  <2>1. PICK j \in prepare.hand : jobs' = Offer(jobs, j)
    BY <1>9 DEF PrepareSend
  <2>2. jobs' \in Channel(GroupJob)
    BY <2>1, OfferContent
  <2> QED
    BY <1>9, <2>2 DEF PrepareSend
<1>10. CASE PrepareDone
  <2>1. jobs' \in Channel(GroupJob)
    BY <1>10 DEF PrepareDone, Channel, Close
  <2>2. prepare' \in [hand : SUBSET GroupJob, done : BOOLEAN]
    BY <1>10 DEF PrepareDone
  <2>3. inner' \in Int
    BY <1>10 DEF PrepareDone
  <2> QED
    BY <1>10, <2>1, <2>2, <2>3 DEF PrepareDone
<1>11. CASE GenerateDone
  BY <1>11 DEF GenerateDone
<1> QED
  BY <1>1, <1>2, <1>3, <1>4, <1>5, <1>6, <1>7,
     <1>8, <1>9, <1>10, <1>11 DEF StageStep

LEMMA WorkerType ==
  ASSUME PipelineTypeOK, NEW w \in Workers, WorkerReceive(w) \/ WorkerRun(w)
  PROVE  /\ PipelineTypeOK'
         /\ WorkerReceive(w) => First(jobs) \in GroupJob
<1> USE DEF PipelineTypeOK
<1>1. CASE WorkerReceive(w)
  <2>1. First(jobs) \in GroupJob /\ jobs' \in Channel(GroupJob)
    BY <1>1, RestContent DEF WorkerReceive
  <2> QED
    BY <1>1, <2>1 DEF WorkerReceive
<1>2. CASE WorkerRun(w) /\ ~WorkerReceive(w)
  BY <1>2 DEF WorkerRun
<1> QED
  BY <1>1, <1>2

-----------------------------------------------------------------------------

USE DEF Idle, Waiting

(* A step moves something, or else it leaves the pipeline's content alone.   *)
LEMMA StepCases ==
  ASSUME [Next]_vars
  PROVE  \/ MainFirst \/ TickerScan \/ TickerSend
         \/ FilterReceive /\ UNCHANGED ownVars
         \/ FilterSend /\ UNCHANGED ownVars
         \/ SplitReceive /\ UNCHANGED ownVars
         \/ (\E j \in split.todo : SplitReview(j)) /\ UNCHANGED ownVars
         \/ SplitSend /\ UNCHANGED ownVars
         \/ PrepareReceive /\ UNCHANGED ownVars
         \/ PrepareSend /\ UNCHANGED ownVars
         \/ \E w \in Workers : Take(w)
         \/ (FilterDone \/ SplitDone \/ PrepareDone \/ GenerateDone)
              /\ UNCHANGED ownVars
         \/ \E w \in Workers : Run(w)
         \/ \E w \in Workers : Serve(w)
         \/ TickerLeave \/ (\E s \in Signals : Deliver(s)) \/ MainSignal
         \/ MainReloaded \/ MainReturn \/ ReloadRace
         \/ UNCHANGED vars
BY DEF Next, Main, Ticker, Stage, StageStep, Work

-----------------------------------------------------------------------------
(* Types.                                                                    *)

LEMMA InitType == Init => TypeOK
<1> SUFFICES ASSUME Init PROVE TypeOK
  OBVIOUS
<1>1. signals \in Seq(Signals) /\ scans \in Seq(Snapshot)
  BY EmptySeq DEF Init
<1>2. wg = Alive
  <2>1. {w \in Workers : ~worker[w].done} = Workers
    BY DEF Init, PipelineInit
  <2>2. Cardinality(Workers) \in Nat
    BY WorkersAssumption, FS_CardinalityType
  <2>3. /\ generate = "wait" /\ ticker.at = "unborn"
        /\ wg = Cardinality(Workers) + 1
    BY DEF Init, PipelineInit
  <2> QED
    BY <2>1, <2>2, <2>3 DEF Alive
<1> QED
  BY <1>1, <1>2, InitPipelineType DEF Init, TypeOK

LEMMA SnapshotType ==
  ASSUME TypeOK, NEW seen \in Seen
  PROVE  /\ NewSnapshot(seen) \in Snapshot /\ NewSnapshot(seen).num = Len(scans) + 1
         /\ Append(scans, NewSnapshot(seen)) \in Seq(Snapshot)
<1>1. scans \in Seq(Snapshot) /\ Len(scans) \in Nat
  BY LenProperties DEF TypeOK
<1>2. seen.procs \in SUBSET Procs /\ seen.diff \in SUBSET Procs
  BY SeenAssumption
<1>3. NewSnapshot(seen) \in Snapshot /\ NewSnapshot(seen).num = Len(scans) + 1
  BY <1>1, <1>2 DEF NewSnapshot, Snapshot
<1> QED
  BY <1>1, <1>3, AppendProperties

(* The counter follows the goroutines.                                       *)
LEMMA NextAlive == TypeOK /\ [Next]_vars => wg' = Alive'
<1> SUFFICES ASSUME TypeOK, [Next]_vars PROVE wg' = Alive'
  OBVIOUS
<1> DEFINE busy == {v \in Workers : ~worker[v].done}
<1>1. /\ wg = Alive /\ IsFiniteSet(busy) /\ Cardinality(busy) \in Nat
      /\ worker \in [Workers -> [hand : SUBSET GroupJob, done : BOOLEAN]]
      /\ main = "first" => ticker.at = "unborn"
      /\ ticker \in [hand : SUBSET Snapshot,
                     at : {"unborn", "select", "send", "done"}]
  BY WorkersAssumption, FS_Subset, FS_CardinalityType DEF TypeOK, PipelineTypeOK
<1>2. ASSUME \A v \in Workers : worker'[v].done = worker[v].done
      PROVE  busy' = busy
  BY <1>2
<1>3. ASSUME NEW w \in busy, worker' = [worker EXCEPT ![w].done = TRUE]
      PROVE  Cardinality(busy') = Cardinality(busy) - 1
  <2>1. busy' = busy \ {w}
    BY <1>1, <1>3
  <2> HIDE DEF busy
  <2> QED
    BY <2>1, <1>1, FS_RemoveElement
<1>4. /\ wg = Cardinality(busy) + (IF generate = "done" THEN 0 ELSE 1)
               + (IF ticker.at \in {"select", "send"} THEN 1 ELSE 0)
      /\ Alive' = Cardinality(busy') + (IF generate' = "done" THEN 0 ELSE 1)
                    + (IF ticker'.at \in {"select", "send"} THEN 1 ELSE 0)
  BY <1>1 DEF Alive
<1>5. CASE UNCHANGED <<worker, generate, wg>> /\ ticker'.at = ticker.at
  <2>1. busy' = busy
    BY <1>5
  <2> HIDE DEF busy
  <2> QED
    BY <1>4, <1>5, <2>1
<1>6. CASE MainFirst
  <2>1. /\ UNCHANGED <<worker, generate>> /\ wg' = wg + 1
        /\ ticker.at = "unborn" /\ ticker'.at = "select"
    BY <1>1, <1>6 DEF MainFirst
  <2>2. busy' = busy
    BY <2>1
  <2> HIDE DEF busy
  <2> QED
    BY <1>1, <1>4, <2>1, <2>2
<1>7. CASE TickerScan \/ TickerSend
  <2>1. /\ UNCHANGED <<worker, generate, wg>>
        /\ ticker.at \in {"select", "send"} /\ ticker'.at \in {"select", "send"}
    BY <1>1, <1>7 DEF TickerScan, TickerSend, pipelineVars
  <2>2. busy' = busy
    BY <2>1
  <2> HIDE DEF busy
  <2> QED
    BY <1>4, <2>1, <2>2
<1>8. CASE TickerLeave
  <2>1. /\ UNCHANGED <<worker, generate>> /\ wg' = wg - 1
        /\ ticker.at = "select" /\ ticker'.at = "done"
    BY <1>1, <1>8 DEF TickerLeave
  <2>2. busy' = busy
    BY <2>1
  <2> HIDE DEF busy
  <2> QED
    BY <1>1, <1>4, <2>1, <2>2
<1>9. CASE GenerateDone /\ UNCHANGED ownVars
  <2>1. /\ UNCHANGED <<worker, ticker>> /\ wg' = wg - 1
        /\ generate = "wait" /\ generate' = "done"
    BY <1>9 DEF GenerateDone, ownVars
  <2>2. busy' = busy
    BY <2>1
  <2> HIDE DEF busy
  <2> QED
    BY <1>1, <1>4, <2>1, <2>2
<1>10. CASE \E w \in Workers : Take(w) \/ Run(w)
  <2>1. PICK w \in Workers : Take(w) \/ Run(w)
    BY <1>10
  <2>2. /\ UNCHANGED <<generate, wg, ticker>>
        /\ \A v \in Workers : worker'[v].done = worker[v].done
    BY <1>1, <2>1 DEF Take, WorkerReceive, Run, WorkerRun, ownVars
  <2>3. busy' = busy
    BY <1>2, <2>2
  <2> HIDE DEF busy
  <2> QED
    BY <1>4, <2>2, <2>3
<1>11. CASE \E w \in Workers : Serve(w)
  <2>1. PICK w \in Workers : Serve(w)
    BY <1>11
  <2>2. UNCHANGED <<generate, ticker>> /\ w \in busy
    BY <2>1 DEF Serve
  <2>3. CASE cancelled
    <3>1. Cardinality(busy') = Cardinality(busy) - 1 /\ wg' = wg - 1
      BY <1>3, <2>1, <2>2, <2>3 DEF Serve
    <3> HIDE DEF busy
    <3> QED
      BY <1>1, <1>4, <2>2, <3>1
  <2>4. CASE ~cancelled
    BY <1>5, <2>1, <2>2, <2>4 DEF Serve
  <2> QED
    BY <2>3, <2>4
<1>12. CASE StageStep /\ ~GenerateDone /\ UNCHANGED ownVars
  <2>1. UNCHANGED <<worker, generate, wg>>
    BY <1>12 DEF StageStep, FilterReceive, FilterSend, FilterDone,
       SplitReceive, SplitReview, SplitSend, SplitDone, PrepareReceive,
       PrepareSend, PrepareDone
  <2> QED
    BY <2>1, <1>5, <1>12 DEF ownVars
<1>13. CASE \/ (\E s \in Signals : Deliver(s)) \/ MainSignal \/ MainReloaded
            \/ MainReturn \/ ReloadRace \/ UNCHANGED vars
  <2>1. UNCHANGED <<worker, generate, wg, ticker>>
    BY <1>13 DEF Deliver, MainSignal, MainReloaded, MainReturn, ReloadRace,
       vars, pipelineVars, ownVars
  <2> QED
    BY <2>1, <1>5
<1> QED
  BY <1>6, <1>7, <1>8, <1>9, <1>10, <1>11, <1>12, <1>13, StepCases
     DEF StageStep

LEMMA NextType == TypeOK /\ [Next]_vars => TypeOK'
<1> SUFFICES ASSUME TypeOK, [Next]_vars PROVE TypeOK'
  OBVIOUS
<1>0. wg' = Alive'
  BY NextAlive
<1> USE <1>0 DEF TypeOK
<1>1. CASE MainFirst
  <2>1. PICK seen \in Seen : /\ inputs' = Offer(inputs, NewSnapshot(seen))
                             /\ scans' = Append(scans, NewSnapshot(seen))
    BY <1>1 DEF MainFirst
  <2>2. inputs' \in Channel(Snapshot) /\ scans' \in Seq(Snapshot)
    BY <2>1, SnapshotType, OfferContent DEF PipelineTypeOK
  <2>3. PipelineTypeOK'
    BY <1>1, <2>2 DEF MainFirst, PipelineTypeOK
  <2>4. ticker' \in [hand : SUBSET Snapshot, at : {"unborn", "select", "send", "done"}]
    BY <1>1 DEF MainFirst
  <2> QED
    BY <1>1, <2>2, <2>3, <2>4 DEF MainFirst
<1>2. CASE TickerScan
  <2>1. PICK seen \in Seen : /\ ticker' = [hand |-> {NewSnapshot(seen)}, at |-> "send"]
                             /\ scans' = Append(scans, NewSnapshot(seen))
    BY <1>2 DEF TickerScan
  <2>2. {NewSnapshot(seen)} \in SUBSET Snapshot /\ scans' \in Seq(Snapshot)
    BY <2>1, SnapshotType
  <2>3. ticker' \in [hand : SUBSET Snapshot, at : {"unborn", "select", "send", "done"}]
    BY <2>1, <2>2
  <2> QED
    BY <1>2, <2>2, <2>3 DEF TickerScan, pipelineVars, PipelineTypeOK
<1>3. CASE TickerSend
  <2>1. PICK s \in ticker.hand : inputs' = Offer(inputs, s)
    BY <1>3 DEF TickerSend
  <2>2. inputs' \in Channel(Snapshot)
    BY <2>1, OfferContent DEF PipelineTypeOK
  <2>3. ticker' \in [hand : SUBSET Snapshot, at : {"unborn", "select", "send", "done"}]
    BY <1>3 DEF TickerSend
  <2> QED
    BY <1>3, <2>2, <2>3 DEF TickerSend, PipelineTypeOK
<1>4. CASE StageStep /\ UNCHANGED ownVars
  BY <1>4, StageType DEF ownVars
<1>5. CASE \E w \in Workers : Take(w)
  <2>1. PICK w \in Workers : Take(w)
    BY <1>5
  <2>2. PipelineTypeOK' /\ First(jobs) \in GroupJob
    BY <2>1, WorkerType DEF Take
  <2> QED
    BY <2>1, <2>2 DEF Take
<1>6. CASE \E w \in Workers : Run(w)
  BY <1>6, WorkerType DEF Run, ownVars
<1>7. CASE \E w \in Workers : Serve(w)
  <2>1. PICK w \in Workers : Serve(w)
    BY <1>7
  <2>2. worker' \in [Workers -> [hand : SUBSET GroupJob, done : BOOLEAN]] /\ wg' \in Int
    <3>1. \/ worker' = worker /\ wg' = wg
          \/ worker' = [worker EXCEPT ![w].done = TRUE] /\ wg' = wg - 1
      BY <2>1 DEF Serve
    <3>2. /\ worker \in [Workers -> [hand : SUBSET GroupJob, done : BOOLEAN]]
          /\ [worker EXCEPT ![w].done = TRUE] \in
               [Workers -> [hand : SUBSET GroupJob, done : BOOLEAN]]
      BY DEF PipelineTypeOK
    <3>3. wg \in Int /\ wg - 1 \in Int
      BY DEF PipelineTypeOK
    <3> HIDE DEF TypeOK
    <3> QED
      BY <3>1, <3>2, <3>3
  <2>3. serving' \in SUBSET Workers
    BY <2>1 DEF Serve
  <2> QED
    BY <2>1, <2>2, <2>3 DEF Serve, PipelineTypeOK
<1>8. CASE TickerLeave
  <2>1. ticker' \in [hand : SUBSET Snapshot, at : {"unborn", "select", "send", "done"}]
    BY <1>8 DEF TickerLeave
  <2> QED
    BY <1>8, <2>1 DEF TickerLeave, PipelineTypeOK
<1>9. CASE \E s \in Signals : Deliver(s)
  <2>1. PICK s \in Signals : Deliver(s)
    BY <1>9
  <2>2. signals' \in Seq(Signals)
    BY <2>1, EmptySeq, AppendProperties DEF Deliver
  <2> QED
    BY <2>1, <2>2 DEF Deliver, pipelineVars, PipelineTypeOK
<1>10. CASE MainSignal
  <2>1. signals' \in Seq(Signals)
    BY <1>10, EmptySeq DEF MainSignal
  <2> QED
    BY <1>10, <2>1 DEF MainSignal, PipelineTypeOK
<1>11. CASE MainReloaded \/ MainReturn \/ ReloadRace
  BY <1>11 DEF MainReloaded, MainReturn, ReloadRace, pipelineVars, ownVars, PipelineTypeOK
<1>12. CASE UNCHANGED vars
  BY <1>12 DEF vars, pipelineVars, ownVars, PipelineTypeOK
<1> QED
  BY <1>1, <1>2, <1>3, <1>4, <1>5, <1>6, <1>7, <1>8, <1>9, <1>10, <1>11,
     <1>12, StepCases DEF StageStep

(* Every channel, hand, list and mark of the daemon keeps its type, for any  *)
(* number of scans and workers, and its WaitGroup counts who is running.     *)
THEOREM TypeCorrect == Spec => []TypeOK
BY InitType, NextType, PTL DEF Spec


-----------------------------------------------------------------------------
(* Numbers of scans along the pipeline.                                      *)

Nums(S) == {x.num : x \in S}

LEMMA NumsOf ==
  /\ Nums({}) = {} /\ \A x : Nums({x}) = {x.num}
  /\ \A A, B : Nums(A \cup B) = Nums(A) \cup Nums(B)
  /\ \A A, B : A \subseteq B => Nums(A) \subseteq Nums(B)
  /\ \A A : \A x \in A : x.num \in Nums(A)
  /\ \A A : \A n \in Nums(A) : \E x \in A : n = x.num
BY DEF Nums

LEMMA NumIn ==
  ASSUME NEW A, NEW x \in A
  PROVE  x.num \in Nums(A)
BY DEF Nums

LEMMA NumsType ==
  /\ \A S \in SUBSET Snapshot : Nums(S) \in SUBSET Nat
  /\ \A S \in SUBSET GroupJob : Nums(S) \in SUBSET Nat
  /\ \A x \in Snapshot : x.num \in Nat
  /\ \A x \in GroupJob : x.num \in Nat
BY DEF Nums, Snapshot, GroupJob

(* A snapshot keeps its number, and gives it to its group jobs.              *)
LEMMA NumsKept ==
  ASSUME NEW s \in Snapshot
  PROVE  Matching(s).num = s.num /\ Nums(ByPgrp(s)) \subseteq {s.num}
<1>1. Matching(s).num = s.num
  BY DEF Matching, Snapshot
<1>2. \A j \in ByPgrp(s) : j.num = s.num
  BY DEF ByPgrp
<1> QED
  BY <1>1, <1>2 DEF Nums

(* A buffer whose numbers go up, by at least d at every place.               *)
Steps(buf, d) ==
  \A i, k \in 1 .. Len(buf) : i < k => buf[i].num + d <= buf[k].num

LEMMA Sent ==
  ASSUME NEW T, \A y \in T : y.num \in Nat, NEW ch \in Channel(T), NEW x \in T,
         NEW d \in {0, 1}, Steps(ch.buf, d),
         \A n \in Nums(Content(ch)) : n + d <= x.num
  PROVE  /\ Steps(Offer(ch, x).buf, d)
         /\ Nums(Content(Offer(ch, x))) = Nums(Content(ch)) \cup {x.num}
<1> DEFINE b == ch.buf
           c == Append(b, x)
<1>1. b \in Seq(T) /\ Offer(ch, x).buf = c
  BY DEF Channel, Offer
<1>2. /\ Len(c) = Len(b) + 1 /\ Len(b) \in Nat /\ c[Len(b) + 1] = x
      /\ \A i \in 1 .. Len(b) : c[i] = b[i]
  BY <1>1, AppendProperties, LenProperties
<1>3. \A i \in 1 .. Len(b) : b[i] \in Content(ch) /\ b[i] \in T
  BY <1>1, RangeEquality, ElementOfSeq DEF Content
<1>4. \A i \in 1 .. Len(b) : b[i].num + d <= x.num
  BY <1>3, NumsOf
<1>5. ASSUME NEW i \in 1 .. Len(c), NEW k \in 1 .. Len(c), i < k
      PROVE  c[i].num + d <= c[k].num
  <2>1. i \in 1 .. Len(b)
    BY <1>2, <1>5
  <2>2. CASE k \in 1 .. Len(b)
    BY <1>2, <1>5, <2>1, <2>2 DEF Steps
  <2>3. CASE k = Len(b) + 1
    BY <1>2, <1>4, <2>1, <2>3
  <2> QED
    BY <1>2, <2>2, <2>3
<1>6. Content(Offer(ch, x)) = Content(ch) \cup {x}
  BY OfferContent
<1>7. Nums(Content(Offer(ch, x))) = Nums(Content(ch)) \cup {x.num}
  BY <1>6, NumsOf
<1>8. Steps(c, d)
  BY <1>5 DEF Steps
<1> QED
  BY <1>1, <1>7, <1>8

LEMMA Received ==
  ASSUME NEW T, \A y \in T : y.num \in Nat, NEW ch \in Channel(T), Ready(ch),
         NEW d \in {0, 1}, Steps(ch.buf, d)
  PROVE  /\ First(ch) \in T /\ First(ch).num \in Nums(Content(ch))
         /\ Steps(Rest(ch).buf, d)
         /\ Nums(Content(Rest(ch))) \subseteq Nums(Content(ch))
         /\ \A n \in Nums(Content(Rest(ch))) : First(ch).num + d <= n
<1> DEFINE b == ch.buf
           c == Tail(b)
<1>1. /\ b \in Seq(T) /\ b # <<>> /\ Rest(ch).buf = c /\ First(ch) = Head(b)
  BY DEF Channel, Rest, Ready, First
<1>2. /\ c \in Seq(T) /\ Len(c) = Len(b) - 1
      /\ \A i \in 1 .. Len(c) : c[i] = b[i+1]
  BY <1>1, HeadTailProperties
<1>3. Len(b) \in Nat \ {0} /\ Head(b) = b[1]
  BY <1>1, LenProperties, EmptySeq
<1>4. Steps(c, d)
  <2> SUFFICES ASSUME NEW i \in 1 .. Len(c), NEW k \in 1 .. Len(c), i < k
               PROVE  c[i].num + d <= c[k].num
    BY DEF Steps
  <2>1. i + 1 \in 1 .. Len(b) /\ k + 1 \in 1 .. Len(b) /\ i + 1 < k + 1
    BY <1>2, <1>3
  <2>2. b[i+1].num + d <= b[k+1].num
    BY <2>1 DEF Steps
  <2> QED
    BY <1>2, <2>2
<1>5. \A i \in 1 .. Len(c) : b[1].num + d <= c[i].num
  <2> SUFFICES ASSUME NEW i \in 1 .. Len(c) PROVE b[1].num + d <= c[i].num
    OBVIOUS
  <2>1. 1 \in 1 .. Len(b) /\ i + 1 \in 1 .. Len(b) /\ 1 < i + 1
    BY <1>2, <1>3
  <2>2. b[1].num + d <= b[i+1].num
    BY <2>1 DEF Steps
  <2> QED
    BY <1>2, <2>2
<1>6. Content(Rest(ch)) = {c[i] : i \in 1 .. Len(c)}
  BY <1>1, <1>2, RangeEquality DEF Content
<1>7. /\ First(ch) \in T /\ First(ch) \in Content(ch)
      /\ Content(Rest(ch)) \subseteq Content(ch)
  <2>1. First(ch) \in T /\ Content(ch) = Content(Rest(ch)) \cup {First(ch)}
    BY RestContent
  <2> QED
    BY <2>1
<1>8. \A n \in Nums(Content(Rest(ch))) : First(ch).num + d <= n
  BY <1>1, <1>3, <1>5, <1>6 DEF Nums
<1> QED
  BY <1>1, <1>4, <1>7, <1>8, NumsOf

LEMMA SentScan ==
  ASSUME NEW ch \in Channel(Snapshot), NEW s \in Snapshot, Steps(ch.buf, 1),
         \A n \in Nums(Content(ch)) : n + 1 <= s.num
  PROVE  /\ Steps(Offer(ch, s).buf, 1)
         /\ Nums(Content(Offer(ch, s))) = Nums(Content(ch)) \cup {s.num}
BY NumsType, Sent

LEMMA SentJob ==
  ASSUME NEW ch \in Channel(GroupJob), NEW j \in GroupJob, Steps(ch.buf, 0),
         \A n \in Nums(Content(ch)) : n + 0 <= j.num
  PROVE  /\ Steps(Offer(ch, j).buf, 0)
         /\ Nums(Content(Offer(ch, j))) = Nums(Content(ch)) \cup {j.num}
BY NumsType, Sent

LEMMA ReceivedScan ==
  ASSUME NEW ch \in Channel(Snapshot), Ready(ch), Steps(ch.buf, 1)
  PROVE  /\ First(ch) \in Snapshot /\ First(ch).num \in Nums(Content(ch))
         /\ Steps(Rest(ch).buf, 1)
         /\ Nums(Content(Rest(ch))) \subseteq Nums(Content(ch))
         /\ \A n \in Nums(Content(Rest(ch))) : First(ch).num + 1 <= n
BY NumsType, Received

LEMMA ReceivedJob ==
  ASSUME NEW ch \in Channel(GroupJob), Ready(ch), Steps(ch.buf, 0)
  PROVE  /\ First(ch) \in GroupJob /\ First(ch).num \in Nums(Content(ch))
         /\ Steps(Rest(ch).buf, 0)
         /\ Nums(Content(Rest(ch))) \subseteq Nums(Content(ch))
         /\ \A n \in Nums(Content(Rest(ch))) : First(ch).num + 0 <= n
BY NumsType, Received

-----------------------------------------------------------------------------
(* The places of the pipeline, from the workers up to the ticker, and whose  *)
(* scans are in them.  A snapshot is followed by later ones only.            *)
Line ==
  [k \in 0..8 |->
     CASE k = 0 -> Nums(taken)
       [] k = 1 -> Nums(Content(jobs))
       [] k = 2 -> Nums(prepare.hand)
       [] k = 3 -> Nums(Content(groupjobs))
       [] k = 4 -> Nums(split.hand \cup split.todo)
       [] k = 5 -> Nums(Content(procs))
       [] k = 6 -> Nums(filter.hand)
       [] k = 7 -> Nums(Content(inputs))
       [] OTHER -> Nums(ticker.hand)]

Gap(k) == IF k >= 5 THEN 1 ELSE 0

InLine(F) ==
  \A i, k \in 0..8 : i < k => \A m \in F[i], n \in F[k] : m + Gap(k) <= n

Lines == [0..8 -> SUBSET Nat]

(* What moves on one place, the first of its place, stays in line;           *)
LEMMA MoveOn ==
  ASSUME NEW F \in Lines, NEW G, InLine(F),
         NEW k \in 1..8, NEW n \in F[k], \A y \in G[k] : n + Gap(k) <= y,
         \A i \in 0..8 : G[i] \subseteq IF i = k - 1 THEN F[i] \cup {n} ELSE F[i]
  PROVE  InLine(G)
<1> SUFFICES ASSUME NEW i \in 0..8, NEW j \in 0..8, i < j,
                    NEW a \in G[i], NEW b \in G[j]
             PROVE  a + Gap(j) <= b
  BY DEF InLine
<1>1. a \in Nat /\ b \in Nat /\ n \in Nat
  BY DEF Lines
<1>2. CASE a \in F[i] /\ b \in F[j]
  BY <1>2 DEF InLine
<1>3. CASE a \notin F[i]
  <2>1. i = k - 1 /\ a = n
    BY <1>3
  <2>2. CASE j = k
    BY <2>1, <2>2
  <2>3. CASE j # k
    <3>1. b \in F[j] /\ k < j
      BY <2>1, <2>3
    <3> QED
      BY <2>1, <3>1 DEF InLine
  <2> QED
    BY <2>2, <2>3
<1>4. CASE a \in F[i] /\ b \notin F[j]
  <2>1. j = k - 1 /\ b = n /\ i < k
    BY <1>4
  <2>2. a + Gap(k) <= n
    BY <1>4, <2>1 DEF InLine
  <2> QED
    BY <1>1, <2>1, <2>2 DEF Gap
<1> QED
  BY <1>2, <1>3, <1>4

(* what enters behind all the others does;                                   *)
LEMMA Enter ==
  ASSUME NEW F \in Lines, NEW G, InLine(F), NEW k \in 7..8, NEW n \in Nat,
         \A i \in 0..8 : \A m \in F[i] : m < n,
         \A i \in 0..8 : G[i] \subseteq IF i = k THEN F[i] \cup {n} ELSE F[i],
         \A i \in 0..8 : k < i => G[i] = {}
  PROVE  InLine(G)
<1> SUFFICES ASSUME NEW i \in 0..8, NEW j \in 0..8, i < j,
                    NEW a \in G[i], NEW b \in G[j]
             PROVE  a + Gap(j) <= b
  BY DEF InLine
<1>1. j <= k /\ i # k
  OBVIOUS
<1>2. a \in F[i] /\ a \in Nat
  BY <1>1 DEF Lines
<1>3. CASE b \in F[j]
  BY <1>2, <1>3 DEF InLine
<1>4. CASE b = n
  BY <1>2, <1>4 DEF Gap
<1> QED
  BY <1>3, <1>4

(* and so does what is left when something leaves.                           *)
LEMMA Leave ==
  ASSUME NEW F, NEW G, InLine(F), \A i \in 0..8 : G[i] \subseteq F[i]
  PROVE  InLine(G)
BY DEF InLine

LineIs ==
  /\ Line[0] = Nums(taken) /\ Line[1] = Nums(Content(jobs))
  /\ Line[2] = Nums(prepare.hand) /\ Line[3] = Nums(Content(groupjobs))
  /\ Line[4] = Nums(split.hand \cup split.todo)
  /\ Line[5] = Nums(Content(procs)) /\ Line[6] = Nums(filter.hand)
  /\ Line[7] = Nums(Content(inputs)) /\ Line[8] = Nums(ticker.hand)

LEMMA LineOf == LineIs /\ LineIs'
BY DEF LineIs, Line

LEMMA LineType == TypeOK => Line \in Lines
<1> SUFFICES ASSUME TypeOK PROVE Line \in Lines
  OBVIOUS
<1>1. /\ Content(jobs) \in SUBSET GroupJob /\ Content(groupjobs) \in SUBSET GroupJob
      /\ Content(procs) \in SUBSET Snapshot /\ Content(inputs) \in SUBSET Snapshot
  BY EmptyContent DEF TypeOK, PipelineTypeOK
<1>2. \A k \in 0..8 : Line[k] \in SUBSET Nat
  <2>1. /\ taken \in SUBSET GroupJob /\ prepare.hand \in SUBSET GroupJob
        /\ (split.hand \cup split.todo) \in SUBSET GroupJob
        /\ filter.hand \in SUBSET Snapshot /\ ticker.hand \in SUBSET Snapshot
    BY DEF TypeOK, PipelineTypeOK
  <2>2. LineIs
    BY LineOf
  <2>3. \A k \in 0..8 : k \in {0, 1, 2, 3, 4, 5, 6, 7, 8}
    OBVIOUS
  <2> QED
    BY <1>1, <2>1, <2>2, <2>3, NumsType DEF LineIs
<1>3. Line = [k \in 0..8 |-> Line[k]]
  BY DEF Line
<1> QED
  BY <1>2, <1>3 DEF Lines


-----------------------------------------------------------------------------
(* The order of the scans.  The snapshots of a buffer are of different       *)
(* scans; its jobs may be of one, and those with the splitter are.           *)
Queues ==
  /\ Steps(jobs.buf, 0) /\ Steps(groupjobs.buf, 0)
  /\ Steps(procs.buf, 1) /\ Steps(inputs.buf, 1)

Recent == \A k \in 0..8 : \A n \in Line[k] : n <= Len(scans)
OneScan == \A m, n \in Line[4] : m = n

Born ==
  /\ main = "first" => ticker.at = "unborn"
  /\ ticker.at # "send" => ticker.hand = {}

OrderInv == TypeOK /\ InLine(Line) /\ Queues /\ Recent /\ OneScan /\ Born

-----------------------------------------------------------------------------
(* The whereabouts of jobs.                                                  *)
JobPlace ==
  [k \in 0..5 |->
     CASE k = 0 -> taken
       [] k = 1 -> Content(jobs)
       [] k = 2 -> prepare.hand
       [] k = 3 -> Content(groupjobs)
       [] k = 4 -> split.hand
       [] OTHER -> split.todo]

Apart(F) == \A i, k \in 0..5 : i # k => F[i] \cap F[k] = {}

Once == Apart(JobPlace) /\ IsInjective(jobs.buf) /\ IsInjective(groupjobs.buf)

AtMostOne(S) == \A x, y \in S : x = y

Lone ==
  /\ AtMostOne(ticker.hand) /\ AtMostOne(filter.hand)
  /\ AtMostOne(split.hand) /\ AtMostOne(prepare.hand)

(* Snapshots on their way are those that the scans took.                     *)
Genuine ==
  /\ \A i \in DOMAIN scans : scans[i].num = i
  /\ \A s \in Content(inputs) \cup ticker.hand :
       s.num \in DOMAIN scans /\ s = scans[s.num]
  /\ \A s \in Content(procs) \cup filter.hand :
       s.num \in DOMAIN scans /\ s = Matching(scans[s.num])

NothingLost ==
  \A i \in DOMAIN scans : \A j \in Due(scans[i]) :
    j \in taken \cup PendingJobs \/ \E s \in PendingScans : s.num = i

AccountInv == OrderInv /\ Lone /\ Genuine /\ Once /\ NothingLost


-----------------------------------------------------------------------------
(* Steps of one place keep the line and stay behind the scans.               *)
LEMMA Shift ==
  ASSUME OrderInv, scans' = scans,
         NEW k \in 1..8, NEW j \in 0..7, k = j + 1, NEW n \in Line[k],
         \A y \in Line'[k] : n + Gap(k) <= y,
         \A i \in 0..8 :
           Line'[i] \subseteq IF i = j THEN Line[i] \cup {n} ELSE Line[i]
  PROVE  InLine(Line)' /\ Recent'
<1>1. Line \in Lines /\ InLine(Line) /\ Recent
  BY LineType DEF OrderInv
<1>2. InLine(Line')
  <2> DEFINE F == Line
             G == Line'
  <2>1. F \in Lines /\ InLine(F) /\ n \in F[k] /\ \A y \in G[k] : n + Gap(k) <= y
    BY <1>1
  <2>2. \A i \in 0..8 : G[i] \subseteq IF i = k - 1 THEN F[i] \cup {n} ELSE F[i]
    <3>1. \A i \in 0..8 : i = k - 1 <=> i = j
      OBVIOUS
    <3> QED
      BY <3>1
  <2> HIDE DEF F, G
  <2>3. InLine(G)
    BY <2>1, <2>2, MoveOn
  <2> QED
    BY <2>3 DEF G
<1>3. \A i \in 0..8 : \A m \in Line'[i] : m <= Len(scans')
  BY <1>1 DEF Recent
<1> QED
  BY <1>2, <1>3 DEF Recent, InLine

LEMMA Join ==
  ASSUME OrderInv, Len(scans') = Len(scans) + 1, NEW k \in 7..8,
         \A i \in 0..8 :
           Line'[i] \subseteq IF i = k THEN Line[i] \cup {Len(scans')} ELSE Line[i],
         \A i \in 0..8 : k < i => Line'[i] = {}
  PROVE  InLine(Line)' /\ Recent'
<1>1. Line \in Lines /\ InLine(Line) /\ Recent
  BY LineType DEF OrderInv
<1>2. Len(scans) \in Nat
  BY LenProperties DEF OrderInv, TypeOK
<1>3. \A i \in 0..8 : \A m \in Line[i] : m < Len(scans')
  BY <1>1, <1>2 DEF Recent, Lines
<1>4. InLine(Line')
  <2> DEFINE F == Line
             G == Line'
             n == Len(scans')
  <2>1. /\ F \in Lines /\ InLine(F) /\ n \in Nat
        /\ \A i \in 0..8 : \A m \in F[i] : m < n
    BY <1>1, <1>2, <1>3
  <2>2. /\ \A i \in 0..8 : G[i] \subseteq IF i = k THEN F[i] \cup {n} ELSE F[i]
        /\ \A i \in 0..8 : k < i => G[i] = {}
    OBVIOUS
  <2> HIDE DEF F, G, n
  <2>3. InLine(G)
    BY <2>1, <2>2, Enter
  <2> QED
    BY <2>3 DEF G
<1>5. \A i \in 0..8 : \A m \in Line'[i] : m <= Len(scans')
  <2>1. Line[0] \subseteq Nat
    BY <1>1 DEF Lines
  <2> QED
    BY <1>1, <1>2, <1>3 DEF Lines
<1> QED
  BY <1>4, <1>5 DEF Recent, InLine

Nine == {0, 1, 2, 3, 4, 5, 6, 7, 8}

LEMMA NineOf == 0..8 = Nine
BY DEF Nine

LEMMA InitOrder == Init => OrderInv
<1> SUFFICES ASSUME Init PROVE OrderInv
  OBVIOUS
<1>1. TypeOK
  BY InitType
<1>2. /\ Content(jobs) = {} /\ Content(groupjobs) = {} /\ Content(procs) = {}
      /\ Content(inputs) = {}
  BY EmptyContent, <1>1 DEF Init, PipelineInit, Open, TypeOK, PipelineTypeOK
<1>3. \A k \in 0..8 : Line[k] = {}
  BY <1>2, LineOf, NumsOf, NineOf DEF LineIs, Nine, Init, PipelineInit
<1>4. InLine(Line) /\ Recent /\ OneScan
  BY <1>3 DEF InLine, Recent, OneScan
<1>5. Queues
  <2>1. Len(<<>>) = 0
    OBVIOUS
  <2> QED
    BY <2>1 DEF Queues, Steps, Init, PipelineInit, Open
<1>6. Born
  BY DEF Born, Init
<1> QED
  BY <1>1, <1>4, <1>5, <1>6 DEF OrderInv

(* Where two neighbours stand.                                               *)
LEMMA Neighbours ==
  ASSUME OrderInv, NEW i \in 0..7, NEW m \in Line[i], NEW n \in Line[i+1]
  PROVE  m + Gap(i + 1) <= n
BY DEF OrderInv, InLine

LEMMA FirstOrder ==
  ASSUME OrderInv, TypeOK', MainFirst
  PROVE  OrderInv'
<1>1. PICK seen \in Seen : /\ inputs' = Offer(inputs, NewSnapshot(seen))
                           /\ scans' = Append(scans, NewSnapshot(seen))
  BY DEF MainFirst
<1> DEFINE s == NewSnapshot(seen)
<1>2. /\ s \in Snapshot /\ s.num = Len(scans) + 1 /\ Len(scans) \in Nat
      /\ Len(scans') = s.num
  BY <1>1, SnapshotType, AppendProperties, LenProperties DEF OrderInv, TypeOK
<1>3. /\ ticker.hand = {} /\ ticker'.hand = {} /\ ticker'.at = "select"
      /\ main' = "loop"
  BY DEF MainFirst, OrderInv, Born
<1>4. /\ procs' = procs /\ groupjobs' = groupjobs /\ jobs' = jobs
      /\ filter' = filter /\ split' = split /\ prepare' = prepare /\ taken' = taken
  BY DEF MainFirst
<1> HIDE DEF s
<1>5. \A m \in Nums(Content(inputs)) : m + 1 <= s.num
  BY <1>2, LineOf, LineType DEF OrderInv, Recent, LineIs, Lines
<1>6. /\ Steps(inputs'.buf, 1)
      /\ Nums(Content(inputs')) = Nums(Content(inputs)) \cup {s.num}
  <2>1. inputs' = Offer(inputs, s) /\ inputs \in Channel(Snapshot) /\ Steps(inputs.buf, 1)
    BY <1>1 DEF OrderInv, Queues, TypeOK, PipelineTypeOK, s
  <2> QED
    BY <1>2, <1>5, <2>1, SentScan
<1>7. \A i \in 0..8 :
        /\ Line'[i] \subseteq IF i = 7 THEN Line[i] \cup {Len(scans')} ELSE Line[i]
        /\ 7 < i => Line'[i] = {}
  BY <1>2, <1>3, <1>4, <1>6, LineOf, NineOf, NumsOf DEF LineIs, Nine
<1>8. InLine(Line)' /\ Recent'
  BY <1>2, <1>7, Join
<1>9. Queues' /\ OneScan' /\ Born'
  BY <1>3, <1>4, <1>6, LineOf DEF OrderInv, Queues, OneScan, Born, LineIs
<1> QED
  BY <1>8, <1>9 DEF OrderInv

LEMMA ScanOrder ==
  ASSUME OrderInv, TypeOK', TickerScan
  PROVE  OrderInv'
<1>1. PICK seen \in Seen : /\ ticker' = [hand |-> {NewSnapshot(seen)}, at |-> "send"]
                           /\ scans' = Append(scans, NewSnapshot(seen))
  BY DEF TickerScan
<1>2. /\ NewSnapshot(seen).num = Len(scans) + 1 /\ Len(scans) \in Nat
      /\ Len(scans') = NewSnapshot(seen).num
  BY <1>1, SnapshotType, AppendProperties, LenProperties DEF OrderInv, TypeOK
<1>3. /\ procs' = procs /\ groupjobs' = groupjobs /\ jobs' = jobs
      /\ filter' = filter /\ split' = split /\ prepare' = prepare /\ taken' = taken
      /\ inputs' = inputs /\ main' = main /\ ticker.at = "select"
  BY DEF TickerScan, pipelineVars
<1>4. ticker'.hand = {NewSnapshot(seen)} /\ ticker'.at = "send"
  BY <1>1
<1>5. \A i \in 0..8 :
        Line'[i] \subseteq IF i = 8 THEN Line[i] \cup {Len(scans')} ELSE Line[i]
  BY <1>2, <1>3, <1>4, LineOf, NineOf, NumsOf DEF LineIs, Nine
<1>6. InLine(Line)' /\ Recent'
  BY <1>2, <1>5, Join
<1>7. Queues' /\ OneScan' /\ Born'
  BY <1>3, <1>4, LineOf DEF OrderInv, Queues, OneScan, Born, LineIs
<1> QED
  BY <1>6, <1>7 DEF OrderInv

LEMMA SendOrder ==
  ASSUME OrderInv, TypeOK', TickerSend
  PROVE  OrderInv'
<1>1. PICK s \in ticker.hand : inputs' = Offer(inputs, s)
  BY DEF TickerSend
<1>2. /\ procs' = procs /\ groupjobs' = groupjobs /\ jobs' = jobs
      /\ filter' = filter /\ split' = split /\ prepare' = prepare /\ taken' = taken
      /\ scans' = scans /\ main' = main /\ ticker.at = "send"
      /\ ticker'.hand = {} /\ ticker'.at = "select"
  BY DEF TickerSend
<1>3. s \in Snapshot /\ s.num \in Line[8]
  <2>1. s \in Snapshot
    BY DEF OrderInv, TypeOK
  <2>2. Line[8] = Nums(ticker.hand)
    BY LineOf DEF LineIs
  <2> QED
    BY <1>1, <2>1, <2>2, NumIn
<1>4. \A m \in Nums(Content(inputs)) : m + 1 <= s.num
  BY <1>3, Neighbours, LineOf DEF LineIs, Gap
<1>5. /\ Steps(inputs'.buf, 1)
      /\ Nums(Content(inputs')) = Nums(Content(inputs)) \cup {s.num}
  <2>1. inputs \in Channel(Snapshot) /\ Steps(inputs.buf, 1)
    BY DEF OrderInv, Queues, TypeOK, PipelineTypeOK
  <2> QED
    BY <1>1, <1>3, <1>4, <2>1, SentScan
<1>6. /\ \A i \in 0..8 :
           Line'[i] \subseteq IF i = 7 THEN Line[i] \cup {s.num} ELSE Line[i]
      /\ Line'[8] = {}
  BY <1>2, <1>5, LineOf, NineOf, NumsOf DEF LineIs, Nine
<1>7. InLine(Line)' /\ Recent'
  BY <1>2, <1>3, <1>6, Shift
<1>8. Queues' /\ OneScan' /\ Born'
  BY <1>2, <1>5, LineOf DEF OrderInv, Queues, OneScan, Born, LineIs
<1> QED
  BY <1>7, <1>8 DEF OrderInv


(* What each goroutine leaves alone.                                         *)
LEMMA FilterReceiveOrder ==
  ASSUME OrderInv, TypeOK', FilterReceive, UNCHANGED ownVars
  PROVE  OrderInv'
<1> DEFINE s == First(inputs)
<1>1. /\ procs' = procs /\ groupjobs' = groupjobs /\ jobs' = jobs
      /\ split' = split /\ prepare' = prepare
      /\ taken' = taken /\ scans' = scans /\ main' = main /\ ticker' = ticker
      /\ Ready(inputs) /\ inputs' = Rest(inputs)
  BY DEF FilterReceive, ownVars
<1>2. filter'.hand \subseteq {Matching(s)}
  BY DEF FilterReceive, OrderInv, TypeOK, PipelineTypeOK
<1>3. inputs \in Channel(Snapshot) /\ Steps(inputs.buf, 1)
  BY DEF OrderInv, Queues, TypeOK, PipelineTypeOK
<1>4. /\ s \in Snapshot /\ s.num \in Nums(Content(inputs)) /\ Steps(inputs'.buf, 1)
      /\ Nums(Content(inputs')) \subseteq Nums(Content(inputs))
      /\ \A n \in Nums(Content(inputs')) : s.num + 1 <= n
  BY <1>1, <1>3, ReceivedScan
<1>5. Nums(filter'.hand) \subseteq {s.num}
  BY <1>2, <1>4, NumsKept DEF Nums
<1> HIDE DEF s
<1>6. /\ \A i \in 0..8 :
           Line'[i] \subseteq IF i = 6 THEN Line[i] \cup {s.num} ELSE Line[i]
      /\ s.num \in Line[7] /\ \A n \in Line'[7] : s.num + Gap(7) <= n
  BY <1>1, <1>4, <1>5, LineOf, NineOf DEF LineIs, Nine, Gap
<1>7. InLine(Line)' /\ Recent'
  BY <1>1, <1>6, Shift
<1>8. Queues' /\ OneScan' /\ Born'
  BY <1>1, <1>4, LineOf DEF OrderInv, Queues, OneScan, Born, LineIs
<1> QED
  BY <1>7, <1>8 DEF OrderInv

LEMMA FilterSendOrder ==
  ASSUME OrderInv, TypeOK', FilterSend, UNCHANGED ownVars
  PROVE  OrderInv'
<1>1. PICK s \in filter.hand : procs' = Offer(procs, s)
  BY DEF FilterSend
<1>2. /\ inputs' = inputs /\ groupjobs' = groupjobs /\ jobs' = jobs
      /\ split' = split /\ prepare' = prepare
      /\ taken' = taken /\ scans' = scans /\ main' = main /\ ticker' = ticker
  BY DEF FilterSend, ownVars
<1>3. filter'.hand = {} /\ s \in Snapshot
  BY DEF FilterSend, OrderInv, TypeOK, PipelineTypeOK
<1>4. s.num \in Line[6]
  BY <1>1, LineOf, NumIn DEF LineIs
<1>5. \A m \in Nums(Content(procs)) : m + 1 <= s.num
  BY <1>4, Neighbours, LineOf DEF LineIs, Gap
<1>6. procs \in Channel(Snapshot) /\ Steps(procs.buf, 1)
  BY DEF OrderInv, Queues, TypeOK, PipelineTypeOK
<1>7. /\ Steps(procs'.buf, 1)
      /\ Nums(Content(procs')) = Nums(Content(procs)) \cup {s.num}
  BY <1>1, <1>3, <1>5, <1>6, SentScan
<1>8. /\ \A i \in 0..8 :
           Line'[i] \subseteq IF i = 5 THEN Line[i] \cup {s.num} ELSE Line[i]
      /\ Line'[6] = {}
  BY <1>2, <1>3, <1>7, LineOf, NineOf, NumsOf DEF LineIs, Nine
<1>9. InLine(Line)' /\ Recent'
  BY <1>2, <1>4, <1>8, Shift
<1>10. Queues' /\ OneScan' /\ Born'
  BY <1>2, <1>7, LineOf DEF OrderInv, Queues, OneScan, Born, LineIs
<1> QED
  BY <1>9, <1>10 DEF OrderInv

LEMMA SplitReceiveOrder ==
  ASSUME OrderInv, TypeOK', SplitReceive, UNCHANGED ownVars
  PROVE  OrderInv'
<1> DEFINE s == First(procs)
<1>1. /\ inputs' = inputs /\ groupjobs' = groupjobs /\ jobs' = jobs
      /\ filter' = filter /\ prepare' = prepare
      /\ taken' = taken /\ scans' = scans /\ main' = main /\ ticker' = ticker
      /\ Ready(procs) /\ procs' = Rest(procs)
  BY DEF SplitReceive, ownVars
<1>2. split'.hand = {} /\ split'.todo = ByPgrp(s)
  BY DEF SplitReceive, OrderInv, TypeOK, PipelineTypeOK
<1>3. procs \in Channel(Snapshot) /\ Steps(procs.buf, 1)
  BY DEF OrderInv, Queues, TypeOK, PipelineTypeOK
<1>4. /\ s \in Snapshot /\ s.num \in Nums(Content(procs)) /\ Steps(procs'.buf, 1)
      /\ Nums(Content(procs')) \subseteq Nums(Content(procs))
      /\ \A n \in Nums(Content(procs')) : s.num + 1 <= n
  BY <1>1, <1>3, ReceivedScan
<1>5. Nums(split'.hand \cup split'.todo) \subseteq {s.num}
  BY <1>2, <1>4, NumsKept DEF Nums
<1> HIDE DEF s
<1>6. /\ \A i \in 0..8 :
           Line'[i] \subseteq IF i = 4 THEN Line[i] \cup {s.num} ELSE Line[i]
      /\ s.num \in Line[5] /\ \A n \in Line'[5] : s.num + Gap(5) <= n
  BY <1>1, <1>4, <1>5, LineOf, NineOf DEF LineIs, Nine, Gap
<1>7. InLine(Line)' /\ Recent'
  BY <1>1, <1>6, Shift
<1>8. Queues' /\ OneScan' /\ Born'
  BY <1>1, <1>4, <1>5, LineOf DEF OrderInv, Queues, OneScan, Born, LineIs
<1> QED
  BY <1>7, <1>8 DEF OrderInv

LEMMA SplitSendOrder ==
  ASSUME OrderInv, TypeOK', SplitSend, UNCHANGED ownVars
  PROVE  OrderInv'
<1>1. PICK j \in split.hand : groupjobs' = Offer(groupjobs, j)
  BY DEF SplitSend
<1>2. /\ inputs' = inputs /\ procs' = procs /\ jobs' = jobs
      /\ filter' = filter /\ prepare' = prepare
      /\ taken' = taken /\ scans' = scans /\ main' = main /\ ticker' = ticker
  BY DEF SplitSend, ownVars
<1>3. split'.hand = {} /\ split'.todo = split.todo /\ j \in GroupJob
  BY DEF SplitSend, OrderInv, TypeOK, PipelineTypeOK
<1>4. j.num \in Line[4]
  BY <1>1, LineOf, NumIn DEF LineIs
<1>5. \A m \in Nums(Content(groupjobs)) : m + 0 <= j.num
  BY <1>4, Neighbours, LineOf DEF LineIs, Gap
<1>6. groupjobs \in Channel(GroupJob) /\ Steps(groupjobs.buf, 0)
  BY DEF OrderInv, Queues, TypeOK, PipelineTypeOK
<1>7. /\ Steps(groupjobs'.buf, 0)
      /\ Nums(Content(groupjobs')) = Nums(Content(groupjobs)) \cup {j.num}
  BY <1>1, <1>3, <1>5, <1>6, SentJob
<1>8. \A i \in 0..8 :
        Line'[i] \subseteq IF i = 3 THEN Line[i] \cup {j.num} ELSE Line[i]
  <2>1. Nums(split'.hand \cup split'.todo) \subseteq Nums(split.hand \cup split.todo)
    BY <1>3, NumsOf
  <2> QED
    BY <1>2, <1>7, <2>1, LineOf, NineOf DEF LineIs, Nine
<1>9. \A n \in Line'[4] : j.num + Gap(4) <= n
  <2>1. \A n \in Line'[4] : n \in Line[4]
    BY <1>8
  <2>2. j.num \in Nat
    BY <1>3, NumsType
  <2> QED
    BY <1>4, <2>1, <2>2 DEF OrderInv, OneScan, Gap
<1>10. InLine(Line)' /\ Recent'
  BY <1>2, <1>4, <1>8, <1>9, Shift
<1>11. OneScan'
  <2>1. Line'[4] \subseteq Line[4]
    BY <1>8
  <2> QED
    BY <2>1 DEF OrderInv, OneScan
<1>12. Queues' /\ Born'
  BY <1>2, <1>7 DEF OrderInv, Queues, Born
<1> QED
  BY <1>10, <1>11, <1>12 DEF OrderInv

LEMMA PrepareReceiveOrder ==
  ASSUME OrderInv, TypeOK', PrepareReceive, UNCHANGED ownVars
  PROVE  OrderInv'
<1> DEFINE j == First(groupjobs)
<1>1. /\ inputs' = inputs /\ procs' = procs /\ jobs' = jobs
      /\ filter' = filter /\ split' = split
      /\ taken' = taken /\ scans' = scans /\ main' = main /\ ticker' = ticker
      /\ Ready(groupjobs) /\ groupjobs' = Rest(groupjobs)
  BY DEF PrepareReceive, ownVars
<1>2. prepare'.hand = {j}
  BY DEF PrepareReceive, OrderInv, TypeOK, PipelineTypeOK
<1>3. groupjobs \in Channel(GroupJob) /\ Steps(groupjobs.buf, 0)
  BY DEF OrderInv, Queues, TypeOK, PipelineTypeOK
<1>4. /\ j.num \in Nums(Content(groupjobs)) /\ Steps(groupjobs'.buf, 0)
      /\ Nums(Content(groupjobs')) \subseteq Nums(Content(groupjobs))
      /\ \A n \in Nums(Content(groupjobs')) : j.num + 0 <= n
  BY <1>1, <1>3, ReceivedJob
<1> HIDE DEF j
<1>5. /\ \A i \in 0..8 :
           Line'[i] \subseteq IF i = 2 THEN Line[i] \cup {j.num} ELSE Line[i]
      /\ j.num \in Line[3] /\ \A n \in Line'[3] : j.num + Gap(3) <= n
  BY <1>1, <1>2, <1>4, LineOf, NineOf, NumsOf DEF LineIs, Nine, Gap
<1>6. InLine(Line)' /\ Recent'
  BY <1>1, <1>5, Shift
<1>7. Queues' /\ OneScan' /\ Born'
  BY <1>1, <1>4, LineOf DEF OrderInv, Queues, OneScan, Born, LineIs
<1> QED
  BY <1>6, <1>7 DEF OrderInv

LEMMA PrepareSendOrder ==
  ASSUME OrderInv, TypeOK', PrepareSend, UNCHANGED ownVars
  PROVE  OrderInv'
<1>1. PICK j \in prepare.hand : jobs' = Offer(jobs, j)
  BY DEF PrepareSend
<1>2. /\ inputs' = inputs /\ procs' = procs /\ groupjobs' = groupjobs
      /\ filter' = filter /\ split' = split
      /\ taken' = taken /\ scans' = scans /\ main' = main /\ ticker' = ticker
  BY DEF PrepareSend, ownVars
<1>3. prepare'.hand = {} /\ j \in GroupJob
  BY DEF PrepareSend, OrderInv, TypeOK, PipelineTypeOK
<1>4. j.num \in Line[2]
  BY <1>1, LineOf, NumIn DEF LineIs
<1>5. \A m \in Nums(Content(jobs)) : m + 0 <= j.num
  BY <1>4, Neighbours, LineOf DEF LineIs, Gap
<1>6. jobs \in Channel(GroupJob) /\ Steps(jobs.buf, 0)
  BY DEF OrderInv, Queues, TypeOK, PipelineTypeOK
<1>7. /\ Steps(jobs'.buf, 0)
      /\ Nums(Content(jobs')) = Nums(Content(jobs)) \cup {j.num}
  BY <1>1, <1>3, <1>5, <1>6, SentJob
<1>8. /\ \A i \in 0..8 :
           Line'[i] \subseteq IF i = 1 THEN Line[i] \cup {j.num} ELSE Line[i]
      /\ Line'[2] = {}
  BY <1>2, <1>3, <1>7, LineOf, NineOf, NumsOf DEF LineIs, Nine
<1>9. InLine(Line)' /\ Recent'
  BY <1>2, <1>4, <1>8, Shift
<1>10. Queues' /\ OneScan' /\ Born'
  BY <1>2, <1>7, LineOf DEF OrderInv, Queues, OneScan, Born, LineIs
<1> QED
  BY <1>9, <1>10 DEF OrderInv

LEMMA TakeOrder ==
  ASSUME OrderInv, TypeOK', NEW w \in Workers, Take(w)
  PROVE  OrderInv'
<1> DEFINE j == First(jobs)
<1>1. /\ inputs' = inputs /\ procs' = procs /\ groupjobs' = groupjobs
      /\ filter' = filter /\ split' = split /\ prepare' = prepare
      /\ taken' = taken \cup {j} /\ scans' = scans /\ main' = main
      /\ ticker' = ticker /\ Ready(jobs) /\ jobs' = Rest(jobs)
  BY DEF Take, WorkerReceive
<1>2. jobs \in Channel(GroupJob) /\ Steps(jobs.buf, 0)
  BY DEF OrderInv, Queues, TypeOK, PipelineTypeOK
<1>3. /\ j.num \in Nums(Content(jobs)) /\ Steps(jobs'.buf, 0)
      /\ Nums(Content(jobs')) \subseteq Nums(Content(jobs))
      /\ \A n \in Nums(Content(jobs')) : j.num + 0 <= n
  BY <1>1, <1>2, ReceivedJob
<1> HIDE DEF j
<1>4. /\ \A i \in 0..8 :
           Line'[i] \subseteq IF i = 0 THEN Line[i] \cup {j.num} ELSE Line[i]
      /\ j.num \in Line[1] /\ \A n \in Line'[1] : j.num + Gap(1) <= n
  BY <1>1, <1>3, LineOf, NineOf, NumsOf DEF LineIs, Nine, Gap
<1>5. InLine(Line)' /\ Recent'
  BY <1>1, <1>4, Shift
<1>6. Queues' /\ OneScan' /\ Born'
  BY <1>1, <1>3, LineOf DEF OrderInv, Queues, OneScan, Born, LineIs
<1> QED
  BY <1>5, <1>6 DEF OrderInv

(* Steps that move nothing: a return, a signal, a look at the context.       *)
Still ==
  /\ inputs'.buf = inputs.buf /\ procs'.buf = procs.buf
  /\ groupjobs'.buf = groupjobs.buf /\ jobs'.buf = jobs.buf
  /\ filter'.hand = filter.hand /\ prepare'.hand = prepare.hand
  /\ split'.hand = split.hand /\ split'.todo = split.todo
  /\ ticker'.hand = ticker.hand /\ taken' = taken /\ scans' = scans

Quiet ==
  \/ (FilterDone \/ SplitDone \/ PrepareDone \/ GenerateDone) /\ UNCHANGED ownVars
  \/ \E w \in Workers : Run(w)
  \/ \E w \in Workers : Serve(w)
  \/ TickerLeave \/ (\E s \in Signals : Deliver(s)) \/ MainSignal
  \/ MainReloaded \/ MainReturn \/ ReloadRace
  \/ UNCHANGED vars

LEMMA QuietStill ==
  ASSUME TypeOK, Born, Quiet
  PROVE  Still /\ Born'
<1>1. CASE (FilterDone \/ SplitDone \/ PrepareDone \/ GenerateDone) /\ UNCHANGED ownVars
  <2>1. Still
    BY <1>1 DEF FilterDone, SplitDone, PrepareDone, GenerateDone, ownVars, Close,
                Still, TypeOK, PipelineTypeOK, Channel
  <2> QED
    BY <1>1, <2>1 DEF ownVars, Born
<1>2. CASE \E w \in Workers : Run(w)
  BY <1>2 DEF Run, WorkerRun, ownVars, Still, Born
<1>3. CASE \E w \in Workers : Serve(w)
  BY <1>3 DEF Serve, Still, Born
<1>4. CASE TickerLeave
  <2>1. ticker'.hand = ticker.hand /\ ticker'.at = "done" /\ ticker.at = "select"
    BY <1>4 DEF TickerLeave, TypeOK
  <2> QED
    BY <1>4, <2>1 DEF TickerLeave, Still, Born
<1>5. CASE \E s \in Signals : Deliver(s)
  BY <1>5 DEF Deliver, pipelineVars, Still, Born
<1>6. CASE MainSignal \/ MainReloaded
  BY <1>6 DEF MainSignal, MainReloaded, pipelineVars, Still, Born
<1>7. CASE MainReturn \/ ReloadRace \/ UNCHANGED vars
  BY <1>7 DEF MainReturn, ReloadRace, vars, pipelineVars, ownVars, Still, Born
<1> QED
  BY <1>1, <1>2, <1>3, <1>4, <1>5, <1>6, <1>7 DEF Quiet

(* What a review does to the splitter's jobs: one becomes the one in hand,   *)
(* or is dropped; a broken one stays, for the process ends.                  *)
LEMMA ReviewIs ==
  ASSUME TypeOK, NEW j \in split.todo, SplitReview(j), UNCHANGED ownVars
  PROVE  /\ inputs' = inputs /\ procs' = procs /\ groupjobs' = groupjobs
         /\ jobs' = jobs /\ filter' = filter /\ prepare' = prepare
         /\ taken' = taken /\ scans' = scans /\ main' = main /\ ticker' = ticker
         /\ split.hand = {}
         /\ \/ split'.hand = {} /\ split'.todo = split.todo
            \/ /\ split'.hand = IF j.due THEN {j} ELSE {}
               /\ split'.todo = split.todo \ {j}
<1>1. CASE IsBroken(j)
  BY <1>1 DEF SplitReview, ownVars
<1>2. CASE ~IsBroken(j)
  <2>1. split' = [split EXCEPT !.todo = @ \ {j}, !.hand = IF j.due THEN {j} ELSE {}]
    BY <1>2 DEF SplitReview
  <2>2. split'.hand = (IF j.due THEN {j} ELSE {}) /\ split'.todo = split.todo \ {j}
    BY <2>1 DEF TypeOK, PipelineTypeOK
  <2> QED
    BY <2>2 DEF SplitReview, ownVars
<1> QED
  BY <1>1, <1>2

(* Neither has the line anything new for it.                                 *)
LEMMA NothingNew ==
  ASSUME OrderInv, TypeOK', Born',
         inputs'.buf = inputs.buf, procs'.buf = procs.buf,
         groupjobs'.buf = groupjobs.buf, jobs'.buf = jobs.buf,
         filter'.hand = filter.hand, prepare'.hand = prepare.hand,
         split'.hand \cup split'.todo \subseteq split.hand \cup split.todo,
         ticker'.hand = ticker.hand, taken' = taken, scans' = scans
  PROVE  OrderInv'
<1>1. /\ Content(inputs') = Content(inputs) /\ Content(procs') = Content(procs)
      /\ Content(groupjobs') = Content(groupjobs) /\ Content(jobs') = Content(jobs)
  BY DEF Content
<1>2. \A i \in 0..8 : Line'[i] \subseteq Line[i]
  BY <1>1, LineOf, NineOf, NumsOf DEF LineIs, Nine
<1>3. InLine(Line)'
  <2>1. InLine(Line')
    BY <1>2, Leave DEF OrderInv
  <2> QED
    BY <2>1 DEF InLine
<1>4. Recent' /\ OneScan'
  BY <1>2 DEF OrderInv, Recent, OneScan
<1>5. Queues'
  BY DEF OrderInv, Queues
<1> QED
  BY <1>3, <1>4, <1>5 DEF OrderInv

LEMMA NextOrder == OrderInv /\ [Next]_vars => OrderInv'
<1> SUFFICES ASSUME OrderInv, [Next]_vars PROVE OrderInv'
  OBVIOUS
<1>0. TypeOK'
  BY NextType DEF OrderInv
<1>1. CASE MainFirst
  BY <1>0, <1>1, FirstOrder
<1>2. CASE TickerScan
  BY <1>0, <1>2, ScanOrder
<1>3. CASE TickerSend
  BY <1>0, <1>3, SendOrder
<1>4. CASE FilterReceive /\ UNCHANGED ownVars
  BY <1>0, <1>4, FilterReceiveOrder
<1>5. CASE FilterSend /\ UNCHANGED ownVars
  BY <1>0, <1>5, FilterSendOrder
<1>6. CASE SplitReceive /\ UNCHANGED ownVars
  BY <1>0, <1>6, SplitReceiveOrder
<1>7. CASE (\E j \in split.todo : SplitReview(j)) /\ UNCHANGED ownVars
  <2>1. PICK j \in split.todo : SplitReview(j)
    BY <1>7
  <2>2. /\ inputs' = inputs /\ procs' = procs /\ groupjobs' = groupjobs
        /\ jobs' = jobs /\ filter' = filter /\ prepare' = prepare
        /\ taken' = taken /\ scans' = scans /\ main' = main /\ ticker' = ticker
        /\ split'.hand \cup split'.todo \subseteq split.hand \cup split.todo
    BY <1>7, <2>1, ReviewIs DEF OrderInv
  <2>3. Born'
    BY <2>2 DEF OrderInv, Born
  <2> QED
    BY <1>0, <2>2, <2>3, NothingNew
<1>8. CASE SplitSend /\ UNCHANGED ownVars
  BY <1>0, <1>8, SplitSendOrder
<1>9. CASE PrepareReceive /\ UNCHANGED ownVars
  BY <1>0, <1>9, PrepareReceiveOrder
<1>10. CASE PrepareSend /\ UNCHANGED ownVars
  BY <1>0, <1>10, PrepareSendOrder
<1>11. CASE \E w \in Workers : Take(w)
  BY <1>0, <1>11, TakeOrder
<1>12. CASE Quiet
  BY <1>0, <1>12, QuietStill, NothingNew DEF OrderInv, Still
<1> QED
  BY <1>1, <1>2, <1>3, <1>4, <1>5, <1>6, <1>7, <1>8, <1>9, <1>10, <1>11,
     <1>12, StepCases DEF Quiet

LEMMA OrderAlways == Spec => []OrderInv
BY InitOrder, NextOrder, PTL DEF Spec

(* In the terms of the model.                                                *)
LEMMA UpstreamOf ==
  /\ DOMAIN Upstream = 1..8
  /\ \A k \in 1..8 : Line[k] = Nums(Upstream[k])
<1>1. DOMAIN Upstream = 1..8
  BY DEF Upstream
<1>2. /\ Upstream[1] = Content(jobs) /\ Upstream[2] = prepare.hand
      /\ Upstream[3] = Content(groupjobs)
      /\ Upstream[4] = split.hand \cup split.todo
      /\ Upstream[5] = Content(procs) /\ Upstream[6] = filter.hand
      /\ Upstream[7] = Content(inputs) /\ Upstream[8] = ticker.hand
  BY DEF Upstream
<1>3. 1..8 = {1, 2, 3, 4, 5, 6, 7, 8}
  OBVIOUS
<1> QED
  BY <1>1, <1>2, <1>3, LineOf DEF LineIs

LEMMA StepsSorted ==
  ASSUME NEW T, \A y \in T : y.num \in Nat, NEW ch \in Channel(T), NEW d \in {0, 1},
         Steps(ch.buf, d)
  PROVE  Sorted(ch.buf)
<1>1. ch.buf \in Seq(T)
  BY DEF Channel
<1>2. \A i \in 1 .. Len(ch.buf) : ch.buf[i].num \in Nat
  BY <1>1, ElementOfSeq
<1> QED
  BY <1>2 DEF Sorted, Steps

(* No worker takes a job of an older scan after one of a later scan, nor can *)
(* it ever come to that: what is nearer to the workers is as old, or older.  *)
THEOREM ScansInOrder == Spec => []InScanOrder
<1>1. OrderInv => InScanOrder
  <2> SUFFICES ASSUME OrderInv PROVE InScanOrder
    OBVIOUS
  <2>1. \A x \in taken : \A k \in DOMAIN Upstream : \A y \in Upstream[k] : x.num <= y.num
    <3> SUFFICES ASSUME NEW x \in taken, NEW k \in 1..8, NEW y \in Upstream[k]
                 PROVE  x.num <= y.num
      BY UpstreamOf
    <3>1. x.num \in Line[0] /\ y.num \in Line[k]
      BY UpstreamOf, LineOf, NumIn DEF LineIs
    <3>2. x.num + Gap(k) <= y.num /\ x.num \in Nat /\ y.num \in Nat
      BY <3>1, LineType DEF OrderInv, InLine, Lines
    <3> QED
      BY <3>2 DEF Gap
  <2>2. \A i, k \in DOMAIN Upstream : i < k =>
          \A x \in Upstream[i], y \in Upstream[k] : x.num <= y.num
    <3> SUFFICES ASSUME NEW i \in 1..8, NEW k \in 1..8, i < k,
                        NEW x \in Upstream[i], NEW y \in Upstream[k]
                 PROVE  x.num <= y.num
      BY UpstreamOf
    <3>1. x.num \in Line[i] /\ y.num \in Line[k]
      BY UpstreamOf, NumIn
    <3>2. x.num + Gap(k) <= y.num /\ x.num \in Nat /\ y.num \in Nat
      BY <3>1, LineType DEF OrderInv, InLine, Lines
    <3> QED
      BY <3>2 DEF Gap
  <2>3. /\ Sorted(jobs.buf) /\ Sorted(groupjobs.buf)
        /\ Sorted(procs.buf) /\ Sorted(inputs.buf)
    <3>1. /\ jobs \in Channel(GroupJob) /\ groupjobs \in Channel(GroupJob)
          /\ procs \in Channel(Snapshot) /\ inputs \in Channel(Snapshot)
      BY DEF OrderInv, TypeOK, PipelineTypeOK
    <3> QED
      BY <3>1, NumsType, StepsSorted DEF OrderInv, Queues
  <2> QED
    BY <2>1, <2>2, <2>3 DEF InScanOrder
<1> QED
  BY <1>1, OrderAlways, PTL


-----------------------------------------------------------------------------
(* What moves on one place is still in one place;                            *)
LEMMA ApartOn ==
  ASSUME NEW F, NEW G, Apart(F), NEW k \in 1..5, NEW i \in 0..4, k = i + 1,
         NEW x \in F[k], x \notin G[k],
         \A n \in 0..5 : G[n] \subseteq IF n = i THEN F[n] \cup {x} ELSE F[n]
  PROVE  Apart(G)
<1> SUFFICES ASSUME NEW a \in 0..5, NEW b \in 0..5, a # b,
                    NEW y, y \in G[a], y \in G[b]
             PROVE  FALSE
  BY DEF Apart
<1>1. CASE y \in F[a] /\ y \in F[b]
  BY <1>1 DEF Apart
<1>2. CASE y \notin F[a]
  <2>1. a = i /\ y = x /\ y \in F[b]
    BY <1>2
  <2>2. b # k
    BY <2>1
  <2> QED
    BY <2>1, <2>2 DEF Apart
<1>3. CASE y \notin F[b]
  <2>1. b = i /\ y = x /\ y \in F[a]
    BY <1>3
  <2>2. a # k
    BY <2>1
  <2> QED
    BY <2>1, <2>2 DEF Apart
<1> QED
  BY <1>1, <1>2, <1>3

(* and so is what is new to all of them.                                     *)
LEMMA ApartNew ==
  ASSUME NEW F, NEW G, Apart(F), \A n \in 0..4 : G[n] \subseteq F[n],
         \A n \in 0..4 : G[5] \cap F[n] = {}
  PROVE  Apart(G)
<1>1. \A a, b \in 0..4 : a # b => G[a] \cap G[b] = {}
  BY DEF Apart
<1>2. 0..5 = 0..4 \cup {5}
  OBVIOUS
<1> QED
  BY <1>1, <1>2 DEF Apart

LEMMA ApartLess ==
  ASSUME NEW F, NEW G, Apart(F), \A n \in 0..5 : G[n] \subseteq F[n]
  PROVE  Apart(G)
BY DEF Apart

JobPlaceIs ==
  /\ JobPlace[0] = taken /\ JobPlace[1] = Content(jobs)
  /\ JobPlace[2] = prepare.hand /\ JobPlace[3] = Content(groupjobs)
  /\ JobPlace[4] = split.hand /\ JobPlace[5] = split.todo

LEMMA JobPlaceOf == JobPlaceIs /\ JobPlaceIs'
BY DEF JobPlaceIs, JobPlace

LEMMA SixOf == 0..5 = {0, 1, 2, 3, 4, 5} /\ 0..4 = {0, 1, 2, 3, 4}
OBVIOUS

(* Jobs that a worker took or will get, and scans whose snapshot is still to *)
(* be split.                                                                 *)
Held == taken \cup PendingJobs
Coming == Nums(PendingScans)

LEMMA StillHeld ==
  ASSUME NothingLost, scans' = scans, Held \subseteq Held', Coming \subseteq Coming'
  PROVE  NothingLost'
<1> SUFFICES ASSUME NEW i \in DOMAIN scans, NEW j \in Due(scans[i])
             PROVE  j \in Held' \/ i \in Coming'
  BY DEF NothingLost, Held, Coming, Nums
<1>1. j \in Held \/ i \in Coming
  BY DEF NothingLost, Held, Coming, Nums
<1> QED
  BY <1>1

(* A new scan, which is on its way.                                          *)
LEMMA ScansOf ==
  ASSUME TypeOK, NEW s \in Snapshot, scans' = Append(scans, s), s.num = Len(scans) + 1
  PROVE  /\ DOMAIN scans' = DOMAIN scans \cup {s.num} /\ s.num \notin DOMAIN scans
         /\ scans'[s.num] = s /\ \A i \in DOMAIN scans : scans'[i] = scans[i]
<1>1. scans \in Seq(Snapshot)
  BY DEF TypeOK
<1>2. /\ Len(scans) \in Nat /\ DOMAIN scans = 1 .. Len(scans)
      /\ DOMAIN scans' = 1 .. Len(scans) + 1
  BY <1>1, LenProperties, AppendProperties
<1>3. \A i \in 1 .. Len(scans) : scans'[i] = scans[i]
  BY <1>1, AppendProperties
<1>4. scans'[Len(scans) + 1] = s
  BY <1>1, AppendProperties
<1> QED
  BY <1>2, <1>3, <1>4

LEMMA NewScan ==
  ASSUME AccountInv, NEW s \in Snapshot, scans' = Append(scans, s),
         s.num = Len(scans) + 1,
         Content(inputs') \cup ticker'.hand =
           Content(inputs) \cup ticker.hand \cup {s},
         procs' = procs, filter' = filter, taken' = taken, jobs' = jobs,
         prepare' = prepare, groupjobs' = groupjobs, split' = split
  PROVE  Genuine' /\ Once' /\ NothingLost'
<1>1. /\ DOMAIN scans' = DOMAIN scans \cup {s.num} /\ s.num \notin DOMAIN scans
      /\ scans'[s.num] = s /\ \A i \in DOMAIN scans : scans'[i] = scans[i]
  BY ScansOf DEF AccountInv, OrderInv
<1>2. Genuine'
  <2>1. \A i \in DOMAIN scans' : scans'[i].num = i
    BY <1>1 DEF AccountInv, Genuine
  <2>2. \A x \in Content(inputs') \cup ticker'.hand :
          x.num \in DOMAIN scans' /\ x = scans'[x.num]
    BY <1>1 DEF AccountInv, Genuine
  <2>3. \A x \in Content(procs') \cup filter'.hand :
          x.num \in DOMAIN scans' /\ x = Matching(scans'[x.num])
    BY <1>1 DEF AccountInv, Genuine
  <2> QED
    BY <2>1, <2>2, <2>3 DEF Genuine
<1>3. Once'
  BY DEF AccountInv, Once, JobPlace
<1>4. Held' = Held
  BY DEF Held, PendingJobs
<1>5. Coming \subseteq Coming' /\ s.num \in Coming'
  <2>1. PendingScans \subseteq PendingScans' /\ s \in PendingScans'
    BY DEF PendingScans
  <2> QED
    BY <2>1 DEF Coming, Nums
<1>6. \A i \in DOMAIN scans : \A j \in Due(scans[i]) : j \in Held \/ i \in Coming
  BY DEF AccountInv, NothingLost, Held, Coming, Nums
<1>7. \A i \in DOMAIN scans' : \A j \in Due(scans'[i]) : j \in Held' \/ i \in Coming'
  BY <1>1, <1>4, <1>5, <1>6
<1> QED
  BY <1>2, <1>3, <1>7 DEF NothingLost, Held, Coming, Nums

LEMMA FirstAccount ==
  ASSUME AccountInv, MainFirst
  PROVE  Lone' /\ Genuine' /\ Once' /\ NothingLost'
<1>1. PICK seen \in Seen : /\ inputs' = Offer(inputs, NewSnapshot(seen))
                           /\ scans' = Append(scans, NewSnapshot(seen))
  BY DEF MainFirst
<1> DEFINE s == NewSnapshot(seen)
<1>2. s \in Snapshot /\ s.num = Len(scans) + 1
  BY SnapshotType DEF AccountInv, OrderInv
<1>3. inputs' = Offer(inputs, s) /\ scans' = Append(scans, s)
  BY <1>1
<1>4. inputs \in Channel(Snapshot) /\ ticker'.hand = ticker.hand
  BY DEF AccountInv, OrderInv, TypeOK, PipelineTypeOK, MainFirst
<1>5. /\ procs' = procs /\ filter' = filter /\ taken' = taken /\ jobs' = jobs
      /\ prepare' = prepare /\ groupjobs' = groupjobs /\ split' = split
  BY DEF MainFirst
<1> HIDE DEF s
<1>6. Content(inputs') = Content(inputs) \cup {s}
  BY <1>2, <1>3, <1>4, OfferContent
<1>7. Content(inputs') \cup ticker'.hand = Content(inputs) \cup ticker.hand \cup {s}
  BY <1>4, <1>6
<1>8. Genuine' /\ Once' /\ NothingLost'
  BY <1>2, <1>3, <1>5, <1>7, NewScan
<1>9. Lone'
  BY <1>4, <1>5 DEF AccountInv, Lone
<1> QED
  BY <1>8, <1>9

LEMMA ScanAccount ==
  ASSUME AccountInv, TickerScan
  PROVE  Lone' /\ Genuine' /\ Once' /\ NothingLost'
<1>1. PICK seen \in Seen : /\ ticker' = [hand |-> {NewSnapshot(seen)}, at |-> "send"]
                           /\ scans' = Append(scans, NewSnapshot(seen))
  BY DEF TickerScan
<1> DEFINE s == NewSnapshot(seen)
<1>2. s \in Snapshot /\ s.num = Len(scans) + 1
  BY SnapshotType DEF AccountInv, OrderInv
<1>3. ticker'.hand = {s} /\ ticker.hand = {} /\ scans' = Append(scans, s)
  <2>1. ticker.hand = {}
    BY DEF AccountInv, OrderInv, Born, TickerScan
  <2> QED
    BY <1>1, <2>1
<1>4. /\ procs' = procs /\ filter' = filter /\ taken' = taken /\ jobs' = jobs
      /\ prepare' = prepare /\ groupjobs' = groupjobs /\ split' = split
      /\ inputs' = inputs
  BY DEF TickerScan, pipelineVars
<1> HIDE DEF s
<1>5. Content(inputs') \cup ticker'.hand = Content(inputs) \cup ticker.hand \cup {s}
  BY <1>3, <1>4
<1>6. Genuine' /\ Once' /\ NothingLost'
  BY <1>2, <1>3, <1>4, <1>5, NewScan
<1>7. Lone'
  BY <1>3, <1>4 DEF AccountInv, Lone, AtMostOne
<1> QED
  BY <1>6, <1>7

LEMMA SendAccount ==
  ASSUME AccountInv, TickerSend
  PROVE  Lone' /\ Genuine' /\ Once' /\ NothingLost'
<1>1. PICK s \in ticker.hand : inputs' = Offer(inputs, s)
  BY DEF TickerSend
<1>2. /\ procs' = procs /\ groupjobs' = groupjobs /\ jobs' = jobs
      /\ filter' = filter /\ split' = split /\ prepare' = prepare /\ taken' = taken
      /\ scans' = scans /\ ticker'.hand = {}
  BY DEF TickerSend
<1>3. inputs \in Channel(Snapshot) /\ s \in Snapshot
  BY DEF AccountInv, OrderInv, TypeOK, PipelineTypeOK
<1>4. Content(inputs') = Content(inputs) \cup {s}
  BY <1>1, <1>3, OfferContent
<1>5. ticker.hand = {s}
  BY <1>1 DEF AccountInv, Lone, AtMostOne
<1>6. Content(inputs') \cup ticker'.hand = Content(inputs) \cup ticker.hand
  BY <1>2, <1>4, <1>5
<1>7. Lone'
  BY <1>2 DEF AccountInv, Lone, AtMostOne
<1>8. Genuine'
  BY <1>2, <1>6 DEF AccountInv, Genuine
<1>9. Once'
  BY <1>2 DEF AccountInv, Once, JobPlace
<1>10. Held' = Held
  BY <1>2 DEF Held, PendingJobs
<1>11. Coming' = Coming
  <2>1. PendingScans' = PendingScans
    BY <1>2, <1>6 DEF PendingScans
  <2> QED
    BY <2>1 DEF Coming
<1>12. NothingLost'
  BY <1>2, <1>10, <1>11, StillHeld DEF AccountInv
<1> QED
  BY <1>7, <1>8, <1>9, <1>12

LEMMA FilterReceiveAccount ==
  ASSUME AccountInv, FilterReceive, UNCHANGED ownVars
  PROVE  Lone' /\ Genuine' /\ Once' /\ NothingLost'
<1> DEFINE s == First(inputs)
           kept == Matching(s)
<1>1. /\ procs' = procs /\ groupjobs' = groupjobs /\ jobs' = jobs
      /\ split' = split /\ prepare' = prepare
      /\ taken' = taken /\ scans' = scans /\ ticker' = ticker
      /\ Ready(inputs) /\ inputs' = Rest(inputs) /\ filter.hand = {}
  BY DEF FilterReceive, ownVars
<1>2. filter'.hand = IF kept.procs = {} THEN {} ELSE {kept}
  BY DEF FilterReceive, AccountInv, OrderInv, TypeOK, PipelineTypeOK
<1>3. inputs \in Channel(Snapshot)
  BY DEF AccountInv, OrderInv, TypeOK, PipelineTypeOK
<1>4. s \in Snapshot /\ Content(inputs) = Content(inputs') \cup {s}
  BY <1>1, <1>3, RestContent
<1>5. s.num \in DOMAIN scans /\ s = scans[s.num]
  BY <1>4 DEF AccountInv, Genuine
<1>6. kept.num = s.num /\ (kept.procs = {} => Due(s) = {})
  BY <1>4, NumsKept, ByPgrpType DEF Due
<1>7. kept = Matching(s)
  OBVIOUS
<1> HIDE DEF s, kept
<1>8. Lone'
  BY <1>1, <1>2 DEF AccountInv, Lone, AtMostOne
<1>9. Genuine'
  <2>1. \A x \in Content(inputs') \cup ticker'.hand :
          x.num \in DOMAIN scans' /\ x = scans'[x.num]
    BY <1>1, <1>4 DEF AccountInv, Genuine
  <2>2. \A x \in Content(procs') \cup filter'.hand :
          x.num \in DOMAIN scans' /\ x = Matching(scans'[x.num])
    <3>1. kept.num \in DOMAIN scans /\ kept = Matching(scans[kept.num])
      BY <1>5, <1>6, <1>7
    <3> QED
      BY <1>1, <1>2, <3>1 DEF AccountInv, Genuine
  <2> QED
    BY <1>1, <2>1, <2>2 DEF AccountInv, Genuine
<1>10. Once'
  BY <1>1 DEF AccountInv, Once, JobPlace
<1>11. Held' = Held
  BY <1>1 DEF Held, PendingJobs
<1>12. \A i \in Coming : i \in Coming' \/ (i = s.num /\ Due(s) = {})
  <2>1. PendingScans \subseteq PendingScans' \cup {s}
    BY <1>1, <1>4 DEF PendingScans
  <2>2. kept.procs # {} => kept \in PendingScans'
    BY <1>2 DEF PendingScans
  <2> QED
    BY <1>6, <2>1, <2>2 DEF Coming, Nums
<1>13. NothingLost'
  <2>1. \A i \in DOMAIN scans : \A j \in Due(scans[i]) : j \in Held \/ i \in Coming
    BY DEF AccountInv, NothingLost, Held, Coming, Nums
  <2>2. \A i \in DOMAIN scans' : \A j \in Due(scans'[i]) : j \in Held' \/ i \in Coming'
    BY <1>1, <1>5, <1>11, <1>12, <2>1
  <2> QED
    BY <2>2 DEF NothingLost, Held, Coming, Nums
<1> QED
  BY <1>8, <1>9, <1>10, <1>13

LEMMA FilterSendAccount ==
  ASSUME AccountInv, FilterSend, UNCHANGED ownVars
  PROVE  Lone' /\ Genuine' /\ Once' /\ NothingLost'
<1>1. PICK s \in filter.hand : procs' = Offer(procs, s)
  BY DEF FilterSend
<1>2. /\ inputs' = inputs /\ groupjobs' = groupjobs /\ jobs' = jobs
      /\ split' = split /\ prepare' = prepare
      /\ taken' = taken /\ scans' = scans /\ ticker' = ticker
  BY DEF FilterSend, ownVars
<1>3. filter'.hand = {} /\ s \in Snapshot /\ procs \in Channel(Snapshot)
  BY DEF FilterSend, AccountInv, OrderInv, TypeOK, PipelineTypeOK
<1>4. Content(procs') = Content(procs) \cup {s} /\ filter.hand = {s}
  BY <1>1, <1>3, OfferContent DEF AccountInv, Lone, AtMostOne
<1>5. Content(procs') \cup filter'.hand = Content(procs) \cup filter.hand
  BY <1>3, <1>4
<1>6. Lone'
  BY <1>2, <1>3 DEF AccountInv, Lone, AtMostOne
<1>7. Genuine'
  BY <1>2, <1>5 DEF AccountInv, Genuine
<1>8. Once'
  BY <1>2 DEF AccountInv, Once, JobPlace
<1>9. Held' = Held
  BY <1>2 DEF Held, PendingJobs
<1>10. Coming' = Coming
  <2>1. PendingScans' = PendingScans
    BY <1>2, <1>5 DEF PendingScans
  <2> QED
    BY <2>1 DEF Coming
<1>11. NothingLost'
  BY <1>2, <1>9, <1>10, StillHeld DEF AccountInv
<1> QED
  BY <1>6, <1>7, <1>8, <1>11


LEMMA SplitReceiveAccount ==
  ASSUME AccountInv, SplitReceive, UNCHANGED ownVars
  PROVE  Lone' /\ Genuine' /\ Once' /\ NothingLost'
<1> DEFINE s == First(procs)
<1>1. /\ inputs' = inputs /\ groupjobs' = groupjobs /\ jobs' = jobs
      /\ filter' = filter /\ prepare' = prepare
      /\ taken' = taken /\ scans' = scans /\ ticker' = ticker
      /\ Ready(procs) /\ procs' = Rest(procs)
      /\ split.hand = {} /\ split.todo = {}
  BY DEF SplitReceive, ownVars
<1>2. split'.hand = {} /\ split'.todo = ByPgrp(s)
  BY DEF SplitReceive, AccountInv, OrderInv, TypeOK, PipelineTypeOK
<1>3. procs \in Channel(Snapshot)
  BY DEF AccountInv, OrderInv, TypeOK, PipelineTypeOK
<1>4. s \in Snapshot /\ Content(procs) = Content(procs') \cup {s}
  BY <1>1, <1>3, RestContent
<1>5. s.num \in DOMAIN scans /\ s = Matching(scans[s.num])
  BY <1>4 DEF AccountInv, Genuine
<1>6. Nums(ByPgrp(s)) \subseteq {s.num} /\ s.num \in Line[5]
  <2>1. s \in Content(procs)
    BY <1>4
  <2> QED
    BY <1>4, <2>1, NumsKept, NumIn, LineOf DEF LineIs
<1>7. Due(scans[s.num]) = {j \in ByPgrp(s) : j.due}
  BY <1>5 DEF Due
<1> HIDE DEF s
<1>8. Lone'
  BY <1>1, <1>2 DEF AccountInv, Lone, AtMostOne
<1>9. Genuine'
  BY <1>1, <1>4 DEF AccountInv, Genuine
<1>10. Once'
  <2> DEFINE F == JobPlace
             G == JobPlace'
  <2>1. \A n \in 0..4 : G[n] \subseteq F[n]
    BY <1>1, <1>2, JobPlaceOf, SixOf DEF JobPlaceIs
  <2>2. \A n \in 0..4 : \A x \in F[n] : x.num \in Line[n]
    BY JobPlaceOf, LineOf, NumIn, SixOf DEF JobPlaceIs, LineIs
  <2>3. ASSUME NEW n \in 0..4, NEW x \in F[n], x \in ByPgrp(s)
        PROVE  FALSE
    <3>1. x.num = s.num
      BY <1>6, <2>3, NumIn
    <3>2. x.num + Gap(5) <= s.num /\ s.num \in Nat
      BY <1>6, <2>2, <2>3, LineType DEF AccountInv, OrderInv, InLine, Lines
    <3> QED
      BY <3>1, <3>2 DEF Gap
  <2>4. \A n \in 0..4 : G[5] \cap F[n] = {}
    BY <1>2, <2>3, JobPlaceOf DEF JobPlaceIs
  <2>5. Apart(F)
    BY DEF AccountInv, Once
  <2> HIDE DEF F, G
  <2>6. Apart(G)
    BY <2>1, <2>4, <2>5, ApartNew
  <2> QED
    BY <1>1, <2>6 DEF G, AccountInv, Once, Apart
<1>11. Held \subseteq Held' /\ \A j \in Due(scans[s.num]) : j \in Held'
  BY <1>1, <1>2, <1>7 DEF Held, PendingJobs
<1>12. \A i \in Coming : i \in Coming' \/ i = s.num
  <2>1. PendingScans \subseteq PendingScans' \cup {s}
    BY <1>1, <1>4 DEF PendingScans
  <2> QED
    BY <2>1 DEF Coming, Nums
<1>13. NothingLost'
  <2>1. \A i \in DOMAIN scans : \A j \in Due(scans[i]) : j \in Held \/ i \in Coming
    BY DEF AccountInv, NothingLost, Held, Coming, Nums
  <2>2. \A i \in DOMAIN scans' : \A j \in Due(scans'[i]) : j \in Held' \/ i \in Coming'
    BY <1>1, <1>11, <1>12, <2>1
  <2> QED
    BY <2>2 DEF NothingLost, Held, Coming, Nums
<1> QED
  BY <1>8, <1>9, <1>10, <1>13

(* Jobs that move on, with the snapshots left alone.                         *)
JobsMove ==
  /\ inputs' = inputs /\ procs' = procs /\ filter' = filter
  /\ ticker' = ticker /\ scans' = scans

LEMMA JobsMoved ==
  ASSUME AccountInv, JobsMove, Held \subseteq Held'
  PROVE  Genuine' /\ NothingLost'
<1>1. Genuine'
  BY DEF AccountInv, Genuine, JobsMove
<1>2. Coming' = Coming
  <2>1. PendingScans' = PendingScans
    BY DEF PendingScans, JobsMove
  <2> QED
    BY <2>1 DEF Coming
<1>3. NothingLost'
  BY <1>2, StillHeld DEF AccountInv, JobsMove
<1> QED
  BY <1>1, <1>3

LEMMA ReviewAccount ==
  ASSUME AccountInv, NEW j \in split.todo, SplitReview(j), UNCHANGED ownVars
  PROVE  Lone' /\ Genuine' /\ Once' /\ NothingLost'
<1>1. /\ inputs' = inputs /\ procs' = procs /\ groupjobs' = groupjobs
      /\ jobs' = jobs /\ filter' = filter /\ prepare' = prepare
      /\ taken' = taken /\ scans' = scans /\ ticker' = ticker
      /\ split.hand = {}
      /\ \/ split'.hand = {} /\ split'.todo = split.todo
         \/ /\ split'.hand = IF j.due THEN {j} ELSE {}
            /\ split'.todo = split.todo \ {j}
  BY ReviewIs DEF AccountInv, OrderInv
<1>2. Lone'
  BY <1>1 DEF AccountInv, Lone, AtMostOne
<1>3. Held \subseteq Held'
  BY <1>1 DEF Held, PendingJobs
<1>4. Genuine' /\ NothingLost'
  BY <1>1, <1>3, JobsMoved DEF JobsMove
<1>5. Once'
  <2> DEFINE F == JobPlace
             G == JobPlace'
  <2>1. Apart(F)
    BY DEF AccountInv, Once
  <2>2. CASE split'.hand = {} /\ split'.todo = split.todo
    <3>1. \A n \in 0..5 : G[n] \subseteq F[n]
      BY <1>1, <2>2, JobPlaceOf, SixOf DEF JobPlaceIs
    <3> HIDE DEF F, G
    <3>2. Apart(G)
      BY <2>1, <3>1, ApartLess
    <3> QED
      BY <1>1, <3>2 DEF G, AccountInv, Once, Apart
  <2>3. CASE /\ split'.hand = IF j.due THEN {j} ELSE {}
             /\ split'.todo = split.todo \ {j}
    <3>1. /\ j \in F[5] /\ j \notin G[5]
          /\ \A n \in 0..5 : G[n] \subseteq IF n = 4 THEN F[n] \cup {j} ELSE F[n]
      BY <1>1, <2>3, JobPlaceOf, SixOf DEF JobPlaceIs
    <3> HIDE DEF F, G
    <3>2. Apart(G)
      BY <2>1, <3>1, ApartOn
    <3> QED
      BY <1>1, <3>2 DEF G, AccountInv, Once, Apart
  <2> QED
    BY <1>1, <2>2, <2>3
<1> QED
  BY <1>2, <1>4, <1>5

LEMMA SplitSendAccount ==
  ASSUME AccountInv, SplitSend, UNCHANGED ownVars
  PROVE  Lone' /\ Genuine' /\ Once' /\ NothingLost'
<1>1. PICK j \in split.hand : groupjobs' = Offer(groupjobs, j)
  BY DEF SplitSend
<1>2. /\ inputs' = inputs /\ procs' = procs /\ jobs' = jobs
      /\ filter' = filter /\ prepare' = prepare
      /\ taken' = taken /\ scans' = scans /\ ticker' = ticker
  BY DEF SplitSend, ownVars
<1>3. /\ split'.hand = {} /\ split'.todo = split.todo /\ j \in GroupJob
      /\ groupjobs \in Channel(GroupJob)
  BY DEF SplitSend, AccountInv, OrderInv, TypeOK, PipelineTypeOK
<1>4. split.hand = {j}
  BY <1>1 DEF AccountInv, Lone, AtMostOne
<1>5. j \notin Content(groupjobs) /\ IsInjective(groupjobs.buf)
  BY <1>1, JobPlaceOf DEF JobPlaceIs, AccountInv, Once, Apart
<1>6. /\ Content(groupjobs') = Content(groupjobs) \cup {j}
      /\ IsInjective(groupjobs'.buf)
  BY <1>1, <1>3, <1>5, OfferContent
<1>7. Lone'
  BY <1>2, <1>3 DEF AccountInv, Lone, AtMostOne
<1>8. Held \subseteq Held'
  BY <1>2, <1>3, <1>4, <1>6 DEF Held, PendingJobs
<1>9. Genuine' /\ NothingLost'
  BY <1>2, <1>8, JobsMoved DEF JobsMove
<1>10. Once'
  <2> DEFINE F == JobPlace
             G == JobPlace'
  <2>1. /\ Apart(F) /\ j \in F[4] /\ j \notin G[4]
        /\ \A n \in 0..5 : G[n] \subseteq IF n = 3 THEN F[n] \cup {j} ELSE F[n]
    BY <1>1, <1>2, <1>3, <1>6, JobPlaceOf, SixOf DEF JobPlaceIs, AccountInv, Once
  <2> HIDE DEF F, G
  <2>2. Apart(G)
    BY <2>1, ApartOn
  <2> QED
    BY <1>2, <1>6, <2>2 DEF G, AccountInv, Once, Apart
<1> QED
  BY <1>7, <1>9, <1>10

LEMMA PrepareReceiveAccount ==
  ASSUME AccountInv, PrepareReceive, UNCHANGED ownVars
  PROVE  Lone' /\ Genuine' /\ Once' /\ NothingLost'
<1> DEFINE j == First(groupjobs)
<1>1. /\ inputs' = inputs /\ procs' = procs /\ jobs' = jobs
      /\ filter' = filter /\ split' = split
      /\ taken' = taken /\ scans' = scans /\ ticker' = ticker
      /\ Ready(groupjobs) /\ groupjobs' = Rest(groupjobs) /\ prepare.hand = {}
  BY DEF PrepareReceive, ownVars
<1>2. prepare'.hand = {j} /\ groupjobs \in Channel(GroupJob)
  BY DEF PrepareReceive, AccountInv, OrderInv, TypeOK, PipelineTypeOK
<1>3. IsInjective(groupjobs.buf)
  BY DEF AccountInv, Once
<1>4. /\ Content(groupjobs) = Content(groupjobs') \cup {j}
      /\ j \notin Content(groupjobs') /\ IsInjective(groupjobs'.buf)
  BY <1>1, <1>2, <1>3, RestContent
<1> HIDE DEF j
<1>5. Lone'
  BY <1>1, <1>2 DEF AccountInv, Lone, AtMostOne
<1>6. Held \subseteq Held'
  BY <1>1, <1>2, <1>4 DEF Held, PendingJobs
<1>7. Genuine' /\ NothingLost'
  BY <1>1, <1>6, JobsMoved DEF JobsMove
<1>8. Once'
  <2> DEFINE F == JobPlace
             G == JobPlace'
  <2>1. /\ Apart(F) /\ j \in F[3] /\ j \notin G[3]
        /\ \A n \in 0..5 : G[n] \subseteq IF n = 2 THEN F[n] \cup {j} ELSE F[n]
    BY <1>1, <1>2, <1>4, JobPlaceOf, SixOf DEF JobPlaceIs, AccountInv, Once
  <2> HIDE DEF F, G
  <2>2. Apart(G)
    BY <2>1, ApartOn
  <2> QED
    BY <1>1, <1>4, <2>2 DEF G, AccountInv, Once, Apart
<1> QED
  BY <1>5, <1>7, <1>8

LEMMA PrepareSendAccount ==
  ASSUME AccountInv, PrepareSend, UNCHANGED ownVars
  PROVE  Lone' /\ Genuine' /\ Once' /\ NothingLost'
<1>1. PICK j \in prepare.hand : jobs' = Offer(jobs, j)
  BY DEF PrepareSend
<1>2. /\ inputs' = inputs /\ procs' = procs /\ groupjobs' = groupjobs
      /\ filter' = filter /\ split' = split
      /\ taken' = taken /\ scans' = scans /\ ticker' = ticker
  BY DEF PrepareSend, ownVars
<1>3. prepare'.hand = {} /\ j \in GroupJob /\ jobs \in Channel(GroupJob)
  BY DEF PrepareSend, AccountInv, OrderInv, TypeOK, PipelineTypeOK
<1>4. prepare.hand = {j}
  BY <1>1 DEF AccountInv, Lone, AtMostOne
<1>5. j \notin Content(jobs) /\ IsInjective(jobs.buf)
  BY <1>1, JobPlaceOf DEF JobPlaceIs, AccountInv, Once, Apart
<1>6. Content(jobs') = Content(jobs) \cup {j} /\ IsInjective(jobs'.buf)
  BY <1>1, <1>3, <1>5, OfferContent
<1>7. Lone'
  BY <1>2, <1>3 DEF AccountInv, Lone, AtMostOne
<1>8. Held \subseteq Held'
  BY <1>2, <1>3, <1>4, <1>6 DEF Held, PendingJobs
<1>9. Genuine' /\ NothingLost'
  BY <1>2, <1>8, JobsMoved DEF JobsMove
<1>10. Once'
  <2> DEFINE F == JobPlace
             G == JobPlace'
  <2>1. /\ Apart(F) /\ j \in F[2] /\ j \notin G[2]
        /\ \A n \in 0..5 : G[n] \subseteq IF n = 1 THEN F[n] \cup {j} ELSE F[n]
    BY <1>1, <1>2, <1>3, <1>6, JobPlaceOf, SixOf DEF JobPlaceIs, AccountInv, Once
  <2> HIDE DEF F, G
  <2>2. Apart(G)
    BY <2>1, ApartOn
  <2> QED
    BY <1>2, <1>6, <2>2 DEF G, AccountInv, Once, Apart
<1> QED
  BY <1>7, <1>9, <1>10

LEMMA TakeAccount ==
  ASSUME AccountInv, NEW w \in Workers, Take(w)
  PROVE  Lone' /\ Genuine' /\ Once' /\ NothingLost'
<1> DEFINE j == First(jobs)
<1>1. /\ inputs' = inputs /\ procs' = procs /\ groupjobs' = groupjobs
      /\ filter' = filter /\ split' = split /\ prepare' = prepare
      /\ taken' = taken \cup {j} /\ scans' = scans /\ ticker' = ticker
      /\ Ready(jobs) /\ jobs' = Rest(jobs)
  BY DEF Take, WorkerReceive
<1>2. jobs \in Channel(GroupJob) /\ IsInjective(jobs.buf)
  BY DEF AccountInv, OrderInv, TypeOK, PipelineTypeOK, Once
<1>3. /\ Content(jobs) = Content(jobs') \cup {j}
      /\ j \notin Content(jobs') /\ IsInjective(jobs'.buf)
  BY <1>1, <1>2, RestContent
<1> HIDE DEF j
<1>4. Lone'
  BY <1>1 DEF AccountInv, Lone
<1>5. Held \subseteq Held'
  BY <1>1, <1>3 DEF Held, PendingJobs
<1>6. Genuine' /\ NothingLost'
  BY <1>1, <1>5, JobsMoved DEF JobsMove
<1>7. Once'
  <2> DEFINE F == JobPlace
             G == JobPlace'
  <2>1. /\ Apart(F) /\ j \in F[1] /\ j \notin G[1]
        /\ \A n \in 0..5 : G[n] \subseteq IF n = 0 THEN F[n] \cup {j} ELSE F[n]
    BY <1>1, <1>3, JobPlaceOf, SixOf DEF JobPlaceIs, AccountInv, Once
  <2> HIDE DEF F, G
  <2>2. Apart(G)
    BY <2>1, ApartOn
  <2> QED
    BY <1>1, <1>3, <2>2 DEF G, AccountInv, Once, Apart
<1> QED
  BY <1>4, <1>6, <1>7

LEMMA StillAccount ==
  ASSUME AccountInv, Still
  PROVE  Lone' /\ Genuine' /\ Once' /\ NothingLost'
<1>1. /\ Content(inputs') = Content(inputs) /\ Content(procs') = Content(procs)
      /\ Content(groupjobs') = Content(groupjobs) /\ Content(jobs') = Content(jobs)
  BY DEF Still, Content
<1>2. Lone' /\ Genuine'
  BY <1>1 DEF Still, AccountInv, Lone, Genuine
<1>3. Once'
  BY <1>1 DEF Still, AccountInv, Once, JobPlace
<1>4. Held' = Held
  BY <1>1 DEF Still, Held, PendingJobs
<1>5. Coming' = Coming
  <2>1. PendingScans' = PendingScans
    BY <1>1 DEF Still, PendingScans
  <2> QED
    BY <2>1 DEF Coming
<1>6. NothingLost'
  BY <1>4, <1>5, StillHeld DEF Still, AccountInv
<1> QED
  BY <1>2, <1>3, <1>6

LEMMA InitAccount == Init => AccountInv
<1> SUFFICES ASSUME Init PROVE AccountInv
  OBVIOUS
<1>1. OrderInv
  BY InitOrder
<1>2. /\ Content(jobs) = {} /\ Content(groupjobs) = {} /\ Content(procs) = {}
      /\ Content(inputs) = {} /\ taken = {} /\ ticker.hand = {} /\ filter.hand = {}
      /\ split.hand = {} /\ split.todo = {} /\ prepare.hand = {}
  BY EmptyContent, <1>1 DEF Init, PipelineInit, Open, OrderInv, TypeOK, PipelineTypeOK
<1>3. jobs.buf = <<>> /\ groupjobs.buf = <<>> /\ DOMAIN scans = {}
  BY DEF Init, PipelineInit, Open
<1>4. Lone /\ Genuine /\ NothingLost
  BY <1>2, <1>3 DEF Lone, AtMostOne, Genuine, NothingLost
<1>5. Once
  <2>1. \A n \in 0..5 : JobPlace[n] = {}
    BY <1>2, JobPlaceOf, SixOf DEF JobPlaceIs
  <2>2. IsInjective(<<>>)
    BY DEF IsInjective
  <2> QED
    BY <1>3, <2>1, <2>2 DEF Once, Apart
<1> QED
  BY <1>1, <1>4, <1>5 DEF AccountInv

LEMMA NextAccount == AccountInv /\ [Next]_vars => AccountInv'
<1> SUFFICES ASSUME AccountInv, [Next]_vars PROVE AccountInv'
  OBVIOUS
<1>0. OrderInv'
  BY NextOrder DEF AccountInv
<1>1. CASE MainFirst
  BY <1>0, <1>1, FirstAccount DEF AccountInv
<1>2. CASE TickerScan
  BY <1>0, <1>2, ScanAccount DEF AccountInv
<1>3. CASE TickerSend
  BY <1>0, <1>3, SendAccount DEF AccountInv
<1>4. CASE FilterReceive /\ UNCHANGED ownVars
  BY <1>0, <1>4, FilterReceiveAccount DEF AccountInv
<1>5. CASE FilterSend /\ UNCHANGED ownVars
  BY <1>0, <1>5, FilterSendAccount DEF AccountInv
<1>6. CASE SplitReceive /\ UNCHANGED ownVars
  BY <1>0, <1>6, SplitReceiveAccount DEF AccountInv
<1>7. CASE (\E j \in split.todo : SplitReview(j)) /\ UNCHANGED ownVars
  BY <1>0, <1>7, ReviewAccount DEF AccountInv
<1>8. CASE SplitSend /\ UNCHANGED ownVars
  BY <1>0, <1>8, SplitSendAccount DEF AccountInv
<1>9. CASE PrepareReceive /\ UNCHANGED ownVars
  BY <1>0, <1>9, PrepareReceiveAccount DEF AccountInv
<1>10. CASE PrepareSend /\ UNCHANGED ownVars
  BY <1>0, <1>10, PrepareSendAccount DEF AccountInv
<1>11. CASE \E w \in Workers : Take(w)
  BY <1>0, <1>11, TakeAccount DEF AccountInv
<1>12. CASE Quiet
  BY <1>0, <1>12, QuietStill, StillAccount DEF AccountInv, OrderInv
<1> QED
  BY <1>1, <1>2, <1>3, <1>4, <1>5, <1>6, <1>7, <1>8, <1>9, <1>10, <1>11,
     <1>12, StepCases DEF Quiet

(* A group job that a scan calls for is taken by a worker, or will come to   *)
(* one, and is never in two places: neither the drops of the filter and of   *)
(* the review nor any stop, signal or reload takes it out of the pipeline.   *)
THEOREM JobsAccounted == Spec => []Accounted
<1>1. AccountInv => Accounted
  <2> SUFFICES ASSUME AccountInv, NEW i \in DOMAIN scans, NEW j \in Due(scans[i])
               PROVE  /\ j \in taken \cup PendingJobs \/ \E s \in PendingScans : s.num = i
                      /\ ~(j \in taken /\ j \in PendingJobs)
                      /\ (\E s \in PendingScans : s.num = i) =>
                           j \notin taken \cup PendingJobs
    BY DEF Accounted
  <2>1. j \in taken \cup PendingJobs \/ \E s \in PendingScans : s.num = i
    BY DEF AccountInv, NothingLost
  <2>2. ~(j \in taken /\ j \in PendingJobs)
    BY JobPlaceOf DEF AccountInv, Once, Apart, JobPlaceIs, PendingJobs
  <2>3. ASSUME NEW s \in PendingScans, s.num = i, j \in taken \cup PendingJobs
        PROVE  FALSE
    <3>1. scans[i] \in Snapshot /\ scans[i].num = i /\ i \in Nat
      <4>1. scans \in Seq(Snapshot)
        BY DEF AccountInv, OrderInv, TypeOK
      <4> QED
        BY <4>1, ElementOfSeq, LenProperties DEF AccountInv, Genuine
    <3>2. j.num = i
      <4>1. j \in ByPgrp(Matching(scans[i]))
        BY DEF Due
      <4>2. Matching(scans[i]) \in Snapshot /\ Matching(scans[i]).num = i
        BY <3>1, NumsKept, ByPgrpType
      <4> QED
        BY <4>1, <4>2, NumsKept, NumIn
    <3>3. PICK a \in 0..4 : i \in Line[a]
      BY <2>3, <3>2, LineOf, NumIn, SixOf DEF LineIs, PendingJobs
    <3>4. PICK b \in 5..8 : i \in Line[b]
      <4>1. 5..8 = {5, 6, 7, 8}
        OBVIOUS
      <4> QED
        BY <2>3, <4>1, LineOf, NumIn DEF LineIs, PendingScans
    <3>5. i + Gap(b) <= i
      BY <3>3, <3>4 DEF AccountInv, OrderInv, InLine
    <3> QED
      BY <3>1, <3>5 DEF Gap
  <2> QED
    BY <2>1, <2>2, <2>3
<1>2. Spec => []AccountInv
  BY InitAccount, NextAccount, PTL DEF Spec
<1> QED
  BY <1>1, <1>2, PTL
=============================================================================

--------------------------- MODULE SetCmdProofs ---------------------------
(* "nicy set" runs every due group job exactly once before it returns, for   *)
(* any processes, rules, number of workers and channel capacity.             *)
EXTENDS SetCmd, SequenceTheorems, FiniteSetTheorems, TLAPS

-----------------------------------------------------------------------------
(* What the channel operators of Pipeline preserve and return: the facts the *)
(* proofs cite instead of the definitions.                                   *)

(* An empty buffer, and only that, has no content.                           *)
LEMMA EmptyContent ==
  ASSUME NEW T, NEW ch \in Channel(T)
  PROVE  /\ Content(ch) \in SUBSET T
         /\ ch.buf = <<>> <=> Content(ch) = {}
<1>1. ch.buf \in Seq(T)
  BY DEF Channel
<1>2. Content(ch) = {ch.buf[i] : i \in 1 .. Len(ch.buf)}
  BY <1>1, RangeEquality DEF Content
<1>3. Len(ch.buf) \in Nat /\ (ch.buf = <<>> <=> Len(ch.buf) = 0)
  BY <1>1, EmptySeq, LenProperties
<1>4. Content(ch) \in SUBSET T
  BY <1>1, RangeOfSeq DEF Content
<1>5. CASE Len(ch.buf) = 0
  BY <1>2, <1>3, <1>4, <1>5
<1>6. CASE Len(ch.buf) # 0
  <2>1. 1 \in 1 .. Len(ch.buf)
    BY <1>3, <1>6
  <2> QED
    BY <2>1, <1>2, <1>3, <1>4, <1>6
<1> QED
  BY <1>5, <1>6

(* A send adds its item to the content, once if it was not there before.     *)
LEMMA OfferContent ==
  ASSUME NEW T, NEW ch \in Channel(T), NEW x \in T
  PROVE  /\ Offer(ch, x) \in Channel(T)
         /\ Offer(ch, x).closed = ch.closed
         /\ Content(Offer(ch, x)) = Content(ch) \cup {x}
         /\ Len(Offer(ch, x).buf) = Len(ch.buf) + 1
         /\ IsInjective(ch.buf) /\ x \notin Content(ch)
              => IsInjective(Offer(ch, x).buf)
<1> DEFINE b == ch.buf
           c == Append(b, x)
<1>1. b \in Seq(T) /\ Offer(ch, x).buf = c /\ Offer(ch, x).closed = ch.closed
  BY DEF Channel, Offer
<1>2. /\ c \in Seq(T)
      /\ Len(c) = Len(b) + 1
      /\ \A i \in 1 .. Len(b) : c[i] = b[i]
      /\ c[Len(b) + 1] = x
  BY <1>1, AppendProperties
<1>3. Len(b) \in Nat /\ DOMAIN b = 1 .. Len(b) /\ DOMAIN c = 1 .. Len(b) + 1
  BY <1>1, <1>2, LenProperties
<1>4. Offer(ch, x) \in Channel(T)
  BY <1>2 DEF Channel, Offer
<1>5. Range(c) = Range(b) \cup {x}
  BY <1>2, <1>3 DEF Range
<1>6. ASSUME IsInjective(b), x \notin Range(b)
      PROVE  IsInjective(c)
  BY <1>2, <1>3, <1>6 DEF IsInjective, Range
<1> QED
  BY <1>1, <1>2, <1>4, <1>5, <1>6 DEF Content

(* A receive takes one item out of the content, the only one of its kind in  *)
(* a buffer without duplicates.                                              *)
LEMMA RestContent ==
  ASSUME NEW T, NEW ch \in Channel(T), Ready(ch)
  PROVE  /\ First(ch) \in T
         /\ Rest(ch) \in Channel(T)
         /\ Rest(ch).closed = ch.closed
         /\ Content(ch) = Content(Rest(ch)) \cup {First(ch)}
         /\ Len(Rest(ch).buf) = Len(ch.buf) - 1
         /\ IsInjective(ch.buf)
              => IsInjective(Rest(ch).buf) /\ First(ch) \notin Content(Rest(ch))
<1> DEFINE b == ch.buf
           c == Tail(b)
<1>1. /\ b \in Seq(T) /\ b # <<>>
      /\ Rest(ch).buf = c /\ Rest(ch).closed = ch.closed
  BY DEF Channel, Rest, Ready
<1>2. /\ c \in Seq(T)
      /\ Len(c) = Len(b) - 1
      /\ \A i \in 1 .. Len(c) : c[i] = b[i+1]
      /\ Head(b) \in T
  BY <1>1, HeadTailProperties
<1>3. /\ Len(b) \in Nat \ {0} /\ DOMAIN b = 1 .. Len(b)
      /\ DOMAIN c = 1 .. Len(b) - 1
  BY <1>1, <1>2, LenProperties, EmptySeq
<1>4. Head(b) = b[1]
  BY <1>1
<1>5. Rest(ch) \in Channel(T)
  BY <1>2 DEF Channel, Rest
<1>6. Range(b) = Range(c) \cup {Head(b)}
  <2>1. ASSUME NEW i \in 1 .. Len(b) PROVE b[i] \in Range(c) \cup {Head(b)}
    <3>1. CASE i = 1
      BY <1>4, <3>1
    <3>2. CASE i # 1
      <4>1. i - 1 \in 1 .. Len(c) /\ c[i-1] = b[i]
        BY <1>2, <1>3, <3>2
      <4> QED
        BY <4>1, <1>2, <1>3 DEF Range
    <3> QED
      BY <3>1, <3>2
  <2>2. ASSUME NEW i \in 1 .. Len(c) PROVE c[i] \in Range(b)
    BY <1>2, <1>3 DEF Range
  <2>3. Head(b) \in Range(b)
    BY <1>3, <1>4 DEF Range
  <2> QED
    BY <2>1, <2>2, <2>3, <1>2, <1>3 DEF Range
<1>7. ASSUME IsInjective(b)
      PROVE  IsInjective(c) /\ Head(b) \notin Range(c)
  <2>1. IsInjective(c)
    <3>1. ASSUME NEW i \in 1 .. Len(c), NEW k \in 1 .. Len(c), c[i] = c[k]
          PROVE  i = k
      <4>1. i + 1 \in DOMAIN b /\ k + 1 \in DOMAIN b
        BY <1>2, <1>3
      <4>2. b[i+1] = b[k+1]
        BY <1>2, <3>1
      <4> QED
        BY <4>1, <4>2, <1>7 DEF IsInjective
    <3> QED
      BY <3>1, <1>2, <1>3 DEF IsInjective
  <2>2. ASSUME NEW i \in 1 .. Len(c) PROVE c[i] # b[1]
    BY <1>2, <1>3, <1>7 DEF IsInjective
  <2>3. Head(b) \notin Range(c)
    BY <2>2, <1>2, <1>3, <1>4 DEF Range
  <2> QED
    BY <2>1, <2>3
<1> QED
  BY <1>1, <1>2, <1>5, <1>6, <1>7 DEF Content, First

(* Closing leaves what is buffered.                                          *)
LEMMA CloseContent ==
  ASSUME NEW T, NEW ch \in Channel(T)
  PROVE  /\ Close(ch) \in Channel(T)
         /\ Close(ch).closed = TRUE
         /\ Close(ch).buf = ch.buf
         /\ Content(Close(ch)) = Content(ch)
BY DEF Channel, Close, Content

(* The group jobs of a snapshot are group jobs, and ask for no process       *)
(* without a rule.                                                           *)
LEMMA ByPgrpType ==
  ASSUME NEW s \in Snapshot
  PROVE  /\ Matching(s) \in Snapshot
         /\ ByPgrp(s) \in SUBSET GroupJob
         /\ Due(s) \in SUBSET GroupJob
         /\ Matching(s).procs = {} => ByPgrp(Matching(s)) = {}
<1>1. ASSUME NEW t \in Snapshot PROVE ByPgrp(t) \in SUBSET GroupJob
  <2>1. ASSUME NEW g PROVE Members(t, g) \in SUBSET Procs
    BY DEF Snapshot, Members
  <2>2. ASSUME NEW g
        PROVE  [num |-> t.num, pids |-> Members(t, g),
                due |-> Leader(Members(t, g)) \in t.diff] \in GroupJob
    <3>1. (Leader(Members(t, g)) \in t.diff) \in BOOLEAN
      OBVIOUS
    <3>2. t.num \in Nat
      BY DEF Snapshot
    <3> QED
      BY <2>1, <3>1, <3>2, Zenon DEF GroupJob
  <2> QED
    BY <2>2 DEF ByPgrp
<1>2. Matching(s) \in Snapshot
  BY DEF Snapshot, Matching
<1>3. Matching(s).procs = {} => ByPgrp(Matching(s)) = {}
  BY DEF ByPgrp
<1> QED
  BY <1>1, <1>2, <1>3 DEF Due

-----------------------------------------------------------------------------
(* Types: what a step of the goroutines in the middle, or of a worker, keeps *)
(* of the pipeline.                                                          *)

LEMMA InitPipelineType == PipelineInit => PipelineTypeOK
<1> SUFFICES ASSUME PipelineInit PROVE PipelineTypeOK
  OBVIOUS
<1>1. Cardinality(Workers) \in Nat
  BY WorkersAssumption, FS_CardinalityType
<1>2. \A T : Open \in Channel(T)
  BY EmptySeq DEF Open, Channel
<1> QED
  BY <1>1, <1>2 DEF PipelineInit, PipelineTypeOK, Idle

LEMMA StageType ==
  ASSUME PipelineTypeOK, StageStep
  PROVE  PipelineTypeOK'
<1> USE DEF PipelineTypeOK, Idle, Waiting
<1>1. CASE FilterReceive
  <2>1. First(inputs) \in Snapshot /\ inputs' \in Channel(Snapshot)
    BY <1>1, RestContent DEF FilterReceive
  <2>2. Matching(First(inputs)) \in Snapshot
    BY <2>1, ByPgrpType
  <2> QED
    BY <1>1, <2>1, <2>2 DEF FilterReceive
<1>2. CASE FilterSend
  <2>1. PICK s \in filter.hand : procs' = Offer(procs, s)
    BY <1>2 DEF FilterSend
  <2>2. procs' \in Channel(Snapshot)
    BY <2>1, OfferContent
  <2> QED
    BY <1>2, <2>2 DEF FilterSend
<1>3. CASE FilterDone
  <2>1. procs' \in Channel(Snapshot)
    BY <1>3 DEF FilterDone, Channel, Close
  <2>2. filter' \in [hand : SUBSET Snapshot, done : BOOLEAN]
    BY <1>3 DEF FilterDone
  <2>3. inner' \in Int
    BY <1>3 DEF FilterDone
  <2> QED
    BY <1>3, <2>1, <2>2, <2>3 DEF FilterDone
<1>4. CASE SplitReceive
  <2>1. First(procs) \in Snapshot /\ procs' \in Channel(Snapshot)
    BY <1>4, RestContent DEF SplitReceive
  <2>2. ByPgrp(First(procs)) \in SUBSET GroupJob
    BY <2>1, ByPgrpType
  <2> QED
    BY <1>4, <2>1, <2>2 DEF SplitReceive
<1>5. CASE \E j \in split.todo : SplitReview(j)
  <2>1. PICK j \in split.todo : SplitReview(j)
    BY <1>5
  <2>2. split' \in [hand : SUBSET GroupJob, todo : SUBSET GroupJob, done : BOOLEAN]
    <3>1. CASE IsBroken(j)
      BY <2>1, <3>1 DEF SplitReview
    <3>2. CASE ~IsBroken(j)
      <4>1. (IF j.due THEN {j} ELSE {}) \in SUBSET GroupJob
        OBVIOUS
      <4>2. split' = [split EXCEPT !.todo = @ \ {j},
                                   !.hand = IF j.due THEN {j} ELSE {}]
        BY <2>1, <3>2 DEF SplitReview
      <4> QED
        BY <4>1, <4>2
    <3> QED
      BY <3>1, <3>2
  <2>3. status' \in {"running", "fatal", "exit0", "exit1"}
    BY <2>1 DEF SplitReview
  <2> QED
    BY <1>5, <2>1, <2>2, <2>3 DEF SplitReview
<1>6. CASE SplitSend
  <2>1. PICK j \in split.hand : groupjobs' = Offer(groupjobs, j)
    BY <1>6 DEF SplitSend
  <2>2. groupjobs' \in Channel(GroupJob)
    BY <2>1, OfferContent
  <2> QED
    BY <1>6, <2>2 DEF SplitSend
<1>7. CASE SplitDone
  <2>1. groupjobs' \in Channel(GroupJob)
    BY <1>7 DEF SplitDone, Channel, Close
  <2>2. split' \in [hand : SUBSET GroupJob, todo : SUBSET GroupJob,
                  done : BOOLEAN]
    BY <1>7 DEF SplitDone
  <2>3. inner' \in Int
    BY <1>7 DEF SplitDone
  <2> QED
    BY <1>7, <2>1, <2>2, <2>3 DEF SplitDone
<1>8. CASE PrepareReceive
  <2>1. First(groupjobs) \in GroupJob /\ groupjobs' \in Channel(GroupJob)
    BY <1>8, RestContent DEF PrepareReceive
  <2> QED
    BY <1>8, <2>1 DEF PrepareReceive
<1>9. CASE PrepareSend
  <2>1. PICK j \in prepare.hand : jobs' = Offer(jobs, j)
    BY <1>9 DEF PrepareSend
  <2>2. jobs' \in Channel(GroupJob)
    BY <2>1, OfferContent
  <2> QED
    BY <1>9, <2>2 DEF PrepareSend
<1>10. CASE PrepareDone
  <2>1. jobs' \in Channel(GroupJob)
    BY <1>10 DEF PrepareDone, Channel, Close
  <2>2. prepare' \in [hand : SUBSET GroupJob, done : BOOLEAN]
    BY <1>10 DEF PrepareDone
  <2>3. inner' \in Int
    BY <1>10 DEF PrepareDone
  <2> QED
    BY <1>10, <2>1, <2>2, <2>3 DEF PrepareDone
<1>11. CASE GenerateDone
  BY <1>11 DEF GenerateDone
<1> QED
  BY <1>1, <1>2, <1>3, <1>4, <1>5, <1>6, <1>7,
     <1>8, <1>9, <1>10, <1>11 DEF StageStep

LEMMA WorkerType ==
  ASSUME PipelineTypeOK, NEW w \in Workers, WorkerReceive(w) \/ WorkerRun(w)
  PROVE  /\ PipelineTypeOK'
         /\ WorkerReceive(w) => First(jobs) \in GroupJob
<1> USE DEF PipelineTypeOK
<1>1. CASE WorkerReceive(w)
  <2>1. First(jobs) \in GroupJob /\ jobs' \in Channel(GroupJob)
    BY <1>1, RestContent DEF WorkerReceive
  <2> QED
    BY <1>1, <2>1 DEF WorkerReceive
<1>2. CASE WorkerRun(w) /\ ~WorkerReceive(w)
  BY <1>2 DEF WorkerRun
<1> QED
  BY <1>1, <1>2

-----------------------------------------------------------------------------

USE DEF Idle, Waiting

(* A step is a step of one goroutine, or none at all.                        *)
LEMMA StepCases ==
  ASSUME [Next]_vars
  PROVE  \/ MainSend \/ MainClose \/ MainReturn
         \/ FilterReceive /\ UNCHANGED <<main, sent, log, applied>>
         \/ FilterSend /\ UNCHANGED <<main, sent, log, applied>>
         \/ FilterDone /\ UNCHANGED <<main, sent, log, applied>>
         \/ SplitReceive /\ UNCHANGED <<main, sent, log, applied>>
         \/ (\E j \in split.todo : SplitReview(j))
              /\ UNCHANGED <<main, sent, log, applied>>
         \/ SplitSend /\ UNCHANGED <<main, sent, log, applied>>
         \/ SplitDone /\ UNCHANGED <<main, sent, log, applied>>
         \/ PrepareReceive /\ UNCHANGED <<main, sent, log, applied>>
         \/ PrepareSend /\ UNCHANGED <<main, sent, log, applied>>
         \/ PrepareDone /\ UNCHANGED <<main, sent, log, applied>>
         \/ GenerateDone /\ UNCHANGED <<main, sent, log, applied>>
         \/ \E w \in Workers : Take(w)
         \/ \E w \in Workers : Run(w)
         \/ \E w \in Workers : Leave(w)
         \/ UNCHANGED vars
BY DEF Next, Step, Stage, StageStep, Work

-----------------------------------------------------------------------------
(* Types.                                                                    *)

LEMMA InitType == Init => TypeOK
<1> SUFFICES ASSUME Init PROVE TypeOK
  OBVIOUS
<1>1. log \in Seq(GroupJob)
  BY EmptySeq DEF Init
<1> QED
  BY <1>1, InitPipelineType DEF Init, TypeOK

LEMMA NextType == TypeOK /\ [Next]_vars => TypeOK'
<1> SUFFICES ASSUME TypeOK, [Next]_vars PROVE TypeOK'
  OBVIOUS
<1> USE DEF TypeOK
<1>1. CASE MainSend
  <2>1. PICK s \in Scans : inputs' = Offer(inputs, s) /\ sent' = {s}
    BY <1>1 DEF MainSend
  <2>2. inputs' \in Channel(Snapshot)
    BY <2>1, ScansAssumption, OfferContent DEF PipelineTypeOK
  <2> QED
    BY <1>1, <2>1, <2>2 DEF MainSend, PipelineTypeOK
<1>2. CASE MainClose
  BY <1>2, CloseContent DEF MainClose, PipelineTypeOK
<1>3. CASE MainReturn
  BY <1>3 DEF MainReturn, pipelineVars, PipelineTypeOK
<1>4. CASE StageStep /\ UNCHANGED <<main, sent, log, applied>>
  BY <1>4, StageType
<1>5. CASE \E w \in Workers : Take(w)
  <2>1. PICK w \in Workers : Take(w)
    BY <1>5
  <2>2. PipelineTypeOK' /\ First(jobs) \in GroupJob
    BY <2>1, WorkerType DEF Take
  <2>3. log' \in Seq(GroupJob)
    BY <2>1, <2>2, AppendProperties DEF Take
  <2> QED
    BY <2>1, <2>2, <2>3 DEF Take
<1>6. CASE \E w \in Workers : Run(w)
  BY <1>6, WorkerType DEF Run, WorkerRun, PipelineTypeOK
<1>7. CASE \E w \in Workers : Leave(w)
  <2>1. PICK w \in Workers : Leave(w)
    BY <1>7
  <2>2. worker' \in [Workers -> [hand : SUBSET GroupJob, done : BOOLEAN]]
    BY <2>1 DEF Leave, WorkerDone, PipelineTypeOK
  <2>3. wg' \in Int
    BY <2>1 DEF Leave, WorkerDone, PipelineTypeOK
  <2> QED
    BY <2>1, <2>2, <2>3 DEF Leave, WorkerDone, PipelineTypeOK
<1>8. CASE UNCHANGED vars
  BY <1>8 DEF vars, pipelineVars, PipelineTypeOK
<1> QED
  BY <1>1, <1>2, <1>3, <1>4, <1>5, <1>6, <1>7, <1>8, StepCases DEF StageStep

(* Every goroutine keeps its channels, hand and counters within their types. *)
THEOREM TypeCorrect == Spec => []TypeOK
BY InitType, NextType, PTL DEF Spec
-----------------------------------------------------------------------------
(* The inductive invariant, in parts.                                        *)

AtMostOne(S) == \A x, y \in S : x = y

(* A goroutine holds one item at a time.                                     *)
Hands ==
  /\ AtMostOne(filter.hand) /\ AtMostOne(split.hand) /\ AtMostOne(prepare.hand)
  /\ \A w \in Workers : AtMostOne(worker[w].hand)

(* Shutdown travels downstream: who has closed its output has found its      *)
(* input closed and empty, and holds nothing.                                *)
Shutdown ==
  /\ inputs.closed <=> main \in {"wait", "done"}
  /\ procs.closed <=> filter.done
  /\ groupjobs.closed <=> split.done
  /\ jobs.closed <=> prepare.done
  /\ filter.done => filter.hand = {} /\ Drained(inputs)
  /\ split.done => split.hand = {} /\ split.todo = {} /\ Drained(procs)
  /\ prepare.done => prepare.hand = {} /\ Drained(groupjobs)
  /\ \A w \in Workers : worker[w].done => worker[w].hand = {} /\ Drained(jobs)

(* The command returns only when everybody has.                              *)
Joined ==
  main = "done" => generate = "done" /\ \A w \in Workers : worker[w].done

(* What is between the splitter and the workers.                             *)
Queued ==
  Content(jobs) \cup prepare.hand \cup Content(groupjobs) \cup split.hand
    \cup split.todo

(* The one snapshot is in one place until the splitter takes it apart.       *)
Upstream == inputs.buf # <<>> \/ filter.hand # {} \/ procs.buf # <<>>

OneSnapshot ==
  /\ AtMostOne(sent)
  /\ main = "send" => ~Upstream /\ sent = {}
  /\ sent = {} \/ Upstream => Queued = {} /\ log = <<>>
  /\ Content(inputs) \subseteq sent
  /\ filter.hand \cup Content(procs) \subseteq {Matching(s) : s \in sent}
  /\ Len(inputs.buf) <= 1 /\ Len(procs.buf) <= 1
  /\ inputs.buf # <<>> => filter.hand = {} /\ procs.buf = <<>>
  /\ filter.hand # {} => procs.buf = <<>>

AllDue == UNION {Due(s) : s \in sent}

(* Jobs are never invented on the way...                                     *)
NothingExtra ==
  /\ Taken \cup Content(jobs) \cup prepare.hand \cup Content(groupjobs)
       \cup split.hand \subseteq AllDue
  /\ split.todo \subseteq UNION {ByPgrp(Matching(s)) : s \in sent}

InWorkers == Taken = applied \cup UNION {worker[w].hand : w \in Workers}

(* ... and never dropped.                                                    *)
NothingLost ==
  Upstream \/ AllDue \subseteq Taken \cup Queued

IndInv ==
  /\ TypeOK /\ Hands /\ Shutdown /\ WaitGroups /\ Joined
  /\ OneSnapshot /\ NothingExtra /\ InWorkers /\ NothingLost /\ EachJobOnce


LEMMA NextHands ==
  TypeOK /\ Hands /\ [Next]_vars => Hands'
<1> SUFFICES ASSUME TypeOK, Hands, [Next]_vars PROVE Hands'
  OBVIOUS
<1> USE DEF Hands, AtMostOne, TypeOK, PipelineTypeOK
<1>1. CASE MainSend
  BY <1>1 DEF MainSend
<1>2. CASE MainClose
  BY <1>2 DEF MainClose
<1>3. CASE MainReturn
  BY <1>3 DEF MainReturn, pipelineVars
<1>4. CASE FilterReceive /\ UNCHANGED <<main, sent, log, applied>>
  BY <1>4 DEF FilterReceive
<1>5. CASE FilterSend /\ UNCHANGED <<main, sent, log, applied>>
  BY <1>5 DEF FilterSend
<1>6. CASE FilterDone /\ UNCHANGED <<main, sent, log, applied>>
  BY <1>6 DEF FilterDone
<1>7. CASE SplitReceive /\ UNCHANGED <<main, sent, log, applied>>
  BY <1>7 DEF SplitReceive
<1>8. CASE (\E j \in split.todo : SplitReview(j))
             /\ UNCHANGED <<main, sent, log, applied>>
  <2>1. PICK j \in split.todo : SplitReview(j)
    BY <1>8
  <2>2. CASE IsBroken(j)
    BY <1>8, <2>1, <2>2 DEF SplitReview
  <2>3. CASE ~IsBroken(j)
    <3>1. split' = [split EXCEPT !.todo = @ \ {j},
                                 !.hand = IF j.due THEN {j} ELSE {}]
      BY <2>1, <2>3 DEF SplitReview
    <3>2. AtMostOne(split'.hand)
      BY <3>1
    <3> QED
      BY <1>8, <2>1, <3>2 DEF SplitReview
  <2> QED
    BY <2>2, <2>3
<1>9. CASE SplitSend /\ UNCHANGED <<main, sent, log, applied>>
  BY <1>9 DEF SplitSend
<1>10. CASE SplitDone /\ UNCHANGED <<main, sent, log, applied>>
  BY <1>10 DEF SplitDone
<1>11. CASE PrepareReceive /\ UNCHANGED <<main, sent, log, applied>>
  BY <1>11 DEF PrepareReceive
<1>12. CASE PrepareSend /\ UNCHANGED <<main, sent, log, applied>>
  BY <1>12 DEF PrepareSend
<1>13. CASE PrepareDone /\ UNCHANGED <<main, sent, log, applied>>
  BY <1>13 DEF PrepareDone
<1>14. CASE GenerateDone /\ UNCHANGED <<main, sent, log, applied>>
  BY <1>14 DEF GenerateDone
<1>15. CASE \E w \in Workers : Take(w)
  <2>1. PICK w \in Workers : Take(w)
    BY <1>15
  <2> QED
    BY <2>1 DEF Take, WorkerReceive
<1>16. CASE \E w \in Workers : Run(w)
  <2>1. PICK w \in Workers : Run(w)
    BY <1>16
  <2> QED
    BY <2>1 DEF Run, WorkerRun
<1>17. CASE \E w \in Workers : Leave(w)
  <2>1. PICK w \in Workers : Leave(w)
    BY <1>17
  <2> QED
    BY <2>1 DEF Leave, WorkerDone
<1>18. CASE UNCHANGED vars
  BY <1>18 DEF vars, pipelineVars
<1> QED
  BY <1>1, <1>2, <1>3, <1>4, <1>5, <1>6, <1>7, <1>8, <1>9, <1>10,
     <1>11, <1>12, <1>13, <1>14, <1>15, <1>16, <1>17, <1>18, StepCases

LEMMA NextShutdown ==
  TypeOK /\ Shutdown /\ [Next]_vars => Shutdown'
<1> SUFFICES ASSUME TypeOK, Shutdown, [Next]_vars PROVE Shutdown'
  OBVIOUS
<1> USE DEF Shutdown, TypeOK, PipelineTypeOK, Close, Offer, Rest, Ready, Drained
<1>1. CASE MainSend
  BY <1>1 DEF MainSend
<1>2. CASE MainClose
  BY <1>2 DEF MainClose
<1>3. CASE MainReturn
  BY <1>3 DEF MainReturn, pipelineVars
<1>4. CASE FilterReceive /\ UNCHANGED <<main, sent, log, applied>>
  BY <1>4 DEF FilterReceive
<1>5. CASE FilterSend /\ UNCHANGED <<main, sent, log, applied>>
  BY <1>5 DEF FilterSend
<1>6. CASE FilterDone /\ UNCHANGED <<main, sent, log, applied>>
  BY <1>6 DEF FilterDone
<1>7. CASE SplitReceive /\ UNCHANGED <<main, sent, log, applied>>
  BY <1>7 DEF SplitReceive
<1>8. CASE (\E j \in split.todo : SplitReview(j))
             /\ UNCHANGED <<main, sent, log, applied>>
  BY <1>8 DEF SplitReview
<1>9. CASE SplitSend /\ UNCHANGED <<main, sent, log, applied>>
  BY <1>9 DEF SplitSend
<1>10. CASE SplitDone /\ UNCHANGED <<main, sent, log, applied>>
  BY <1>10 DEF SplitDone
<1>11. CASE PrepareReceive /\ UNCHANGED <<main, sent, log, applied>>
  BY <1>11 DEF PrepareReceive
<1>12. CASE PrepareSend /\ UNCHANGED <<main, sent, log, applied>>
  BY <1>12 DEF PrepareSend
<1>13. CASE PrepareDone /\ UNCHANGED <<main, sent, log, applied>>
  BY <1>13 DEF PrepareDone
<1>14. CASE GenerateDone /\ UNCHANGED <<main, sent, log, applied>>
  BY <1>14 DEF GenerateDone
<1>15. CASE \E w \in Workers : Take(w)
  <2>1. PICK w \in Workers : Take(w)
    BY <1>15
  <2> QED
    BY <2>1 DEF Take, WorkerReceive
<1>16. CASE \E w \in Workers : Run(w)
  <2>1. PICK w \in Workers : Run(w)
    BY <1>16
  <2> QED
    BY <2>1 DEF Run, WorkerRun
<1>17. CASE \E w \in Workers : Leave(w)
  <2>1. PICK w \in Workers : Leave(w)
    BY <1>17
  <2> QED
    BY <2>1 DEF Leave, WorkerDone
<1>18. CASE UNCHANGED vars
  BY <1>18 DEF vars, pipelineVars
<1> QED
  BY <1>1, <1>2, <1>3, <1>4, <1>5, <1>6, <1>7, <1>8, <1>9, <1>10,
     <1>11, <1>12, <1>13, <1>14, <1>15, <1>16, <1>17, <1>18, StepCases


(* A closed channel may lose its buffered items, nothing else.               *)
LEMMA ClosedForGoodCases ==
  ASSUME NEW T, NEW ch \in Channel(T)
  PROVE  /\ ClosedForGood(ch, ch)
         /\ ClosedForGood(ch, Close(ch))
         /\ Ready(ch) => ClosedForGood(ch, Rest(ch))
         /\ ~ch.closed => \A x \in T : ClosedForGood(ch, Offer(ch, x))
<1>1. Len(ch.buf) \in Nat
  BY LenProperties DEF Channel
<1>2. ClosedForGood(ch, ch) /\ ClosedForGood(ch, Close(ch))
  BY <1>1, CloseContent DEF ClosedForGood, Close, Channel
<1>3. ASSUME Ready(ch) PROVE ClosedForGood(ch, Rest(ch))
  <2>1. Rest(ch).closed = ch.closed /\ Len(Rest(ch).buf) = Len(ch.buf) - 1
    BY <1>3, RestContent
  <2> QED
    BY <2>1, <1>1 DEF ClosedForGood
<1>4. ASSUME ~ch.closed, NEW x \in T PROVE ClosedForGood(ch, Offer(ch, x))
  BY <1>4 DEF ClosedForGood
<1> QED
  BY <1>2, <1>3, <1>4

NoSend ==
  /\ ClosedForGood(inputs, inputs') /\ ClosedForGood(procs, procs')
  /\ ClosedForGood(groupjobs, groupjobs') /\ ClosedForGood(jobs, jobs')

(* The goroutine that closes a channel is the one that sends to it, and it   *)
(* holds nothing then: no step sends on a closed channel.                    *)
LEMMA NextNoSend ==
  TypeOK /\ Shutdown /\ [Next]_vars => NoSend
<1> SUFFICES ASSUME TypeOK, Shutdown, [Next]_vars PROVE NoSend
  OBVIOUS
<1>0. /\ \A ch \in {inputs, procs, groupjobs, jobs} :
           /\ ClosedForGood(ch, ch)
           /\ ClosedForGood(ch, Close(ch))
           /\ Ready(ch) => ClosedForGood(ch, Rest(ch))
      /\ \A ch \in {inputs, procs} : ~ch.closed =>
           \A s \in Snapshot : ClosedForGood(ch, Offer(ch, s))
      /\ \A ch \in {groupjobs, jobs} : ~ch.closed =>
           \A j \in GroupJob : ClosedForGood(ch, Offer(ch, j))
  BY ClosedForGoodCases DEF TypeOK, PipelineTypeOK
<1> USE ScansAssumption DEF Shutdown, TypeOK, PipelineTypeOK, NoSend
<1>1. CASE MainSend
  BY <1>1, <1>0 DEF MainSend
<1>2. CASE MainClose
  BY <1>2, <1>0 DEF MainClose
<1>3. CASE MainReturn
  BY <1>3, <1>0 DEF MainReturn, pipelineVars
<1>4. CASE FilterReceive /\ UNCHANGED <<main, sent, log, applied>>
  BY <1>4, <1>0 DEF FilterReceive
<1>5. CASE FilterSend /\ UNCHANGED <<main, sent, log, applied>>
  BY <1>5, <1>0 DEF FilterSend
<1>6. CASE FilterDone /\ UNCHANGED <<main, sent, log, applied>>
  BY <1>6, <1>0 DEF FilterDone
<1>7. CASE SplitReceive /\ UNCHANGED <<main, sent, log, applied>>
  BY <1>7, <1>0 DEF SplitReceive
<1>8. CASE (\E j \in split.todo : SplitReview(j))
             /\ UNCHANGED <<main, sent, log, applied>>
  BY <1>8, <1>0 DEF SplitReview
<1>9. CASE SplitSend /\ UNCHANGED <<main, sent, log, applied>>
  BY <1>9, <1>0 DEF SplitSend
<1>10. CASE SplitDone /\ UNCHANGED <<main, sent, log, applied>>
  BY <1>10, <1>0 DEF SplitDone
<1>11. CASE PrepareReceive /\ UNCHANGED <<main, sent, log, applied>>
  BY <1>11, <1>0 DEF PrepareReceive
<1>12. CASE PrepareSend /\ UNCHANGED <<main, sent, log, applied>>
  BY <1>12, <1>0 DEF PrepareSend
<1>13. CASE PrepareDone /\ UNCHANGED <<main, sent, log, applied>>
  BY <1>13, <1>0 DEF PrepareDone
<1>14. CASE GenerateDone /\ UNCHANGED <<main, sent, log, applied>>
  BY <1>14, <1>0 DEF GenerateDone
<1>15. CASE \E w \in Workers : Take(w)
  <2>1. PICK w \in Workers : Take(w)
    BY <1>15
  <2> QED
    BY <2>1, <1>0 DEF Take, WorkerReceive
<1>16. CASE \E w \in Workers : Run(w)
  <2>1. PICK w \in Workers : Run(w)
    BY <1>16
  <2> QED
    BY <2>1, <1>0 DEF Run, WorkerRun
<1>17. CASE \E w \in Workers : Leave(w)
  <2>1. PICK w \in Workers : Leave(w)
    BY <1>17
  <2> QED
    BY <2>1, <1>0 DEF Leave, WorkerDone
<1>18. CASE UNCHANGED vars
  BY <1>18, <1>0 DEF vars, pipelineVars
<1> QED
  BY <1>1, <1>2, <1>3, <1>4, <1>5, <1>6, <1>7, <1>8, <1>9, <1>10,
     <1>11, <1>12, <1>13, <1>14, <1>15, <1>16, <1>17, <1>18, StepCases

(* The goroutine that closes a channel has not done so: who has is past its  *)
(* loop.                                                                     *)
LEMMA NoSecondClose == Shutdown => ClosesOpen
BY DEF Shutdown, ClosesOpen, MainClose, FilterDone, SplitDone, PrepareDone,
       Waiting

(* The WaitGroups count who is still running.                                *)
LEMMA NextWaitGroups ==
  TypeOK /\ Shutdown /\ WaitGroups /\ [Next]_vars => WaitGroups'
<1> SUFFICES ASSUME TypeOK, Shutdown, WaitGroups, [Next]_vars PROVE WaitGroups'
  OBVIOUS
<1> USE DEF WaitGroups, Running, TypeOK, PipelineTypeOK
<1>1. CASE MainSend
  BY <1>1 DEF MainSend
<1>2. CASE MainClose
  BY <1>2 DEF MainClose
<1>3. CASE MainReturn
  BY <1>3 DEF MainReturn, pipelineVars
<1>4. CASE FilterReceive /\ UNCHANGED <<main, sent, log, applied>>
  BY <1>4 DEF FilterReceive
<1>5. CASE FilterSend /\ UNCHANGED <<main, sent, log, applied>>
  BY <1>5 DEF FilterSend
<1>6. CASE FilterDone /\ UNCHANGED <<main, sent, log, applied>>
  <2>1. filter' = [filter EXCEPT !.done = TRUE] /\ ~filter.done /\ inner' = inner - 1
    BY <1>6 DEF FilterDone
  <2>2. filter'.done
    BY <2>1
  <2> QED
    BY <1>6, <2>1, <2>2 DEF FilterDone
<1>7. CASE SplitReceive /\ UNCHANGED <<main, sent, log, applied>>
  BY <1>7 DEF SplitReceive
<1>8. CASE (\E j \in split.todo : SplitReview(j))
             /\ UNCHANGED <<main, sent, log, applied>>
  <2>1. PICK j \in split.todo : SplitReview(j)
    BY <1>8
  <2>2. split'.done = split.done
    BY <2>1 DEF SplitReview
  <2> QED
    BY <1>8, <2>1, <2>2 DEF SplitReview
<1>9. CASE SplitSend /\ UNCHANGED <<main, sent, log, applied>>
  BY <1>9 DEF SplitSend
<1>10. CASE SplitDone /\ UNCHANGED <<main, sent, log, applied>>
  <2>1. split' = [split EXCEPT !.done = TRUE] /\ ~split.done /\ inner' = inner - 1
    BY <1>10 DEF SplitDone
  <2>2. split'.done
    BY <2>1
  <2> QED
    BY <1>10, <2>1, <2>2 DEF SplitDone
<1>11. CASE PrepareReceive /\ UNCHANGED <<main, sent, log, applied>>
  BY <1>11 DEF PrepareReceive
<1>12. CASE PrepareSend /\ UNCHANGED <<main, sent, log, applied>>
  BY <1>12 DEF PrepareSend
<1>13. CASE PrepareDone /\ UNCHANGED <<main, sent, log, applied>>
  <2>1. prepare' = [prepare EXCEPT !.done = TRUE] /\ ~prepare.done /\ inner' = inner - 1
    BY <1>13 DEF PrepareDone
  <2>2. prepare'.done
    BY <2>1
  <2> QED
    BY <1>13, <2>1, <2>2 DEF PrepareDone
<1>14. CASE GenerateDone /\ UNCHANGED <<main, sent, log, applied>>
  <2>1. generate = "wait" /\ generate' = "done" /\ wg' = wg - 1 /\ inner' = 0
    BY <1>14 DEF GenerateDone
  <2>2. Cardinality({w \in Workers : ~worker[w].done}) \in Nat
    BY WorkersAssumption, FS_Subset, FS_CardinalityType
  <2> QED
    BY <1>14, <2>1, <2>2 DEF GenerateDone
<1>15. CASE \E w \in Workers : Take(w)
  <2>1. PICK w \in Workers : Take(w)
    BY <1>15
  <2>2. \A v \in Workers : worker'[v].done = worker[v].done
    BY <2>1 DEF Take, WorkerReceive
  <2>3. {v \in Workers : ~worker'[v].done} = {v \in Workers : ~worker[v].done}
    BY <2>2
  <2> QED
    BY <2>1, <2>3 DEF Take, WorkerReceive
<1>16. CASE \E w \in Workers : Run(w)
  <2>1. PICK w \in Workers : Run(w)
    BY <1>16
  <2>2. \A v \in Workers : worker'[v].done = worker[v].done
    BY <2>1 DEF Run, WorkerRun
  <2>3. {v \in Workers : ~worker'[v].done} = {v \in Workers : ~worker[v].done}
    BY <2>2
  <2> QED
    BY <2>1, <2>3 DEF Run, WorkerRun
<1>17. CASE \E w \in Workers : Leave(w)
  <2>1. PICK w \in Workers : Leave(w)
    BY <1>17
  <2> DEFINE busy == {v \in Workers : ~worker[v].done}
  <2>2. worker' = [worker EXCEPT ![w].done = TRUE] /\ w \in busy /\ wg' = wg - 1
    BY <2>1 DEF Leave, WorkerDone
  <2>3. busy' = busy \ {w}
    BY <2>2
  <2>4. Cardinality(busy') = Cardinality(busy) - 1 /\ Cardinality(busy) \in Nat
    <3>1. IsFiniteSet(busy)
      BY WorkersAssumption, FS_Subset
    <3>2. w \in busy
      BY <2>2
    <3> HIDE DEF busy
    <3>3. Cardinality(busy \ {w}) = Cardinality(busy) - 1
      BY <3>1, <3>2, FS_RemoveElement
    <3> QED
      BY <2>3, <3>1, <3>3, FS_CardinalityType
  <2>5. UNCHANGED <<inner, filter, split, prepare, generate>>
    BY <2>1 DEF Leave, WorkerDone
  <2> QED
    BY <2>2, <2>4, <2>5
<1>18. CASE UNCHANGED vars
  BY <1>18 DEF vars, pipelineVars
<1> QED
  BY <1>1, <1>2, <1>3, <1>4, <1>5, <1>6, <1>7, <1>8, <1>9, <1>10,
     <1>11, <1>12, <1>13, <1>14, <1>15, <1>16, <1>17, <1>18, StepCases


(* The command waits for every worker and for GenerateGroupJobs.             *)
LEMMA NextJoined ==
  TypeOK /\ WaitGroups /\ Joined /\ [Next]_vars => Joined'
<1> SUFFICES ASSUME TypeOK, WaitGroups, Joined, [Next]_vars PROVE Joined'
  OBVIOUS
<1> USE DEF Joined, TypeOK, PipelineTypeOK
<1>1. CASE MainSend
  BY <1>1 DEF MainSend
<1>2. CASE MainClose
  BY <1>2 DEF MainClose
<1>3. CASE MainReturn
  <2>1. wg = 0 /\ UNCHANGED <<worker, generate>>
    BY <1>3 DEF MainReturn, pipelineVars
  <2> DEFINE busy == {w \in Workers : ~worker[w].done}
  <2>2. IsFiniteSet(busy) /\ Cardinality(busy) \in Nat
    BY WorkersAssumption, FS_Subset, FS_CardinalityType
  <2>3. Cardinality(busy) = 0 /\ generate = "done"
    BY <2>1, <2>2 DEF WaitGroups
  <2>4. busy = {}
    <3> HIDE DEF busy
    <3> QED
      BY <2>2, <2>3, FS_EmptySet
  <2> QED
    BY <2>1, <2>3, <2>4
<1>4. CASE FilterReceive /\ UNCHANGED <<main, sent, log, applied>>
  BY <1>4 DEF FilterReceive
<1>5. CASE FilterSend /\ UNCHANGED <<main, sent, log, applied>>
  BY <1>5 DEF FilterSend
<1>6. CASE FilterDone /\ UNCHANGED <<main, sent, log, applied>>
  BY <1>6 DEF FilterDone
<1>7. CASE SplitReceive /\ UNCHANGED <<main, sent, log, applied>>
  BY <1>7 DEF SplitReceive
<1>8. CASE (\E j \in split.todo : SplitReview(j))
             /\ UNCHANGED <<main, sent, log, applied>>
  BY <1>8 DEF SplitReview
<1>9. CASE SplitSend /\ UNCHANGED <<main, sent, log, applied>>
  BY <1>9 DEF SplitSend
<1>10. CASE SplitDone /\ UNCHANGED <<main, sent, log, applied>>
  BY <1>10 DEF SplitDone
<1>11. CASE PrepareReceive /\ UNCHANGED <<main, sent, log, applied>>
  BY <1>11 DEF PrepareReceive
<1>12. CASE PrepareSend /\ UNCHANGED <<main, sent, log, applied>>
  BY <1>12 DEF PrepareSend
<1>13. CASE PrepareDone /\ UNCHANGED <<main, sent, log, applied>>
  BY <1>13 DEF PrepareDone
<1>14. CASE GenerateDone /\ UNCHANGED <<main, sent, log, applied>>
  BY <1>14 DEF GenerateDone
<1>15. CASE \E w \in Workers : Take(w)
  <2>1. PICK w \in Workers : Take(w)
    BY <1>15
  <2> QED
    BY <2>1 DEF Take, WorkerReceive
<1>16. CASE \E w \in Workers : Run(w)
  <2>1. PICK w \in Workers : Run(w)
    BY <1>16
  <2> QED
    BY <2>1 DEF Run, WorkerRun
<1>17. CASE \E w \in Workers : Leave(w)
  <2>1. PICK w \in Workers : Leave(w)
    BY <1>17
  <2> QED
    BY <2>1 DEF Leave, WorkerDone
<1>18. CASE UNCHANGED vars
  BY <1>18 DEF vars, pipelineVars
<1> QED
  BY <1>1, <1>2, <1>3, <1>4, <1>5, <1>6, <1>7, <1>8, <1>9, <1>10,
     <1>11, <1>12, <1>13, <1>14, <1>15, <1>16, <1>17, <1>18, StepCases


(* Appending to a sequence.                                                  *)
LEMMA AppendElement ==
  ASSUME NEW T, NEW seq \in Seq(T), NEW x \in T
  PROVE  /\ Range(Append(seq, x)) = Range(seq) \cup {x}
         /\ IsInjective(seq) /\ x \notin Range(seq)
              => IsInjective(Append(seq, x))
<1> DEFINE ch == [buf |-> seq, closed |-> FALSE]
<1>1. /\ ch \in Channel(T) /\ ch.buf = seq
      /\ Offer(ch, x).buf = Append(seq, x)
  BY DEF Channel, Offer
<1>2. /\ Content(Offer(ch, x)) = Content(ch) \cup {x}
      /\ IsInjective(ch.buf) /\ x \notin Content(ch)
           => IsInjective(Offer(ch, x).buf)
  <2> HIDE DEF ch
  <2> QED
    BY <1>1, OfferContent
<1> QED
  BY <1>1, <1>2 DEF Content

Flow ==
  OneSnapshot /\ NothingExtra /\ InWorkers /\ NothingLost /\ EachJobOnce

(* Jobs and snapshots move on from one goroutine to the next, and nothing    *)
(* else happens to them.                                                     *)
LEMMA NextFlow ==
  TypeOK /\ Hands /\ Flow /\ [Next]_vars => Flow'
<1> SUFFICES ASSUME TypeOK, Hands, Flow, [Next]_vars PROVE Flow'
  OBVIOUS
<1> USE DEF TypeOK, PipelineTypeOK, Flow
<1>1. CASE MainSend
  <2>1. PICK s \in Scans : inputs' = Offer(inputs, s) /\ sent' = {s}
    BY <1>1 DEF MainSend
  <2>2. /\ main = "send" /\ main' = "close" /\ inputs' \in Channel(Snapshot)
        /\ Content(inputs') = Content(inputs) \cup {s}
        /\ Len(inputs'.buf) = Len(inputs.buf) + 1
    BY <1>1, <2>1, ScansAssumption, OfferContent DEF MainSend
  <2>3. Content(inputs) = {} /\ inputs'.buf # <<>> /\ Len(inputs'.buf) = 1
    BY <2>2, EmptyContent DEF OneSnapshot, Upstream
  <2>0. Queued = {} /\ log = <<>> /\ Taken = {} /\ ~Upstream /\ sent = {}
    BY <2>2 DEF OneSnapshot, Taken, Range
  <2>4. UNCHANGED <<procs, groupjobs, jobs, filter, split, prepare, worker, log,
                    applied>>
    BY <1>1 DEF MainSend
  <2>5. OneSnapshot'
    BY <2>1, <2>2, <2>3, <2>4, <2>0 DEF OneSnapshot, Queued, Upstream, AtMostOne
  <2>6. NothingExtra'
    BY <2>1, <2>2, <2>3, <2>4, <2>0 DEF Queued, NothingExtra, AllDue, Taken
  <2>7. InWorkers'
    BY <2>1, <2>2, <2>3, <2>4, <2>0 DEF InWorkers, Taken
  <2>8. NothingLost'
    BY <2>1, <2>2, <2>3, <2>4, <2>0 DEF NothingLost, Upstream, AllDue, Taken, Queued
  <2>9. EachJobOnce'
    BY <2>1, <2>2, <2>3, <2>4, <2>0 DEF EachJobOnce, Taken
  <2> QED
    BY <2>5, <2>6, <2>7, <2>8, <2>9 DEF Flow
<1>2. CASE MainClose
  <2>1. /\ main = "close" /\ main' = "wait"
        /\ inputs'.buf = inputs.buf /\ Content(inputs') = Content(inputs)
    BY <1>2 DEF MainClose, Close, Content, Channel
  <2>2. UNCHANGED <<procs, groupjobs, jobs, filter, split, prepare, worker, sent,
                    log, applied>>
    BY <1>2 DEF MainClose
  <2>3. OneSnapshot'
    BY <2>1, <2>2 DEF OneSnapshot, Queued, Upstream, AtMostOne
  <2>4. NothingExtra'
    BY <2>1, <2>2 DEF NothingExtra, AllDue, Taken
  <2>5. InWorkers'
    BY <2>1, <2>2 DEF InWorkers, Taken
  <2>6. NothingLost'
    BY <2>1, <2>2 DEF NothingLost, Upstream, AllDue, Taken, Queued
  <2>7. EachJobOnce'
    BY <2>1, <2>2 DEF EachJobOnce, Taken
  <2> QED
    BY <2>3, <2>4, <2>5, <2>6, <2>7 DEF Flow
<1>3. CASE MainReturn
  <2>1. main = "wait" /\ main' = "done"
    BY <1>3 DEF MainReturn
  <2>2. UNCHANGED <<pipelineVars, sent, log, applied>>
    BY <1>3 DEF MainReturn
  <2>3. OneSnapshot'
    BY <2>1, <2>2 DEF pipelineVars, OneSnapshot, Queued, Upstream, AtMostOne
  <2>4. NothingExtra'
    BY <2>1, <2>2 DEF pipelineVars, NothingExtra, AllDue, Taken
  <2>5. InWorkers'
    BY <2>1, <2>2 DEF pipelineVars, InWorkers, Taken
  <2>6. NothingLost'
    BY <2>1, <2>2 DEF pipelineVars, NothingLost, Upstream, AllDue, Taken, Queued
  <2>7. EachJobOnce'
    BY <2>1, <2>2 DEF pipelineVars, EachJobOnce, Taken
  <2> QED
    BY <2>3, <2>4, <2>5, <2>6, <2>7 DEF Flow
<1>4. CASE FilterReceive /\ UNCHANGED <<main, sent, log, applied>>
  <2> DEFINE s == First(inputs)
             kept == Matching(s)
  <2>1. /\ inputs.buf # <<>> /\ s \in Snapshot
        /\ inputs' \in Channel(Snapshot)
        /\ Content(inputs) = Content(inputs') \cup {s}
        /\ Len(inputs'.buf) = Len(inputs.buf) - 1
    BY <1>4, RestContent DEF FilterReceive, Ready
  <2>2. filter'.hand = IF kept.procs = {} THEN {} ELSE {kept}
    BY <1>4 DEF FilterReceive
  <2>3. UNCHANGED <<procs, groupjobs, jobs, split, prepare, worker, main, sent,
                    log, applied>>
    BY <1>4 DEF FilterReceive
  <2>4. s \in sent /\ sent = {s} /\ main # "send"
    BY <2>1 DEF OneSnapshot, AtMostOne, Upstream
  <2>5. inputs'.buf = <<>> /\ Content(inputs') = {}
    <3>1. Len(inputs'.buf) \in Nat /\ Len(inputs.buf) \in Nat
      <4>1. inputs'.buf \in Seq(Snapshot) /\ inputs.buf \in Seq(Snapshot)
        BY <2>1 DEF Channel
      <4> QED
        BY <4>1, LenProperties
    <3>2. Len(inputs.buf) <= 1 /\ Len(inputs'.buf) = Len(inputs.buf) - 1
      BY <2>1 DEF OneSnapshot
    <3>3. Len(inputs'.buf) = 0
      <4>1. \A a, b \in Nat : a <= 1 /\ b = a - 1 => b = 0
        OBVIOUS
      <4> QED
        BY <3>1, <3>2, <4>1, Zenon
    <3> QED
      BY <3>3, <2>1, EmptyContent, EmptySeq DEF Channel
  <2>6. kept.procs = {} => AllDue = {}
    BY <2>1, <2>4, ByPgrpType DEF AllDue, Due
  <2> HIDE DEF s, kept
  <2>7. Upstream /\ (kept.procs # {} => Upstream')
    BY <2>1, <2>2 DEF Upstream
  <2>8. OneSnapshot'
    BY <2>1, <2>2, <2>3, <2>4, <2>5, <2>6, <2>7 DEF kept, OneSnapshot, Queued, Upstream, AtMostOne
  <2>9. NothingExtra'
    BY <2>1, <2>2, <2>3, <2>4, <2>5, <2>6, <2>7 DEF NothingExtra, AllDue, Taken
  <2>10. InWorkers'
    BY <2>1, <2>2, <2>3, <2>4, <2>5, <2>6, <2>7 DEF InWorkers, Taken
  <2>11. NothingLost'
    BY <2>1, <2>2, <2>3, <2>4, <2>5, <2>6, <2>7 DEF NothingLost, Upstream, AllDue, Taken, Queued
  <2>12. EachJobOnce'
    BY <2>1, <2>2, <2>3, <2>4, <2>5, <2>6, <2>7 DEF EachJobOnce, Taken
  <2> QED
    BY <2>8, <2>9, <2>10, <2>11, <2>12 DEF Flow
<1>5. CASE FilterSend /\ UNCHANGED <<main, sent, log, applied>>
  <2>1. PICK s \in filter.hand : procs' = Offer(procs, s)
    BY <1>5 DEF FilterSend
  <2>2. /\ procs' \in Channel(Snapshot)
        /\ Content(procs') = Content(procs) \cup {s}
        /\ Len(procs'.buf) = Len(procs.buf) + 1
        /\ Len(procs.buf) = 0 /\ procs'.buf # <<>>
    <3>1. procs.buf = <<>>
      BY <2>1 DEF OneSnapshot
    <3>2. Len(procs.buf) = 0 /\ Len(<<>>) = 0
      BY <3>1, EmptySeq
    <3>3. /\ procs' \in Channel(Snapshot)
          /\ Content(procs') = Content(procs) \cup {s}
          /\ Len(procs'.buf) = Len(procs.buf) + 1
      BY <2>1, OfferContent
    <3>4. procs'.buf # <<>>
      BY <3>3, EmptyContent
    <3> QED
      BY <3>2, <3>3, <3>4
  <2>3. filter'.hand = {} /\ filter.hand # {}
    BY <1>5, <2>1 DEF FilterSend
  <2>4. UNCHANGED <<inputs, groupjobs, jobs, split, prepare, worker, main, sent,
                    log, applied>>
    BY <1>5 DEF FilterSend
  <2>5. OneSnapshot'
    BY <2>1, <2>2, <2>3, <2>4 DEF OneSnapshot, Queued, Upstream, AtMostOne
  <2>6. NothingExtra'
    BY <2>1, <2>2, <2>3, <2>4 DEF NothingExtra, AllDue, Taken
  <2>7. InWorkers'
    BY <2>1, <2>2, <2>3, <2>4 DEF InWorkers, Taken
  <2>8. NothingLost'
    BY <2>1, <2>2, <2>3, <2>4 DEF NothingLost, Upstream, AllDue, Taken, Queued
  <2>9. EachJobOnce'
    BY <2>1, <2>2, <2>3, <2>4 DEF EachJobOnce, Taken
  <2> QED
    BY <2>5, <2>6, <2>7, <2>8, <2>9 DEF Flow
<1>6. CASE FilterDone /\ UNCHANGED <<main, sent, log, applied>>
  <2>1. procs'.buf = procs.buf /\ Content(procs') = Content(procs)
    BY <1>6 DEF FilterDone, Close, Content, Channel
  <2>2. filter'.hand = filter.hand
    BY <1>6 DEF FilterDone
  <2>3. UNCHANGED <<inputs, groupjobs, jobs, split, prepare, worker, main, sent,
                    log, applied>>
    BY <1>6 DEF FilterDone
  <2>4. OneSnapshot'
    BY <2>1, <2>2, <2>3 DEF OneSnapshot, Queued, Upstream, AtMostOne
  <2>5. NothingExtra'
    BY <2>1, <2>2, <2>3 DEF NothingExtra, AllDue, Taken
  <2>6. InWorkers'
    BY <2>1, <2>2, <2>3 DEF InWorkers, Taken
  <2>7. NothingLost'
    BY <2>1, <2>2, <2>3 DEF NothingLost, Upstream, AllDue, Taken, Queued
  <2>8. EachJobOnce'
    BY <2>1, <2>2, <2>3 DEF EachJobOnce, Taken
  <2> QED
    BY <2>4, <2>5, <2>6, <2>7, <2>8 DEF Flow
<1>7. CASE SplitReceive /\ UNCHANGED <<main, sent, log, applied>>
  <2> DEFINE m == First(procs)
  <2>1. /\ procs.buf # <<>> /\ procs' \in Channel(Snapshot)
        /\ Content(procs) = Content(procs') \cup {m}
        /\ Len(procs'.buf) = Len(procs.buf) - 1
    BY <1>7, RestContent DEF SplitReceive, Ready
  <2>2. split'.todo = ByPgrp(m) /\ split'.hand = {} /\ split.hand = {}
    BY <1>7 DEF SplitReceive
  <2>3. UNCHANGED <<inputs, groupjobs, jobs, filter, prepare, worker, main, sent,
                    log, applied>>
    BY <1>7 DEF SplitReceive
  <2> HIDE DEF m
  <2>4. PICK s \in sent : sent = {s} /\ m = Matching(s)
    <3>1. m \in {Matching(s) : s \in sent} /\ AtMostOne(sent)
      BY <2>1 DEF OneSnapshot
    <3> QED
      BY <3>1 DEF AtMostOne
  <2>5. procs'.buf = <<>> /\ Content(procs') = {}
    <3>1. Len(procs'.buf) \in Nat /\ Len(procs.buf) \in Nat
      <4>1. procs'.buf \in Seq(Snapshot) /\ procs.buf \in Seq(Snapshot)
        BY <2>1 DEF Channel
      <4> QED
        BY <4>1, LenProperties
    <3>2. Len(procs.buf) <= 1 /\ Len(procs'.buf) = Len(procs.buf) - 1
      BY <2>1 DEF OneSnapshot
    <3>3. Len(procs'.buf) = 0
      <4>1. \A a, b \in Nat : a <= 1 /\ b = a - 1 => b = 0
        OBVIOUS
      <4> QED
        BY <3>1, <3>2, <4>1, Zenon
    <3> QED
      BY <3>3, <2>1, EmptyContent, EmptySeq DEF Channel
  <2>6. Upstream /\ ~Upstream' /\ main # "send"
    BY <2>1, <2>3, <2>5 DEF Upstream, OneSnapshot
  <2>7. Queued = {} /\ log = <<>> /\ Taken = {}
    BY <2>6 DEF OneSnapshot, Taken, Range
  <2>8. Due(s) \subseteq ByPgrp(m)
    BY <2>4 DEF Due
  <2>9. OneSnapshot'
    BY <2>1, <2>2, <2>3, <2>4, <2>5, <2>6, <2>7, <2>8 DEF OneSnapshot, Queued, Upstream, AtMostOne
  <2>10. NothingExtra'
    BY <2>1, <2>2, <2>3, <2>4, <2>5, <2>6, <2>7, <2>8 DEF Queued, NothingExtra, AllDue, Taken
  <2>11. InWorkers'
    BY <2>1, <2>2, <2>3, <2>4, <2>5, <2>6, <2>7, <2>8 DEF InWorkers, Taken
  <2>12. NothingLost'
    BY <2>1, <2>2, <2>3, <2>4, <2>5, <2>6, <2>7, <2>8 DEF NothingLost, Upstream, AllDue, Taken, Queued
  <2>13. EachJobOnce'
    BY <2>1, <2>2, <2>3, <2>4, <2>5, <2>6, <2>7, <2>8 DEF Queued, EachJobOnce, Taken
  <2> QED
    BY <2>9, <2>10, <2>11, <2>12, <2>13 DEF Flow
<1>8. CASE (\E j \in split.todo : SplitReview(j))
             /\ UNCHANGED <<main, sent, log, applied>>
  <2>1. PICK j \in split.todo : SplitReview(j)
    BY <1>8
  <2>2. UNCHANGED <<inputs, procs, groupjobs, jobs, filter, prepare, worker, main,
                    sent, log, applied>>
    BY <1>8, <2>1 DEF SplitReview
  <2>3. \/ split' = split
        \/ /\ split'.todo = split.todo \ {j} /\ split.hand = {}
           /\ split'.hand = IF j.due THEN {j} ELSE {}
    BY <2>1 DEF SplitReview
  <2>4. PICK s \in sent : j \in ByPgrp(Matching(s)) /\ sent = {s}
    BY DEF NothingExtra, OneSnapshot, AtMostOne
  <2>5. AllDue = Due(s) /\ (j.due <=> j \in AllDue) /\ ~Upstream
    BY <2>4 DEF AllDue, Due, OneSnapshot, Queued
  <2>6. OneSnapshot'
    BY <2>2, <2>3, <2>4, <2>5 DEF OneSnapshot, Queued, Upstream, AtMostOne
  <2>7. NothingExtra'
    BY <2>2, <2>3, <2>4, <2>5 DEF NothingExtra, AllDue, Taken
  <2>8. InWorkers'
    BY <2>2, <2>3, <2>4, <2>5 DEF InWorkers, Taken
  <2>9. NothingLost'
    BY <2>2, <2>3, <2>4, <2>5 DEF NothingLost, Upstream, AllDue, Taken, Queued
  <2>10. EachJobOnce'
    BY <2>2, <2>3, <2>4, <2>5 DEF EachJobOnce, Taken
  <2> QED
    BY <2>6, <2>7, <2>8, <2>9, <2>10 DEF Flow
<1>9. CASE SplitSend /\ UNCHANGED <<main, sent, log, applied>>
  <2>1. PICK j \in split.hand : groupjobs' = Offer(groupjobs, j)
    BY <1>9 DEF SplitSend
  <2>2. /\ Content(groupjobs') = Content(groupjobs) \cup {j}
        /\ IsInjective(groupjobs.buf) /\ j \notin Content(groupjobs)
              => IsInjective(groupjobs'.buf)
    BY <2>1, OfferContent
  <2>3. split'.hand = {} /\ split.hand = {j}
    BY <1>9, <2>1 DEF SplitSend, Hands, AtMostOne
  <2>4. UNCHANGED <<inputs, procs, jobs, filter, split.todo, prepare, worker, main,
                    sent, log, applied>>
    BY <1>9 DEF SplitSend
  <2>5. OneSnapshot'
    BY <2>2, <2>3, <2>4 DEF OneSnapshot, Queued, Upstream, AtMostOne
  <2>6. NothingExtra'
    BY <2>2, <2>3, <2>4 DEF NothingExtra, AllDue, Taken
  <2>7. InWorkers'
    BY <2>2, <2>3, <2>4 DEF InWorkers, Taken
  <2>8. NothingLost'
    BY <2>2, <2>3, <2>4 DEF NothingLost, Upstream, AllDue, Taken, Queued
  <2>9. EachJobOnce'
    BY <2>2, <2>3, <2>4 DEF EachJobOnce, Taken
  <2> QED
    BY <2>5, <2>6, <2>7, <2>8, <2>9 DEF Flow
<1>10. CASE SplitDone /\ UNCHANGED <<main, sent, log, applied>>
  <2>1. groupjobs'.buf = groupjobs.buf /\ Content(groupjobs') = Content(groupjobs)
    BY <1>10 DEF SplitDone, Close, Content, Channel
  <2>2. split'.hand = split.hand
    BY <1>10 DEF SplitDone
  <2>3. UNCHANGED <<inputs, procs, jobs, filter, split.todo, prepare, worker, main,
                    sent, log, applied>>
    BY <1>10 DEF SplitDone
  <2>4. OneSnapshot'
    BY <2>1, <2>2, <2>3 DEF OneSnapshot, Queued, Upstream, AtMostOne
  <2>5. NothingExtra'
    BY <2>1, <2>2, <2>3 DEF NothingExtra, AllDue, Taken
  <2>6. InWorkers'
    BY <2>1, <2>2, <2>3 DEF InWorkers, Taken
  <2>7. NothingLost'
    BY <2>1, <2>2, <2>3 DEF NothingLost, Upstream, AllDue, Taken, Queued
  <2>8. EachJobOnce'
    BY <2>1, <2>2, <2>3 DEF EachJobOnce, Taken
  <2> QED
    BY <2>4, <2>5, <2>6, <2>7, <2>8 DEF Flow
<1>11. CASE PrepareReceive /\ UNCHANGED <<main, sent, log, applied>>
  <2> DEFINE j == First(groupjobs)
  <2>1. /\ Content(groupjobs) = Content(groupjobs') \cup {j}
        /\ IsInjective(groupjobs.buf)
              => IsInjective(groupjobs'.buf) /\ j \notin Content(groupjobs')
    BY <1>11, RestContent DEF PrepareReceive
  <2>2. prepare.hand = {} /\ prepare'.hand = {j}
    BY <1>11 DEF PrepareReceive
  <2>3. UNCHANGED <<inputs, procs, jobs, filter, split, worker, main, sent, log,
                    applied>>
    BY <1>11 DEF PrepareReceive
  <2> HIDE DEF j
  <2>4. OneSnapshot'
    BY <2>1, <2>2, <2>3 DEF OneSnapshot, Queued, Upstream, AtMostOne
  <2>5. NothingExtra'
    BY <2>1, <2>2, <2>3 DEF NothingExtra, AllDue, Taken
  <2>6. InWorkers'
    BY <2>1, <2>2, <2>3 DEF InWorkers, Taken
  <2>7. NothingLost'
    BY <2>1, <2>2, <2>3 DEF NothingLost, Upstream, AllDue, Taken, Queued
  <2>8. EachJobOnce'
    BY <2>1, <2>2, <2>3 DEF EachJobOnce, Taken
  <2> QED
    BY <2>4, <2>5, <2>6, <2>7, <2>8 DEF Flow
<1>12. CASE PrepareSend /\ UNCHANGED <<main, sent, log, applied>>
  <2>1. PICK j \in prepare.hand : jobs' = Offer(jobs, j)
    BY <1>12 DEF PrepareSend
  <2>2. /\ Content(jobs') = Content(jobs) \cup {j}
        /\ IsInjective(jobs.buf) /\ j \notin Content(jobs)
              => IsInjective(jobs'.buf)
    BY <2>1, OfferContent
  <2>3. prepare'.hand = {} /\ prepare.hand = {j}
    BY <1>12, <2>1 DEF PrepareSend, Hands, AtMostOne
  <2>4. UNCHANGED <<inputs, procs, groupjobs, filter, split, worker, main, sent,
                    log, applied>>
    BY <1>12 DEF PrepareSend
  <2>5. OneSnapshot'
    BY <2>2, <2>3, <2>4 DEF OneSnapshot, Queued, Upstream, AtMostOne
  <2>6. NothingExtra'
    BY <2>2, <2>3, <2>4 DEF NothingExtra, AllDue, Taken
  <2>7. InWorkers'
    BY <2>2, <2>3, <2>4 DEF InWorkers, Taken
  <2>8. NothingLost'
    BY <2>2, <2>3, <2>4 DEF NothingLost, Upstream, AllDue, Taken, Queued
  <2>9. EachJobOnce'
    BY <2>2, <2>3, <2>4 DEF EachJobOnce, Taken
  <2> QED
    BY <2>5, <2>6, <2>7, <2>8, <2>9 DEF Flow
<1>13. CASE PrepareDone /\ UNCHANGED <<main, sent, log, applied>>
  <2>1. jobs'.buf = jobs.buf /\ Content(jobs') = Content(jobs)
    BY <1>13 DEF PrepareDone, Close, Content, Channel
  <2>2. prepare'.hand = prepare.hand
    BY <1>13 DEF PrepareDone
  <2>3. UNCHANGED <<inputs, procs, groupjobs, filter, split, worker, main, sent,
                    log, applied>>
    BY <1>13 DEF PrepareDone
  <2>4. OneSnapshot'
    BY <2>1, <2>2, <2>3 DEF OneSnapshot, Queued, Upstream, AtMostOne
  <2>5. NothingExtra'
    BY <2>1, <2>2, <2>3 DEF NothingExtra, AllDue, Taken
  <2>6. InWorkers'
    BY <2>1, <2>2, <2>3 DEF InWorkers, Taken
  <2>7. NothingLost'
    BY <2>1, <2>2, <2>3 DEF NothingLost, Upstream, AllDue, Taken, Queued
  <2>8. EachJobOnce'
    BY <2>1, <2>2, <2>3 DEF EachJobOnce, Taken
  <2> QED
    BY <2>4, <2>5, <2>6, <2>7, <2>8 DEF Flow
<1>14. CASE GenerateDone /\ UNCHANGED <<main, sent, log, applied>>
  <2>1. UNCHANGED <<inputs, procs, groupjobs, jobs, filter, split, prepare, worker,
                    main, sent, log, applied>>
    BY <1>14 DEF GenerateDone
  <2>2. OneSnapshot'
    BY <2>1 DEF OneSnapshot, Queued, Upstream, AtMostOne
  <2>3. NothingExtra'
    BY <2>1 DEF NothingExtra, AllDue, Taken
  <2>4. InWorkers'
    BY <2>1 DEF InWorkers, Taken
  <2>5. NothingLost'
    BY <2>1 DEF NothingLost, Upstream, AllDue, Taken, Queued
  <2>6. EachJobOnce'
    BY <2>1 DEF EachJobOnce, Taken
  <2> QED
    BY <2>2, <2>3, <2>4, <2>5, <2>6 DEF Flow
<1>15. CASE \E w \in Workers : Take(w)
  <2>1. PICK w \in Workers : Take(w)
    BY <1>15
  <2> DEFINE j == First(jobs)
  <2>2. /\ Content(jobs) = Content(jobs') \cup {j} /\ j \in GroupJob
        /\ IsInjective(jobs.buf)
              => IsInjective(jobs'.buf) /\ j \notin Content(jobs')
    BY <2>1, RestContent DEF Take, WorkerReceive
  <2>3. /\ log' = Append(log, j) /\ worker[w].hand = {}
        /\ worker' = [worker EXCEPT ![w].hand = {j}]
    BY <2>1 DEF Take, WorkerReceive
  <2>4. UNCHANGED <<inputs, procs, groupjobs, filter, split, prepare, main, sent,
                    applied>>
    BY <2>1 DEF Take, WorkerReceive
  <2> HIDE DEF j
  <2>5. /\ Taken' = Taken \cup {j}
        /\ IsInjective(log) /\ j \notin Taken => IsInjective(log')
    BY <2>2, <2>3, AppendElement DEF Taken
  <2>6. UNION {worker'[v].hand : v \in Workers}
          = {j} \cup UNION {worker[v].hand : v \in Workers}
    BY <2>3
  <2>7. j \in Queued /\ log' # <<>>
    BY <2>2, <2>3, AppendProperties DEF Queued
  <2>8. sent # {} /\ ~Upstream
    BY <2>7 DEF OneSnapshot
  <2>9. OneSnapshot'
    BY <2>2, <2>4, <2>5, <2>6, <2>7, <2>8 DEF OneSnapshot, Queued, Upstream, AtMostOne
  <2>10. NothingExtra'
    BY <2>2, <2>4, <2>5, <2>6, <2>7, <2>8 DEF NothingExtra, AllDue
  <2>11. InWorkers'
    BY <2>2, <2>4, <2>5, <2>6, <2>7, <2>8 DEF InWorkers
  <2>12. NothingLost'
    BY <2>2, <2>4, <2>5, <2>6, <2>7, <2>8 DEF NothingLost, Upstream, AllDue, Queued
  <2>13. EachJobOnce'
    BY <2>2, <2>4, <2>5, <2>6, <2>7, <2>8 DEF EachJobOnce
  <2> QED
    BY <2>9, <2>10, <2>11, <2>12, <2>13 DEF Flow
<1>16. CASE \E w \in Workers : Run(w)
  <2>1. PICK w \in Workers : Run(w)
    BY <1>16
  <2>2. /\ worker' = [worker EXCEPT ![w].hand = {}]
        /\ applied' = applied \cup worker[w].hand
    BY <2>1 DEF Run, WorkerRun
  <2>3. UNCHANGED <<inputs, procs, groupjobs, jobs, filter, split, prepare, main,
                    sent, log>>
    BY <2>1 DEF Run, WorkerRun
  <2>4. applied' \cup UNION {worker'[v].hand : v \in Workers}
          = applied \cup UNION {worker[v].hand : v \in Workers}
    BY <2>2
  <2>5. OneSnapshot'
    BY <2>3, <2>4 DEF OneSnapshot, Queued, Upstream, AtMostOne
  <2>6. NothingExtra'
    BY <2>3, <2>4 DEF NothingExtra, AllDue, Taken
  <2>7. InWorkers'
    BY <2>3, <2>4 DEF InWorkers, Taken
  <2>8. NothingLost'
    BY <2>3, <2>4 DEF NothingLost, Upstream, AllDue, Taken, Queued
  <2>9. EachJobOnce'
    BY <2>3, <2>4 DEF EachJobOnce, Taken
  <2> QED
    BY <2>5, <2>6, <2>7, <2>8, <2>9 DEF Flow
<1>17. CASE \E w \in Workers : Leave(w)
  <2>1. PICK w \in Workers : Leave(w)
    BY <1>17
  <2>2. \A v \in Workers : worker'[v].hand = worker[v].hand
    BY <2>1 DEF Leave, WorkerDone
  <2>3. UNCHANGED <<inputs, procs, groupjobs, jobs, filter, split, prepare, main,
                    sent, log, applied>>
    BY <2>1 DEF Leave, WorkerDone
  <2>4. OneSnapshot'
    BY <2>2, <2>3 DEF OneSnapshot, Queued, Upstream, AtMostOne
  <2>5. NothingExtra'
    BY <2>2, <2>3 DEF NothingExtra, AllDue, Taken
  <2>6. InWorkers'
    BY <2>2, <2>3 DEF InWorkers, Taken
  <2>7. NothingLost'
    BY <2>2, <2>3 DEF NothingLost, Upstream, AllDue, Taken, Queued
  <2>8. EachJobOnce'
    BY <2>2, <2>3 DEF EachJobOnce, Taken
  <2> QED
    BY <2>4, <2>5, <2>6, <2>7, <2>8 DEF Flow
<1>18. CASE UNCHANGED vars
  <2>1. UNCHANGED <<inputs, procs, groupjobs, jobs, filter, split, prepare, worker,
                    main, sent, log, applied>>
    BY <1>18 DEF vars, pipelineVars
  <2>2. OneSnapshot'
    BY <2>1 DEF OneSnapshot, Queued, Upstream, AtMostOne
  <2>3. NothingExtra'
    BY <2>1 DEF NothingExtra, AllDue, Taken
  <2>4. InWorkers'
    BY <2>1 DEF InWorkers, Taken
  <2>5. NothingLost'
    BY <2>1 DEF NothingLost, Upstream, AllDue, Taken, Queued
  <2>6. EachJobOnce'
    BY <2>1 DEF EachJobOnce, Taken
  <2> QED
    BY <2>2, <2>3, <2>4, <2>5, <2>6 DEF Flow
<1> QED
  BY <1>1, <1>2, <1>3, <1>4, <1>5, <1>6, <1>7, <1>8, <1>9, <1>10,
     <1>11, <1>12, <1>13, <1>14, <1>15, <1>16, <1>17, <1>18, StepCases


-----------------------------------------------------------------------------
LEMMA InitInv == Init => IndInv
<1> SUFFICES ASSUME Init PROVE IndInv
  OBVIOUS
<1> USE DEF Init, PipelineInit
<1>1. TypeOK
  BY InitType
<1>2. Hands /\ Shutdown /\ Joined
  BY DEF Hands, AtMostOne, Shutdown, Open, Drained, Joined
<1>3. WaitGroups
  <2>1. {w \in Workers : ~worker[w].done} = Workers
    OBVIOUS
  <2>2. wg = Cardinality(Workers) + 1 /\ generate = "wait" /\ inner = 3
    OBVIOUS
  <2>3. Running(filter) = 1 /\ Running(split) = 1 /\ Running(prepare) = 1
    BY DEF Running
  <2>4. wg = Cardinality({w \in Workers : ~worker[w].done}) + 1
    BY ONLY <2>1, <2>2
  <2>5. inner = 1 + 1 + 1
    BY <2>2
  <2> QED
    BY ONLY <2>2, <2>3, <2>4, <2>5 DEF WaitGroups
<1>4. Content(jobs) = {} /\ Content(groupjobs) = {} /\ Taken = {}
  BY DEF Content, Open, Taken, Range
<1>5. Queued = {} /\ ~Upstream
  BY <1>4 DEF Queued, Upstream, Open
<1>6. OneSnapshot
  <2>1. Len(<<>>) = 0
    BY EmptySeq
  <2> QED
    BY <1>5, <2>1 DEF OneSnapshot, AtMostOne, Open, Content, Range
<1>7. NothingExtra /\ NothingLost
  BY <1>4, <1>5 DEF NothingExtra, NothingLost, AllDue
<1>8. InWorkers
  <2>1. UNION {worker[w].hand : w \in Workers} = {}
    OBVIOUS
  <2> QED
    BY <1>4, <2>1 DEF InWorkers
<1>9. EachJobOnce
  BY <1>4 DEF EachJobOnce, Open, IsInjective
<1> QED
  BY <1>1, <1>2, <1>3, <1>6, <1>7, <1>8, <1>9 DEF IndInv

LEMMA NextInv == IndInv /\ [Next]_vars => IndInv'
BY NextType, NextHands, NextShutdown, NextWaitGroups, NextJoined, NextFlow
   DEF IndInv, Flow

LEMMA Invariance == Spec => []IndInv
BY InitInv, NextInv, PTL DEF Spec

(* When the command has returned, the last goroutine downstream is done,     *)
(* hence every one upstream: nothing is buffered, held or left to come.      *)
LEMMA ReturnComplete == IndInv => CompleteAtReturn
<1> SUFFICES ASSUME IndInv, main = "done" PROVE CompleteAtReturn
  BY DEF CompleteAtReturn
<1> USE DEF IndInv, TypeOK, PipelineTypeOK
<1>1. generate = "done" /\ \A w \in Workers : worker[w].done
  BY DEF Joined
<1>2. filter.done /\ split.done /\ prepare.done
  <2>1. inner = 0
    BY <1>1 DEF WaitGroups
  <2> QED
    BY <2>1 DEF WaitGroups, Running
<1>3. \A w \in Workers : worker[w].hand = {} /\ Drained(jobs)
  BY <1>1 DEF Shutdown
<1>4. /\ filter.hand = {} /\ split.hand = {} /\ split.todo = {} /\ prepare.hand = {}
      /\ inputs.buf = <<>> /\ procs.buf = <<>> /\ groupjobs.buf = <<>>
  BY <1>2 DEF Shutdown, Drained
<1>5. jobs.buf = <<>>
  BY <1>3, WorkersAssumption DEF Drained
<1>6. Content(jobs) = {} /\ Content(groupjobs) = {}
  BY <1>4, <1>5, EmptyContent
<1>7. Queued = {} /\ ~Upstream
  BY <1>4, <1>6 DEF Queued, Upstream
<1>8. Taken = applied
  BY <1>3 DEF InWorkers
<1>9. applied = AllDue
  BY <1>7, <1>8 DEF NothingExtra, NothingLost
<1> QED
  BY <1>1, <1>2, <1>3, <1>4, <1>5, <1>9 DEF CompleteAtReturn, AllDue

-----------------------------------------------------------------------------
(* No goroutine ever sends on a channel another one has closed, and none     *)
(* closes a channel twice, whatever the interleaving and however small the   *)
(* channels.                                                                 *)
THEOREM SendsOnOpenChannels == Spec => NoSendOnClosed
<1>1. IndInv /\ [Next]_vars => [NoSend /\ ClosesOpen]_vars
  BY NextNoSend, NoSecondClose DEF IndInv
<1> QED
  BY <1>1, Invariance, PTL DEF Spec, NoSendOnClosed, NoSend

(* The WaitGroups equal the number of goroutines still running: a counter    *)
(* never goes below zero, and Wait never returns early.                      *)
THEOREM CountersRight == Spec => []WaitGroups
<1>1. IndInv => WaitGroups
  BY DEF IndInv
<1> QED
  BY <1>1, Invariance, PTL

(* No group job is run twice or sits in two places.                          *)
THEOREM NoJobTwice == Spec => []EachJobOnce
<1>1. IndInv => EachJobOnce
  BY DEF IndInv
<1> QED
  BY <1>1, Invariance, PTL

(* When "nicy set" returns, it has run every due group job to its end, and   *)
(* no other, and has left no goroutine behind.                               *)
THEOREM ReturnsComplete == Spec => []CompleteAtReturn
BY ReturnComplete, Invariance, PTL


-----------------------------------------------------------------------------
(* The pipeline implements the one-shot application of the presets.  What    *)
(* this needs besides: a job with a rule that cannot be resolved stays with  *)
(* the splitter, whose review of it ends the process.                        *)
Resolvable == \A s \in sent : \A j \in ByPgrp(Matching(s)) : ~IsBroken(j)

Reviewed ==
  \/ Upstream
  \/ \A s \in sent : \A j \in ByPgrp(Matching(s)) :
       j \in split.todo \/ ~IsBroken(j)

RefineInv == IndInv /\ Reviewed

LEMMA NextReviewed == RefineInv /\ [Next]_vars => Reviewed'
<1> SUFFICES ASSUME IndInv, Reviewed, [Next]_vars PROVE Reviewed'
  BY DEF RefineInv
<1> USE DEF IndInv, TypeOK, PipelineTypeOK
<1>1. CASE MainSend
  <2>1. PICK s \in Scans : inputs' = Offer(inputs, s)
    BY <1>1 DEF MainSend
  <2>2. /\ inputs' \in Channel(Snapshot)
        /\ Content(inputs') = Content(inputs) \cup {s}
    BY <2>1, ScansAssumption, OfferContent
  <2>3. inputs'.buf # <<>>
    BY <2>2, EmptyContent
  <2> QED
    BY <2>3 DEF Reviewed, Upstream
<1>2. CASE FilterReceive /\ UNCHANGED <<main, sent, log, applied>>
  <2> DEFINE s == First(inputs)
             kept == Matching(s)
  <2>1. inputs.buf # <<>> /\ s \in Snapshot /\ s \in Content(inputs)
    <3>1. inputs \in Channel(Snapshot) /\ Ready(inputs)
      BY <1>2 DEF FilterReceive
    <3>2. /\ First(inputs) \in Snapshot
          /\ Content(inputs) = Content(Rest(inputs)) \cup {First(inputs)}
      BY ONLY <3>1, RestContent
    <3> QED
      BY <3>1, <3>2 DEF Ready
  <2>2. sent = {s}
    BY <2>1 DEF OneSnapshot, AtMostOne
  <2>3. /\ filter'.hand = IF kept.procs = {} THEN {} ELSE {kept}
        /\ sent' = sent
    BY <1>2 DEF FilterReceive
  <2>4. kept.procs = {} => ByPgrp(kept) = {}
    BY <2>1, ByPgrpType
  <2> HIDE DEF s
  <2> QED
    BY <2>2, <2>3, <2>4 DEF Reviewed, Upstream
<1>3. CASE FilterSend /\ UNCHANGED <<main, sent, log, applied>>
  <2>1. PICK s \in filter.hand : procs' = Offer(procs, s)
    BY <1>3 DEF FilterSend
  <2>2. procs' \in Channel(Snapshot) /\ Content(procs') = Content(procs) \cup {s}
    BY <2>1, OfferContent
  <2>3. procs'.buf # <<>>
    BY <2>2, EmptyContent
  <2> QED
    BY <2>3 DEF Reviewed, Upstream
<1>4. CASE SplitReceive /\ UNCHANGED <<main, sent, log, applied>>
  <2>1. First(procs) \in Content(procs)
    BY <1>4, RestContent DEF SplitReceive
  <2>2. PICK s \in sent : First(procs) = Matching(s)
    BY <2>1 DEF OneSnapshot
  <2>3. sent = {s}
    BY <2>2 DEF OneSnapshot, AtMostOne
  <2>4. split'.todo = ByPgrp(Matching(s)) /\ sent' = sent
    BY <1>4, <2>2 DEF SplitReceive
  <2> QED
    BY <2>3, <2>4 DEF Reviewed
<1>5. CASE (\E j \in split.todo : SplitReview(j))
             /\ UNCHANGED <<main, sent, log, applied>>
  <2>1. PICK j \in split.todo : SplitReview(j)
    BY <1>5
  <2>2. \A i \in split.todo : i \in split'.todo \/ ~IsBroken(i)
    <3>1. CASE IsBroken(j)
      BY <2>1, <3>1 DEF SplitReview
    <3>2. CASE ~IsBroken(j)
      <4>1. split' = [split EXCEPT !.todo = @ \ {j},
                                   !.hand = IF j.due THEN {j} ELSE {}]
        BY <2>1, <3>2 DEF SplitReview
      <4>2. split'.todo = split.todo \ {j}
        BY <4>1
      <4> QED
        BY <3>2, <4>2
    <3> QED
      BY <3>1, <3>2
  <2>3. UNCHANGED <<inputs, procs, filter, sent>>
    BY <1>5, <2>1 DEF SplitReview
  <2> QED
    BY <2>2, <2>3 DEF Reviewed, Upstream
<1>6. ASSUME inputs'.buf = inputs.buf, procs'.buf = procs.buf,
             filter'.hand = filter.hand, split'.todo = split.todo, sent' = sent
      PROVE  Reviewed'
  BY <1>6 DEF Reviewed, Upstream
<1>7. CASE MainClose
  BY <1>6, <1>7, CloseContent DEF MainClose
<1>8. CASE MainReturn
  BY <1>6, <1>8 DEF MainReturn, pipelineVars
<1>9. CASE FilterDone /\ UNCHANGED <<main, sent, log, applied>>
  BY <1>6, <1>9, CloseContent DEF FilterDone
<1>10. CASE SplitSend /\ UNCHANGED <<main, sent, log, applied>>
  BY <1>6, <1>10 DEF SplitSend
<1>11. CASE SplitDone /\ UNCHANGED <<main, sent, log, applied>>
  BY <1>6, <1>11 DEF SplitDone
<1>12. CASE PrepareReceive /\ UNCHANGED <<main, sent, log, applied>>
  BY <1>6, <1>12 DEF PrepareReceive
<1>13. CASE PrepareSend /\ UNCHANGED <<main, sent, log, applied>>
  BY <1>6, <1>13 DEF PrepareSend
<1>14. CASE PrepareDone /\ UNCHANGED <<main, sent, log, applied>>
  BY <1>6, <1>14 DEF PrepareDone
<1>15. CASE GenerateDone /\ UNCHANGED <<main, sent, log, applied>>
  BY <1>6, <1>15 DEF GenerateDone
<1>16. CASE \E w \in Workers : Take(w) \/ Run(w) \/ Leave(w)
  BY <1>6, <1>16 DEF Take, Run, Leave, WorkerReceive, WorkerRun, WorkerDone
<1>17. CASE UNCHANGED vars
  BY <1>6, <1>17 DEF vars, pipelineVars
<1> QED
  BY <1>1, <1>2, <1>3, <1>4, <1>5, <1>7, <1>8, <1>9, <1>10, <1>11, <1>12,
     <1>13, <1>14, <1>15, <1>16, <1>17, StepCases

LEMMA Refined == Spec => []RefineInv
<1>1. Init => RefineInv
  BY InitInv DEF RefineInv, Reviewed, Init
<1>2. RefineInv /\ [Next]_vars => RefineInv'
  BY NextInv, NextReviewed DEF RefineInv
<1> QED
  BY <1>1, <1>2, PTL DEF Spec


(* Only a process that runs takes a step, and one whose command has returned *)
(* has nothing left that could.                                              *)
LEMMA StillRunning ==
  ASSUME [Next]_vars
  PROVE  status = "running" \/ UNCHANGED vars
BY DEF Next, Step

LEMMA RefineInit == Init => A!Init
<1> SUFFICES ASSUME Init PROVE A!Init
  OBVIOUS
<1>1. /\ sent = {} /\ applied = {} /\ Taken = {}
      /\ main = "send" /\ status = "running"
  BY DEF Init, PipelineInit, Taken, Range
<1> QED
  BY <1>1 DEF A!Init, Outcome

(* What the abstract state sees of a step of the stages: nothing, unless it  *)
(* ends the process.                                                         *)
LEMMA Unseen ==
  ASSUME sent' = sent, log' = log, applied' = applied,
         main' = main \/ (main = "close" /\ main' = "wait"), status' = status
  PROVE  UNCHANGED A!vars
<1>1. Outcome' = Outcome
  BY DEF Outcome
<1>2. Taken' = Taken
  BY DEF Taken
<1>3. (UNION {Due(s) : s \in sent})' = UNION {Due(s) : s \in sent}
  OBVIOUS
<1>4. Resolvable' = Resolvable
  BY DEF Resolvable
<1> QED
  BY <1>1, <1>2, <1>3, <1>4 DEF A!vars, Resolvable

LEMMA RefineNext ==
  RefineInv /\ RefineInv' /\ [Next]_vars => [A!Next]_(A!vars)
<1> SUFFICES ASSUME RefineInv, RefineInv', [Next]_vars
             PROVE  [A!Next]_(A!vars)
  OBVIOUS
<1> USE DEF RefineInv
<1>1. IndInv /\ TypeOK /\ IndInv' /\ TypeOK'
  BY DEF IndInv
<1>2. CASE UNCHANGED vars
  BY <1>2, Unseen DEF vars, pipelineVars
<1>3. CASE status = "running" /\ MainSend
  <2>1. PICK s \in Scans : sent' = {s}
    BY <1>3 DEF MainSend
  <2>2. Due(s) \in SUBSET GroupJob
    BY ScansAssumption, ByPgrpType
  <2>3. (UNION {Due(t) : t \in sent})' \in SUBSET GroupJob
    BY <2>1, <2>2
  <2>4. /\ main = "send" /\ main' = "close" /\ status' = status
        /\ Taken' = Taken /\ applied' = applied
    BY <1>3 DEF MainSend, Taken
  <2>5. Outcome = "scan" /\ Outcome' = "busy"
    BY <1>3, <2>4 DEF Outcome
  <2>6. A!Scan
    BY <2>3, <2>4, <2>5 DEF A!Scan
  <2> QED
    BY <2>6 DEF A!Next
<1>4. CASE MainClose
  BY <1>4, Unseen DEF MainClose
<1>5. CASE status = "running" /\ MainReturn
  <2>1. /\ main = "wait" /\ main' = "done" /\ status' = "running"
        /\ sent' = sent /\ applied' = applied /\ Taken' = Taken
        /\ split' = split
        /\ inputs' = inputs /\ filter' = filter /\ procs' = procs
    BY <1>5 DEF MainReturn, pipelineVars, Taken
  <2>2. CompleteAtReturn'
    BY <1>1, ReturnComplete, PTL
  <2>3. /\ applied' = (UNION {Due(s) : s \in sent})' /\ split'.done
        /\ procs'.buf = <<>> /\ inputs'.buf = <<>> /\ filter'.done
    BY <2>1, <2>2 DEF CompleteAtReturn
  <2>4. split.todo = {} /\ ~Upstream
    BY <1>1, <2>1, <2>3 DEF IndInv, Shutdown, Upstream
  <2>5. \A s \in sent : \A j \in ByPgrp(Matching(s)) : ~IsBroken(j)
    BY <2>4 DEF Reviewed
  <2>6. Outcome = "busy" /\ Outcome' = "returned"
    BY <1>5, <2>1 DEF Outcome
  <2>7. A!Return
    BY <2>1, <2>3, <2>5, <2>6 DEF A!Return
  <2> QED
    BY <2>7 DEF A!Next
<1>6. CASE (FilterReceive \/ FilterSend \/ FilterDone \/ SplitReceive
             \/ SplitSend \/ SplitDone \/ PrepareReceive \/ PrepareSend
             \/ PrepareDone \/ GenerateDone)
            /\ UNCHANGED <<main, sent, log, applied>>
  <2>1. status' = status
    BY <1>6 DEF FilterReceive, FilterSend, FilterDone, SplitReceive, SplitSend,
                SplitDone, PrepareReceive, PrepareSend, PrepareDone, GenerateDone
  <2> QED
    BY <1>6, <2>1, Unseen
<1>7. ASSUME main # "send", main # "done", status = "running"
      PROVE  Outcome = "busy"
  BY <1>7 DEF Outcome
<1>8. CASE status = "running" /\ (\E j \in split.todo : SplitReview(j))
             /\ UNCHANGED <<main, sent, log, applied>>
  <2>1. PICK j \in split.todo : SplitReview(j)
    BY <1>8
  <2>2. CASE ~IsBroken(j)
    <3>1. status' = status
      BY <2>1, <2>2 DEF SplitReview
    <3> QED
      BY <1>8, <3>1, Unseen
  <2>3. CASE IsBroken(j)
    <3>1. status' = "fatal"
      BY <2>1, <2>3 DEF SplitReview
    <3>2. ~ \A s \in sent : \A i \in ByPgrp(Matching(s)) : ~IsBroken(i)
      BY <1>1, <2>1, <2>3 DEF IndInv, NothingExtra
    <3>3. main # "send"
      BY <1>1, <2>1 DEF IndInv, OneSnapshot, Queued
    <3>4. main # "done"
      <4>1. main = "done" => split.done
        BY <1>1, ReturnComplete DEF CompleteAtReturn
      <4> QED
        BY <1>1, <2>1, <4>1 DEF IndInv, Shutdown
    <3>5. Outcome = "busy" /\ Outcome' = "aborted"
      BY <1>7, <1>8, <3>1, <3>3, <3>4 DEF Outcome
    <3>6. A!Abort
      BY <1>8, <3>2, <3>5 DEF A!Abort, Taken
    <3> QED
      BY <3>6 DEF A!Next
  <2> QED
    BY <2>2, <2>3
<1>9. CASE status = "running" /\ \E w \in Workers : Take(w)
  <2>1. PICK w \in Workers : Take(w)
    BY <1>9
  <2>2. /\ ~worker[w].done /\ Ready(jobs) /\ log' = Append(log, First(jobs))
        /\ UNCHANGED <<main, sent, applied, status>>
    BY <2>1 DEF Take, WorkerReceive
  <2>3. jobs \in Channel(GroupJob) /\ log \in Seq(GroupJob)
    BY <1>1 DEF TypeOK, PipelineTypeOK
  <2>4. /\ First(jobs) \in GroupJob
        /\ Content(jobs) = Content(Rest(jobs)) \cup {First(jobs)}
    BY ONLY <2>2, <2>3, RestContent
  <2>5. First(jobs) \in AllDue /\ First(jobs) \notin Taken
    BY <1>1, <2>4 DEF IndInv, NothingExtra, EachJobOnce
  <2>6. Taken' = Taken \cup {First(jobs)}
    <3>1. Range(Append(log, First(jobs))) = Range(log) \cup {First(jobs)}
      BY <2>3, <2>4, AppendElement DEF Content
    <3> QED
      BY <2>2, <3>1 DEF Taken
  <2>7. main # "send"
    BY <1>1, <2>4 DEF IndInv, OneSnapshot, Queued
  <2>8. main # "done"
    BY <1>1, <2>2 DEF IndInv, Joined
  <2>9. Outcome = "busy" /\ Outcome' = "busy"
    BY <1>7, <1>9, <2>2, <2>7, <2>8 DEF Outcome
  <2>10. A!Start
    BY <2>2, <2>5, <2>6, <2>9 DEF A!Start, AllDue
  <2> QED
    BY <2>10 DEF A!Next
<1>10. CASE status = "running" /\ \E w \in Workers : Run(w)
  <2>1. PICK w \in Workers : Run(w)
    BY <1>10
  <2>2. /\ worker[w].hand # {} /\ applied' = applied \cup worker[w].hand
        /\ UNCHANGED <<main, sent, log, status>>
    BY <2>1 DEF Run, WorkerRun
  <2>3. PICK j : worker[w].hand = {j}
    BY <1>1, <2>2 DEF IndInv, Hands, AtMostOne
  <2>4. j \in Taken
    BY <1>1, <2>3 DEF IndInv, InWorkers
  <2>5. CASE j \in applied
    BY <2>2, <2>3, <2>5, Unseen
  <2>6. CASE j \notin applied
    <3>1. log # <<>>
      BY <2>4, EmptySeq DEF Taken, Range
    <3>2. main # "send"
      BY <1>1, <3>1 DEF IndInv, OneSnapshot
    <3>3. main # "done"
      <4>1. main = "done" => worker[w].hand = {}
        BY <1>1, ReturnComplete DEF CompleteAtReturn
      <4> QED
        BY <2>2, <4>1
    <3>4. Outcome = "busy" /\ Outcome' = "busy"
      BY <1>7, <1>10, <2>2, <3>2, <3>3 DEF Outcome
    <3>5. A!Finish
      BY <2>2, <2>3, <2>4, <2>6, <3>4 DEF A!Finish, Taken
    <3> QED
      BY <3>5 DEF A!Next
  <2> QED
    BY <2>5, <2>6
<1>11. CASE \E w \in Workers : Leave(w)
  BY <1>11, Unseen DEF Leave, WorkerDone
<1> QED
  BY <1>2, <1>3, <1>4, <1>5, <1>6, <1>8, <1>9, <1>10, <1>11, StepCases,
     StillRunning

(* Every behaviour of "nicy set" is, step by step, one in which each group   *)
(* that differs from its rule is adjusted once and the command returns when  *)
(* all are, unless a rule cannot be resolved.                                *)
THEOREM EachStepApplies == Spec => A!Init /\ [][A!Next]_(A!vars)
<1>1. RefineInv /\ [Next]_vars => RefineInv'
  BY NextInv, NextReviewed DEF RefineInv
<1> QED
  BY <1>1, Refined, RefineInit, RefineNext, PTL DEF Spec
=============================================================================

-------------------------- MODULE InstallCmdProofs --------------------------
(* For any names, rules, capacity and number of installs: an install that    *)
(* returns is complete, and one that does not costs nothing.                 *)
EXTENDS InstallCmd, SequenceTheorems, TLAPS

-----------------------------------------------------------------------------
(* What a step does to the content of a buffer: an item is sent or received. *)
LEMMA Sending ==
  ASSUME NEW T, NEW s \in Seq(T), NEW x \in T
  PROVE  /\ Append(s, x) \in Seq(T) /\ Len(Append(s, x)) = Len(s) + 1
         /\ Range(Append(s, x)) = Range(s) \cup {x}
<1> DEFINE l == <<x>>
<1>1. l \in Seq(T) /\ Range(l) = {x} /\ Append(s, x) = s \o l
  BY AppendIsConcat DEF Range
<1> HIDE DEF l
<1> QED
  BY <1>1, AppendProperties, RangeConcatenation

LEMMA Receiving ==
  ASSUME NEW T, NEW s \in Seq(T), s # <<>>
  PROVE  /\ Head(s) \in T /\ Tail(s) \in Seq(T) /\ Len(Tail(s)) = Len(s) - 1
         /\ Range(s) = Range(Tail(s)) \cup {Head(s)}
<1> DEFINE h == <<Head(s)>>
<1>1. /\ Head(s) \in T /\ Tail(s) \in Seq(T) /\ Len(Tail(s)) = Len(s) - 1
      /\ h \in Seq(T) /\ Range(h) = {Head(s)}
  BY HeadTailProperties DEF Range
<1>2. s = h \o Tail(s)
  <2>1. /\ h \o Tail(s) \in Seq(T) /\ Len(h \o Tail(s)) = Len(s)
        /\ Len(s) \in Nat \ {0}
    BY <1>1, ConcatProperties, EmptySeq
  <2> QED
    BY <1>1, <2>1, ConcatProperties, HeadTailProperties, SeqEqual
<1> HIDE DEF h
<1>3. Range(h \o Tail(s)) = Range(h) \cup Range(Tail(s))
  BY <1>1, RangeConcatenation
<1> QED
  BY <1>1, <1>2, <1>3

LEMMA Nothing ==
  /\ \A T : <<>> \in Seq(T)
  /\ Len(<<>>) = 0 /\ Range(<<>>) = {}
BY DEF Range

-----------------------------------------------------------------------------

(* A step is one of an install, or none.                                     *)
LEMMA StepCases ==
  ASSUME [Next]_vars
  PROVE  \/ Start \/ Remove \/ Rename \/ Make \/ NoShell \/ Get \/ GetDone
         \/ RequestJob \/ PrepareCommands \/ SendJob \/ GenerateDone \/ Take
         \/ Truncate \/ Write \/ WriteFails \/ Symlink \/ Return \/ Die
         \/ UNCHANGED vars
BY DEF Next, Proceed

LEMMA OnlyElement ==
  /\ \A x : Only({x}) = x
  /\ \A S : S # {} => Only(S) \in S
BY DEF Only

-----------------------------------------------------------------------------
(* Types.  What the writer fills is in a directory that exists.              *)

Dir(dir) == dir = {} \/ \E d \in Directory : dir = {d}

Standing ==
  /\ phase \in {"remove", "rename"} => location # {} /\ moved
  /\ phase = "make" /\ moved => location = {}
  /\ phase = "work" => location # {}

LEMMA FlowType ==
  ASSUME NEW todo \in SUBSET Names
  PROVE  /\ Flow(todo) \in Flows /\ Flow(todo).todo = todo
         /\ Flow(todo).inputs = <<>> /\ Flow(todo).jobs = <<>>
         /\ Flow(todo).resolving = {} /\ Flow(todo).preparing = {}
         /\ Flow(todo).closed = {} /\ Flow(todo).writer = {}
BY Nothing DEF Flow, Flows

LEMMA InitType == Init => TypeOK /\ Standing
<1> SUFFICES ASSUME Init PROVE TypeOK /\ Standing
  OBVIOUS
<1>1. flow \in Flows /\ Len(flow.inputs) = 0 /\ Len(flow.jobs) = 0
  BY FlowType, Nothing DEF Init
<1> QED
  BY <1>1, InstallAssumption DEF Init, TypeOK, Standing

(* The writer's job, and the directory after it changed one script in it.    *)
LEMMA WriterType ==
  ASSUME TypeOK, Standing, NEW step, At(step)
  PROVE  /\ Current \in Job
         /\ \E w \in flow.writer : Current = w.job
         /\ \E d \in Directory : location = {d} /\ Only(location) = d
<1>1. flow.writer # {} /\ flow.writer \in SUBSET [job : Job, step : {"open", "fill", "link"}]
  BY DEF At, TypeOK, Flows
<1>2. Only(flow.writer) \in flow.writer
  BY <1>1, OnlyElement
<1>3. Current \in Job /\ Current = Only(flow.writer).job
  BY <1>1, <1>2 DEF Current
<1>4. PICK d \in Directory : location = {d}
  BY DEF At, TypeOK, Standing
<1> QED
  BY <1>2, <1>3, <1>4, OnlyElement

(* A step of the goroutines that only moves items leaves the rest typed.     *)
LEMMA WorkingType ==
  ASSUME TypeOK, Standing, Working, flow' \in Flows,
         Len(flow'.inputs) <= Cap, Len(flow'.jobs) <= Cap
  PROVE  TypeOK' /\ Standing'
BY DEF Working, TypeOK, Standing, dirs, run

LEMMA EndType ==
  ASSUME TypeOK, Standing, End("dead"), UNCHANGED dirs, flow' \in Flows,
         Len(flow'.inputs) <= Cap, Len(flow'.jobs) <= Cap
  PROVE  TypeOK' /\ Standing'
BY DEF End, TypeOK, Standing, dirs

LEMMA FillType ==
  ASSUME TypeOK, Standing, NEW step, At(step),
         NEW content \in {"absent", "cut", "program", "self"}, Fill(content)
  PROVE  \E d \in Directory :
           location' = {d} /\ d = [Only(location) EXCEPT !.script[Current.name] = content]
<1>1. PICK d \in Directory : location = {d} /\ Only(location) = d
  BY WriterType
<1>2. [d EXCEPT !.script[Current.name] = content] \in Directory
  BY WriterType DEF Directory, Job
<1> QED
  BY <1>1, <1>2 DEF Fill

LEMMA ThenType ==
  ASSUME TypeOK, Standing, NEW at, At(at),
         NEW step \in {"open", "fill", "link", "end"}, Then(step)
  PROVE  /\ flow' \in Flows
         /\ flow'.inputs = flow.inputs /\ flow'.jobs = flow.jobs
<1>1. [job |-> Current, step |-> step] \in [job : Job, step : {"open", "fill", "link", "end"}]
  BY WriterType
<1>2. (IF step = "end" THEN {} ELSE {[job |-> Current, step |-> step]})
        \in SUBSET [job : Job, step : {"open", "fill", "link"}]
  BY <1>1
<1> QED
  BY <1>2 DEF Then, TypeOK, Flows

LEMMA NextType == TypeOK /\ Standing /\ [Next]_vars => TypeOK' /\ Standing'
<1> SUFFICES ASSUME TypeOK, Standing, [Next]_vars PROVE TypeOK' /\ Standing'
  OBVIOUS
<1>0. /\ Cap \in Nat \ {0} /\ MaxInstalls \in Nat
      /\ flow.inputs \in Seq(Job) /\ flow.jobs \in Seq(Job)
  BY InstallAssumption DEF TypeOK, Flows
<1>1. CASE Start
  <2>1. /\ flow' \in Flows /\ flow'.inputs = <<>> /\ flow'.jobs = <<>>
    BY <1>1, FlowType DEF Start
  <2>2. rules' \in SUBSET Names
    BY <1>1, InstallAssumption DEF Start
  <2> QED
    BY <1>0, <1>1, <2>1, <2>2, Nothing DEF Start, TypeOK, Standing, dirs
<1>2. CASE Remove
  <2>1. backup' = {} \/ \E d \in Directory : backup' = {d}
    <3>1. ASSUME NEW d \in backup, NEW keep \in SUBSET Names
          PROVE  Remains(d, keep) \in Directory
      BY <3>1 DEF TypeOK, Directory, Remains
    <3> QED
      BY <1>2, <3>1 DEF Remove
  <2> QED
    BY <1>2, <2>1 DEF Remove, TypeOK, Standing, run
<1>3. CASE Rename
  <2>1. Dir(location') /\ Dir(backup') /\ (moved' => location' = {}) /\ moved' \in BOOLEAN
    BY <1>3 DEF Rename, TypeOK, Standing, Dir
  <2> QED
    BY <1>3, <2>1 DEF Rename, TypeOK, Standing, Dir
<1>4. ASSUME MkdirAll
      PROVE  Dir(location') /\ location' # {}
  <2>1. Empty \in Directory
    BY DEF Empty, Directory
  <2> QED
    BY <1>4, <2>1 DEF MkdirAll, TypeOK, Dir
<1>5. CASE Make
  <2>1. /\ flow' \in Flows /\ flow'.inputs = <<>> /\ flow'.jobs = <<>>
    BY <1>5, FlowType DEF Make, TypeOK
  <2> QED
    BY <1>0, <1>4, <1>5, <2>1, Nothing DEF Make, TypeOK, Standing, Dir, run
<1>6. CASE NoShell
  BY <1>4, <1>6 DEF NoShell, End, TypeOK, Standing, Dir
<1>7. CASE Get
  <2>1. PICK n \in flow.todo :
          \/ flow' = [flow EXCEPT !.todo = @ \ {n}]
          \/ /\ Len(flow.inputs) < Cap
             /\ flow' = [flow EXCEPT !.todo = @ \ {n},
                                     !.inputs = Append(@, [name |-> n, runs |-> LookPath(n)])]
    BY <1>7 DEF Get
  <2>2. [name |-> n, runs |-> LookPath(n)] \in Job
    BY DEF TypeOK, Flows, Job, LookPath
  <2>3. /\ flow' \in Flows /\ Len(flow'.inputs) <= Cap /\ Len(flow'.jobs) <= Cap
    <3>1. CASE flow' = [flow EXCEPT !.todo = @ \ {n}]
      BY <3>1 DEF TypeOK, Flows
    <3>2. CASE /\ Len(flow.inputs) < Cap
               /\ flow' = [flow EXCEPT !.todo = @ \ {n},
                                       !.inputs = Append(@, [name |-> n, runs |-> LookPath(n)])]
      <4> DEFINE s == Append(flow.inputs, [name |-> n, runs |-> LookPath(n)])
      <4>1. s \in Seq(Job) /\ Len(s) = Len(flow.inputs) + 1
        BY <1>0, <2>2, Sending
      <4> HIDE DEF s
      <4>2. flow' = [flow EXCEPT !.todo = @ \ {n}, !.inputs = s]
        BY <3>2 DEF s
      <4>3. flow' \in Flows /\ flow'.inputs = s /\ flow'.jobs = flow.jobs
        BY <4>1, <4>2 DEF TypeOK, Flows
      <4>4. Len(s) <= Cap
        BY <1>0, <3>2, <4>1, LenProperties
      <4> QED
        BY <4>3, <4>4 DEF TypeOK
    <3> QED
      BY <2>1, <3>1, <3>2
  <2> QED
    BY <1>7, <2>3, WorkingType DEF Get
<1>8. CASE GetDone
  BY <1>8, WorkingType DEF GetDone, TypeOK, Flows
<1>9. CASE RequestJob
  <2>1. /\ Head(flow.inputs) \in Job /\ Tail(flow.inputs) \in Seq(Job)
        /\ Len(Tail(flow.inputs)) = Len(flow.inputs) - 1
    BY <1>0, <1>9, Receiving DEF RequestJob
  <2>2. /\ flow' \in Flows /\ Len(flow'.inputs) <= Cap /\ Len(flow'.jobs) <= Cap
    <3> DEFINE t == Tail(flow.inputs)
               h == Head(flow.inputs)
    <3>1. t \in Seq(Job) /\ h \in Job /\ Len(t) <= Cap
      BY <1>0, <2>1, LenProperties DEF TypeOK
    <3> HIDE DEF t, h
    <3>2. flow' = [flow EXCEPT !.inputs = t, !.resolving = {h}]
      BY <1>9 DEF RequestJob, t, h
    <3> QED
      BY <3>1, <3>2 DEF TypeOK, Flows
  <2>3. CASE Head(flow.inputs).name \in Broken
    BY <1>9, <2>2, <2>3, EndType DEF RequestJob
  <2>4. CASE Head(flow.inputs).name \notin Broken
    BY <1>9, <2>2, <2>4, WorkingType DEF RequestJob, Working
  <2> QED
    BY <2>3, <2>4
<1>10. CASE PrepareCommands
  BY <1>10, WorkingType DEF PrepareCommands, TypeOK, Flows
<1>11. CASE SendJob
  <2>1. Only(flow.preparing) \in Job
    BY <1>11, OnlyElement DEF SendJob, TypeOK, Flows
  <2>2. /\ flow' \in Flows /\ Len(flow'.inputs) <= Cap /\ Len(flow'.jobs) <= Cap
    <3> DEFINE s == Append(flow.jobs, Only(flow.preparing))
    <3>1. s \in Seq(Job) /\ Len(s) = Len(flow.jobs) + 1
      BY <1>0, <2>1, Sending
    <3>2. Len(s) <= Cap
      BY <1>0, <1>11, <3>1, LenProperties DEF SendJob
    <3> HIDE DEF s
    <3>3. flow' = [flow EXCEPT !.preparing = {}, !.jobs = s]
      BY <1>11 DEF SendJob, s
    <3> QED
      BY <3>1, <3>2, <3>3 DEF TypeOK, Flows
  <2> QED
    BY <1>11, <2>2, WorkingType DEF SendJob
<1>12. CASE GenerateDone
  BY <1>12, WorkingType DEF GenerateDone, TypeOK, Flows
<1>13. CASE Take
  <2>1. /\ Head(flow.jobs) \in Job /\ Tail(flow.jobs) \in Seq(Job)
        /\ Len(Tail(flow.jobs)) = Len(flow.jobs) - 1
    BY <1>0, <1>13, Receiving DEF Take
  <2>2. [job |-> Head(flow.jobs), step |-> "open"]
          \in [job : Job, step : {"open", "fill", "link"}]
    BY <2>1
  <2>3. /\ flow' \in Flows /\ Len(flow'.inputs) <= Cap /\ Len(flow'.jobs) <= Cap
    <3> DEFINE t == Tail(flow.jobs)
               w == [job |-> Head(flow.jobs), step |-> "open"]
    <3>1. t \in Seq(Job) /\ Len(t) <= Cap
      BY <1>0, <2>1, LenProperties DEF TypeOK
    <3>2. w \in [job : Job, step : {"open", "fill", "link"}]
      BY <2>2
    <3> HIDE DEF t, w
    <3>3. flow' = [flow EXCEPT !.jobs = t, !.writer = {w}]
      BY <1>13 DEF Take, t, w
    <3> QED
      BY <3>1, <3>2, <3>3 DEF TypeOK, Flows
  <2> QED
    BY <1>13, <2>3, WorkingType DEF Take
<1>14. CASE Truncate
  BY <1>14, FillType, ThenType DEF Truncate, TypeOK, Standing, Dir, run, At
<1>15. CASE Write
  <2>1. Current.runs \in {"absent", "cut", "program", "self"}
    BY <1>15, WriterType DEF Write, Job
  <2> QED
    BY <1>15, <2>1, FillType, ThenType DEF Write, TypeOK, Standing, Dir, run, At
<1>16. CASE WriteFails
  BY <1>16, EndType DEF WriteFails, TypeOK
<1>17. CASE Symlink
  <2>1. /\ flow' \in Flows /\ flow'.inputs = flow.inputs /\ flow'.jobs = flow.jobs
    BY <1>17, ThenType DEF Symlink
  <2>2. CASE Current.name \in Only(location).link
    BY <1>17, <2>1, <2>2, EndType DEF Symlink, dirs, TypeOK
  <2>3. CASE Current.name \notin Only(location).link
    <3>1. PICK d \in Directory : location = {d} /\ Only(location) = d
      BY <1>17, WriterType DEF Symlink
    <3>2. [d EXCEPT !.link = @ \cup {Current.name}] \in Directory
      BY <1>17, WriterType DEF Symlink, Directory, Job
    <3> QED
      BY <1>17, <2>1, <2>3, <3>1, <3>2 DEF Symlink, TypeOK, Standing, run, At
  <2> QED
    BY <2>2, <2>3
<1>18. CASE Return
  BY <1>0, <1>18 DEF Return, TypeOK, Standing, dirs
<1>19. CASE Die
  BY <1>19, EndType DEF Die, TypeOK
<1>20. CASE UNCHANGED vars
  BY <1>20 DEF vars, dirs, run, TypeOK, Standing
<1> QED
  BY <1>1, <1>2, <1>3, <1>5, <1>6, <1>7, <1>8, <1>9, <1>10, <1>11, <1>12, <1>13,
     <1>14, <1>15, <1>16, <1>17, <1>18, <1>19, <1>20, StepCases

LEMMA Typed == Spec => [](TypeOK /\ Standing)
BY InitType, NextType, PTL DEF Spec

(* Every reachable state is well-typed; in particular no channel holds more  *)
(* than its capacity, and a step of an install finds the directory it needs. *)
THEOREM TypeCorrect == Spec => []TypeOK
BY Typed, PTL

-----------------------------------------------------------------------------
(* Where the directory of the last complete install is, until a second one   *)
(* starts that does not complete.                                            *)

Keeping ==
  /\ attempts = 0 => phase = "idle" /\ good = location
  /\ attempts = 1 /\ moved /\ good # {} =>
       /\ phase \in {"remove", "rename"} => good = location
       /\ phase \in {"make", "work"} => good = backup
       /\ phase = "idle" => good \in {location, backup}

LEMMA NextKeeping ==
  TypeOK /\ Standing /\ Keeping /\ [Next]_vars => Keeping'
<1> SUFFICES ASSUME TypeOK, Standing, Keeping, [Next]_vars PROVE Keeping'
  OBVIOUS
<1>0. attempts \in Nat
  BY DEF TypeOK
<1> USE DEF Keeping
<1>1. CASE Start
  BY <1>0, <1>1 DEF Start, dirs
<1>2. CASE Remove
  BY <1>2 DEF Remove, run
<1>3. CASE Rename
  BY <1>3 DEF Rename
<1>4. CASE Make
  BY <1>4 DEF Make, run
<1>5. CASE NoShell
  BY <1>5 DEF NoShell, End
<1>6. CASE Working
  BY <1>6 DEF Working, dirs, run
<1>7. CASE RequestJob
  BY <1>7 DEF RequestJob, End, dirs, run
<1>8. CASE Truncate \/ Write
  BY <1>8 DEF Truncate, Write, At, run
<1>9. CASE WriteFails
  BY <1>9 DEF WriteFails, At, End, dirs
<1>10. CASE Symlink
  BY <1>10 DEF Symlink, At, End, run
<1>11. CASE Return
  BY <1>11 DEF Return, dirs
<1>12. CASE Die
  BY <1>12 DEF Die, End, dirs, TypeOK
<1>13. CASE UNCHANGED vars
  BY <1>13 DEF vars, dirs, run
<1>14. Get \/ GetDone \/ PrepareCommands \/ SendJob \/ GenerateDone \/ Take => Working
  BY DEF Get, GetDone, PrepareCommands, SendJob, GenerateDone, Take
<1> QED
  BY <1>1, <1>2, <1>3, <1>4, <1>5, <1>6, <1>7, <1>8, <1>9, <1>10, <1>11, <1>12,
     <1>13, <1>14, StepCases

(* What the last complete install left survives one install that does not    *)
(* complete, wherever it is cut short: by a kill, by an error, or by a rule  *)
(* that cannot be resolved (doInstallCmd: the rename before the writing).    *)
THEOREM LastGood == Spec => []LastGoodKept
<1>1. Init => Keeping
  BY DEF Init, Keeping
<1>2. TypeOK /\ Keeping => LastGoodKept
  <2> SUFFICES ASSUME TypeOK, Keeping PROVE LastGoodKept
    OBVIOUS
  <2>1. attempts \in Nat
    BY DEF TypeOK
  <2>2. attempts <= 1 => attempts = 0 \/ attempts = 1
    BY <2>1
  <2> QED
    BY <2>2 DEF TypeOK, Keeping, LastGoodKept
<1> QED
  BY <1>1, <1>2, NextKeeping, Typed, PTL DEF Spec

-----------------------------------------------------------------------------
(* Completeness.  A rule that is wanted is to be looked at, or its job is    *)
(* somewhere between the goroutines, or its script and link are written.     *)

Moving ==
  Range(flow.inputs) \cup flow.resolving \cup flow.preparing
    \cup Range(flow.jobs) \cup {w.job : w \in flow.writer}

Written(n) ==
  \A d \in location : d.script[n] = "program" /\ (n \in Linked => n \in d.link)

(* Each goroutine has one job in hand at most.                               *)
Hands ==
  \A S \in {flow.resolving, flow.preparing, flow.writer} :
    S = {} \/ \E x : S = {x}

(* A stage is done when the one before it is, and its own hands are empty.   *)
Shutdown ==
  /\ "inputs" \in flow.closed => flow.todo = {}
  /\ "jobs" \in flow.closed =>
       /\ "inputs" \in flow.closed /\ flow.inputs = <<>>
       /\ flow.resolving = {} /\ flow.preparing = {}

NothingLost ==
  \A n \in Wanted : n \in flow.todo \/ Written(n) \/ \E j \in Moving : j.name = n

(* A script that runs the link to itself comes from a link that is there,    *)
(* which the writer's last step does not replace.                            *)
Honest ==
  /\ flow.todo \subseteq rules
  /\ \A j \in Moving :
       /\ j.name \in Wanted
       /\ j.runs = "self" => \A d \in location : j.name \in d.link
  /\ \A w \in flow.writer : w.step = "link" =>
       /\ HasLink(w.job.name)
       /\ \A d \in location : d.script[w.job.name] = w.job.runs

NothingElse ==
  moved => \A d \in location :
    /\ \A n \in Names \ Wanted : d.script[n] = "absent"
    /\ d.link \subseteq Wanted

(* No link is made but those that are asked for.                             *)
LinksAsked == \A d \in location : d.link \subseteq Linked

AtWork == phase = "work" => Hands /\ Shutdown /\ NothingLost /\ Honest /\ NothingElse
Complete == (outcome = "ok" => phase = "idle") /\ CompleteAtReturn

InstallInv == TypeOK /\ Standing /\ LinksAsked /\ AtWork

LEMMA NextLinks == InstallInv /\ [Next]_vars => LinksAsked'
<1> SUFFICES ASSUME InstallInv, [Next]_vars PROVE LinksAsked'
  OBVIOUS
<1> USE DEF InstallInv, LinksAsked
<1>1. CASE UNCHANGED location
  BY <1>1
<1>2. CASE Rename
  BY <1>2 DEF Rename
<1>3. CASE Make \/ NoShell
  BY <1>3 DEF Make, NoShell, MkdirAll, Empty
<1>4. CASE Truncate \/ Write
  <2>1. PICK step \in {"open", "fill"} : At(step)
    BY <1>4 DEF Truncate, Write
  <2>2. PICK content \in {"absent", "cut", "program", "self"} : Fill(content)
    BY <1>4, <2>1, WriterType DEF Truncate, Write, Job
  <2>3. PICK d \in Directory : location = {d} /\ Only(location) = d
    BY <2>1, WriterType
  <2>4. location' = {[d EXCEPT !.script[Current.name] = content]}
    BY <2>2, <2>3 DEF Fill
  <2>5. [d EXCEPT !.script[Current.name] = content].link = d.link
    BY DEF Directory
  <2> QED
    BY <2>3, <2>4, <2>5
<1>5. CASE Symlink
  <2>1. CASE UNCHANGED location
    BY <2>1
  <2>2. CASE location' = {[Only(location) EXCEPT !.link = @ \cup {Current.name}]}
    <3>1. PICK w \in flow.writer : Current = w.job
      BY <1>5, WriterType DEF Symlink
    <3>2. w.step = "link"
      BY <1>5, <3>1 DEF Symlink, At, AtWork, Hands
    <3>3. Current.name \in Linked
      BY <1>5, <3>1, <3>2 DEF Symlink, At, AtWork, Honest, HasLink
    <3>4. PICK d \in Directory : location = {d} /\ Only(location) = d
      BY <1>5, WriterType DEF Symlink
    <3> QED
      BY <2>2, <3>3, <3>4 DEF Directory
  <2> QED
    BY <1>5, <2>1, <2>2 DEF Symlink
<1> QED
  BY <1>1, <1>2, <1>3, <1>4, <1>5, StepCases
     DEF Start, Remove, Get, GetDone, RequestJob, PrepareCommands, SendJob,
         GenerateDone, Take, WriteFails, Return, Die, Working, vars, dirs

(* A job that goes from hand to hand is not lost.                            *)
LEMMA HandedOn ==
  ASSUME InstallInv, phase = "work", UNCHANGED <<location, rules, moved>>,
         flow'.todo = flow.todo, Moving' = Moving,
         \A w \in flow'.writer : w.step = "link" => w \in flow.writer
  PROVE  NothingLost' /\ Honest' /\ NothingElse'
<1> USE DEF InstallInv, AtWork
<1>1. Wanted' = Wanted /\ (\A n : Written(n)' <=> Written(n))
  BY DEF Wanted, Written
<1>2. NothingLost'
  BY <1>1 DEF NothingLost
<1>3. Honest'
  BY <1>1 DEF Honest
<1>4. NothingElse'
  BY <1>1 DEF NothingElse
<1> QED
  BY <1>2, <1>3, <1>4

(* The steps between the first channel and the writer.                       *)
LEMMA NextFlow ==
  ASSUME InstallInv, phase' = "work",
         Get \/ GetDone \/ RequestJob \/ PrepareCommands \/ SendJob
           \/ GenerateDone \/ Take
  PROVE  AtWork'
<1> USE DEF InstallInv, AtWork
<1>0. /\ flow \in Flows /\ flow.inputs \in Seq(Job) /\ flow.jobs \in Seq(Job)
      /\ phase = "work" /\ Hands /\ Shutdown /\ Honest
  BY DEF TypeOK, Flows, Get, GetDone, RequestJob, PrepareCommands, SendJob,
         GenerateDone, Take, Working
<1>1. CASE Get
  <2>1. PICK n \in flow.todo :
          \/ n \in Ignored /\ flow' = [flow EXCEPT !.todo = @ \ {n}]
          \/ /\ n \notin Ignored
             /\ flow' = [flow EXCEPT !.todo = @ \ {n},
                                     !.inputs = Append(@, [name |-> n, runs |-> LookPath(n)])]
    BY <1>1 DEF Get
  <2>2. UNCHANGED <<location, rules, moved>>
    BY <1>1 DEF Get, Working, dirs, run
  <2>3. Wanted' = Wanted /\ (\A m : Written(m)' <=> Written(m))
    BY <2>2 DEF Wanted, Written
  <2>4. CASE n \in Ignored /\ flow' = [flow EXCEPT !.todo = @ \ {n}]
    <3>1. /\ flow'.todo = flow.todo \ {n} /\ Moving' = Moving
          /\ flow'.writer = flow.writer /\ flow'.closed = flow.closed
          /\ flow'.resolving = flow.resolving /\ flow'.inputs = flow.inputs
          /\ flow'.preparing = flow.preparing
      BY <1>0, <2>4 DEF Flows, Moving
    <3>2. n \notin Wanted
      BY <2>4 DEF Wanted
    <3>3. NothingLost'
      BY <1>0, <2>3, <3>1, <3>2 DEF NothingLost
    <3>4. Honest'
      BY <1>0, <2>2, <2>3, <3>1 DEF Honest
    <3>5. NothingElse'
      BY <1>0, <2>2, <2>3 DEF NothingElse
    <3> QED
      BY <1>0, <3>1, <3>3, <3>4, <3>5 DEF Hands, Shutdown
  <2>5. CASE /\ n \notin Ignored
             /\ flow' = [flow EXCEPT !.todo = @ \ {n},
                                     !.inputs = Append(@, [name |-> n, runs |-> LookPath(n)])]
    <3> DEFINE j == [name |-> n, runs |-> LookPath(n)]
               s == Append(flow.inputs, j)
    <3>1. j \in Job /\ j.name = n /\ j.runs = LookPath(n)
      BY <1>0 DEF Job, LookPath, Flows
    <3>2. Range(s) = Range(flow.inputs) \cup {j}
      BY <1>0, <3>1, Sending
    <3> HIDE DEF s
    <3>3. flow' = [flow EXCEPT !.todo = @ \ {n}, !.inputs = s]
      BY <2>5 DEF s
    <3> HIDE DEF j
    <3>4. /\ flow'.todo = flow.todo \ {n} /\ flow'.inputs = s
          /\ flow'.writer = flow.writer /\ flow'.closed = flow.closed
          /\ flow'.resolving = flow.resolving /\ flow'.jobs = flow.jobs
          /\ flow'.preparing = flow.preparing
      BY <1>0, <3>3 DEF Flows
    <3>5. Moving' = Moving \cup {j}
      BY <3>2, <3>4 DEF Moving
    <3>6. NothingLost'
      BY <1>0, <2>3, <3>1, <3>4, <3>5 DEF NothingLost
    <3>7. n \in Wanted
      BY <1>0, <2>5 DEF Honest, Wanted
    <3>8. j.runs = "self" => \A d \in location : n \in d.link
      BY <3>1 DEF LookPath, TypeOK
    <3>9. Honest'
      BY <1>0, <2>2, <2>3, <3>1, <3>4, <3>5, <3>7, <3>8 DEF Honest
    <3>10. NothingElse'
      BY <1>0, <2>2, <2>3 DEF NothingElse
    <3> QED
      BY <1>0, <3>4, <3>6, <3>9, <3>10 DEF Hands, Shutdown
  <2> QED
    BY <2>1, <2>4, <2>5
<1>2. CASE GetDone
  <2>1. /\ flow'.todo = flow.todo /\ flow'.inputs = flow.inputs
        /\ flow'.writer = flow.writer /\ flow'.jobs = flow.jobs
        /\ flow'.resolving = flow.resolving /\ flow'.preparing = flow.preparing
        /\ flow'.closed = flow.closed \cup {"inputs"} /\ flow.todo = {}
    BY <1>0, <1>2 DEF GetDone, Flows
  <2>2. UNCHANGED <<location, rules, moved>>
    BY <1>2 DEF GetDone, Working, dirs, run
  <2>3. Hands' /\ Shutdown'
    BY <1>0, <2>1 DEF Hands, Shutdown
  <2> QED
    BY <1>0, <2>1, <2>2, <2>3, HandedOn DEF Moving
<1>3. CASE RequestJob
  <2> DEFINE t == Tail(flow.inputs)
             h == Head(flow.inputs)
  <2>1. Range(flow.inputs) = Range(t) \cup {h}
    BY <1>0, <1>3, Receiving DEF RequestJob
  <2>2. UNCHANGED <<location, rules, moved>>
    BY <1>0, <1>3 DEF RequestJob, dirs, run, End
  <2>3. flow' = [flow EXCEPT !.inputs = t, !.resolving = {h}]
    BY <1>3 DEF RequestJob
  <2> HIDE DEF t, h
  <2>4. /\ flow'.todo = flow.todo /\ flow'.inputs = t
        /\ flow'.writer = flow.writer /\ flow'.jobs = flow.jobs
        /\ flow'.resolving = {h} /\ flow'.preparing = flow.preparing
        /\ flow'.closed = flow.closed
    BY <1>0, <2>3 DEF Flows
  <2>5. flow.inputs # <<>> /\ flow.resolving = {}
    BY <1>3 DEF RequestJob
  <2>6. Moving' = Moving
    BY <2>1, <2>4, <2>5 DEF Moving
  <2>7. Hands' /\ Shutdown'
    BY <1>0, <2>4, <2>5 DEF Hands, Shutdown
  <2> QED
    BY <1>0, <2>2, <2>4, <2>6, <2>7, HandedOn
<1>4. CASE PrepareCommands
  <2>1. /\ flow'.todo = flow.todo /\ flow'.inputs = flow.inputs
        /\ flow'.writer = flow.writer /\ flow'.jobs = flow.jobs
        /\ flow'.resolving = {} /\ flow'.preparing = flow.resolving
        /\ flow'.closed = flow.closed
        /\ flow.preparing = {} /\ flow.resolving # {}
    BY <1>0, <1>4 DEF PrepareCommands, Flows
  <2>2. UNCHANGED <<location, rules, moved>>
    BY <1>4 DEF PrepareCommands, Working, dirs, run
  <2>3. Hands' /\ Shutdown'
    BY <1>0, <2>1 DEF Hands, Shutdown
  <2>4. Moving' = Moving
    BY <2>1 DEF Moving
  <2> QED
    BY <1>0, <2>1, <2>2, <2>3, <2>4, HandedOn
<1>5. CASE SendJob
  <2>1. PICK j : flow.preparing = {j} /\ j \in Job /\ Only(flow.preparing) = j
    BY <1>0, <1>5, OnlyElement DEF SendJob, Hands, Flows
  <2> DEFINE s == Append(flow.jobs, j)
  <2>2. Range(s) = Range(flow.jobs) \cup {j}
    BY <1>0, <2>1, Sending
  <2>3. flow' = [flow EXCEPT !.preparing = {}, !.jobs = s]
    BY <1>5, <2>1 DEF SendJob
  <2> HIDE DEF s
  <2>4. /\ flow'.todo = flow.todo /\ flow'.inputs = flow.inputs
        /\ flow'.writer = flow.writer /\ flow'.jobs = s
        /\ flow'.resolving = flow.resolving /\ flow'.preparing = {}
        /\ flow'.closed = flow.closed
    BY <1>0, <2>3 DEF Flows
  <2>5. UNCHANGED <<location, rules, moved>>
    BY <1>5 DEF SendJob, Working, dirs, run
  <2>6. Hands' /\ Shutdown'
    BY <1>0, <2>4 DEF Hands, Shutdown
  <2>7. Moving' = Moving
    BY <2>1, <2>2, <2>4 DEF Moving
  <2> QED
    BY <1>0, <2>4, <2>5, <2>6, <2>7, HandedOn
<1>6. CASE GenerateDone
  <2>1. /\ flow'.todo = flow.todo /\ flow'.inputs = flow.inputs
        /\ flow'.writer = flow.writer /\ flow'.jobs = flow.jobs
        /\ flow'.resolving = flow.resolving /\ flow'.preparing = flow.preparing
        /\ flow'.closed = flow.closed \cup {"jobs"}
        /\ "inputs" \in flow.closed /\ flow.inputs = <<>>
        /\ flow.resolving = {} /\ flow.preparing = {}
    BY <1>0, <1>6 DEF GenerateDone, Flows
  <2>2. UNCHANGED <<location, rules, moved>>
    BY <1>6 DEF GenerateDone, Working, dirs, run
  <2>3. Hands' /\ Shutdown'
    BY <1>0, <2>1 DEF Hands, Shutdown
  <2> QED
    BY <1>0, <2>1, <2>2, <2>3, HandedOn DEF Moving
<1>7. CASE Take
  <2> DEFINE t == Tail(flow.jobs)
             h == Head(flow.jobs)
             w == [job |-> h, step |-> "open"]
  <2>1. Range(flow.jobs) = Range(t) \cup {h}
    BY <1>0, <1>7, Receiving DEF Take
  <2>2. UNCHANGED <<location, rules, moved>>
    BY <1>7 DEF Take, Working, dirs, run
  <2>3. flow' = [flow EXCEPT !.jobs = t, !.writer = {w}]
    BY <1>7 DEF Take
  <2>4. w.job = h /\ w.step = "open"
    OBVIOUS
  <2> HIDE DEF t, h, w
  <2>5. /\ flow'.todo = flow.todo /\ flow'.inputs = flow.inputs
        /\ flow'.writer = {w} /\ flow'.jobs = t
        /\ flow'.resolving = flow.resolving /\ flow'.preparing = flow.preparing
        /\ flow'.closed = flow.closed /\ flow.writer = {}
    BY <1>0, <1>7, <2>3 DEF Take, Flows
  <2>6. {v.job : v \in flow'.writer} = {h} /\ {v.job : v \in flow.writer} = {}
    BY <2>4, <2>5
  <2>7. Moving' = Moving
    BY <2>1, <2>5, <2>6 DEF Moving
  <2>8. Hands' /\ Shutdown'
    BY <1>0, <2>5 DEF Hands, Shutdown
  <2> QED
    BY <1>0, <2>2, <2>4, <2>5, <2>7, <2>8, HandedOn
<1> QED
  BY <1>1, <1>2, <1>3, <1>4, <1>5, <1>6, <1>7

(* The steps of the writer.  What is not its current script stays the same.  *)
LEMMA NextWriter ==
  ASSUME InstallInv, phase' = "work", Truncate \/ Write \/ Symlink
  PROVE  AtWork'
<1> USE DEF InstallInv, AtWork
<1>0. PICK step \in {"open", "fill", "link"} : At(step)
  BY DEF Truncate, Write, Symlink
<1>1. /\ phase = "work" /\ flow \in Flows
      /\ Hands /\ Shutdown /\ NothingLost /\ Honest /\ NothingElse
  BY <1>0 DEF At, TypeOK
<1>2. PICK w : flow.writer = {w} /\ Current = w.job
  BY <1>0, <1>1, WriterType DEF Hands
<1>3. w.step = step /\ w.job \in Job /\ w.job \in Moving
  BY <1>0, <1>1, <1>2, WriterType DEF At, Moving
<1>4. PICK d \in Directory : location = {d} /\ Only(location) = d
  BY <1>0, WriterType
<1> DEFINE j == w.job
           n == j.name
           Rest == Range(flow.inputs) \cup flow.resolving \cup flow.preparing
                     \cup Range(flow.jobs)
<1>5. Moving = Rest \cup {j} /\ n \in Wanted /\ n \in Names
  BY <1>1, <1>2, <1>3 DEF Moving, Honest, Wanted, Job
<1>6. /\ j.runs \in {"program", "self"}
      /\ j.runs = "self" => n \in d.link /\ n \in Linked
  BY <1>1, <1>3, <1>4 DEF Honest, Job, LinksAsked
<1>7. UNCHANGED <<rules, moved>> /\ Wanted' = Wanted
  BY DEF Truncate, Write, Symlink, run, Wanted, End
<1>8. ASSUME NEW at \in {"open", "fill", "link", "end"}, Then(at)
      PROVE  /\ flow'.todo = flow.todo /\ flow'.closed = flow.closed
             /\ flow'.inputs = flow.inputs /\ flow'.jobs = flow.jobs
             /\ flow'.resolving = flow.resolving
             /\ flow'.preparing = flow.preparing
             /\ at # "end" => /\ flow'.writer = {[job |-> j, step |-> at]}
                              /\ Moving' = Rest \cup {j}
             /\ at = "end" => /\ flow'.writer = {}
                              /\ Moving' = Rest
             /\ Hands' /\ Shutdown'
  <2> DEFINE v == IF at = "end" THEN {} ELSE {[job |-> j, step |-> at]}
  <2>1. flow' = [flow EXCEPT !.writer = v]
    BY <1>2, <1>8 DEF Then
  <2>2. /\ v = {} \/ \E x : v = {x}
        /\ at # "end" => v = {[job |-> j, step |-> at]} /\ {x.job : x \in v} = {j}
        /\ at = "end" => v = {} /\ {x.job : x \in v} = {}
    <3>1. CASE at = "end"
      BY <3>1
    <3>2. CASE at # "end"
      <4> DEFINE u == [job |-> j, step |-> at]
      <4>1. v = {u} /\ u.job = j
        BY <3>2
      <4> HIDE DEF u, v
      <4>2. {x.job : x \in v} = {j}
        BY <4>1
      <4> QED
        BY <3>2, <4>1, <4>2 DEF u
    <3> QED
      BY <3>1, <3>2
  <2> HIDE DEF v
  <2>3. /\ flow'.todo = flow.todo /\ flow'.closed = flow.closed
        /\ flow'.inputs = flow.inputs /\ flow'.jobs = flow.jobs
        /\ flow'.resolving = flow.resolving
        /\ flow'.preparing = flow.preparing
        /\ flow'.writer = v
    BY <1>1, <2>1 DEF Flows
  <2>4. Hands' /\ Shutdown'
    BY <1>1, <2>2, <2>3 DEF Hands, Shutdown
  <2>5. Moving' = Rest \cup {x.job : x \in v}
    BY <2>3 DEF Moving
  <2> QED
    BY <2>2, <2>3, <2>4, <2>5
<1> HIDE DEF Rest
<1>9. ASSUME NEW content \in {"cut", "program", "self"}, Fill(content)
      PROVE  \E e \in Directory :
               /\ location' = {e} /\ e.link = d.link /\ e.script[n] = content
               /\ \A m \in Names \ {n} : e.script[m] = d.script[m]
  <2> DEFINE e == [d EXCEPT !.script[n] = content]
  <2>1. location' = {e}
    BY <1>2, <1>4, <1>9 DEF Fill
  <2>2. /\ e \in Directory /\ e.link = d.link /\ e.script[n] = content
        /\ \A m \in Names \ {n} : e.script[m] = d.script[m]
    BY <1>5 DEF Directory
  <2> QED
    BY <2>1, <2>2
<1>10. CASE Truncate
  <2>1. PICK e \in Directory :
          /\ location' = {e} /\ e.link = d.link
          /\ \A m \in Names \ {n} : e.script[m] = d.script[m]
    BY <1>9, <1>10 DEF Truncate
  <2>2. Then("fill")
    BY <1>10 DEF Truncate
  <2>3. /\ flow'.todo = flow.todo /\ Moving' = Moving
        /\ \A x \in flow'.writer : x.step = "fill"
    BY <1>5, <1>8, <2>2
  <2>4. \A m \in Wanted \ {n} : Written(m) => Written(m)'
    BY <1>4, <2>1 DEF Written, Wanted, TypeOK
  <2>5. NothingLost'
    BY <1>1, <1>5, <1>7, <2>3, <2>4 DEF NothingLost
  <2>6. Honest'
    BY <1>1, <1>4, <1>7, <2>1, <2>3 DEF Honest
  <2>7. NothingElse'
    BY <1>1, <1>4, <1>5, <1>7, <2>1 DEF NothingElse
  <2> QED
    BY <1>8, <2>2, <2>5, <2>6, <2>7
<1>11. CASE Write
  <2>1. PICK e \in Directory :
          /\ location' = {e} /\ e.link = d.link /\ e.script[n] = j.runs
          /\ \A m \in Names \ {n} : e.script[m] = d.script[m]
    BY <1>2, <1>6, <1>9, <1>11 DEF Write
  <2>2. Then(IF HasLink(n) THEN "link" ELSE "end")
    BY <1>2, <1>11 DEF Write
  <2>3. \A m \in Wanted \ {n} : Written(m) => Written(m)'
    BY <1>4, <2>1 DEF Written, Wanted, TypeOK
  <2>4. NothingElse'
    BY <1>1, <1>4, <1>5, <1>7, <2>1 DEF NothingElse
  <2>5. CASE HasLink(n)
    <3>1. /\ flow'.todo = flow.todo /\ Moving' = Moving
          /\ flow'.writer = {[job |-> j, step |-> "link"]}
      BY <1>5, <1>8, <2>2, <2>5
    <3>2. NothingLost'
      BY <1>1, <1>5, <1>7, <2>3, <3>1 DEF NothingLost
    <3>3. Honest'
      BY <1>1, <1>4, <1>7, <2>1, <2>5, <3>1 DEF Honest, HasLink
    <3> QED
      BY <1>8, <2>2, <2>4, <2>5, <3>2, <3>3
  <2>6. CASE ~HasLink(n)
    <3>1. /\ flow'.todo = flow.todo /\ Moving' = Rest
          /\ flow'.writer = {}
      BY <1>8, <2>2, <2>6
    <3>2. Written(n)'
      BY <1>6, <2>1, <2>6 DEF Written, HasLink
    <3>3. NothingLost'
      BY <1>1, <1>5, <1>7, <2>3, <3>1, <3>2 DEF NothingLost
    <3>4. Honest'
      BY <1>1, <1>4, <1>5, <1>7, <2>1, <3>1 DEF Honest
    <3> QED
      BY <1>8, <2>2, <2>4, <2>6, <3>3, <3>4
  <2> QED
    BY <2>5, <2>6
<1>12. CASE Symlink
  <2>1. n \notin d.link /\ location' = {[d EXCEPT !.link = @ \cup {n}]}
    BY <1>2, <1>4, <1>12 DEF Symlink, End
  <2> DEFINE e == [d EXCEPT !.link = @ \cup {n}]
  <2>2. /\ e \in Directory /\ e.script = d.script /\ e.link = d.link \cup {n}
    BY <1>5 DEF Directory
  <2> HIDE DEF e
  <2>3. location' = {e}
    BY <2>1 DEF e
  <2>4. /\ flow'.todo = flow.todo /\ Moving' = Rest /\ flow'.writer = {}
        /\ Hands' /\ Shutdown'
    BY <1>8, <1>12 DEF Symlink
  <2>5. d.script[n] = "program"
    <3>1. w.step = "link"
      BY <1>2, <1>12 DEF Symlink, At
    <3> QED
      BY <1>1, <1>2, <1>4, <1>6, <2>1, <3>1 DEF Honest
  <2>6. Written(n)' /\ \A m : Written(m) => Written(m)'
    BY <1>4, <2>2, <2>3, <2>5 DEF Written
  <2>7. NothingLost'
    BY <1>1, <1>5, <1>7, <2>4, <2>6 DEF NothingLost
  <2>8. Honest'
    BY <1>1, <1>4, <1>5, <1>7, <2>2, <2>3, <2>4 DEF Honest
  <2>9. NothingElse'
    BY <1>1, <1>4, <1>5, <1>7, <2>2, <2>3 DEF NothingElse
  <2> QED
    BY <2>4, <2>7, <2>8, <2>9
<1> QED
  BY <1>10, <1>11, <1>12

LEMMA NextAtWork == InstallInv /\ [Next]_vars => AtWork'
<1> SUFFICES ASSUME InstallInv, [Next]_vars, phase' = "work" PROVE AtWork'
  BY DEF AtWork
<1>1. CASE Make
  <2>1. /\ flow'.todo = rules /\ flow'.inputs = <<>> /\ flow'.jobs = <<>>
        /\ flow'.resolving = {} /\ flow'.preparing = {}
        /\ flow'.closed = {} /\ flow'.writer = {}
    BY <1>1, FlowType DEF Make, InstallInv, TypeOK
  <2>2. Moving' = {}
    BY <2>1, Nothing DEF Moving
  <2>3. Hands' /\ Shutdown'
    BY <2>1 DEF Hands, Shutdown
  <2>4. NothingLost' /\ Honest'
    BY <1>1, <2>1, <2>2 DEF Make, run, NothingLost, Honest, Wanted
  <2>5. NothingElse'
    <3>1. moved => location' = {Empty}
      BY <1>1 DEF Make, MkdirAll, InstallInv, Standing
    <3> QED
      BY <1>1, <3>1 DEF Make, run, NothingElse, Empty
  <2> QED
    BY <2>3, <2>4, <2>5 DEF AtWork
<1>2. CASE Get \/ GetDone \/ RequestJob \/ PrepareCommands \/ SendJob
             \/ GenerateDone \/ Take
  BY <1>2, NextFlow
<1>3. CASE Truncate \/ Write \/ Symlink
  BY <1>3, NextWriter
<1>4. CASE UNCHANGED vars
  BY <1>4 DEF vars, dirs, run, InstallInv, AtWork, Hands, Shutdown, NothingLost,
              Honest, NothingElse, Moving, Written, Wanted
<1>5. ~(Start \/ Remove \/ Rename \/ NoShell \/ WriteFails \/ Return \/ Die)
  BY DEF Start, Remove, Rename, NoShell, WriteFails, Return, Die, End
<1> QED
  BY <1>1, <1>2, <1>3, <1>4, <1>5, StepCases

LEMMA NextComplete == InstallInv /\ Complete /\ [Next]_vars => Complete'
<1> SUFFICES ASSUME InstallInv, Complete, [Next]_vars PROVE Complete'
  OBVIOUS
<1>1. CASE Return
  <2>1. AtWork /\ phase = "work" /\ flow \in Flows /\ LinksAsked
    BY <1>1 DEF Return, InstallInv, TypeOK
  <2>2. Moving = {}
    BY <1>1, <2>1, Nothing DEF Return, AtWork, Shutdown, Moving
  <2>3. flow.todo = {}
    BY <1>1, <2>1 DEF Return, AtWork, Shutdown
  <2>4. \A n \in Wanted : Written(n)
    BY <2>1, <2>2, <2>3 DEF AtWork, NothingLost
  <2>5. PICK d \in Directory : location = {d}
    BY <2>1 DEF InstallInv, TypeOK, Standing
  <2>6. /\ \A n \in Wanted : d.script[n] = "program"
        /\ Wanted \cap Linked \subseteq d.link
    BY <2>4, <2>5 DEF Written
  <2>7. moved => /\ \A n \in Names \ Wanted : d.script[n] = "absent"
                 /\ d.link = Wanted \cap Linked
    BY <2>1, <2>5, <2>6 DEF AtWork, NothingElse, LinksAsked
  <2>8. phase' = "idle" /\ UNCHANGED <<location, rules, moved>>
    BY <1>1 DEF Return, dirs
  <2>9. CompleteAtReturn'
    BY <2>5, <2>6, <2>7, <2>8 DEF CompleteAtReturn, Wanted
  <2> QED
    BY <2>8, <2>9 DEF Complete
<1>2. CASE UNCHANGED <<outcome, phase, location, rules, moved>>
  BY <1>2 DEF Complete, CompleteAtReturn, Wanted
<1>3. CASE outcome' # "ok"
  BY <1>3 DEF Complete, CompleteAtReturn
<1>4. CASE phase # "idle" /\ UNCHANGED outcome
  BY <1>3, <1>4 DEF Complete
<1>5. Working => phase # "idle" /\ UNCHANGED outcome
  BY DEF Working, run
<1> QED
  BY <1>1, <1>2, <1>3, <1>4, <1>5, StepCases
     DEF Start, Remove, Rename, Make, NoShell, Get, GetDone, RequestJob,
         PrepareCommands, SendJob, GenerateDone, Take, Truncate, Write,
         WriteFails, Symlink, Die, End, At, vars, dirs, run

(* An install that returns has written a whole script, with its link, for    *)
(* each rule that is wanted, and nothing else if the old directory could be  *)
(* moved - although LookPath may find an old link in place of the program    *)
(* and any goroutine may be anywhere when the process ends (doInstallCmd).   *)
THEOREM ReturnsComplete == Spec => []CompleteAtReturn
<1>1. Init => LinksAsked /\ AtWork /\ Complete
  BY DEF Init, LinksAsked, AtWork, Complete, CompleteAtReturn
<1>2. Complete => CompleteAtReturn
  BY DEF Complete
<1>3. TypeOK /\ Standing /\ LinksAsked /\ AtWork <=> InstallInv
  BY DEF InstallInv
<1> QED
  BY <1>1, <1>2, <1>3, InitType, NextType, NextLinks, NextAtWork, NextComplete, PTL
     DEF Spec
=============================================================================

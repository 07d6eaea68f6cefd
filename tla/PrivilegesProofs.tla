-------------------------- MODULE PrivilegesProofs --------------------------
(* For any number of workers, the ambient set of the process is raised only  *)
(* while some worker has yet to drop it.  And as long as no two jobs have    *)
(* run at the same time, each command runs with the privileges it was meant  *)
(* for.                                                                      *)
EXTENDS Privileges, TLAPS

(* A step is an operation of one worker, or none at all.                     *)
LEMMA StepCases ==
  ASSUME [Next]_vars
  PROVE  \/ \E w \in Workers :
              \/ Begin(w) \/ Raise(w) \/ Get(w) \/ Note(w) \/ SetAside(w)
              \/ PreRun(w) \/ Start(w) \/ Succeed(w) \/ Fail(w) \/ Drop(w)
              \/ Finish(w)
         \/ UNCHANGED vars
BY DEF Next, Act

-----------------------------------------------------------------------------
(* Types.  TypeOK is not inductive alone: what Start takes from the queue is *)
(* a command only if the queue is not empty.                                 *)

Engaged ==
  \A w \in Workers :
    /\ chosen[w] # {} \/ child[w] # {} => pc[w] \in {"utils", "rest"} /\ Queue(w) # <<>>
    /\ child[w] # {} => chosen[w] = {}

LEMMA InitType == Init => TypeOK /\ Engaged
<1>1. <<>> \in Seq(Command)
  OBVIOUS
<1>2. Init => TypeOK
  BY <1>1 DEF Init, TypeOK
<1> QED
  BY <1>2 DEF Init, Engaged

(* A command out of a queue that is not empty is a command.                  *)
LEMMA QueueType ==
  ASSUME TypeOK, NEW w \in Workers
  PROVE  /\ Queue(w) \in Seq(Command)
         /\ Queue(w) # <<>> => /\ Head(Queue(w)) \in Command
                               /\ Tail(Queue(w)) \in Seq(Command)
BY DEF TypeOK, Queue

LEMMA NextType == TypeOK /\ Engaged /\ [Next]_vars => TypeOK'
<1> SUFFICES ASSUME TypeOK, Engaged, [Next]_vars PROVE TypeOK'
  OBVIOUS
<1> USE DEF TypeOK
<1>1. ASSUME NEW w \in Workers, Begin(w) PROVE TypeOK'
  BY <1>1, JobsAssumption DEF Begin, Goto
<1>2. ASSUME NEW w \in Workers, Raise(w) PROVE TypeOK'
  <2>1. ambient' \in BOOLEAN
    BY <1>2, FlagsAssumption DEF Raise
  <2> QED
    BY <1>2, <2>1 DEF Raise, Goto
<1>3. ASSUME NEW w \in Workers, Get(w) PROVE TypeOK'
  BY <1>3 DEF Get, Goto
<1>4. ASSUME NEW w \in Workers, Note(w) PROVE TypeOK'
  BY <1>4 DEF Note, Goto
<1>5. ASSUME NEW w \in Workers, SetAside(w) PROVE TypeOK'
  <2>1. todo[w] # <<>> /\ Head(todo[w]) \in Command /\ Tail(todo[w]) \in Seq(Command)
    BY <1>5, QueueType DEF SetAside, Free, Queue
  <2>2. rest' \in [Workers -> Seq(Command)]
    BY <1>5, <2>1 DEF SetAside
  <2>3. todo' \in [Workers -> Seq(Command)]
    BY <1>5, <2>1 DEF SetAside
  <2> QED
    BY <1>5, <2>2, <2>3 DEF SetAside
<1>6. ASSUME NEW w \in Workers, PreRun(w) PROVE TypeOK'
  <2>1. PICK b : b \in BOOLEAN /\ chosen' = [chosen EXCEPT ![w] = {b}]
    BY <1>6 DEF PreRun
  <2> QED
    BY <1>6, <2>1 DEF PreRun
<1>7. ASSUME NEW w \in Workers, Start(w) PROVE TypeOK'
  <2>1. PICK sudo \in chosen[w] :
          child' = [child EXCEPT ![w] =
                     {[cmd |-> Head(Queue(w)), sudo |-> sudo, caps |-> ambient]}]
    BY <1>7 DEF Start
  <2>2. [cmd |-> Head(Queue(w)), sudo |-> sudo, caps |-> ambient] \in Child
    BY <1>7, QueueType DEF Child, Engaged
  <2>3. child' \in [Workers -> SUBSET Child]
    BY <2>1, <2>2
  <2> QED
    BY <1>7, <2>3 DEF Start
<1>8. ASSUME NEW w \in Workers, NEW q \in Seq(Command), SetQueue(w, q)
      PROVE  todo' \in [Workers -> Seq(Command)] /\ rest' \in [Workers -> Seq(Command)]
  BY <1>8 DEF SetQueue
<1>9. ASSUME NEW w \in Workers, Succeed(w) PROVE TypeOK'
  <2>1. Tail(Queue(w)) \in Seq(Command)
    BY <1>9, QueueType DEF Succeed, Engaged
  <2> QED
    BY <1>9, <2>1, <1>8 DEF Succeed
<1>10. ASSUME NEW w \in Workers, Fail(w) PROVE TypeOK'
  <2>1. <<>> \in Seq(Command)
    OBVIOUS
  <2> QED
    BY <1>10, <2>1, <1>8 DEF Fail
<1>11. ASSUME NEW w \in Workers, Drop(w) PROVE TypeOK'
  BY <1>11 DEF Drop, Goto
<1>12. ASSUME NEW w \in Workers, Finish(w) PROVE TypeOK'
  BY <1>12 DEF Finish, Goto
<1>13. CASE UNCHANGED vars
  BY <1>13 DEF vars
<1> QED
  BY <1>1, <1>2, <1>3, <1>4, <1>5, <1>6, <1>7, <1>9, <1>10, <1>11, <1>12, <1>13,
     StepCases

(* The command a worker has chosen or runs stays at the head of its queue.   *)
LEMMA NextEngaged == TypeOK /\ Engaged /\ [Next]_vars => Engaged'
<1> SUFFICES ASSUME TypeOK, Engaged, [Next]_vars PROVE Engaged'
  OBVIOUS
<1> USE DEF TypeOK, Engaged, Queue
<1>1. ASSUME NEW w \in Workers, Begin(w) PROVE Engaged'
  BY <1>1 DEF Begin, Goto
<1>2. ASSUME NEW w \in Workers, Raise(w) PROVE Engaged'
  BY <1>2 DEF Raise, Goto
<1>3. ASSUME NEW w \in Workers, Get(w) PROVE Engaged'
  BY <1>3 DEF Get, Goto
<1>4. ASSUME NEW w \in Workers, Note(w) PROVE Engaged'
  BY <1>4 DEF Note, Goto
<1>5. ASSUME NEW w \in Workers, SetAside(w) PROVE Engaged'
  BY <1>5 DEF SetAside, Free
<1>6. ASSUME NEW w \in Workers, PreRun(w) PROVE Engaged'
  BY <1>6 DEF PreRun, Free
<1>7. ASSUME NEW w \in Workers, Start(w) PROVE Engaged'
  BY <1>7 DEF Start
<1>8. ASSUME NEW w \in Workers, Succeed(w) PROVE Engaged'
  BY <1>8 DEF Succeed, SetQueue
<1>9. ASSUME NEW w \in Workers, Fail(w) PROVE Engaged'
  BY <1>9 DEF Fail, SetQueue
<1>10. ASSUME NEW w \in Workers, Drop(w) PROVE Engaged'
  BY <1>10 DEF Drop, Goto
<1>11. ASSUME NEW w \in Workers, Finish(w) PROVE Engaged'
  BY <1>11 DEF Finish, Goto
<1>12. CASE UNCHANGED vars
  BY <1>12 DEF vars
<1> QED
  BY <1>1, <1>2, <1>3, <1>4, <1>5, <1>6, <1>7, <1>8, <1>9, <1>10, <1>11, <1>12,
     StepCases

LEMMA Typed == Spec => [](TypeOK /\ Engaged)
BY InitType, NextType, NextEngaged, PTL DEF Spec

(* The variables keep their types; in particular, what a worker starts is a  *)
(* command of its queue.                                                     *)
THEOREM TypeCorrect == Spec => []TypeOK
BY Typed, PTL

-----------------------------------------------------------------------------
(* Raised capabilities have a worker that will drop them.                    *)

LEMMA NextRaised ==
  TypeOK /\ RaisedForSomeone /\ [Next]_vars => RaisedForSomeone'
<1> SUFFICES ASSUME TypeOK, RaisedForSomeone, [Next]_vars PROVE RaisedForSomeone'
  OBVIOUS
<1> USE DEF TypeOK, RaisedForSomeone, Raised
<1>1. ASSUME NEW w \in Workers, Begin(w) PROVE RaisedForSomeone'
  BY <1>1 DEF Begin, Goto
<1>2. ASSUME NEW w \in Workers, Raise(w) PROVE RaisedForSomeone'
  <2>1. pc'[w] = "getRaised"
    BY <1>2 DEF Raise, Goto
  <2> QED
    BY <2>1
<1>3. ASSUME NEW w \in Workers, Get(w) PROVE RaisedForSomeone'
  BY <1>3 DEF Get, Goto
<1>4. ASSUME NEW w \in Workers, Note(w) PROVE RaisedForSomeone'
  BY <1>4 DEF Note, Goto
<1>5. ASSUME NEW w \in Workers, SetAside(w) PROVE RaisedForSomeone'
  BY <1>5 DEF SetAside
<1>6. ASSUME NEW w \in Workers, PreRun(w) PROVE RaisedForSomeone'
  BY <1>6 DEF PreRun
<1>7. ASSUME NEW w \in Workers, Start(w) PROVE RaisedForSomeone'
  BY <1>7 DEF Start
<1>8. ASSUME NEW w \in Workers, Succeed(w) PROVE RaisedForSomeone'
  BY <1>8 DEF Succeed
<1>9. ASSUME NEW w \in Workers, Fail(w) PROVE RaisedForSomeone'
  BY <1>9 DEF Fail
<1>10. ASSUME NEW w \in Workers, Drop(w) PROVE RaisedForSomeone'
  BY <1>10 DEF Drop
<1>11. ASSUME NEW w \in Workers, Finish(w) PROVE RaisedForSomeone'
  BY <1>11 DEF Finish, Goto
<1>12. CASE UNCHANGED vars
  BY <1>12 DEF vars
<1> QED
  BY <1>1, <1>2, <1>3, <1>4, <1>5, <1>6, <1>7, <1>8, <1>9, <1>10, <1>11, <1>12,
     StepCases

(* However many workers raise and drop the ambient set, and in whatever      *)
(* order, it is raised only while one of them has yet to drop it.            *)
THEOREM RaisedHasOwner == Spec => []RaisedForSomeone
<1>1. Init => RaisedForSomeone
  BY DEF Init, RaisedForSomeone
<1> QED
  BY <1>1, NextRaised, TypeCorrect, PTL DEF Spec

-----------------------------------------------------------------------------
(* No job disturbs another as long as no two have run at the same time.      *)

Busy(w) == pc[w] # "idle"

(* The ambient set and its note are what the place of the busy worker says.  *)
HasRaised(w) == HasCaps /\ Raised(w)

Noted(w) == HasCaps /\ pc[w] \in {"utils", "getDropped", "setDropped"}

InStep(w) ==
  IF Busy(w)
    THEN /\ ambient <=> HasRaised(w)
         /\ noted <=> Noted(w)
         /\ pc[w] \in {"setRaised", "setDropped"} => (read[w] <=> HasRaised(w))
    ELSE ~ambient /\ ~noted

Agreed ==
  ~overlap =>
    /\ (\A w \in Workers : ~Busy(w)) => ~ambient /\ ~noted
    /\ \A w \in Workers : Busy(w) =>
         InStep(w) /\ \A v \in Workers \ {w} : ~Busy(v)

(* The worker that takes a step is the only busy one.                        *)
LEMMA OthersIdle ==
  ASSUME TypeOK, Engaged, Agreed, ~overlap', NEW w \in Workers, Begin(w) \/ Act(w)
  PROVE  /\ ~overlap /\ InStep(w)
         /\ \A v \in Workers \ {w} : ~Busy(v) /\ ~Busy(v)'
<1> USE DEF TypeOK, Busy
<1>1. CASE Begin(w)
  <2>1. ~overlap /\ \A v \in Workers \ {w} : pc[v] = "idle" /\ pc'[v] = "idle"
    BY <1>1 DEF Begin, Goto
  <2>2. ~ambient /\ ~noted
    BY <1>1, <2>1 DEF Agreed, Begin, Goto
  <2> QED
    BY <1>1, <2>1, <2>2 DEF InStep, Begin, Goto
<1>2. CASE Act(w)
  <2>1. overlap' = overlap
    BY <1>2 DEF Act, Raise, Get, Note, SetAside, PreRun, Start, Succeed, Fail,
                Drop, Finish
  <2>2. pc' = [pc EXCEPT ![w] = pc'[w]]
    BY <1>2 DEF Act, Raise, Get, Note, SetAside, PreRun, Start, Succeed, Fail,
                Drop, Finish, Goto
  <2>3. Busy(w)
    <3>1. CASE Start(w)
      BY <3>1 DEF Start, Engaged
    <3>2. CASE Succeed(w) \/ Fail(w)
      BY <3>2 DEF Succeed, Fail, Engaged
    <3>3. CASE Raise(w) \/ Get(w) \/ Note(w) \/ Drop(w) \/ Finish(w)
      BY <3>3 DEF Raise, Get, Note, Drop, Finish, Goto
    <3>4. CASE SetAside(w) \/ PreRun(w)
      BY <3>4 DEF SetAside, PreRun, Free
    <3> QED
      BY <1>2, <3>1, <3>2, <3>3, <3>4 DEF Act
  <2> QED
    BY <2>1, <2>2, <2>3 DEF Agreed
<1> QED
  BY <1>1, <1>2

LEMMA NextAgreed ==
  ASSUME TypeOK, Engaged, Agreed, [Next]_vars
  PROVE  Agreed'
<1>1. CASE UNCHANGED vars
  BY <1>1 DEF vars, Agreed, InStep, Busy, HasRaised, Noted, Raised
<1>2. ASSUME NEW w \in Workers, Begin(w) \/ Act(w), ~overlap', InStep(w)'
      PROVE  Agreed'
  <2>1. \A v \in Workers \ {w} : ~Busy(v)'
    BY <1>2, OthersIdle
  <2> QED
    BY <1>2, <2>1 DEF Agreed, InStep
<1>3. ASSUME NEW w \in Workers, Begin(w) \/ Act(w), InStep(w)
      PROVE  InStep(w)'
  <2> USE <1>3, FlagsAssumption
      DEF TypeOK, InStep, Busy, HasRaised, Noted, Raised
  <2>1. CASE Begin(w)
    BY <2>1 DEF Begin, Goto
  <2>2. CASE Raise(w)
    BY <2>2 DEF Raise, Goto
  <2>3. CASE Get(w)
    BY <2>3 DEF Get, Goto
  <2>4. CASE Note(w)
    BY <2>4 DEF Note, Goto
  <2>5. CASE SetAside(w) \/ PreRun(w) \/ Start(w) \/ Succeed(w) \/ Fail(w)
    <3>1. UNCHANGED <<ambient, noted, pc, read>>
      BY <2>5 DEF SetAside, PreRun, Start, Succeed, Fail
    <3> QED
      BY <3>1
  <2>6. CASE Drop(w)
    BY <2>6 DEF Drop, Goto
  <2>7. CASE Finish(w)
    BY <2>7 DEF Finish, Goto
  <2> QED
    BY <2>1, <2>2, <2>3, <2>4, <2>5, <2>6, <2>7 DEF Act
<1>4. CASE ~overlap' /\ \E w \in Workers : Begin(w) \/ Act(w)
  BY <1>2, <1>3, <1>4, OthersIdle
<1>5. CASE overlap'
  BY <1>5 DEF Agreed
<1> QED
  BY <1>1, <1>4, <1>5 DEF Next

(* What is set aside is no utility, and what runs in the first loop is one.  *)
NoUtility == {c \in Command : ~c.util}

Sorted ==
  \A w \in Workers :
    /\ rest[w] \in Seq(NoUtility)
    /\ pc[w] = "utils" /\ (chosen[w] # {} \/ child[w] # {}) => Head(todo[w]).util

LEMMA NextSorted ==
  ASSUME TypeOK, Engaged, Sorted, [Next]_vars
  PROVE  Sorted'
<1> USE DEF TypeOK, Engaged, Sorted, Queue
<1>1. ASSUME NEW w \in Workers, Begin(w) PROVE Sorted'
  <2>1. <<>> \in Seq(NoUtility)
    OBVIOUS
  <2> QED
    BY <1>1, <2>1 DEF Begin, Goto
<1>2. ASSUME NEW w \in Workers, Raise(w) PROVE Sorted'
  BY <1>2 DEF Raise, Goto
<1>3. ASSUME NEW w \in Workers, Get(w) PROVE Sorted'
  BY <1>3 DEF Get, Goto
<1>4. ASSUME NEW w \in Workers, Note(w) PROVE Sorted'
  BY <1>4 DEF Note, Goto
<1>5. ASSUME NEW w \in Workers, SetAside(w) PROVE Sorted'
  <2>1. Head(todo[w]) \in Command
    BY <1>5, QueueType DEF SetAside, Free
  <2>2. \A v \in Workers : rest'[v] \in Seq(NoUtility)
    BY <1>5, <2>1 DEF SetAside, NoUtility
  <2> QED
    BY <1>5, <2>2 DEF SetAside, Free
<1>6. ASSUME NEW w \in Workers, PreRun(w) PROVE Sorted'
  BY <1>6 DEF PreRun
<1>7. ASSUME NEW w \in Workers, Start(w) PROVE Sorted'
  BY <1>7 DEF Start
<1>8. ASSUME NEW w \in Workers, NEW q, SetQueue(w, q), pc' = pc,
             q \in Seq(Command), pc[w] # "utils" => q \in Seq(NoUtility),
             chosen' = [chosen EXCEPT ![w] = {}], child' = [child EXCEPT ![w] = {}]
      PROVE  Sorted'
  BY <1>8 DEF SetQueue
<1>9. ASSUME NEW w \in Workers, Succeed(w) PROVE Sorted'
  <2>1. chosen' = [chosen EXCEPT ![w] = {}]
    BY <1>9 DEF Succeed
  <2>2. pc[w] # "utils" => Tail(Queue(w)) \in Seq(NoUtility)
    BY <1>9 DEF Succeed
  <2>3. Tail(Queue(w)) \in Seq(Command)
    BY <1>9, QueueType DEF Succeed
  <2> QED
    BY <1>9, <2>1, <2>2, <2>3, <1>8 DEF Succeed
<1>10. ASSUME NEW w \in Workers, Fail(w) PROVE Sorted'
  <2>1. <<>> \in Seq(NoUtility) /\ <<>> \in Seq(Command)
    OBVIOUS
  <2> QED
    BY <1>10, <2>1, <1>8 DEF Fail
<1>11. ASSUME NEW w \in Workers, Drop(w) PROVE Sorted'
  BY <1>11 DEF Drop, Goto
<1>12. ASSUME NEW w \in Workers, Finish(w) PROVE Sorted'
  BY <1>12 DEF Finish, Goto
<1>13. CASE UNCHANGED vars
  BY <1>13 DEF vars
<1> QED
  BY <1>1, <1>2, <1>3, <1>4, <1>5, <1>6, <1>7, <1>9, <1>10, <1>11, <1>12, <1>13,
     StepCases

(* A command is started with what the place of its worker calls for.         *)
WellChosen(w) ==
  \A s \in chosen[w] : s <=> Head(Queue(w)).sudo /\ ~IsRoot /\ ~Noted(w)

WellStarted(w) ==
  \A c \in child[w] :
    /\ c.cmd.util <=> pc[w] = "utils"
    /\ c.sudo <=> c.cmd.sudo /\ ~IsRoot /\ ~Noted(w)
    /\ c.caps <=> HasRaised(w)

Suited == ~overlap => \A w \in Workers : WellChosen(w) /\ WellStarted(w)

(* Start makes a child of what PreRun chose.                                 *)
LEMMA StartSuits ==
  ASSUME TypeOK, Engaged, Sorted, NEW w \in Workers, InStep(w), WellChosen(w),
         Start(w)
  PROVE  WellChosen(w)' /\ WellStarted(w)'
<1> USE DEF TypeOK
<1>1. PICK s \in chosen[w] :
        child' = [child EXCEPT ![w] =
                   {[cmd |-> Head(Queue(w)), sudo |-> s, caps |-> ambient]}]
  BY DEF Start
<1>2. pc[w] \in {"utils", "rest"} /\ Queue(w) # <<>>
  BY <1>1 DEF Engaged
<1>3. Head(Queue(w)) \in Command
  BY <1>2, QueueType
<1>4. Head(Queue(w)).util <=> pc[w] = "utils"
  <2>1. CASE pc[w] = "utils"
    BY <1>1, <2>1 DEF Sorted, Queue
  <2>2. CASE pc[w] = "rest"
    <3>1. rest[w] \in Seq(NoUtility) /\ rest[w] # <<>>
      BY <1>2, <2>2 DEF Sorted, Queue
    <3>2. Head(rest[w]) \in NoUtility
      BY <3>1
    <3> QED
      BY <3>2, <2>2 DEF NoUtility, Queue
  <2> QED
    BY <1>2, <2>1, <2>2
<1>5. ambient <=> HasRaised(w)
  BY <1>2 DEF InStep, Busy
<1>6. s <=> Head(Queue(w)).sudo /\ ~IsRoot /\ ~Noted(w)
  BY <1>1 DEF WellChosen
<1>7. \A c \in child'[w] : /\ c.cmd = Head(Queue(w))
                           /\ c.sudo = s
                           /\ c.caps = ambient
  BY <1>1
<1>8. \A c \in child'[w] : /\ c.cmd.util <=> pc[w] = "utils"
                           /\ c.sudo <=> c.cmd.sudo /\ ~IsRoot /\ ~Noted(w)
                           /\ c.caps <=> HasRaised(w)
  BY ONLY <1>4, <1>5, <1>6, <1>7
<1>9. UNCHANGED <<pc, todo, rest>> /\ chosen'[w] = {}
  BY DEF Start
<1>10. WellStarted(w)'
  BY ONLY <1>8, <1>9 DEF WellStarted, Noted, HasRaised, Raised
<1> QED
  BY <1>9, <1>10 DEF WellChosen

LEMMA NextSuited ==
  ASSUME TypeOK, Engaged, Engaged', Sorted, Agreed, Suited, [Next]_vars
  PROVE  Suited'
<1>1. CASE UNCHANGED vars
  BY <1>1 DEF vars, Suited, WellChosen, WellStarted, Queue, HasRaised, Noted, Raised
<1>2. ASSUME NEW w \in Workers, Begin(w) \/ Act(w), ~overlap',
             WellChosen(w)' /\ WellStarted(w)'
      PROVE  Suited'
  <2>1. \A v \in Workers \ {w} : pc'[v] = "idle"
    BY <1>2, OthersIdle DEF Busy
  <2>2. \A v \in Workers \ {w} : chosen'[v] = {} /\ child'[v] = {}
    BY <2>1 DEF Engaged
  <2>3. \A v \in Workers \ {w} : WellChosen(v)' /\ WellStarted(v)'
    BY ONLY <2>2 DEF WellChosen, WellStarted
  <2> QED
    BY <1>2, <2>3 DEF Suited
<1>3. ASSUME NEW w \in Workers, chosen'[w] = {}, child'[w] = {}
      PROVE  WellChosen(w)' /\ WellStarted(w)'
  BY <1>3 DEF WellChosen, WellStarted
<1>4. ASSUME NEW w \in Workers, Begin(w) \/ Act(w), InStep(w), WellChosen(w),
             WellStarted(w)
      PROVE  WellChosen(w)' /\ WellStarted(w)'
  <2> USE DEF TypeOK
  <2>1. CASE Begin(w) \/ Raise(w) \/ Get(w) \/ Note(w) \/ Drop(w) \/ Finish(w)
    <3>1. UNCHANGED <<chosen, child>>
      BY <2>1 DEF Begin, Raise, Get, Note, Drop, Finish
    <3>2. chosen[w] = {} /\ child[w] = {}
      BY <2>1 DEF Begin, Raise, Get, Note, Drop, Finish, Goto, Engaged
    <3> QED
      BY <3>1, <3>2, <1>3
  <2>2. CASE SetAside(w)
    BY <2>2, <1>3 DEF SetAside, Free
  <2>3. CASE PreRun(w)
    <3>1. noted <=> Noted(w)
      BY <1>4, <2>3 DEF PreRun, Free, InStep, Busy
    <3>2. chosen'[w] = {Head(Queue(w)).sudo /\ ~IsRoot /\ ~noted}
      BY <2>3 DEF PreRun
    <3>3. UNCHANGED <<pc, todo, rest, child>> /\ child[w] = {}
      BY <2>3 DEF PreRun, Free
    <3>4. \A s \in chosen'[w] : s <=> Head(Queue(w)).sudo /\ ~IsRoot /\ ~Noted(w)
      BY ONLY <3>1, <3>2
    <3>5. WellChosen(w)'
      BY ONLY <3>3, <3>4 DEF WellChosen, Queue, Noted
    <3> QED
      BY <3>3, <3>5 DEF WellStarted
  <2>4. CASE Start(w)
    BY <1>4, <2>4, StartSuits
  <2>5. CASE Succeed(w) \/ Fail(w)
    <3>1. chosen'[w] = {} /\ child'[w] = {}
      BY <2>5 DEF Succeed, Fail, Engaged
    <3> QED
      BY <3>1, <1>3
  <2> QED
    BY <1>4, <2>1, <2>2, <2>3, <2>4, <2>5 DEF Act
<1>5. CASE ~overlap' /\ \E w \in Workers : Begin(w) \/ Act(w)
  BY <1>2, <1>4, <1>5, OthersIdle DEF Suited
<1>6. CASE overlap'
  BY <1>6 DEF Suited
<1> QED
  BY <1>1, <1>5, <1>6 DEF Next

(* Nothing one job leaves behind confuses the next: as long as no two jobs   *)
(* have run at the same time, each command has the capabilities or the sudo  *)
(* it was meant for, whichever workers ran them and whatever failed.         *)
THEOREM JobsInTurn == Spec => []SuitedUnlessOverlapped
<1>1. Init => Agreed
  BY DEF Init, Agreed, Busy
<1>2. Init => Sorted
  <2>1. <<>> \in Seq(NoUtility)
    OBVIOUS
  <2> QED
    BY <2>1 DEF Init, Sorted
<1>3. Init => Suited
  BY DEF Init, Suited, WellChosen, WellStarted
<1>4. TypeOK /\ Engaged /\ Engaged' /\ Sorted /\ Agreed /\ Suited /\ [Next]_vars
        => Sorted' /\ Agreed' /\ Suited'
  BY NextAgreed, NextSorted, NextSuited
<1>5. TypeOK /\ Engaged /\ Suited => SuitedUnlessOverlapped
  <2> SUFFICES ASSUME TypeOK, Engaged, ~overlap, NEW w \in Workers, WellStarted(w),
                      NEW c \in child[w]
               PROVE  /\ c.cmd.util /\ c.cmd.sudo => c.caps \/ c.sudo \/ IsRoot
                      /\ ~c.cmd.util /\ c.cmd.sudo => c.sudo \/ IsRoot
                      /\ ~c.cmd.util => ~c.caps
    BY DEF Suited, SuitedUnlessOverlapped, UtilityPrivileged, ForeignSliceAsRoot,
           OthersWithoutCaps
  <2>1. pc[w] \in {"utils", "rest"}
    BY DEF Engaged
  <2>2. c.cmd.util <=> pc[w] = "utils"
    BY DEF WellStarted
  <2>3. c.sudo <=> c.cmd.sudo /\ ~IsRoot /\ ~Noted(w)
    BY DEF WellStarted
  <2>4. c.caps <=> HasRaised(w)
    BY DEF WellStarted
  <2> QED
    BY ONLY <2>1, <2>2, <2>3, <2>4 DEF Noted, HasRaised, Raised
<1> QED
  BY <1>1, <1>2, <1>3, <1>4, <1>5, Typed, PTL DEF Spec
=============================================================================

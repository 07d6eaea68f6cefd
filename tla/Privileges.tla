----------------------------- MODULE Privileges -----------------------------
(* How the workers of "nicy set" and "nicy control" raise and drop the       *)
(* capabilities their commands inherit.  ProcGroupJob.Run raises the ambient *)
(* set, runs the system utilities (renice, chrt, ionice, choom), drops the   *)
(* ambient set and runs the rest (systemctl, busctl).  The ambient set       *)
(* belongs to the whole process, and so does viper's key "ambient", which    *)
(* preRun reads to know whether "$SUDO" can be left out.                     *)
EXTENDS Sequences

CONSTANTS
  Workers,    \* the goroutines that run group jobs
  Jobs,       \* the lists of commands PrepareAdjust may produce
  HasCaps,    \* the binary holds the capabilities, so that raising works
  IsRoot      \* os.Getuid() == 0

(* util: RequireSysCapability; sudo: the command starts with "$SUDO"; skip:  *)
(* the test for the shell that sets SUDO, never run here.                    *)
Command == [util : BOOLEAN, sudo : BOOLEAN, skip : BOOLEAN]

ASSUME JobsAssumption == Jobs \subseteq Seq(Command)
ASSUME FlagsAssumption == HasCaps \in BOOLEAN /\ IsRoot \in BOOLEAN

VARIABLES
  ambient,    \* the ambient set of the process is raised
  noted,      \* viper's key "ambient"
  pc,         \* where each worker is in Run
  read,       \* what its getAmbient returned
  todo,       \* the commands its first loop has not reached
  rest,       \* those set aside for the second loop ("unprivileged")
  chosen,     \* what preRun made of the command about to start: uses sudo?
  child,      \* the command it waits for: with sudo? with capabilities?
  overlap     \* two jobs ran at the same time (history, not in the code)

vars == <<ambient, noted, pc, read, todo, rest, chosen, child, overlap>>

Child == [cmd : Command, sudo : BOOLEAN, caps : BOOLEAN]

Init ==
  /\ ambient = FALSE /\ noted = FALSE
  /\ pc = [w \in Workers |-> "idle"]
  /\ read = [w \in Workers |-> FALSE]
  /\ todo = [w \in Workers |-> <<>>] /\ rest = [w \in Workers |-> <<>>]
  /\ chosen = [w \in Workers |-> {}]
  /\ child = [w \in Workers |-> {}]
  /\ overlap = FALSE

Goto(w, from, to) == pc[w] = from /\ pc' = [pc EXCEPT ![w] = to]

(* Run is given the commands of its job.                                     *)
Begin(w) ==
  /\ Goto(w, "idle", "raise")
  /\ \E job \in Jobs : todo' = [todo EXCEPT ![w] = job]
  /\ rest' = [rest EXCEPT ![w] = <<>>]
  /\ overlap' = (overlap \/ \E v \in Workers \ {w} : pc[v] # "idle")
  /\ UNCHANGED <<ambient, noted, read, chosen, child>>

(* updatePrivileges: setAmbient, then getAmbient, then viper.Set.            *)
Raise(w) ==
  /\ Goto(w, "raise", "getRaised")
  /\ ambient' = (ambient \/ HasCaps)
  /\ UNCHANGED <<noted, read, todo, rest, chosen, child, overlap>>

Drop(w) ==
  /\ todo[w] = <<>> /\ chosen[w] = {} /\ child[w] = {}
  /\ Goto(w, "utils", "getDropped")
  /\ ambient' = FALSE
  /\ UNCHANGED <<noted, read, todo, rest, chosen, child, overlap>>

Get(w) ==
  /\ Goto(w, "getRaised", "setRaised") \/ Goto(w, "getDropped", "setDropped")
  /\ read' = [read EXCEPT ![w] = ambient]
  /\ UNCHANGED <<ambient, noted, todo, rest, chosen, child, overlap>>

(* Slip: once set, the key stays.                                            *)
NoteForGood(w) ==
  /\ Goto(w, "setRaised", "utils") \/ Goto(w, "setDropped", "rest")
  /\ noted' = (noted \/ read[w])
  /\ UNCHANGED <<ambient, read, todo, rest, chosen, child, overlap>>

Note(w) ==
  /\ Goto(w, "setRaised", "utils") \/ Goto(w, "setDropped", "rest")
  /\ noted' = read[w]
  /\ UNCHANGED <<ambient, read, todo, rest, chosen, child, overlap>>

(* The first loop runs the utilities and sets the other commands aside, the  *)
(* second runs those.                                                        *)
Queue(w) == IF pc[w] = "utils" THEN todo[w] ELSE rest[w]

Free(w) ==
  /\ pc[w] \in {"utils", "rest"} /\ Queue(w) # <<>>
  /\ chosen[w] = {} /\ child[w] = {}

SetAside(w) ==
  /\ Free(w) /\ pc[w] = "utils"
  /\ LET c == Head(todo[w])
     IN  /\ c.skip \/ ~c.util
         /\ rest' = IF c.skip THEN rest ELSE [rest EXCEPT ![w] = Append(@, c)]
  /\ todo' = [todo EXCEPT ![w] = Tail(@)]
  /\ UNCHANGED <<ambient, noted, pc, read, chosen, child, overlap>>

(* StartWait: preRun, then cmd.Start, then cmd.Wait.                         *)
(* preRun keeps "$SUDO" as sudo unless the key says it is not required.      *)
PreRun(w) ==
  /\ Free(w)
  /\ LET c == Head(Queue(w))
     IN  /\ pc[w] = "utils" => c.util /\ ~c.skip
         /\ chosen' = [chosen EXCEPT ![w] = {c.sudo /\ ~IsRoot /\ ~noted}]
  /\ UNCHANGED <<ambient, noted, pc, read, todo, rest, child, overlap>>

(* The child process inherits the ambient set of the moment it is created.   *)
Start(w) ==
  /\ \E sudo \in chosen[w] :
       child' = [child EXCEPT ![w] =
                   {[cmd |-> Head(Queue(w)), sudo |-> sudo, caps |-> ambient]}]
  /\ chosen' = [chosen EXCEPT ![w] = {}]
  /\ UNCHANGED <<ambient, noted, pc, read, todo, rest, overlap>>

SetQueue(w, q) ==
  IF pc[w] = "utils"
    THEN todo' = [todo EXCEPT ![w] = q] /\ UNCHANGED rest
    ELSE rest' = [rest EXCEPT ![w] = q] /\ UNCHANGED todo

Succeed(w) ==
  /\ child[w] # {}
  /\ child' = [child EXCEPT ![w] = {}]
  /\ SetQueue(w, Tail(Queue(w)))
  /\ UNCHANGED <<ambient, noted, pc, read, chosen, overlap>>

(* Slip: Run returns the error at once.                                      *)
FailReturns(w) ==
  /\ child[w] # {} \/ chosen[w] # {}
  /\ child' = [child EXCEPT ![w] = {}]
  /\ chosen' = [chosen EXCEPT ![w] = {}]
  /\ pc' = [pc EXCEPT ![w] = "idle"]
  /\ UNCHANGED <<ambient, noted, read, todo, rest, overlap>>

(* The command exits with an error, or could not be found or started: the    *)
(* loop ends.  What the first loop has not reached is then not set aside     *)
(* either.                                                                   *)
Fail(w) ==
  /\ child[w] # {} \/ chosen[w] # {}
  /\ child' = [child EXCEPT ![w] = {}]
  /\ chosen' = [chosen EXCEPT ![w] = {}]
  /\ SetQueue(w, <<>>)
  /\ UNCHANGED <<ambient, noted, pc, read, overlap>>

(* Slip: a worker runs one job only.                                         *)
FinishForGood(w) ==
  /\ rest[w] = <<>> /\ chosen[w] = {} /\ child[w] = {}
  /\ Goto(w, "rest", "done")
  /\ UNCHANGED <<ambient, noted, read, todo, rest, chosen, child, overlap>>

(* Run returns nil, whatever happened.                                       *)
Finish(w) ==
  /\ rest[w] = <<>> /\ chosen[w] = {} /\ child[w] = {}
  /\ Goto(w, "rest", "idle")
  /\ UNCHANGED <<ambient, noted, read, todo, rest, chosen, child, overlap>>

Act(w) ==
  \/ Raise(w) \/ Get(w) \/ Note(w) \/ SetAside(w) \/ PreRun(w) \/ Start(w)
  \/ Succeed(w) \/ Fail(w) \/ Drop(w) \/ Finish(w)

Next == \E w \in Workers : Begin(w) \/ Act(w)

(* A job once taken is run to its end: the scheduler runs every goroutine    *)
(* and the commands return.  Nothing says that another job comes.            *)
Spec == Init /\ [][Next]_vars /\ \A w \in Workers : WF_vars(Act(w))

-----------------------------------------------------------------------------
TypeOK ==
  /\ ambient \in BOOLEAN /\ noted \in BOOLEAN /\ overlap \in BOOLEAN
  /\ pc \in [Workers -> {"idle", "raise", "getRaised", "setRaised", "utils",
                         "getDropped", "setDropped", "rest"}]
  /\ read \in [Workers -> BOOLEAN]
  /\ todo \in [Workers -> Seq(Command)] /\ rest \in [Workers -> Seq(Command)]
  /\ chosen \in [Workers -> SUBSET BOOLEAN]
  /\ child \in [Workers -> SUBSET Child]

(* A utility that needs privileges has them: it inherits the capabilities,   *)
(* or goes through sudo when they are not available.                         *)
UtilityPrivileged ==
  \A w \in Workers : \A c \in child[w] :
    c.cmd.util /\ c.cmd.sudo => c.caps \/ c.sudo \/ IsRoot

(* A command outside the user's own slice is run as root or as the owner of  *)
(* that slice: its "$SUDO" becomes sudo, for capabilities are no substitute. *)
ForeignSliceAsRoot ==
  \A w \in Workers : \A c \in child[w] :
    ~c.cmd.util /\ c.cmd.sudo => c.sudo \/ IsRoot

(* The commands run after the ambient set was reset inherit no capability.   *)
OthersWithoutCaps ==
  \A w \in Workers : \A c \in child[w] : ~c.cmd.util => ~c.caps

(* As long as no two jobs have run at the same time, whichever workers ran   *)
(* them and whatever failed, every command is started with the privileges it *)
(* was meant for: nothing one job leaves behind confuses the next.           *)
SuitedUnlessOverlapped ==
  ~overlap => UtilityPrivileged /\ ForeignSliceAsRoot /\ OthersWithoutCaps

(* The ambient set is raised only on behalf of a worker that has yet to drop *)
(* it: no order of raises and drops leaves the process with capabilities for *)
(* whatever it starts next.                                                  *)
Raised(w) == pc[w] \in {"getRaised", "setRaised", "utils"}

RaisedForSomeone == ambient => \E w \in Workers : Raised(w)

(* Raised capabilities are dropped in the end, whatever fails in between.    *)
DroppedInTheEnd == ambient ~> ~ambient
=============================================================================

----------------------------- MODULE InstallCmd -----------------------------
(* "nicy install", run again and again: the directory of scripts becomes the *)
(* backup and a new one is filled by goroutines,                             *)
(*                                                                           *)
(*   the rules --> inputs --> GenerateJobs --> jobs --> the writer           *)
(*                                                                           *)
(* where inputs and jobs are buffered channels.  An install may be killed,   *)
(* or end itself through fatal, between any two steps; only the directories  *)
(* outlive it.                                                               *)
EXTENDS Naturals, Sequences, FiniteSets

CONSTANTS
  Names,        \* commands in PATH that have, or once had, a rule
  RuleSets,     \* the sets of rules an install may find in the presets
  Ignored,      \* names whose path matches "scripts.ignore"
  Linked,       \* names that match "scripts.link"
  Broken,       \* names whose rule names a cgroup or profile nobody defines
  InPath,       \* the directory is DESTDIR, somewhere at the start of PATH,
                \* and not the "scripts.location" that LookPath skips
  Cap,          \* capacity of the channels (8 in the code)
  MaxInstalls   \* bound on the number of installs

ASSUME InstallAssumption ==
  /\ RuleSets \subseteq SUBSET Names
  /\ Ignored \subseteq Names /\ Linked \subseteq Names /\ Broken \subseteq Names
  /\ InPath \in BOOLEAN /\ Cap \in Nat \ {0} /\ MaxInstalls \in Nat

VARIABLES
  location,     \* the directory of scripts, if it exists
  backup,       \* the one before it, if it exists
  movable,      \* the directory around them may be written to
  phase,        \* "idle", a step of doInstallCmd, or "work": wg.Wait
  flow,         \* what the goroutines and channels hold
  rules,        \* the rules this install found
  moved,        \* no old directory is in its way
  outcome,      \* of the last install: "none", "ok", "failed" or "dead"
  installs,     \* installs started so far
  attempts,     \* installs started since one was complete (history)
  good          \* what the last complete one left (history)

dirs == <<location, backup, movable>>
run == <<rules, moved, outcome, installs, attempts, good>>
vars == <<dirs, phase, flow, run>>

(* A script is absent, cut short, or runs the program - or the link to       *)
(* itself.  A directory that does not exist is {}.                           *)
Directory ==
  [script : [Names -> {"absent", "cut", "program", "self"}],
   link : SUBSET Names]
Empty == [script |-> [n \in Names |-> "absent"], link |-> {}]
Only(set) == CHOOSE x \in set : TRUE

Job == [name : Names, runs : {"program", "self"}]
Wanted == rules \ Ignored
HasLink(n) == n \in Linked

(* todo: the rules to look at; resolving, preparing: what the goroutines of  *)
(* GenerateJobs have in hand; writer: what the writer has, and its next step.*)
Flow(todo) ==
  [todo |-> todo, inputs |-> <<>>, resolving |-> {}, preparing |-> {},
   jobs |-> <<>>, closed |-> {}, writer |-> {}]

Init ==
  /\ location = {} /\ backup = {} /\ movable \in BOOLEAN
  /\ phase = "idle" /\ flow = Flow({}) /\ rules = {} /\ moved = TRUE
  /\ outcome = "none" /\ installs = 0 /\ attempts = 0 /\ good = {}

-----------------------------------------------------------------------------
(* doInstallCmd, up to its goroutines.                                       *)
Start ==
  /\ phase = "idle" /\ installs < MaxInstalls
  /\ rules' \in RuleSets
  /\ phase' = IF location # {} THEN "remove" ELSE "make"
  /\ moved' = TRUE /\ outcome' = "none" /\ flow' = Flow({})
  /\ installs' = installs + 1 /\ attempts' = attempts + 1
  /\ UNCHANGED <<dirs, good>>

(* RemoveAll may leave some of the backup behind.                            *)
Remains(d, keep) ==
  [script |-> [n \in Names |-> IF n \in keep THEN d.script[n] ELSE "absent"],
   link |-> d.link \cap keep]

Remove ==
  /\ phase = "remove" /\ phase' = "rename"
  /\ \/ backup' = {}
     \/ \E d \in backup, keep \in SUBSET Names : backup' = {Remains(d, keep)}
  /\ UNCHANGED <<location, movable, flow, run>>

(* os.Rename replaces no directory.  If it fails, there is a warning.        *)
Rename ==
  /\ phase = "rename" /\ phase' = "make"
  /\ IF movable /\ backup = {}
       THEN backup' = location /\ location' = {} /\ UNCHANGED moved
       ELSE moved' = FALSE /\ UNCHANGED <<location, backup>>
  /\ UNCHANGED <<movable, flow, rules, outcome, installs, attempts, good>>

MkdirAll == location' = IF location = {} THEN {Empty} ELSE location

(* Slip: the backup is removed as soon as there is a new directory.          *)
MakeAndClean ==
  /\ phase = "make" /\ phase' = "work"
  /\ MkdirAll /\ backup' = {}
  /\ flow' = Flow(rules)
  /\ UNCHANGED <<movable, run>>

Make ==
  /\ phase = "make" /\ phase' = "work"
  /\ MkdirAll
  /\ flow' = Flow(rules)
  /\ UNCHANGED <<backup, movable, run>>

End(result) ==
  /\ phase' = "idle" /\ outcome' = result
  /\ UNCHANGED <<rules, moved, installs, attempts, good>>

(* With --run, and no sh in PATH: the error comes after the directory moved. *)
NoShell ==
  /\ phase = "make" /\ End("failed")
  /\ MkdirAll
  /\ UNCHANGED <<backup, movable, flow>>

-----------------------------------------------------------------------------
(* A step of a goroutine that changes nothing but what the goroutines hold.  *)
Working == phase = "work" /\ UNCHANGED <<dirs, phase, run>>

(* LookPath takes the first executable in PATH that is not a ".nicy" file:   *)
(* a link left over in DESTDIR hides the program.                            *)
LookPath(n) ==
  IF InPath /\ \E d \in location : n \in d.link /\ d.script[n] # "absent"
    THEN "self" ELSE "program"

(* Slip: a channel without bounds.                                           *)
GetAlways ==
  /\ Working
  /\ \E n \in flow.todo :
       flow' = [flow EXCEPT !.todo = @ \ {n},
                            !.inputs = Append(@, [name |-> n,
                                                  runs |-> LookPath(n)])]

(* The goroutine that goes through the rules.  IterCache yields each once,   *)
(* in map order.                                                             *)
Get ==
  /\ Working
  /\ \E n \in flow.todo :
       \/ n \in Ignored /\ flow' = [flow EXCEPT !.todo = @ \ {n}]
       \/ /\ n \notin Ignored /\ Len(flow.inputs) < Cap
          /\ flow' = [flow EXCEPT !.todo = @ \ {n},
                                  !.inputs = Append(@, [name |-> n,
                                                        runs |-> LookPath(n)])]

(* Slip: the channel is closed only if there is something in it.             *)
GetDoneUnlessEmpty ==
  /\ Working /\ flow.todo = {} /\ "inputs" \notin flow.closed
  /\ flow.inputs # <<>>
  /\ flow' = [flow EXCEPT !.closed = @ \cup {"inputs"}]

GetDone ==
  /\ Working /\ flow.todo = {} /\ "inputs" \notin flow.closed
  /\ flow' = [flow EXCEPT !.closed = @ \cup {"inputs"}]

(* GenerateJobs: two goroutines with an unbuffered channel between them.  A  *)
(* rule that cannot be expanded is fatal.                                    *)
RequestJob ==
  /\ phase = "work" /\ flow.resolving = {} /\ flow.inputs # <<>>
  /\ flow' = [flow EXCEPT !.inputs = Tail(@),
                          !.resolving = {Head(flow.inputs)}]
  /\ IF Head(flow.inputs).name \in Broken THEN End("dead")
     ELSE UNCHANGED <<phase, run>>
  /\ UNCHANGED dirs

PrepareCommands ==
  /\ Working /\ flow.resolving # {} /\ flow.preparing = {}
  /\ flow' = [flow EXCEPT !.preparing = flow.resolving, !.resolving = {}]

SendJob ==
  /\ Working /\ flow.preparing # {} /\ Len(flow.jobs) < Cap
  /\ flow' = [flow EXCEPT !.preparing = {},
                          !.jobs = Append(@, Only(flow.preparing))]

(* Slip: the channel is closed without waiting for the two goroutines.       *)
GenerateDoneEarly ==
  /\ Working /\ "inputs" \in flow.closed /\ flow.inputs = <<>>
  /\ "jobs" \notin flow.closed
  /\ flow' = [flow EXCEPT !.closed = @ \cup {"jobs"}]

GenerateDone ==
  /\ Working /\ "inputs" \in flow.closed /\ flow.inputs = <<>>
  /\ flow.resolving = {} /\ flow.preparing = {} /\ "jobs" \notin flow.closed
  /\ flow' = [flow EXCEPT !.closed = @ \cup {"jobs"}]

-----------------------------------------------------------------------------
(* The writer: WriteFile truncates or creates a script, then fills it;       *)
(* Symlink replaces nothing.  Their errors are fatal.                        *)
Take ==
  /\ Working /\ flow.writer = {} /\ flow.jobs # <<>>
  /\ flow' = [flow EXCEPT !.jobs = Tail(@),
                          !.writer = {[job |-> Head(flow.jobs),
                                       step |-> "open"]}]

At(step) == phase = "work" /\ \E w \in flow.writer : w.step = step
Current == Only(flow.writer).job

Then(step) ==
  flow' = [flow EXCEPT !.writer =
             IF step = "end" THEN {} ELSE {[job |-> Current, step |-> step]}]

Fill(content) ==
  location' = {[Only(location) EXCEPT !.script[Current.name] = content]}

Truncate ==
  /\ At("open") /\ Fill("cut") /\ Then("fill")
  /\ UNCHANGED <<backup, movable, phase, run>>

Write ==
  /\ At("fill") /\ Fill(Current.runs)
  /\ Then(IF HasLink(Current.name) THEN "link" ELSE "end")
  /\ UNCHANGED <<backup, movable, phase, run>>

WriteFails ==
  /\ At("open") \/ At("fill")
  /\ End("dead")
  /\ UNCHANGED <<dirs, flow>>

Symlink ==
  /\ At("link") /\ Then("end")
  /\ IF Current.name \in Only(location).link
       THEN End("dead") /\ UNCHANGED location
       ELSE /\ location' =
                 {[Only(location) EXCEPT !.link = @ \cup {Current.name}]}
            /\ UNCHANGED <<phase, run>>
  /\ UNCHANGED <<backup, movable>>

Return ==
  /\ phase = "work" /\ "jobs" \in flow.closed
  /\ flow.jobs = <<>> /\ flow.writer = {}
  /\ phase' = "idle" /\ outcome' = "ok" /\ attempts' = 0 /\ good' = location
  /\ UNCHANGED <<dirs, flow, rules, moved, installs>>

Die == phase # "idle" /\ End("dead") /\ UNCHANGED <<dirs, flow>>

Proceed ==
  \/ Remove \/ Rename \/ Make \/ NoShell \/ Get \/ GetDone \/ RequestJob
  \/ PrepareCommands \/ SendJob \/ GenerateDone \/ Take \/ Truncate \/ Write
  \/ WriteFails \/ Symlink \/ Return

Next ==
  \/ Start \/ Proceed \/ Die
  \/ phase = "idle" /\ installs = MaxInstalls /\ UNCHANGED vars

Spec == Init /\ [][Next]_vars /\ WF_vars(Proceed)

-----------------------------------------------------------------------------
Flows ==
  [todo : SUBSET Names, inputs : Seq(Job), resolving : SUBSET Job,
   preparing : SUBSET Job, jobs : Seq(Job), closed : SUBSET {"inputs", "jobs"},
   writer : SUBSET [job : Job, step : {"open", "fill", "link"}]]

TypeOK ==
  /\ \A dir \in {location, backup, good} :
       dir = {} \/ \E d \in Directory : dir = {d}
  /\ movable \in BOOLEAN /\ moved \in BOOLEAN
  /\ phase \in {"idle", "remove", "rename", "make", "work"}
  /\ rules \subseteq Names /\ flow \in Flows
  /\ Len(flow.inputs) <= Cap /\ Len(flow.jobs) <= Cap
  /\ outcome \in {"none", "ok", "failed", "dead"}
  /\ installs \in 0..MaxInstalls /\ attempts \in 0..installs

(* An install that returns without an error has written a whole script for   *)
(* each rule of a command in PATH, every one runs the program itself and has *)
(* the link that was asked for; and unless the old directory could not be    *)
(* moved, there is nothing else.                                             *)
CompleteAtReturn ==
  outcome = "ok" =>
    \E d \in location :
      /\ \A n \in Wanted : d.script[n] = "program"
      /\ Wanted \cap Linked \subseteq d.link
      /\ moved => /\ \A n \in Names \ Wanted : d.script[n] = "absent"
                  /\ d.link = Wanted \cap Linked

(* What the last complete install left survives one install that does not    *)
(* complete, wherever it is cut short: it is still in place or it is the     *)
(* backup.  (A second one removes that backup; and an install that could not *)
(* move the directory writes over it.)                                       *)
LastGoodKept ==
  good # {} /\ attempts <= 1 /\ moved => good \in {location, backup}

(* Each install ends: the channels and goroutines never wait for each other, *)
(* whichever rules are skipped and however small the channels.               *)
Finishes == phase # "idle" ~> phase = "idle"
=============================================================================

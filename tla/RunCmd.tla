------------------------------- MODULE RunCmd -------------------------------
(* "nicy run", and the script of "nicy show" and "nicy install" that does    *)
(* the same.  RunJob has the rule resolved and commands prepared by the two  *)
(* goroutines of GenerateJobs; then ProcJob.Run adjusts nicy's own process   *)
(* and turns it into the program, or ProcJob.Script writes the commands      *)
(* down, for a shell that becomes the program.  The channels between are     *)
(* unbuffered, or carry one job, so that the goroutines take turns.          *)
EXTENDS Resolve

CONSTANT HasCaps   \* the binary holds the capabilities, so that raising works

Attributes == {"Nice", "Sched", "IOClass", "OomScoreAdj"}

ASSUME RunAssumption ==
  /\ ProfileFields \subseteq Attributes /\ ScopeFields \cap Attributes = {}
  /\ HasCaps \in BOOLEAN

VARIABLES
  phase,      \* where the goroutines are
  utils,      \* commands the first loop has to run
  rest,       \* commands the second loop has to run
  caps,       \* "own": the process has capabilities, but no child of its;
              \* "ambient": its children too; "none": nobody
  attrs,      \* what the utilities have set of the process
  unit,       \* the slice: not started, started, or given its properties too
  how,        \* who runs the commands: "nobody" yet, "nicy" or a "script"
  skipped,    \* a command failed and the next one was run all the same
  status      \* "running", "program", or how nicy ended without it

commands == <<utils, rest>>
process == <<caps, attrs, unit>>
vars == <<resolveVars, phase, commands, process, how, skipped, status>>

Init ==
  /\ ResolveInit
  /\ phase = "split" /\ utils = <<>> /\ rest = <<>>
  /\ caps = IF HasCaps THEN "own" ELSE "none"
  /\ attrs = {} /\ unit = "stopped" /\ status = "running"
  /\ how = "nobody" /\ skipped = FALSE

Goto(from, to) == status = "running" /\ phase = from /\ phase' = to

-----------------------------------------------------------------------------
(* The rule of the job; the one of an empty result sets nothing.             *)
JobRule == (CHOOSE o \in result : TRUE).rule

Only(condition, list) == IF condition THEN list ELSE <<>>

Sets == [renice |-> {"Nice"}, chrt |-> {"Sched"}, ionice |-> {"IOClass"},
         choom |-> {"OomScoreAdj"}]

(* PrepareCommands: renice whatever the rule says, another utility for what  *)
(* the rule sets,                                                            *)
Utilities(r) ==
  <<"renice">>
    \o Only("Sched" \in SetFields(r.fields), <<"chrt">>)
    \o Only("IOClass" \in SetFields(r.fields), <<"ionice">>)
    \o Only("OomScoreAdj" \in SetFields(r.fields), <<"choom">>)

(* and AddExecCmd: the slice of the cgroup, which always comes with a scope  *)
(* for the program, and "exec" last.                                         *)
ExecCommands(r) ==
  Only(r.cgroup # None, <<"slice">>)
    \o Only(SliceProperties(r) # {}, <<"props">>) \o <<"exec">>

(* Split: LookPath does not find the program.  doRunCmd and doShowCmd assign *)
(* the error to a variable of their if statement and return nil.             *)
NotFound ==
  /\ Goto("split", "ended")
  /\ status' = "exit0"
  /\ UNCHANGED <<resolveVars, commands, process, how, skipped>>

Ask ==
  /\ Goto("split", "request")
  /\ UNCHANGED <<resolveVars, commands, process, how, skipped, status>>

(* RequestJob: fatal ends the process.                                       *)
RequestJob ==
  /\ status = "running" /\ phase = "request"
  /\ Resolve
  /\ IF \E o \in result' : o.kind = "fatal"
       THEN phase' = "ended" /\ status' = "exit1"
       ELSE phase' = "prepare" /\ UNCHANGED status
  /\ UNCHANGED <<commands, process, how, skipped>>

PrepareCommands ==
  /\ Goto("prepare", "ready")
  /\ utils' = Utilities(JobRule)
  /\ rest' = ExecCommands(JobRule)
  /\ UNCHANGED <<resolveVars, process, how, skipped, status>>

-----------------------------------------------------------------------------
(* ProcJob.Run: the commands are run in nicy's process.                      *)
Raise ==
  /\ Goto("ready", "utils")
  /\ how' = "nicy"
  /\ caps' = IF HasCaps THEN "ambient" ELSE caps
  /\ UNCHANGED <<resolveVars, commands, attrs, unit, skipped, status>>

(* With --dry-run they are looked up and printed, and the program is not run.*)
DryRun ==
  /\ Goto("ready", "ended")
  /\ how' = "nicy" /\ caps' = "none" /\ status' = "exit0"
  /\ UNCHANGED <<resolveVars, commands, attrs, unit, skipped>>

(* ProcJob.Script: they are printed or installed, and run by a shell without *)
(* capabilities.  With --run the script tries "nicy run" first.              *)
Script ==
  /\ Goto("ready", "utils")
  /\ how' = "script"
  /\ caps' = "none"
  /\ UNCHANGED <<resolveVars, commands, attrs, unit, skipped, status>>

Utility ==
  /\ utils # <<>> /\ Goto("utils", "utils")
  /\ attrs' = attrs \cup Sets[Head(utils)]
  /\ utils' = Tail(utils)
  /\ UNCHANGED <<resolveVars, rest, caps, unit, how, skipped, status>>

(* Slip: children go on inheriting the capabilities.                         *)
ClearNothing ==
  /\ utils = <<>> /\ Goto("utils", "rest")
  /\ UNCHANGED <<resolveVars, commands, process, how, skipped, status>>

(* nicy clears its capabilities, the ambient set first: if the others cannot *)
(* be cleared it goes on with them.  The shell, which has none, just goes on.*)
Clear ==
  /\ utils = <<>> /\ Goto("utils", "rest")
  /\ \/ caps' = "none"
     \/ caps = "ambient" /\ caps' = "own"
  /\ UNCHANGED <<resolveVars, commands, attrs, unit, how, skipped, status>>

Systemctl ==
  /\ rest # <<>> /\ Head(rest) # "exec" /\ Goto("rest", "rest")
  /\ unit' = IF Head(rest) = "slice" THEN "started" ELSE "set"
  /\ rest' = Tail(rest)
  /\ UNCHANGED <<resolveVars, utils, caps, attrs, how, skipped, status>>

(* exec: the program, or systemd-run which makes the scope and becomes it.   *)
Exec ==
  /\ rest # <<>> /\ Head(rest) = "exec" /\ Goto("rest", "ended")
  /\ status' = "program" /\ caps' = "none"
  /\ UNCHANGED <<resolveVars, commands, attrs, unit, how, skipped>>

(* A command that fails is passed over,                                      *)
PassOver ==
  /\ status = "running"
  /\ \/ phase = "utils" /\ utils # <<>> /\ utils' = Tail(utils) /\ rest' = rest
     \/ phase = "rest" /\ Len(rest) > 1 /\ rest' = Tail(rest) /\ utils' = utils
  /\ UNCHANGED <<resolveVars, phase, process, how, status>>

(* by the shell, which has no "set -e" and ends at an exec that fails only.  *)
ShellFails ==
  /\ how = "script"
  /\ \/ PassOver /\ skipped' = TRUE
     \/ /\ Len(rest) = 1 /\ Goto("rest", "ended") /\ status' = "exit1"
        /\ UNCHANGED <<resolveVars, commands, process, how, skipped>>

(* Slip: nicy passes it over too.                                            *)
FailsOn == how = "nicy" /\ PassOver /\ UNCHANGED skipped

(* A command fails: Run returns the error at once, and doRunCmd returns nil. *)
Fails ==
  /\ how = "nicy"
  /\ (utils # <<>> /\ Goto("utils", "ended")) \/ Goto("rest", "ended")
  /\ status' = "exit0"
  /\ UNCHANGED <<resolveVars, commands, process, how, skipped>>

Next ==
  \/ NotFound \/ Ask \/ RequestJob \/ PrepareCommands \/ Raise \/ DryRun
  \/ Script \/ Utility \/ Clear \/ Systemctl \/ Exec \/ ShellFails \/ Fails
  \/ status # "running" /\ UNCHANGED vars

Spec == Init /\ [][Next]_vars

-----------------------------------------------------------------------------
TypeOK ==
  /\ ResolveTypeOK
  /\ phase \in {"split", "request", "prepare", "ready", "utils", "rest",
                "ended"}
  /\ utils \in Seq(DOMAIN Sets) /\ rest \in Seq({"slice", "props", "exec"})
  /\ caps \in {"own", "ambient", "none"}
  /\ attrs \subseteq Attributes
  /\ unit \in {"stopped", "started", "set"}
  /\ how \in {"nobody", "nicy", "script"} /\ skipped \in BOOLEAN
  /\ status \in {"running", "program", "exit0", "exit1"}

(* The program runs as the rule says or not at all: nicy never starts it     *)
(* with an attribute that could not be set, nor in a slice without its       *)
(* limits.  The script, which "roughly executes" the same (CONFIGURATION.md: *)
(* 270), leaves the process in the very same state as long as no command     *)
(* fails; when one does, it starts the program all the same.                 *)
StartedAsResolved ==
  status = "program" /\ ~skipped =>
    /\ attrs = {"Nice"} \cup (SetFields(JobRule.fields) \cap ProfileFields)
    /\ unit = IF SliceProperties(JobRule) # {} THEN "set"
              ELSE IF JobRule.cgroup # None THEN "started"
              ELSE "stopped"

(* What limits the program: its scope ("-p"), or the slice around it.        *)
InForce(r, f) ==
  IF IsSet(r.fields, f) THEN r.fields[f]
  ELSE IF unit = "set" /\ f \in SliceProperties(r) THEN Cgroup(r.cgroup)[f]
  ELSE Unset

(* When the program starts, each scope property has the value of the preset  *)
(* that decides it: the cgroup it is put in, if that sets it; otherwise its  *)
(* own rule; otherwise the cgroup that the rule or its profile names, which  *)
(* --cgroup may have replaced as the one it is put in.  The cgroup does go   *)
(* before the rule here, though "eventually adjust scope properties in Rule" *)
(* (rule.go:22-23) may be read as the opposite.  What the rule loses to      *)
(* ResetMatching is on the slice before anything runs in it.                 *)
LimitsInForce ==
  status = "program" /\ ~skipped =>
    \A o \in Resolved : \A f \in ScopeFields :
      LET named == FromProfile(o.raw).cgroup
      IN  InForce(o.rule, f) =
            IF f \in SliceProperties(o.rule) THEN Cgroup(o.rule.cgroup)[f]
            ELSE IF IsSet(o.raw.fields, f) THEN o.raw.fields[f]
            ELSE IF named # None THEN Cgroup(named)[f]
            ELSE Unset

(* "Do not propagate capabilities" (lines.go:220): the utilities are the     *)
(* only children that inherit any; the commands for systemd and the program  *)
(* get none, whichever commands the rule called for before them.             *)
NothingInherited == phase = "rest" \/ status = "program" => caps # "ambient"
=============================================================================

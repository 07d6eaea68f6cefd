----------------------------- MODULE GroupAdjust ----------------------------
(* One process group under "nicy control": each pass scans it, compares its  *)
(* leader with the rule (DiffReview), prepares commands (PrepareAdjust) and  *)
(* runs them one by one (Run), while its processes fork and exit at will.    *)
(* Jobs from two scans may be with two workers at a time; the presets may be *)
(* loaded again, and somebody else may change a process, at any moment.      *)
(* Attributes are abstracted to "as the rule wants it" or not, and the place *)
(* of a process in the cgroup tree to the cases the code distinguishes.      *)
EXTENDS Integers, Sequences, FiniteSets

CONSTANTS
  Pids,       \* every pid the group may ever use; each is used once
  Rules,      \* the expanded rules to consider
  Starts,     \* the places to consider where somebody else starts a process
              \* or puts it
  SliceUnit,  \* where the slices of nicy are: "managed", or "elsewhere" for
              \* those of root
  Workers,    \* the workers that may have a job of the group in hand
  MaxChanges  \* bound on the number of reloads and of changes by others

Attrs == {"nice", "ioclass", "sched", "oom"}

(* A cgroup, as the patterns of job.go tell it: the unit is in the scope of  *)
(* a session; managed, that is in a slice of the user's manager or in the    *)
(* system's; or elsewhere, as /nicy.slice of root, init.scope of the user's  *)
(* manager and session-c1.scope are.  It is in no slice of nicy, in the one  *)
(* of the rule's cgroup ("own"), or in an "other" one.                       *)
Place(unit, nicy) == [unit |-> unit, nicy |-> nicy]
Session == Place("session", "no")
Places ==
  {Session}
    \cup [unit : {"managed", "elsewhere"}, nicy : {"no", "other", "own"}]

(* want: the attributes the rule sets; key: it has a cgroup; props: it has   *)
(* scope properties of its own.                                              *)
Rule == [want : SUBSET Attrs, key : BOOLEAN, props : BOOLEAN]

ASSUME GroupAssumption ==
  /\ Pids \subseteq Nat /\ Pids # {} /\ IsFiniteSet(Pids)
  /\ Rules \subseteq Rule /\ Starts \subseteq Places
  /\ SliceUnit \in {"managed", "elsewhere"}
  /\ Workers # {} /\ MaxChanges \in Nat

VARIABLES
  rule,       \* the rule of the group
  changes,    \* reloads and changes by others so far
  unused,     \* pids not used yet
  alive,      \* the processes of the group
  ok,         \* the attributes of each that are as the rule wants
  place,      \* where each is in the cgroup tree
  pass        \* the pass that each worker makes, or made last:
              \*   at: "scan", "prepare", "utils" or "rest"
              \*   seen: what its scan saw of the group
              \*   utils, rest: utilities and commands for systemd to run
              \*   rule: the rule it was prepared with, "new" or "old"
              \*   clean: no command of it failed, and since it began nobody
              \*     has run one of an older rule or changed a process
              \*     otherwise (history)

vars == <<rule, changes, unused, alive, ok, place, pass>>
members == <<unused, alive>>
state == <<ok, place>>
rules == <<rule, changes>>

Leader(pids) == CHOOSE p \in pids : \A q \in pids : p <= q

Observed ==
  [pids |-> alive, ok |-> ok[Leader(alive)], place |-> place[Leader(alive)]]

Idle ==
  [at |-> "scan", seen |-> [pids |-> {}, ok |-> {}, place |-> Session],
   utils |-> <<>>, rest |-> <<>>, rule |-> "new", clean |-> FALSE]

(* A pass that is not clean any more.  Until its review it needs all that    *)
(* its scan saw, which may be out of date; after it the pids; and nothing    *)
(* once it is over.                                                          *)
Unclean(p) ==
  CASE p.at = "scan" -> Idle
    [] p.at = "prepare" -> [p EXCEPT !.clean = FALSE]
    [] OTHER -> [p EXCEPT !.clean = FALSE, !.seen.ok = {},
                          !.seen.place = Session]

(* Any group: its members need not agree in anything.                        *)
Init ==
  /\ rule \in Rules /\ changes = 0
  /\ alive \in (SUBSET Pids) \ {{}} /\ unused = Pids \ alive
  /\ ok \in [alive -> SUBSET rule.want] /\ place \in [alive -> Starts]
  /\ pass = [w \in Workers |-> Idle]

-----------------------------------------------------------------------------
(* The processes of the group: a child inherits everything from its parent.  *)
(* The group is never left empty, for then there is nothing more to observe. *)
Fork ==
  /\ \E p \in alive, q \in unused :
       /\ alive' = alive \cup {q}
       /\ unused' = unused \ {q}
       /\ ok' = [r \in alive' |-> ok[IF r = q THEN p ELSE r]]
       /\ place' = [r \in alive' |-> place[IF r = q THEN p ELSE r]]
  /\ UNCHANGED <<rules, pass>>

Exit ==
  /\ \E p \in alive : alive # {p} /\ alive' = alive \ {p}
  /\ ok' = [p \in alive' |-> ok[p]] /\ place' = [p \in alive' |-> place[p]]
  /\ UNCHANGED <<rules, unused, pass>>

(* The presets are loaded again, and everything about the rule changes: no   *)
(* attribute is right any more, and its cgroup is another.  A job that has   *)
(* its commands keeps them; one that is not reviewed yet gets the new rule.  *)
OutOfPlace(c) == IF c.nicy = "own" THEN [c EXCEPT !.nicy = "other"] ELSE c

Change == changes < MaxChanges /\ changes' = changes + 1

Reload ==
  /\ Change
  /\ rule' \in Rules
  /\ ok' = [p \in alive |-> {}]
  /\ place' = [p \in alive |-> OutOfPlace(place[p])]
  /\ pass' = [w \in Workers |->
       CASE pass[w].at = "scan" -> Idle
         [] pass[w].at = "prepare" ->
              [pass[w] EXCEPT !.seen.ok = {}, !.seen.place = OutOfPlace(@)]
         [] OTHER -> [Unclean(pass[w]) EXCEPT !.rule = "old"]]
  /\ UNCHANGED members

(* Somebody else - the user, the process itself, a session manager - changes *)
(* a process.                                                                *)
Meddle ==
  /\ Change
  /\ \E p \in alive, a \in SUBSET rule.want, c \in Starts :
       ok' = [ok EXCEPT ![p] = a] /\ place' = [place EXCEPT ![p] = c]
  /\ pass' = [w \in Workers |-> Unclean(pass[w])]
  /\ UNCHANGED <<rule, members>>

-----------------------------------------------------------------------------
(* Slip: a group in another slice of nicy is left there.                     *)
DiffStays(s) ==
  [attrs |-> rule.want \ s.ok,
   key |-> rule.key /\ s.place = Session,
   props |-> rule.props]

(* DiffReview: the difference between the rule and the leader.  A cgroup and *)
(* scope properties always count; a cgroup stays in the difference only for  *)
(* a leader that is in a session scope or in a wrong slice of nicy.          *)
Diff(s) ==
  [attrs |-> rule.want \ s.ok,
   key |-> rule.key /\ (s.place = Session \/ s.place.nicy = "other"),
   props |-> rule.props]

IsDue(s) == rule.want \ s.ok # {} \/ rule.key \/ rule.props

Only(condition, commands) == IF condition THEN commands ELSE <<>>

(* adjustProperties.  The rules of the other members are never filled in, so *)
(* that chrt and choom are prepared for the leader only.                     *)
Utilities(d) ==
  <<"renice">> \o Only("ioclass" \in d.attrs, <<"ionice">>)
    \o Only("sched" \in d.attrs, <<"chrt">>)
    \o Only("oom" \in d.attrs, <<"choom">>)

(* moveProcGroup: a new scope, which enters the slice if there is a cgroup.  *)
Move(d) == IF d.key THEN <<"enter">> ELSE <<"move">>

(* Slip: the slice is started, and nothing is moved into it.                 *)
ForSystemdUnmoved(s, d) ==
  IF s.place.unit = "elsewhere" THEN <<>>
  ELSE Only(d.key, <<"slice">>)
         \o Only(~d.key /\ d.props /\ s.place = Session, Move(d))
         \o Only(d.props, <<"props">>)

(* Slip: chrt is set aside with the commands that need no capability.        *)
ForSystemdChrt(s, d) ==
  IF s.place.unit = "elsewhere" THEN <<>>
  ELSE Only("sched" \in d.attrs, <<"chrt">>) \o Only(d.key, <<"slice">>)
         \o Only(d.key \/ (d.props /\ s.place = Session), Move(d))
         \o Only(d.props, <<"props">>)

(* PrepareAdjust: move out of a session scope or a wrong slice, and set the  *)
(* properties of the new scope or of the unit the leader is in.  A session's *)
(* scope is left for properties alone too.  Nothing is done for a leader     *)
(* that no manager has in one of its slices.                                 *)
ForSystemd(s, d) ==
  IF s.place.unit = "elsewhere" THEN <<>>
  ELSE Only(d.key, <<"slice">>)
         \o Only(d.key \/ (d.props /\ s.place = Session), Move(d))
         \o Only(d.props, <<"props">>)

At(w, step) == pass[w].at = step
Set(w, p) == pass' = [pass EXCEPT ![w] = p]

(* The end of a pass.                                                        *)
Over(w) ==
  Set(w, IF pass[w].clean THEN [pass[w] EXCEPT !.at = "scan"] ELSE Idle)

Scan(w) ==
  /\ At(w, "scan")
  /\ Set(w, [pass[w] EXCEPT !.at = "prepare", !.seen = Observed,
                            !.clean = TRUE])
  /\ UNCHANGED <<rules, members, state>>

Prepare(w) ==
  /\ At(w, "prepare")
  /\ LET s == pass[w].seen
     IN  IF IsDue(s)
           THEN Set(w, [pass[w] EXCEPT !.at = "utils",
                          !.utils = Utilities(Diff(s)),
                          !.rest = ForSystemd(s, Diff(s))])
           ELSE Over(w)
  /\ UNCHANGED <<rules, members, state>>

-----------------------------------------------------------------------------
(* Slip: renice is given the pids of the scan instead of the group.          *)
TargetsSeen(w, c) ==
  LET pids == pass[w].seen.pids
  IN  CASE c \in {"renice", "ionice", "move", "enter"} -> alive \cap pids
        [] c \in {"chrt", "choom"} -> alive \cap {Leader(pids)}
        [] OTHER -> {}

(* Slip: a scope is started with the leader alone.                           *)
TargetsLeader(w, c) ==
  LET leader == alive \cap {Leader(pass[w].seen.pids)}
  IN  CASE c \in {"renice", "ionice"} -> alive
        [] c \in {"chrt", "choom", "move", "enter"} -> leader
        [] OTHER -> {}

(* The commands, as nicy uses them.  renice -g and ionice -P reach every     *)
(* process the group has when they run; chrt, choom and the call that starts *)
(* a scope are given pids, those of the scan.                                *)
Targets(w, c) ==
  LET pids == pass[w].seen.pids
  IN  CASE c \in {"renice", "ionice"} -> alive
        [] c \in {"chrt", "choom"} -> alive \cap {Leader(pids)}
        [] c \in {"move", "enter"} -> alive \cap pids
        [] OTHER -> {}

Sets(c) ==
  CASE c = "renice" -> {"nice"} [] c = "ionice" -> {"ioclass"}
    [] c = "chrt" -> {"sched"} [] c = "choom" -> {"oom"} [] OTHER -> {}

IsOld(w) == pass[w].rule = "old"

(* What follows from a rule that is not the rule any more is not as the rule *)
(* wants it.  A scope without a slice gets one of the manager's own.         *)
Effect(w, c) ==
  /\ ok' = [p \in alive |->
              IF p \notin Targets(w, c) THEN ok[p]
              ELSE IF IsOld(w) THEN ok[p] \ Sets(c)
              ELSE ok[p] \cup (Sets(c) \cap rule.want)]
  /\ place' = [p \in alive |->
       CASE c = "move"  /\ p \in Targets(w, c) -> Place("managed", "no")
         [] c = "enter" /\ p \in Targets(w, c) ->
              Place(SliceUnit, IF IsOld(w) THEN "other" ELSE "own")
         [] OTHER -> place[p]]

CanWork(w, c) == c \in {"slice", "props"} \/ Targets(w, c) # {}

(* Worker w goes on; after a command of an older rule no pass is clean.      *)
Then(w, p) ==
  pass' = [v \in Workers |->
    LET next == IF v = w THEN p ELSE pass[v]
    IN  IF IsOld(w) THEN Unclean(next) ELSE next]

Utility(w) ==
  /\ At(w, "utils") /\ pass[w].utils # <<>>
  /\ CanWork(w, Head(pass[w].utils))
  /\ Effect(w, Head(pass[w].utils))
  /\ Then(w, [pass[w] EXCEPT !.utils = Tail(@)])
  /\ UNCHANGED <<rules, members>>

(* A utility that fails ends the first loop, which has then not set aside    *)
(* the commands for systemd that come after the utilities: they are not run. *)
UtilityFails(w) ==
  /\ At(w, "utils") /\ pass[w].utils # <<>>
  /\ Set(w, [Unclean(pass[w]) EXCEPT !.utils = <<>>, !.rest = <<>>])
  /\ UNCHANGED <<rules, members, state>>

UtilitiesDone(w) ==
  /\ At(w, "utils") /\ pass[w].utils = <<>>
  /\ Set(w, [pass[w] EXCEPT !.at = "rest"])
  /\ UNCHANGED <<rules, members, state>>

Other(w) ==
  /\ At(w, "rest") /\ pass[w].rest # <<>>
  /\ CanWork(w, Head(pass[w].rest))
  /\ Effect(w, Head(pass[w].rest))
  /\ Then(w, [pass[w] EXCEPT !.rest = Tail(@)])
  /\ UNCHANGED <<rules, members>>

OtherFails(w) ==
  /\ At(w, "rest") /\ pass[w].rest # <<>>
  /\ Set(w, [Unclean(pass[w]) EXCEPT !.rest = <<>>])
  /\ UNCHANGED <<rules, members, state>>

PassDone(w) ==
  /\ At(w, "rest") /\ pass[w].rest = <<>>
  /\ Over(w)
  /\ UNCHANGED <<rules, members, state>>

Pass(w) ==
  \/ Scan(w) \/ Prepare(w) \/ Utility(w) \/ UtilityFails(w)
  \/ UtilitiesDone(w) \/ Other(w) \/ OtherFails(w) \/ PassDone(w)

Next == Fork \/ Exit \/ Reload \/ Meddle \/ \E w \in Workers : Pass(w)

(* The ticker starts pass after pass, and each runs to its end.              *)
Spec == Init /\ [][Next]_vars /\ \A w \in Workers : WF_vars(Pass(w))

-----------------------------------------------------------------------------
Passes ==
  [at : {"scan", "prepare", "utils", "rest"},
   seen : [pids : SUBSET Pids, ok : SUBSET Attrs, place : Places],
   utils : Seq({"renice", "ionice", "chrt", "choom"}),
   rest : Seq({"slice", "move", "enter", "props"}),
   rule : {"new", "old"}, clean : BOOLEAN]

TypeOK ==
  /\ rule \in Rules /\ changes \in 0..MaxChanges /\ unused \subseteq Pids
  /\ alive \subseteq Pids /\ alive # {} /\ alive \cap unused = {}
  /\ ok \in [alive -> SUBSET rule.want] /\ place \in [alive -> Places]
  /\ pass \in [Workers -> Passes]

(* Between a pass without failures and the next of its worker, as long as no *)
(* worker runs a command left over from before a reload and nobody else      *)
(* changes a process.  Another worker may be anywhere in a pass of its own.  *)
AfterPass(w) == At(w, "scan") /\ pass[w].clean
Seen(w) == pass[w].seen

(* nicy moves a group only out of a session or a slice of a manager.         *)
Movable(s) == s.place.unit # "elsewhere"
Moves(s) == Diff(s).key /\ Movable(s)

(* After a pass without failures the leader it saw is what its rule says: it *)
(* has the attributes, and it is out of the session scope and of any wrong   *)
(* slice of nicy - unless it was in one that no manager has among its own    *)
(* slices, as the leader of a group of root's: such a group is left there.   *)
LeaderReconciled ==
  \A w \in Workers :
    AfterPass(w) /\ Leader(Seen(w).pids) \in alive =>
      LET l == Leader(Seen(w).pids)
      IN  /\ rule.want \subseteq ok[l]
          /\ Moves(Seen(w)) => place[l].nicy = "own"
          /\ rule.props => place[l] # Session

(* After a pass without failures that was due, every member has the nice     *)
(* value of the rule and, if the leader lacked it, its I/O class, whatever   *)
(* it had before - the members that were forked between the scan and the     *)
(* commands included.  (A pass is due only if the leader differs from the    *)
(* rule, or the rule has a cgroup or scope properties: cache.go:433.)        *)
WholeGroupReniced ==
  \A w \in Workers : AfterPass(w) /\ IsDue(Seen(w)) => \A p \in alive :
    (rule.want \cap {"nice"}) \cup (Diff(Seen(w)).attrs \cap {"ioclass"})
      \subseteq ok[p]

(* A group that is moved out of its session scope, or of a wrong slice, goes *)
(* as a whole, wherever its members are: none that the scan saw stays behind.*)
(* (One forked after the scan does, and for good if the leader has moved:    *)
(* pgrpjob.go:154.)                                                          *)
MovesSeenMembers ==
  \A w \in Workers : AfterPass(w) /\ Moves(Seen(w)) =>
    \A p \in alive \cap Seen(w).pids : place[p].nicy = "own"

(* Passes bring the leader to its rule, although failing commands cut some   *)
(* of them short, processes come and go and others change them, two passes   *)
(* overlap, and one of them may still apply a rule that has been replaced:   *)
(* if passes without failures keep coming, the leader ends up as its rule    *)
(* says and stays so.                                                        *)
Reconciled ==
  LET l == Leader(alive)
  IN  /\ rule.want \subseteq ok[l]
      /\ rule.key \/ rule.props => place[l] # Session
      /\ rule.key => place[l] # Place("managed", "other")

Reconciles == []<>(\E w \in Workers : AfterPass(w)) => <>[]Reconciled
=============================================================================

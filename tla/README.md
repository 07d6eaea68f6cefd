# A TLA+ verification of nicy

nicy (package `cmd`, Go) applies presets - nice value, scheduling and I/O class,
OOM score, systemd slice and scope - to programs it starts and to processes that
already run.  This directory holds models of it in TLA+, the TLC configurations
that check them on small instances, and theorems that TLAPS proves for every
value of the constants.  Line numbers refer to `src/cmd/` unless a path is given.

## 1. The system

| Part | State it keeps | Operations | Talks to |
|---|---|---|---|
| configuration (`root.go`, `config.go`) | viper: `confdirs`, flags, `ambient`; three files, by precedence | `initConfig`, `NewConfig`, `Iter*` | preset cache |
| preset cache (`cache.go`, `preset.go`, `build.go`) | maps key -> list of presets, the last is active; the cache file | `GetPresetCache`, `LoadFromConfig`, `WriteCache`, reload | every subcommand; other nicy processes, through the cache file |
| rule resolution (`cache.go`, `rule.go`, `profile.go`, `cgroup.go`) | none | `RequestRule` and what it calls | preset cache |
| process scan (`proc.go`) | the shared result slice | `FilteredProcs` | /proc; set, control, dump |
| group job pipeline (`cache.go`, `pgrpjob.go`) | four buffered channels, two WaitGroups | `FilteredProcs`, `RawGroupJobs`, `DiffReview`, `PrepareAdjust` | scan upstream, workers downstream |
| set (`set.go`) | a worker pool | `doSetCmd` | pipeline |
| control (`control.go`) | worker pool, ticker, context, signal channel of one | `doControlCmd` | pipeline; SIGUSR1, SIGUSR2, SIGINT; preset cache |
| capabilities (`sysutils.go`, `lines.go`) | the ambient set of the process, viper's `ambient` | `updatePrivileges`, `preRun`, `StartWait` | every worker |
| group adjustment (`pgrpjob.go`, `job.go`, `commands.go`) | the commands of a job | `ProcGroupJob.Run` | renice, ionice, chrt, choom, systemctl, busctl; the group's processes |
| run, show (`run.go`, `show.go`, `job.go`, `lines.go`) | the process itself, which becomes the program | `RunJob`, `GenerateJobs`, `ProcJob.Run`, `Exec`, `Script` | resolution, systemd |
| install (`install.go`) | a directory of scripts and its backup; three channels | `doInstallCmd` | presets, `GenerateJobs`, the file system |
| list, dump | none | formatting | preset cache, scan |

What is hard: goroutines that share channels, a slice, maps, capabilities and
viper without locks; processes that fork and exit between the scan and the
commands; commands that fail half-way; a reload, a signal or a death at any
moment; a cache file that is rewritten while it is read, and files that are edited
while they are in use; a directory of scripts that is replaced in several steps, any of which may be the last.  `PROJECT.json` lists
each hazard at its line, with the properties that would notice it going wrong.

What makes each part right:

* pipeline, set: every group that differs from its rule is adjusted exactly
  once; no send on a closed channel; set returns when, and only when, all is done.
* control: scans are served in order, nothing is lost on the way, the pipeline
  drains, a request to stop is obeyed.
* capabilities: each command is started with the privileges it is meant for;
  raised capabilities are always dropped.
* scan: the processes the filter keeps, all of them and no other.
* group adjustment: after a pass without failure the leader is as the rule says, and
  the others in what the commands set for the whole group.
* preset cache: a process has what the files say when it reads them, each preset from
  the directory that takes precedence, or the first parts of that from a cache
  nobody finished.
* resolution, run: a program gets its own values before those of its profile, a
  limit is neither lost nor set twice, and the program starts that way or not at all.
* show: the script leaves the process as `nicy run` does, when its commands succeed.
* install: an install that returns is complete; one that does not costs nothing.

## 2. The modules

`Pipeline` holds the goroutines that set and control share; `SetCmd` and
`ControlCmd` extend it with the command's own goroutines.  `RunCmd` extends
`Resolve` in the same way.  The other components stand alone.  An `MC...` module
instantiates a component for TLC, a `...Proofs` module holds its theorems.
Operators commented "Slip" are wrong variants of the definition right after
them, kept to show that each checked property can tell the difference
(`PROJECT.json`, "mutants"); no specification uses them.

**Pipeline** (`cache.go` 413-518, `pgrpjob.go` 28-35, the workers of `set.go`).
A channel is a record of its buffer and whether it was closed; a goroutine is
what it has in hand and whether it returned.  One action per channel operation:
`FilterReceive/Send/Done`, `SplitReceive/Review/Send/Done`,
`PrepareReceive/Send/Done`, `GenerateDone` (the inner `wg.Wait`),
`WorkerReceive/Run/Done`.  A snapshot is the set of pids a scan saw and those
that differed from their rule when it read them; `ByPgrp` splits it, `Leader` is
the smallest pid, `IsBroken` a leader whose rule cannot be expanded: `fatal`, the
process ends.  The goroutine that `RawGroupJobs` starts for each group and waits
for at once is one step, `SplitReview`.

**SetCmd** (`set.go` 74-106).  `MainSend`, `MainClose`, `MainReturn`; `log` and
`applied` record which jobs were taken and finished.  **ApplyOnce** is what the
command promises, without goroutines: scan, start and finish each due job once,
then return, or abort if some rule cannot be resolved.

**ControlCmd** (`control.go` 85-168).  The first scan, the ticker goroutine
(`TickerScan/Send/Leave`: the select is not looked at while the send blocks), the
signal channel of capacity one (`Deliver` drops what does not fit), `MainSignal`,
the reload of `--verbose` (`MainReloaded`, and `ReloadRace` for a concurrent map
access that the runtime detects), `MainReturn`, which waits for nobody, and the
workers, which look at the context once before they range over the jobs (`Serve`).

**Privileges** (`pgrpjob.go` 191-231, `sysutils.go` 104-140, `lines.go` 142-204).
Each worker runs jobs one after the other: `Raise`, `Get`, `Note` are the three
steps of `updatePrivileges`; the first loop runs the utilities and sets the other
commands aside (`SetAside`), then `Drop`, `Get`, `Note`, and the second loop.
`PreRun` decides about sudo from what was noted; `Start` inherits the ambient set
of that moment; `Fail` ends the loop.  `overlap` is a history variable.

**ProcScan** (`proc.go` 217-241, 319-336, 375-389, 501-513, 536-572, 597-640).  A reader, workers that
read a process in steps - its stat, its owner (`SetUser`), its cgroup
(`SetCgroup`) - then filter by scope (`Filter`) and `append`, which is split into the
loads and stores the compiler emits, on slices with an array, a length and a
capacity.  `Vanish` ends a process at any time: before its stat is read it is
never seen; after it, the setters' errors stay inside them and leave uid -1 and an
empty slice, which is "not user.slice".  A command name with a blank shifts the
fields of the stat and does not parse (`Blank`).  `Files` are the pids in the order
of their names, as Glob gives them; `ByPid` is the sort, a rearrangement without
inversions, which neither drops nor adds, and `Sound` says when it can work on
what the race left.

**GroupAdjust** (`cache.go` 426-480, `pgrpjob.go`, `job.go`, `commands.go`).  One
process group through scan, review, preparation and the commands one by one,
while `Fork` and `Exit` happen at any time.  The members of a group need not agree
in anything: `Init` takes any, and `Meddle` is a change of one process by somebody
else - its user, itself, the session - at any moment.  Each worker has a `pass` of its
own, so that jobs of two scans overlap, and `Reload` may replace the rule under them:
a pass that has its commands goes on with the "old" ones.  An attribute is "as the
rule wants it" or not.  A place in the cgroup tree is what the code's regular
expressions (`job.go` 34-40) tell of it: the unit is the scope of a session, or
managed (in a slice of the user's manager, or in the system's), or elsewhere, and it
is in no slice of nicy, in the one of the rule's cgroup, or in another; the slices of
nicy are managed, or elsewhere for root (`SliceUnit`).  Only a leader
in a session or in a managed unit gets commands for systemd (`pgrpjob.go` 146 and
160, `ForSystemd`).  `Targets` says whom each command reaches: the group as it is now
(renice -g, ionice -P) or the pids of the scan; `Move` is `moveProcGroup`, a scope
that enters the slice of a cgroup ("enter") or not ("move").  What a scan saw is kept
as it was until its review, even when another command has made it out of date
(`Unclean`).  Each worker scans for itself, so that the model has more orders of scans
and passes than the pipeline, whose order is `InScanOrder`.

**PresetCache** (`root.go` 189-230, `cache.go` 61-145, `build.go`, `control.go`
148-154).  Several nicy processes, each with its own `confdirs` - the default list, or
one that was configured - and maps; the configuration files, which somebody edits
(`Edit`: presets are added, changed, removed, or all gone with a file that is no
longer valid); and one cache file.  A preset is named by its directory and its
version; of each list the active one, the last, is kept.  The cache file has
three parts (cgroups, profiles, rules); os.WriteFile empties it (`Truncate`) and writes
it in one go (`Write`) or two (`WriteSome`), while others read it, empty it or write
it too; `End` may come anywhere.  A file cut between two parts is valid YAML; one cut
inside a part, or left by two writers, may be or not (`parses`), and `GetFromConfig` is
what happens with no cache, one that does not parse, or --force.

**Resolve** (`cache.go` 205-356, `config.go` 181-220, `preset.go`).  The rule of one
application as a pure function of configuration and request, with the sets of
outcomes that map order allows (`IterRules`, `Candidates`).

**RunCmd** (`run.go`, `show.go`, `job.go` 272-427, `lines.go` 206-265, `cache.go`
358-395).  After `Resolve`, the commands are prepared and either run on nicy's own
process, which turns into the program at the end (`Raise` and what follows), or
printed by a dry run, or written as a script (`Script`), which a shell without
capabilities then runs: the shell has no `set -e`, so a command that fails is passed
over (`ShellFails`, `skipped`), where nicy returns (`Fails`).  `Clear` takes away all
capabilities, or only the ambient ones when the rest cannot be cleared, which nicy
only warns of (`sysutils.go` 131).  The goroutines of `GenerateJobs` hand a single job
over unbuffered channels, so they take turns and are one sequence of steps.

**InstallCmd** (`install.go` 107-172, `cache.go` 358-395, `utils.go` 150-173).  Installs
one after the other; only the directories outlive one.  `Remove` (of the backup,
perhaps not all of it), `Rename` (which replaces nothing and only warns) and `Make`;
then the goroutine that goes through the rules (`Get`, `GetDone`; `IterCache` and
`LookPath` are one step, for nothing else reads between them), the two of `GenerateJobs`
(`RequestJob`, `PrepareCommands`, `SendJob`, `GenerateDone`) and the writer (`Take`,
`Truncate` and `Write`, the two halves of `os.WriteFile`, `Symlink`).  A script is
absent, cut short, or runs the program or the link to itself.  `Die` ends an
install before or after any step.  `good` and `attempts` are history.

## 3. The runs

| Run | What it asks | Properties | Distinct states |
|---|---|---|---|
| `set_pipeline` | can any interleaving lose, repeat or strand a job? | `EachJobOnce`, `CompleteAtReturn`, `WaitGroups`, `NoSendOnClosed`, `ImplementsApplyOnce` | 21 428 |
| `control_pipeline` | the same for scan after scan, with signals | `InScanOrder`, `Accounted`, `Drains`, `Obeyed` | 143 518 |
| `privileges` | do jobs leave something behind for the next? | `SuitedUnlessOverlapped`, `RaisedForSomeone`, `DroppedInTheEnd` | 17 708 |
| `privileges_utility` | what if two jobs overlap? | `UtilityPrivileged` - violated | |
| `scan` | what can the unlocked append do? | `FilteredUnlessRaced`, `NothingForeign`, `Ends` | 1.1 million |
| `scan_race` | is the result what the comment says? | `ReturnsFiltered` - violated | |
| `group` | what does a pass leave of a living group? | `LeaderReconciled`, `WholeGroupReniced`, `MovesSeenMembers`, `Reconciles` | 1.7 million |
| `presets` | what does a process get, whoever edits, writes or dies? | `PresetsOfFiles` | 8.8 million |
| `presets_default` | is the default precedence the documented one? | `PrecedenceFromFiles` - violated | |
| `run` | what rule does a program get and start with, from nicy or a script? | `OwnBeforeProfile`, `SliceOrScope`, `LimitsInForce`, `StartedAsResolved`, `NothingInherited` | 11.4 million |
| `run_candidates` | is a cgroup picked only if the rule has all its properties? | `ScopeKept` - violated | |
| `install` | what is left after installs that are cut short? | `CompleteAtReturn`, `LastGoodKept`, `Finishes` | 114 234 |

Every passing run also checks `TypeOK`, one per module, and, where the model
says when a process may stop, that nothing deadlocks.  (A worker, a scan or a nicy
process that ends stutters, so a deadlock is a goroutine left waiting.)

Bounds, and why they are enough:

* Channels have capacity 1 (8 in the code) and there are two workers.  With four
  due groups every channel and every hand can be full at once, which is what
  blocking, closing and waiting depend on.  In control, two scans suffice for
  one to overtake, block or follow another.
* `privileges`: two workers, three jobs - a utility alone, with a command for the
  user's own slice, with two for a foreign one; two workers are enough for one
  to act between any two steps of another.
* `scan`: four files, in an order that is not that of the pids (1, 10, 2, 3), of
  which one cannot be parsed, one belongs to somebody else and one is outside
  user.slice; every scope; two workers. With scope "all" the slice grows twice, so
  that an append may hit an array with room, a full one and one that was replaced.
  `scan_race` is the same instance.
* `group`: two pids, each used once: the leader may exit and its child lead, forked
  at any point of a pass, or both may be there from the start, with any attributes
  and in different places.  Processes start in a session, in a wrong slice of
  their manager, or in a wrong slice elsewhere, and reach the other places by what is
  done to them.  Two workers and one change (`MaxChanges`), a reload or a change by
  somebody else, so that an old pass and a new one overlap; three rules, with an
  attribute only, with a cgroup and scope properties, and with scope properties alone:
  every branch of the preparation.  The slices of nicy are those of a user's manager
  (`SliceUnit`); with "elsewhere" instead the same properties hold in 1 698 867 states.
* `presets`: the two directories that are the default of root, in either configuration
  of the list; a cgroup and a rule, in two parts of the cache; one edit (`MaxEdits`),
  which may change each preset of a directory in each way, from files that define all
  but one of them; two processes (symmetric), for a reader and a writer or two
  writers; `MaxLoads` 2, a first load and a reload.  `presets_default` needs one process
  only.
* `run`: two cgroups, of which one may be defined twice, with fewer or more
  properties than the first time; the profiles "default" and "none" and one nobody
  defines, two scope properties, of which one has two values, and two process attributes
  (which vary together).  `run_candidates` is the same instance.
* `install`: four names, of which one is linked, one ignored and one broken; three
  sets of rules, so that a name comes and goes; channels of capacity 1; three
  installs (`MaxInstalls`): one that completes, one that does not, and one more on
  what that left.  The directory is in PATH, where a left-over link matters.

No proof of section 5 needs any of these bounds.

Fairness.  The Go scheduler runs every goroutine that can run, the timer ticks,
and commands return: weak fairness of each goroutine.  In control the loop's
select picks at random among what is ready, so that `ctx.Done`, once ready, is not
passed over for ever: strong fairness of `MainReturn`.  Signals need not come, jobs
need not come to a worker, processes need not fork, and a command may fail
any number of times: none of these has fairness.  `Reconciles` therefore promises
something only if passes without failure keep coming.  In install the goroutines
together are weakly fair (`Proceed`); a kill (`Die`) and the next install (`Start`) are not.

## 4. What disagrees with the code's own words

1. `privileges_utility` - "System utilities require capabilities. Use sudo only
   when not available." (`root.go` 213-214).  The ambient set belongs to the whole
   process and each worker raises and drops it: a drop by one worker between
   `preRun` and `cmd.Start` of another leaves renice with neither.
2. `scan_race` - "FilteredProcs returns a slice of Proc for filtered processes."
   (`proc.go` 535).  The unlocked `append` (551) loses processes.
3. `run_candidates` - "found if preset is a superset of candidate properties"
   (`cache.go` 288).  `CgroupCandidate` counts what matches the active definition of a
   cgroup and accepts a count equal to the size of its first (`cache.go` 294-299): with
   --force-cgroup, a cgroup that was defined again with more properties is picked for a
   rule that has only some of them.
4. `presets_default` - "per order of precedence" (`root.go` 191, `man/nicy.1.md`
   340, `CONFIGURATION.md` 30).  `Reverse` works in place on the default of
   `confdirs`: at the first load the vendor's presets win.

Noticed while reading, without a run of their own:

* `nicy run` ends with status 0 whatever fails, for `run.go` 92 shadows the error (the
  manual's EXIT STATUS says otherwise; `RunCmd` models it); `doShowCmd` does the same
  and prints an empty line for a program that is not found.
* `errors.go` 73 looks for a `*customError` where there are only values, so every
  fatal error has status 1.
* The scope properties of a profile, announced by `profile.go` 29-30 for its
  applications, are never applied: `Expand` (`cache.go` 230) copies the process
  attributes only.  `Resolve` models it.
* A script passes over a command that fails and starts the program all the same,
  where `nicy run` does not (`CONFIGURATION.md` 270: "roughly executes").
* `LookPath` (`utils.go` 165) passes over "scripts.location" only: an install into a
  DESTDIR in PATH whose old directory could not be moved finds its own old link
  instead of the program (the script then runs itself); `CompleteAtReturn` holds
  because the link that is made next fails on the old one, which is fatal.  A
  second incomplete install removes the last complete set.  A relative `--dest` gives
  links that dangle.  The last lines of `src/README.md` (102) still call install
  missing.
* A process whose command name has a blank is never seen by set or control.  A process
  that ends during the scan counts as one of the system's.
* `list --only` (`--from` in the manual) shows the active preset of a name and no
  other (`preset.go` 40-68), where `man/nicy.1.md` 180 says that duplicates are kept.
* A rule's own scope values give way to those of the cgroup it runs in (`cache.go` 346):
  with MemoryMax=1G of its own and 4G of its cgroup, 4G is in force.  `rule.go` 22-23,
  "eventually adjust scope properties in Rule", may be read as the opposite, or of the
  properties the cgroup does not set; `LimitsInForce` states the order of the code.
* chrt and choom reach the leader of a group only, for no other member's job has a rule
  (`cache.go` 432), where `pgrpjob.go` 45 says "using each ProcJob and its own Pid".
* Run by root, nicy has its slices in /nicy.slice: a leader in another of them keeps its
  cgroup in the difference at each pass (`cache.go` 441) and is never moved, since
  neither pattern of `pgrpjob.go` 160 matches; each pass renices it again.  The same
  goes for the properties of a leader in an init.scope or a session-c1.scope.
* Members that differ from the rule while their leader does not are left as they are
  (`cache.go` 433), unless the rule has a cgroup or scope properties.
* A preset that is removed from the files stays with a daemon after SIGUSR2: a reload
  adds to the lists, and empties none (`cache.go` 84-125).
* A command for a foreign slice loses its sudo while another worker has the ambient
  set raised (the branch of `ForeignSliceAsRoot`); a child forked between scan and
  move stays in the session scope for good once the leader has moved (`pgrpjob.go` 154).
* `CONFIGURATION.md` 117 writes `oom_score_adjust`, the code reads `oom_score_adj`.

## 5. What is proved

`tlapm` checks every module named here; no proof is left out and nothing is assumed
but the named assumptions on constants in `Pipeline`, `SetCmd`, `ControlCmd`, `Privileges`,
`InstallCmd`, `GroupAdjust`, `ProcScan`, `PresetCache`, `Resolve` and `RunCmd`, which TLC
evaluates in the runs.
Each module begins with what it needs of lists and channels: what sending, receiving
and closing do to the items of a queue.

**SetCmdProofs**, for any processes, groups, presets, number of workers and capacity:

* `TypeCorrect` : `Spec => []TypeOK`.  One step per action.
* `SendsOnOpenChannels` : `Spec => NoSendOnClosed`, no send on a closed channel and no second
  close of one.  From the part `Shutdown` of the invariant: a stage that is done has an
  upstream that is closed and empty, and a channel is closed exactly when its sender is
  done; who closes a channel has not done so before (`NoSecondClose`).
* `CountersRight` : `Spec => []WaitGroups`, by counting the goroutines that run.
* `NoJobTwice`, `ReturnsComplete` : `EachJobOnce` and `CompleteAtReturn`.
* `EachStepApplies` : the initial states map to those of `ApplyOnce`, and every step to
  a step of it or to a stutter.  The mapping reads the log of the workers; what makes
  it work is `Reviewed`: a group whose rule is broken is never past its review, so that
  set can abort, but not return, as long as it is there.

None of these is inductive by itself.  `IndInv` adds: `Hands` (each hand holds
at most one item, and none after the goroutine returned), `Shutdown`, `Joined` (who is done
implies who else is), `OneSnapshot` (the snapshot is in one place only, and none
of its jobs exists before it reaches the splitter), `NothingExtra` (every job
anywhere is due for the snapshot that was sent, or still to be reviewed),
`InWorkers` (taken = applied or in a worker's hand) and `NothingLost` (each due
job is in some place).  `EachJobOnce` says that the places are disjoint, the last
two that together they hold everything; when the shutdown has emptied all but
the last place, what is left is `CompleteAtReturn`.

**ControlCmdProofs**, for any processes, rules, number of workers, capacity, signals and
number of scans:

* `TypeCorrect`, which includes that the WaitGroup counts the goroutines that run
  (`NextAlive`, by the way each kind of step changes both).
* `ScansInOrder` : `Spec => []InScanOrder`.  `OrderInv` lays the nine places from the
  ticker to the workers in a line (`InLine`): what is nearer to the workers is as old
  or older, and snapshots are strictly apart, since only one scan at a time is in the
  ticker's hand.  The strictness is what carries the order through the splitter, which
  turns one snapshot into many jobs of the same number (`OneScan`); buffers are in
  order by themselves (`Queues`), and no number is ahead of the scans (`Recent`).
* `JobsAccounted` : `Spec => []Accounted`.  `AccountInv` adds that hands hold one item
  (`Lone`), that every snapshot on its way is one that was taken, filtered from
  the filter on (`Genuine`), that the places of jobs are disjoint and no buffer
  holds a job twice (`Once`), and that each due job is somewhere (`NothingLost`): the
  filter drops a snapshot only when no group of it is due, the review only jobs not due.

**PrivilegesProofs**, for any number of workers, any jobs, with and without
capabilities, as root or not:

* `TypeCorrect`; it needs `Engaged`: a command being started is still the head of
  its queue.
* `RaisedHasOwner` : `Spec => []RaisedForSomeone`, without any assumption on overlaps.
* `JobsInTurn` : `Spec => []SuitedUnlessOverlapped`.  The invariant: as long as no two
  jobs overlapped, at most one worker is busy and the ambient set and what was
  noted are a function of where it stands (`Agreed`); what was set aside holds no
  utility (`Sorted`); so what `preRun` chose and what was started are as they should
  be (`Suited`).

**InstallCmdProofs**, for any names, rules, capacity and number of installs:

* `TypeCorrect`; it needs `Standing`: when the directory exists, and when it was moved.
* `LastGood` : `Spec => []LastGoodKept`.  `Keeping` says where the last complete set is
  at each phase of the first install that came after it.
* `ReturnsComplete` : `Spec => []CompleteAtReturn`.  While the goroutines work, each
  name that is wanted is still to do, in exactly the hands and channels between the
  rules and the writer, or written (`NothingLost`); what is written is what was looked
  up (`Honest`) and nobody else's (`NothingElse`); and `Shutdown` makes all the places
  but the last empty when the writer sees its channel closed.

**GroupAdjustProofs**, for any pids, rules, places, reloads, changes by others and number
of workers:

* `TypeCorrect`, `LeaderIsReconciled`, `GroupIsReniced`, `SeenMembersMove`.  The invariant
  speaks of every worker apart (`Sound`): no pass with the rule in force moves the
  group away from the slice of that rule (`NeverOut`); as long as no command of the
  pass failed and nobody else interfered, what the scan found right of the leader still
  is (`SeenHolds`), and each utility that the review asked for (`Asked`), and the
  move, is still ahead or has done its work on every process that it reaches
  (`DoneOrAhead`).  Both survive the commands of every other worker, because all of them
  only bring the group nearer to the rule in force (a reload, and the commands of a
  pass from before it, make every pass unclean).  A fork keeps them because a child is
  like its parent, whatever that is like: nothing is said of members agreeing.

**RunCmdProofs**, for any fields, values, presets, requests, any number of definitions of
a cgroup, with capabilities or without:

* `OwnGoesFirst`, `LimitedOnce` : `OwnBeforeProfile` and `SliceOrScope`, from one lemma for
  each operator that `RequestRule` is made of (`ExpandOf`, `CgroupOnlyOf`, `WithCgroupOf`,
  `RunnableOf`), each saying which fields it may change and how.
* `TypeCorrect`, `AsResolvedOrNot`, `CapsDropped` for the process.  The invariant
  (`Planned`): what the utilities have set and what those left will set make what the
  rule wants, and the slice will be, after the commands that are left, what the
  rule wants of it; at exec nothing is left.
* `LimitsHold` : `Spec => []LimitsInForce`.  What `RequestRule` leaves in the rule is the
  value that its presets decide (`Decided`, `Limited`), except for what the cgroup
  around it sets, and that is on the slice by then (`StartedAsResolved`).

**PresetCacheProofs**, for any directories, keys and parts of the cache, any contents and
edits of the files, any number of processes and loads:

* `TypeCorrect`.
* `PresetsAreOfFiles` : `Spec => []PresetsOfFiles`, with the default list of directories
  and with a configured one.  The invariant says of each process, as long as no file is
  edited under it, what it has loaded so far: of the directories behind it, the last to
  define a key is active (`Loads`).  It is said of the position in the list, which
  turns loading a directory into a step from m to m + 1, and reloading into one from
  all of them to none: what an earlier load left behind is never active again where a
  file defines the key.  The default list is turned around in place by each load
  (`ListAt`, `Order`), so that a process has the presets of the rearmost directory after
  an odd number of loads and of the foremost after an even one: this is the extent of
  what `presets_default` shows.  Of the cache file (`Kept`): each part up to where it is
  written has, key by key, what one of the builders had, and there is nothing behind.

**ProcScanProofs**, for any files, owners, slices and scopes, any number of goroutines, and
processes that end at any moment:

* `TypeCorrect`.
* `NeverForeign` : `Spec => []NothingForeign`, with the race: what is in any array or in
  any hand was let through by the filter, or ended since (`Fit`); and a process is in
  one place only - a file to read, the channel, a hand, or one cell, the same in every
  array that has it, because growing copies cell by cell (`Distinct`, `InItsCell`) -
  so that no slice names one twice.
* `ExactUnlessRaced` : `Spec => []FilteredUnlessRaced`.  As long as no appends overlap, one
  worker appends at most (`InTurn`), and at each of its loads and stores the header and
  what it has read fit together (`AtStage`); between appends the slice is whole: no
  hole below its length (`Settled`).  So every process that is wanted and lives is on
  its way, in the end in the slice (`Complete`), and the sort can work on it.
* `ExactAlone` : `Spec => []ReturnsFiltered` when there is a single worker: the comment of
  `proc.go` 535 is right with GOMAXPROCS 1.

That a sort exists at all (`ByPid` chooses one) is a lemma, `Ranked`: the rank of an
item, the number of those below it, is a bijection when no item is there twice.

Only model-checked: the liveness properties (`DroppedInTheEnd`, `Drains`, `Obeyed`,
`Ends`, `Reconciles`, `Finishes`, and the liveness part of `ImplementsApplyOnce`), since
TLAPS proves no liveness under fairness.  Every invariant that a passing run checks
is proved for every value of the constants, without further hypotheses.  The properties
of the four runs that expect a violation are false, and nothing is proved of them but the
case `ExactAlone`.

## 6. What is not modelled

* `list`, `dump`: they print what the preset cache or the scan holds.  Packaging,
  `main.go`: no state.  `procfs/` is an older copy of `proc.go` that nothing imports.
* The text of commands, scripts and files, the environment and arguments of a rule,
  dates and origins, logging, `--debug`; `--dry-run` but for `nicy run` (install reads
  it from the configuration only, and then writes nothing).
* `setCapabilities` at the start and the end of a subcommand, one call each.
* Output streams: `Scan` (`lines.go` 108) sets the shared `Stdout` to nil for good.
* Concurrent access to viper's maps, which may end any of the processes.
* Two installs at the same time; a pid used again for another process.
* Inactive presets of a list, but for the definitions of a cgroup in `Resolve`; a file that
  is edited while it is read (a process that has such files is `stale`, and nothing is
  said of it); a mixture of two writers' bytes inside one part of the cache that is
  valid YAML all the same.
* A failure to lower the ambient set (`sysutils.go` 60-72) where raising it worked.
* `InstallCmd` has the same `Linked` names for each install, so that a `scripts.link` that
  is edited between two installs, the second among left-over links, is out of its reach.
* The branch of `pgrpjob.go` 168-170: unreachable after `DiffReview` (`cache.go` 441).

## 7. Plan

Done, in this order: `Pipeline`, `SetCmd` with `ApplyOnce` and its proofs, `ControlCmd`,
`Privileges` and its proofs, `ProcScan`, `GroupAdjust`, `PresetCache`, `Resolve`, `RunCmd`,
`InstallCmd`, the steps of a scan while processes end, scripts, group adjustment by two
workers with a reload in between, groups whose members differ, and edited files; then the proofs about installs,
group adjustment and `nicy run`, the step refinement of `ApplyOnce`, the order and the
account of the daemon's jobs; and those about presets, the scan of /proc and the
cgroup that is picked for a rule.

Next, models: installs with an edited `scripts.link`; `Resolve` on the presets that
`PresetCache` loads.

Next, proofs: an abstract specification of the daemon - each scan is taken, and each
of its due jobs served once and in order, until a request to stop - and that
`ControlCmd` implements it step by step; that a script whose commands succeed leaves
the process as `nicy run` does.

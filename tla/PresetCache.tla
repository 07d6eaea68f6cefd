----------------------------- MODULE PresetCache ----------------------------
(* Where a process of nicy gets its presets from: the configuration files, or*)
(* the cache file that "nicy build" left.  A cgroup, a profile or a rule is  *)
(* a key here, and a preset is named by the directory it comes from and by   *)
(* the version of its text.  Any number of processes run at the same time    *)
(* and may be killed at any moment, and somebody edits the files meanwhile.  *)
EXTENDS Integers, Sequences, SequencesExt

CONSTANTS
  Dirs,       \* the configuration directories, in order of precedence
  Keys,       \* names of presets
  Contents,   \* what the files may say when the first process starts
  Section,    \* the part of the cache file that each key is in
  Parts,      \* how many parts it has: cgroups, profiles and rules
  Processes,  \* instances of nicy
  MaxLoads,   \* bound on the loads of one process (SIGUSR2 reloads)
  MaxEdits    \* bound on the edits of the configuration files

ASSUME DirsAssumption ==
  Dirs \in Seq(ToSet(Dirs)) /\ IsInjective(Dirs) /\ Dirs # <<>>
DirSet == ToSet(Dirs)
None == 0

ASSUME CacheAssumption ==
  /\ Parts \in Nat \ {0} /\ Section \in [Keys -> 1..Parts]
  /\ MaxLoads \in Nat \ {0} /\ MaxEdits \in Nat
  /\ Contents \subseteq [DirSet -> [Keys -> {None, 1}]]

VARIABLES
  files,      \* the version of each preset in each directory's file, if any
  edits,      \* how often the files have been edited
  cache,      \* the cache file, if it exists
  pc,         \* where each process is
  command,    \* its command, --force, and whether "confdirs" is the default
  confdirs,   \* viper's list of directories
  left,       \* directories it still has to load
  presets,    \* its PresetCache: the active preset of each key
  origin,     \* PresetCache.Origin
  loads,      \* how many times it has called LoadFromConfig
  stale       \* a file was edited since it began to read it (history)

known == <<command, confdirs, left, presets, origin, loads, stale>>
vars == <<files, edits, cache, pc, known>>

Versions == 1..(MaxEdits + 1)
Nothing == <<>>
Active == (DirSet \X Versions) \union {Nothing}
Empty == [k \in Keys |-> Nothing]

(* "control" may reload; "build" stands for it and for the commands that     *)
(* read their presets once and end.                                          *)
Command == [name : {"build", "control"}, force : BOOLEAN, default : BOOLEAN]
NoCommand == [name |-> "build", force |-> FALSE, default |-> FALSE]

(* What the cache file holds: the presets of its first parts, whether it is  *)
(* valid YAML, who wrote to it since it was emptied.                         *)
CacheFile == [presets : [Keys -> Active], upto : 0..Parts, parses : BOOLEAN,
              by : SUBSET Processes, stale : BOOLEAN]
Blank == [presets |-> Empty, upto |-> 0, parses |-> TRUE, by |-> {},
          stale |-> FALSE]

Init ==
  /\ files \in Contents /\ edits = 0
  /\ cache = {}
  /\ pc = [p \in Processes |-> "none"]
  /\ command = [p \in Processes |-> NoCommand]
  /\ confdirs = [p \in Processes |-> <<>>]
  /\ left = [p \in Processes |-> <<>>]
  /\ presets = [p \in Processes |-> Empty]
  /\ origin = [p \in Processes |-> "none"]
  /\ loads = [p \in Processes |-> 0]
  /\ stale = [p \in Processes |-> FALSE]

Goto(p, from, to) == pc[p] = from /\ pc' = [pc EXCEPT ![p] = to]

(* Somebody edits the file of a directory: presets are added, changed or     *)
(* removed, all of them if it is no longer valid YAML or gone.               *)
Edit ==
  /\ edits < MaxEdits /\ edits' = edits + 1
  /\ \E dir \in DirSet, text \in [Keys -> {"keep", "remove", "write"}] :
       files' = [files EXCEPT ![dir] = [k \in Keys |->
         CASE text[k] = "keep" -> @[k]
           [] text[k] = "remove" -> None
           [] text[k] = "write" -> edits + 2]]
  /\ stale' = [p \in Processes |-> pc[p] \notin {"none", "get"}]
  /\ cache' = {[file EXCEPT !.stale = TRUE] : file \in cache}
  /\ UNCHANGED <<pc, command, confdirs, left, presets, origin, loads>>

(* initConfig sets the default of "confdirs" to a list that it then reverses *)
(* in place, for the merge of the files: the default is reversed with it.  A *)
(* list that comes from the environment or a file is another slice.          *)
Start(p) ==
  /\ Goto(p, "none", "get")
  /\ \E c \in Command :
       /\ command' = [command EXCEPT ![p] = c]
       /\ confdirs' = [confdirs EXCEPT ![p] =
                         IF c.default THEN Reverse(Dirs) ELSE Dirs]
  /\ UNCHANGED <<files, edits, cache, left, presets, origin, loads, stale>>

(* GetPresetCache: the cache file, if --force is not given and it is there   *)
(* and valid YAML; an empty file, or one cut between two parts, is.          *)
GetFromCache(p) ==
  /\ Goto(p, "get", "ready")
  /\ ~command[p].force
  /\ \E file \in cache :
       /\ file.parses
       /\ presets' = [presets EXCEPT ![p] = file.presets]
       /\ stale' = [stale EXCEPT ![p] = file.stale]
  /\ origin' = [origin EXCEPT ![p] = "file"]
  /\ UNCHANGED <<files, edits, cache, command, confdirs, left, loads>>

(* Slip: the directories are read in the order they are listed.              *)
LoadForward(p) ==
  /\ left' = [left EXCEPT ![p] = confdirs[p]]
  /\ loads' = [loads EXCEPT ![p] = @ + 1]
  /\ stale' = [stale EXCEPT ![p] = FALSE]
  /\ UNCHANGED <<files, edits, cache, command, confdirs, presets, origin>>

(* LoadFromConfig goes through the directories in reverse, and GetStringSlice*)
(* returns the default slice itself: that one stays reversed.                *)
Load(p) ==
  /\ left' = [left EXCEPT ![p] = Reverse(confdirs[p])]
  /\ confdirs' = [confdirs EXCEPT ![p] =
                    IF command[p].default THEN Reverse(@) ELSE @]
  /\ loads' = [loads EXCEPT ![p] = @ + 1]
  /\ stale' = [stale EXCEPT ![p] = FALSE]
  /\ UNCHANGED <<files, edits, cache, command, presets, origin>>

(* GetPresetCache: otherwise the configuration files.                        *)
GetFromConfig(p) ==
  /\ Goto(p, "get", "load")
  /\ command[p].force \/ \A file \in cache : ~file.parses
  /\ Load(p)

(* SIGUSR2: LoadFromConfig again, on top of the presets there are.           *)
Reload(p) ==
  /\ command[p].name = "control" /\ loads[p] < MaxLoads
  /\ Goto(p, "ready", "load")
  /\ Load(p)

(* NewConfig and LoadConfig: each preset of the file is added to the end of  *)
(* the list of its key, where it is the active one.                          *)
LoadDir(p) ==
  /\ pc[p] = "load" /\ left[p] # <<>>
  /\ LET dir == Head(left[p])
     IN  presets' = [presets EXCEPT ![p] = [k \in Keys |->
           IF files[dir][k] # None THEN <<dir, files[dir][k]>> ELSE @[k]]]
  /\ left' = [left EXCEPT ![p] = Tail(@)]
  /\ UNCHANGED <<files, edits, cache, pc, command, confdirs, origin, loads,
                 stale>>

(* Slip: the origin is no known one.                                         *)
LoadedUnknown(p) ==
  /\ left[p] = <<>> /\ Goto(p, "load", "ready")
  /\ origin' = [origin EXCEPT ![p] = "files"]
  /\ UNCHANGED <<files, edits, cache, command, confdirs, left, presets, loads,
                 stale>>

Loaded(p) ==
  /\ left[p] = <<>> /\ Goto(p, "load", "ready")
  /\ origin' = [origin EXCEPT ![p] = "config"]
  /\ UNCHANGED <<files, edits, cache, command, confdirs, left, presets, loads,
                 stale>>

(* What a process that ended knew is gone.                                   *)
Forget(p) ==
  /\ command' = [command EXCEPT ![p] = NoCommand]
  /\ confdirs' = [confdirs EXCEPT ![p] = <<>>]
  /\ left' = [left EXCEPT ![p] = <<>>]
  /\ presets' = [presets EXCEPT ![p] = Empty]
  /\ origin' = [origin EXCEPT ![p] = "none"]
  /\ loads' = [loads EXCEPT ![p] = 0]
  /\ stale' = [stale EXCEPT ![p] = FALSE]

(* "nicy build": os.WriteFile empties the file, then writes it from the      *)
(* start, in one write or in several.                                        *)
Truncate(p) ==
  /\ Goto(p, "ready", "write")
  /\ command[p].name = "build" /\ (origin[p] # "file" \/ command[p].force)
  /\ cache' = {Blank}
  /\ UNCHANGED <<files, edits, known>>

(* The file once p's data up to part n is in it.  What another process wrote *)
(* at the same time may remain behind it, or before the place where p went   *)
(* on: then each part is of one of the two, or the file is no YAML.          *)
Written(p, n, parses) ==
  \E file \in cache : \E other \in SUBSET (1..file.upto) :
    cache' =
      {[presets |-> [k \in Keys |->
          IF Section[k] > n \/ Section[k] \in other THEN file.presets[k]
                                                    ELSE presets[p][k]],
        upto |-> IF n > file.upto THEN n ELSE file.upto,
        parses |-> parses,
        by |-> file.by \union {p},
        stale |-> file.stale \/ stale[p]]}

(* A part of the data: cut inside a part of the file, a flow mapping, it is  *)
(* no YAML.                                                                  *)
WriteSome(p) ==
  /\ Goto(p, "write", "writing")
  /\ \E n \in 0..(Parts - 1), parses \in BOOLEAN : Written(p, n, parses)
  /\ UNCHANGED <<files, edits, known>>

(* Nobody else has touched the file since p emptied it.                      *)
Alone(p, file) == file.by = IF pc[p] = "writing" THEN {p} ELSE {}

(* The rest of it.  If the file was emptied since, there is a hole before it.*)
Write(p) ==
  /\ pc[p] \in {"write", "writing"} /\ pc' = [pc EXCEPT ![p] = "none"]
  /\ \E parses \in BOOLEAN :
       /\ \A file \in cache :
            /\ Alone(p, file) => parses
            /\ pc[p] = "writing" /\ file.by = {} => ~parses
       /\ Written(p, Parts, parses)
  /\ Forget(p)
  /\ UNCHANGED <<files, edits>>

(* A process ends, by itself or killed, or its write fails, wherever it is.  *)
End(p) ==
  /\ pc[p] # "none" /\ pc' = [pc EXCEPT ![p] = "none"]
  /\ Forget(p)
  /\ UNCHANGED <<files, edits, cache>>

Step(p) ==
  \/ Start(p) \/ GetFromCache(p) \/ GetFromConfig(p) \/ Reload(p)
  \/ LoadDir(p) \/ Loaded(p) \/ Truncate(p) \/ WriteSome(p) \/ Write(p)
  \/ End(p)

Next == Edit \/ \E p \in Processes : Step(p)

Spec == Init /\ [][Next]_vars

-----------------------------------------------------------------------------
TypeOK ==
  /\ files \in [DirSet -> [Keys -> Versions \union {None}]]
  /\ edits \in 0..MaxEdits
  /\ \A file \in cache : file \in CacheFile
  /\ pc \in [Processes ->
              {"none", "get", "load", "ready", "write", "writing"}]
  /\ command \in [Processes -> Command]
  /\ confdirs \in [Processes -> Seq(DirSet)]
  /\ left \in [Processes -> Seq(DirSet)]
  /\ presets \in [Processes -> [Keys -> Active]]
  /\ origin \in [Processes -> {"none", "file", "config"}]
  /\ loads \in [Processes -> 0..MaxLoads]
  /\ stale \in [Processes -> BOOLEAN]

(* The files define k, and the preset of it that the foremost directory of a *)
(* list has.                                                                 *)
Defining(list, k) == {i \in DOMAIN list : files[list[i]][k] # None}

Foremost(list, k) ==
  LET i == CHOOSE i \in Defining(list, k) : \A j \in Defining(list, k) : i <= j
  IN  <<list[i], files[list[i]][k]>>

AsFilesSay(list, k, found) ==
  found = IF Defining(list, k) = {} THEN Nothing ELSE Foremost(list, k)

(* The list that a process loads backwards: the default list is itself       *)
(* backwards at every other load, the first included.                        *)
Ranking(p) ==
  IF command[p].default /\ loads[p] % 2 = 1 THEN Reverse(Dirs) ELSE Dirs

(* What comes from the files: each preset that a file defines, as the        *)
(* foremost directory now has it; and no other preset, unless the process    *)
(* has had time to load one that was removed since.                          *)
FromFiles(p) ==
  \A k \in Keys :
    \/ AsFilesSay(Ranking(p), k, presets[p][k])
    \/ Defining(Dirs, k) = {} /\ command[p].name = "control"

(* What comes from the cache: the first parts of it as the files have them,  *)
(* each preset in the one order or the other, and nothing of the parts that  *)
(* were not written yet.                                                     *)
FromCache(p) ==
  \E n \in 0..Parts : \A k \in Keys :
    IF Section[k] > n THEN presets[p][k] = Nothing
    ELSE \E list \in {Dirs, Reverse(Dirs)} :
           AsFilesSay(list, k, presets[p][k])

(* Whatever processes come, go, rebuild the cache at the same time or die    *)
(* over it, a process that is ready and whose files were not edited since it *)
(* or the builder of its cache began to read them has exactly what they say, *)
(* through the cache, through a reload or straight from the files; or the    *)
(* first parts of that, from a cache that nobody finished.                   *)
PresetsOfFiles ==
  \A p \in Processes : pc[p] = "ready" /\ ~stale[p] =>
    IF origin[p] = "config" THEN FromFiles(p) ELSE FromCache(p)

(* A process that read the configuration files itself applies the presets    *)
(* "per order of precedence" (root.go:191, nicy.1.md, CONFIGURATION.md).     *)
PrecedenceFromFiles ==
  \A p \in Processes :
    pc[p] = "ready" /\ origin[p] = "config" /\ ~stale[p] =>
      \A k \in Keys : Defining(Dirs, k) # {} =>
        AsFilesSay(Dirs, k, presets[p][k])
=============================================================================

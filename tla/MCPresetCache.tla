---------------------------- MODULE MCPresetCache ---------------------------
(* Small instances of PresetCache for TLC: the two default directories of    *)
(* root, a cgroup and a rule that either may define, and two processes, so   *)
(* that one can read or write the cache the other is writing.                *)
EXTENDS PresetCache, TLC

MCDirs == <<"site", "vendor">>
MCSection == "cgroup" :> 1 @@ "rule" :> 2
MCContents ==
  {("site" :> [k \in Keys |-> 1]) @@ ("vendor" :> ("cgroup" :> 1 @@ "rule" :> 0))}
Symmetry == Permutations(Processes)
=============================================================================

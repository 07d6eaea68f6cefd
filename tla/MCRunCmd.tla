------------------------------ MODULE MCRunCmd ------------------------------
(* A small instance of RunCmd for TLC.  Two cgroups, one of them maybe       *)
(* defined twice; the profile "default" beside "none", with a property       *)
(* and maybe a scope property and a cgroup of its own; a rule that may set   *)
(* anything, name a profile that nobody defines, or not exist; every request *)
(* that leads somewhere else.                                                *)
EXTENDS RunCmd

MCProfileFields == {"Nice", "Sched"}
MCScopeFields == {"CPUQuota", "MemoryMax"}

MCScopes == {s \in [MCScopeFields -> 0..2] : s["MemoryMax"] < 2}

Blank == [f \in MCScopeFields |-> 0]
Full == [f \in MCScopeFields |-> 1]
Quota == [Blank EXCEPT !["CPUQuota"] = 1]

All(scope, nice) ==
  [f \in MCProfileFields \cup MCScopeFields |->
     IF f \in MCProfileFields THEN nice ELSE scope[f]]

MCProfiles ==
  {[p \in {"none", "default"} |->
      IF p = "none" THEN [fields |-> All(Blank, 0), cgroup |-> "-"]
      ELSE [fields |-> All(s, 1), cgroup |-> c]] :
     s \in {Blank, Quota}, c \in {"-", "c1"}}

MCRules ==
  {{}} \cup
  {{[fields |-> All(s, n), profile |-> p, cgroup |-> c]} :
     s \in MCScopes, n \in {0, 2}, p \in {"-", "default", "lost"},
     c \in {"-", "c1", "c2"}}

(* c1 may have any definition, or two; c2 is defined in one of two ways or   *)
(* not.                                                                      *)
MCCgroups ==
  {[k \in {"c1", "c2"} |-> IF k = "c1" THEN a ELSE b] :
     a \in {<<>>} \cup {<<s>> : s \in MCScopes \ {Blank}}
            \cup {<<Quota, Full>>, <<Full, Quota>>},
     b \in {<<>>, <<Full>>, <<Quota>>}}

MCConfigs ==
  {[cgroups |-> c, profiles |-> p, rules |-> r, groups |-> g] :
     c \in MCCgroups, p \in MCProfiles, r \in MCRules,
     g \in {{}, {"default"}, {"none", "default"}}}

MCRequests ==
  {[preset |-> p, cgroup |-> "-", force |-> f] :
     p \in {"auto", "cgroup-only", "default", "lost"}, f \in BOOLEAN}
  \cup {[preset |-> "auto", cgroup |-> "c2", force |-> FALSE]}
=============================================================================

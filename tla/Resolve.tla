------------------------------ MODULE Resolve ------------------------------
(* From the presets of a configuration to the rule a command is run with, or *)
(* a running group is compared to: RequestRule and what it calls.  One       *)
(* application is looked at; a property of a preset is unset, or has a value.*)
EXTENDS Integers, Sequences, FiniteSets, SequencesExt

CONSTANTS
  ProfileFields,   \* the fields of BaseProfile
  ScopeFields,     \* the fields of BaseCgroup
  Values,          \* what a field may be set to
  Names,           \* the names of profiles and cgroups
  Configs,         \* the configurations to consider
  Requests         \* the requests to consider

Unset == 0
None == "-"        \* no profile key, no cgroup key

ASSUME FieldsAssumption ==
  /\ ProfileFields \cap ScopeFields = {} /\ Unset \notin Values
  /\ IsFiniteSet(ScopeFields)
  /\ {None, "none"} \subseteq Names

BaseProfile == [ProfileFields -> Values \cup {Unset}]
BaseCgroup == [ScopeFields -> Values \cup {Unset}]
Fields == ProfileFields \cup ScopeFields

BaseRule == [Fields -> Values \cup {Unset}]

(* A rule: its fields, and the keys of its profile and of its cgroup.        *)
Rule == [fields : BaseRule, profile : Names, cgroup : Names]

(* A configuration: the definitions of each cgroup, oldest first; the        *)
(* profiles; what "rules" says of the application, if anything; and the      *)
(* profiles whose assignments name it.                                       *)
IsConfig(c) ==
  /\ \A k \in DOMAIN c.cgroups : k \in Names /\ c.cgroups[k] \in Seq(BaseCgroup)
  /\ \A k \in DOMAIN c.profiles :
       k \in Names /\ c.profiles[k] \in [fields : BaseRule, cgroup : Names]
  /\ c.rules \subseteq Rule /\ c.groups \subseteq Names

ASSUME ConfigsAssumption ==
  /\ \A c \in Configs : IsConfig(c)
  /\ Requests \subseteq [preset : Names \cup {"auto", "cgroup-only"},
                        cgroup : Names, force : BOOLEAN]

VARIABLES config, request, result

resolveVars == <<config, request, result>>

IsSet(base, f) == base[f] # Unset
SetFields(base) == {f \in DOMAIN base : IsSet(base, f)}

ActivePreset(list) == Last(list)

HasCgroup(k) == k \in DOMAIN config.cgroups /\ config.cgroups[k] # <<>>
Cgroup(k) == ActivePreset(config.cgroups[k])
HasProfile(k) == k \in DOMAIN config.profiles
Profile(k) == config.profiles[k]

BlankRule ==
  [fields |-> [f \in Fields |-> Unset], profile |-> None, cgroup |-> None]

-----------------------------------------------------------------------------
(* Config.IterRules: the rules the configuration gives the application.      *)
(* Assignments come in map order, and the last of several is active.         *)
IterRules ==
  IF config.groups # {}
    THEN {[own EXCEPT !.profile = IF @ = None THEN g ELSE @] :
            g \in config.groups,
            own \in IF config.rules = {} THEN {BlankRule} ELSE config.rules}
    ELSE {[own EXCEPT !.profile = IF @ = None THEN "none" ELSE @] :
            own \in config.rules}

(* Profile.ToRule.                                                           *)
ToRule(k) ==
  [fields |-> Profile(k).fields, profile |-> k, cgroup |-> Profile(k).cgroup]

(* RawRule: the application's own rule or the default profile, or the        *)
(* profile asked for; {} when there is none.                                 *)
RawRule ==
  IF request.preset \in {"auto", "cgroup-only"}
    THEN IF IterRules # {} THEN IterRules
         ELSE IF HasProfile("default") THEN {ToRule("default")} ELSE {}
    ELSE IF HasProfile(request.preset) THEN {ToRule(request.preset)} ELSE {}

(* Slip: what the base sets replaces what the rule sets.                     *)
UpdateRuleAlways(base, r) ==
  [r EXCEPT !.fields = [f \in Fields |->
     IF f \in DOMAIN base /\ base[f] # Unset THEN base[f] ELSE @[f]]]

(* UpdateRule: fields of a base that are set fill those of the rule that are *)
(* not.                                                                      *)
UpdateRule(base, r) ==
  [r EXCEPT !.fields = [f \in Fields |->
     IF f \in DOMAIN base /\ @[f] = Unset THEN base[f] ELSE @[f]]]

(* ResetMatching: fields of a base that are set unset those of the rule.     *)
ResetMatching(base, r) ==
  [r EXCEPT !.fields = [f \in Fields |->
     IF f \in SetFields(base) THEN Unset ELSE @[f]]]

BaseProfileOf(k) == [f \in ProfileFields |-> Profile(k).fields[f]]

(* Expand, in two halves: the profile, then the cgroup.  Each may miss what  *)
(* the rule names.                                                           *)
FromProfile(r) ==
  IF r.profile = None THEN r
  ELSE [UpdateRule(BaseProfileOf(r.profile), r) EXCEPT
          !.cgroup = IF @ = None THEN Profile(r.profile).cgroup ELSE @]

FromCgroup(r) == IF r.cgroup = None THEN r ELSE UpdateRule(Cgroup(r.cgroup), r)

Expands(r) ==
  /\ r.profile # None => HasProfile(r.profile)
  /\ FromProfile(r).cgroup # None => HasCgroup(FromProfile(r).cgroup)

Expand(r) == FromCgroup(FromProfile(r))

(* CgroupCandidate: the cgroups that have most properties in common with     *)
(* base - provided that this is the number of properties of their FIRST      *)
(* definition; ties are broken by the order of a map.                        *)
Common(k, base) ==
  IF Cardinality(SetFields(Cgroup(k))) > Cardinality(SetFields(base)) THEN 0
  ELSE Cardinality({f \in SetFields(Cgroup(k)) : base[f] = Cgroup(k)[f]})

Candidates(base) ==
  LET eligible == {k \in DOMAIN config.cgroups :
                     /\ HasCgroup(k) /\ Common(k, base) > 0
                     /\ Cardinality(SetFields(config.cgroups[k][1]))
                          = Common(k, base)}
  IN  {k \in eligible : \A j \in eligible : Common(j, base) <= Common(k, base)}

ScopeOf(r) == [f \in ScopeFields |-> r.fields[f]]

CgroupOnly(r) ==
  [r EXCEPT !.profile = None,
            !.fields = [f \in Fields |->
                          IF f \in ProfileFields THEN Unset ELSE @[f]]]

(* Slip: the preset asked for is taken for the cgroup.                       *)
WithPreset(r) ==
  {IF request.cgroup = None THEN r ELSE [r EXCEPT !.cgroup = request.preset]}

(* RequestRule after Expand: the cgroup asked for, or one that matches best. *)
WithCgroup(r) ==
  LET asked == IF request.cgroup = None THEN r
               ELSE [r EXCEPT !.cgroup = request.cgroup]
      base == ScopeOf(asked)
  IN  IF request.force /\ asked.cgroup = None /\ Candidates(base) # {}
        THEN {[asked EXCEPT !.cgroup = k] : k \in Candidates(base)}
        ELSE {asked}

(* Slip: the properties of the slice stay in the rule.                       *)
RunnableAsIs(r) == r

(* Properties that come with the cgroup are reset, for its slice has them.   *)
Runnable(r) ==
  IF r.cgroup # None /\ HasCgroup(r.cgroup)
    THEN ResetMatching(Cgroup(r.cgroup), r) ELSE r

SliceProperties(r) ==
  IF r.cgroup # None /\ HasCgroup(r.cgroup) THEN SetFields(Cgroup(r.cgroup)) ELSE {}

Outcome(kind, raw, rule) == [kind |-> kind, raw |-> raw, rule |-> rule]

RequestRule ==
  IF RawRule = {} THEN {Outcome("empty", BlankRule, BlankRule)}
  ELSE UNION {
    IF ~Expands(raw) THEN {Outcome("fatal", raw, BlankRule)}
    ELSE LET full == IF request.preset = "cgroup-only" THEN CgroupOnly(Expand(raw))
                     ELSE Expand(raw)
         IN  {Outcome("rule", raw, Runnable(r)) : r \in WithCgroup(full)} :
           raw \in RawRule}

-----------------------------------------------------------------------------
ResolveInit == config \in Configs /\ request \in Requests /\ result = {}

Resolve ==
  /\ result = {}
  /\ \E r \in RequestRule : result' = {r}
  /\ UNCHANGED <<config, request>>

-----------------------------------------------------------------------------
ResolveTypeOK ==
  \A o \in result :
    /\ o.kind \in {"rule", "fatal", "empty"}
    /\ o.rule \in Rule

Resolved == {o \in result : o.kind = "rule"}

(* What a property of a process ends up as: the application's own value, or  *)
(* else the profile's, unless only the cgroup was asked for.                 *)
OwnBeforeProfile ==
  \A o \in Resolved : \A f \in ProfileFields :
    o.rule.fields[f] =
      IF request.preset = "cgroup-only" THEN Unset
      ELSE IF IsSet(o.raw.fields, f) THEN o.raw.fields[f]
      ELSE IF o.raw.profile # None THEN Profile(o.raw.profile).fields[f]
      ELSE Unset

(* A property is limited in one place: on the slice of the cgroup, or on the *)
(* scope of the application inside it.                                       *)
SliceOrScope ==
  \A o \in Resolved :
    SliceProperties(o.rule) \cap SetFields(ScopeOf(o.rule)) = {}

(* A cgroup is picked for a rule only if the "preset is a superset of        *)
(* candidate properties" (cache.go:288): whatever the slice of it sets, the  *)
(* rule set to the same value.                                               *)
ScopeKept ==
  \A o \in Resolved :
    /\ o.raw.cgroup = None /\ request.cgroup = None
    /\ o.raw.profile # None => Profile(o.raw.profile).cgroup = None
    => \A f \in SliceProperties(o.rule) :
         o.raw.fields[f] = Cgroup(o.rule.cgroup)[f]
=============================================================================

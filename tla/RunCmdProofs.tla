----------------------------- MODULE RunCmdProofs ---------------------------
(* For any properties, values, configurations and requests: what RequestRule *)
(* resolves to, and that a program is started as its rule says or not at     *)
(* all.                                                                      *)
EXTENDS RunCmd, SequenceTheorems, TLAPS

-----------------------------------------------------------------------------
(* What is left of a list of commands once the first one has run.            *)
LEMMA Receiving ==
  ASSUME NEW T, NEW s \in Seq(T), s # <<>>
  PROVE  /\ Head(s) \in T /\ Tail(s) \in Seq(T) /\ Len(Tail(s)) = Len(s) - 1
         /\ Range(s) = Range(Tail(s)) \cup {Head(s)}
<1> DEFINE h == <<Head(s)>>
<1>1. /\ Head(s) \in T /\ Tail(s) \in Seq(T) /\ Len(Tail(s)) = Len(s) - 1
      /\ h \in Seq(T) /\ Range(h) = {Head(s)}
  BY HeadTailProperties DEF Range
<1>2. s = h \o Tail(s)
  <2>1. /\ h \o Tail(s) \in Seq(T) /\ Len(h \o Tail(s)) = Len(s)
        /\ Len(s) \in Nat \ {0}
    BY <1>1, ConcatProperties, EmptySeq
  <2> QED
    BY <1>1, <2>1, ConcatProperties, HeadTailProperties, SeqEqual
<1> HIDE DEF h
<1>3. Range(h \o Tail(s)) = Range(h) \cup Range(Tail(s))
  BY <1>1, RangeConcatenation
<1> QED
  BY <1>1, <1>2, <1>3

LEMMA Nothing ==
  /\ \A T : <<>> \in Seq(T)
  /\ Len(<<>>) = 0 /\ Range(<<>>) = {}
BY DEF Range

(* Lists of one command, and of several.                                     *)
LEMMA OneItem ==
  ASSUME NEW T, NEW x \in T
  PROVE  <<x>> \in Seq(T) /\ Range(<<x>>) = {x}
BY DEF Range

LEMMA Joined ==
  ASSUME NEW T, NEW s \in Seq(T), NEW t \in Seq(T)
  PROVE  s \o t \in Seq(T) /\ Range(s \o t) = Range(s) \cup Range(t)
BY RangeConcatenation

-----------------------------------------------------------------------------

Value == Values \cup {Unset}

Known == config \in Configs /\ request \in Requests

-----------------------------------------------------------------------------
(* What the parts of RequestRule do to a rule.                               *)

(* The configuration is what its files may say.                              *)
LEMMA ConfigType ==
  ASSUME Known
  PROVE  IsConfig(config) /\ request.cgroup \in Names
BY ConfigsAssumption DEF Known

LEMMA CgroupType ==
  ASSUME Known, NEW k, HasCgroup(k)
  PROVE  Cgroup(k) \in BaseCgroup
<1>1. config.cgroups[k] \in Seq(BaseCgroup) /\ config.cgroups[k] # <<>>
  BY ConfigType DEF HasCgroup, IsConfig
<1> DEFINE list == config.cgroups[k]
<1>2. Len(list) \in DOMAIN list
  <2>1. Len(list) \in Nat /\ Len(list) # 0 /\ DOMAIN list = 1 .. Len(list)
    BY <1>1, LenProperties, EmptySeq
  <2> QED
    BY <2>1
<1>3. list[Len(list)] \in BaseCgroup
  BY <1>1, <1>2, ElementOfSeq, LenProperties
<1> QED
  BY <1>3 DEF Cgroup, ActivePreset, Last

LEMMA ProfileType ==
  ASSUME Known, NEW k, HasProfile(k)
  PROVE  k \in Names /\ Profile(k) \in [fields : BaseRule, cgroup : Names]
BY ConfigType DEF HasProfile, Profile, IsConfig

LEMMA BlankType == BlankRule \in Rule
<1> DEFINE blank == [f \in Fields |-> Unset]
<1>1. blank \in BaseRule
  BY DEF BaseRule
<1>2. None \in Names
  BY FieldsAssumption
<1>3. BlankRule = [fields |-> blank, profile |-> None, cgroup |-> None]
  BY DEF BlankRule
<1> HIDE DEF blank
<1> QED
  BY <1>1, <1>2, <1>3 DEF Rule

LEMMA RawRuleType ==
  ASSUME Known
  PROVE  RawRule \subseteq Rule
<1>1. config.rules \subseteq Rule /\ config.groups \subseteq Names
  BY ConfigType DEF IsConfig
<1>2. IterRules \subseteq Rule
  <2>1. ASSUME NEW own \in Rule, NEW g \in Names
        PROVE  [own EXCEPT !.profile = IF @ = None THEN g ELSE @] \in Rule
    BY <2>1 DEF Rule
  <2>2. CASE config.groups # {}
    <3>1. (IF config.rules = {} THEN {BlankRule} ELSE config.rules) \subseteq Rule
      BY <1>1, BlankType
    <3> QED
      BY <1>1, <2>1, <2>2, <3>1 DEF IterRules
  <2>3. CASE config.groups = {}
    <3>1. "none" \in Names
      BY FieldsAssumption
    <3>2. \A own \in Rule :
            [own EXCEPT !.profile = IF @ = None THEN "none" ELSE @] \in Rule
      BY <2>1, <3>1
    <3>3. IterRules = {[own EXCEPT !.profile = IF @ = None THEN "none" ELSE @] :
                         own \in config.rules}
      BY <2>3 DEF IterRules
    <3> QED
      BY <1>1, <3>2, <3>3
  <2> QED
    BY <2>2, <2>3
<1>3. \A k : HasProfile(k) => ToRule(k) \in Rule
  BY ProfileType DEF ToRule, Rule
<1> QED
  BY <1>2, <1>3 DEF RawRule

(* A base fills what is unset, or unsets what is set, and nothing else.      *)
LEMMA UpdateRuleOf ==
  ASSUME NEW r \in Rule, NEW D \in SUBSET Fields, NEW base \in [D -> Value]
  PROVE  /\ UpdateRule(base, r) \in Rule
         /\ UpdateRule(base, r).profile = r.profile
         /\ UpdateRule(base, r).cgroup = r.cgroup
         /\ \A f \in Fields :
              UpdateRule(base, r).fields[f] =
                IF f \in D /\ r.fields[f] = Unset THEN base[f] ELSE r.fields[f]
<1> DEFINE new == [f \in Fields |->
              IF f \in D /\ r.fields[f] = Unset THEN base[f] ELSE r.fields[f]]
<1>1. new \in BaseRule
  BY DEF BaseRule, Rule, Value
<1>2. UpdateRule(base, r) = [r EXCEPT !.fields = new]
  BY DEF UpdateRule, Rule
<1>3. \A f \in Fields :
        new[f] = IF f \in D /\ r.fields[f] = Unset THEN base[f] ELSE r.fields[f]
  OBVIOUS
<1> HIDE DEF new
<1>4. /\ [r EXCEPT !.fields = new] \in Rule
      /\ [r EXCEPT !.fields = new].fields = new
      /\ [r EXCEPT !.fields = new].profile = r.profile
      /\ [r EXCEPT !.fields = new].cgroup = r.cgroup
  BY <1>1 DEF Rule
<1> QED
  BY <1>2, <1>3, <1>4

LEMMA ResetMatchingOf ==
  ASSUME NEW r \in Rule, NEW base \in BaseCgroup
  PROVE  /\ ResetMatching(base, r) \in Rule
         /\ ResetMatching(base, r).profile = r.profile
         /\ ResetMatching(base, r).cgroup = r.cgroup
         /\ \A f \in Fields :
              ResetMatching(base, r).fields[f] =
                IF f \in SetFields(base) THEN Unset ELSE r.fields[f]
<1> DEFINE new == [f \in Fields |->
              IF f \in SetFields(base) THEN Unset ELSE r.fields[f]]
<1>1. new \in BaseRule
  BY DEF BaseRule, Rule
<1>2. ResetMatching(base, r) = [r EXCEPT !.fields = new]
  BY DEF ResetMatching, Rule
<1>3. \A f \in Fields :
        new[f] = IF f \in SetFields(base) THEN Unset ELSE r.fields[f]
  OBVIOUS
<1> HIDE DEF new
<1>4. /\ [r EXCEPT !.fields = new] \in Rule
      /\ [r EXCEPT !.fields = new].fields = new
      /\ [r EXCEPT !.fields = new].profile = r.profile
      /\ [r EXCEPT !.fields = new].cgroup = r.cgroup
  BY <1>1 DEF Rule
<1> QED
  BY <1>2, <1>3, <1>4

(* Expand keeps what the rule sets, and takes of the profile what it does    *)
(* not; only scope properties come from the cgroup.                          *)
LEMMA ExpandOf ==
  ASSUME Known, NEW r \in Rule, Expands(r)
  PROVE  /\ Expand(r) \in Rule
         /\ \A f \in Fields : IsSet(r.fields, f) => Expand(r).fields[f] = r.fields[f]
         /\ \A f \in ProfileFields :
              Expand(r).fields[f] =
                IF IsSet(r.fields, f) THEN r.fields[f]
                ELSE IF r.profile # None THEN Profile(r.profile).fields[f]
                ELSE Unset
         /\ \A f \in ScopeFields :
              Expand(r).fields[f] =
                IF IsSet(r.fields, f) THEN r.fields[f]
                ELSE IF FromProfile(r).cgroup # None
                       THEN Cgroup(FromProfile(r).cgroup)[f]
                ELSE Unset
<1> DEFINE p == FromProfile(r)
<1>1. /\ p \in Rule
      /\ \A f \in Fields : IsSet(r.fields, f) => p.fields[f] = r.fields[f]
      /\ \A f \in ProfileFields :
           p.fields[f] = IF IsSet(r.fields, f) THEN r.fields[f]
                         ELSE IF r.profile # None THEN Profile(r.profile).fields[f]
                         ELSE Unset
      /\ \A f \in ScopeFields : p.fields[f] = r.fields[f]
  <2>1. CASE r.profile = None
    BY <2>1 DEF FromProfile, IsSet
  <2>2. CASE r.profile # None
    <3> DEFINE base == BaseProfileOf(r.profile)
               u == UpdateRule(base, r)
    <3>1. Profile(r.profile) \in [fields : BaseRule, cgroup : Names]
      BY <2>2, ProfileType DEF Expands
    <3>2. /\ ProfileFields \in SUBSET Fields /\ base \in [ProfileFields -> Value]
          /\ \A f \in ProfileFields : base[f] = Profile(r.profile).fields[f]
      BY <3>1 DEF BaseProfileOf, BaseRule, Fields, Value
    <3> HIDE DEF base
    <3>3. /\ u \in Rule
          /\ \A f \in Fields :
               u.fields[f] = IF f \in ProfileFields /\ r.fields[f] = Unset
                               THEN base[f] ELSE r.fields[f]
      BY <3>2, UpdateRuleOf
    <3>4. p = [u EXCEPT !.cgroup = IF @ = None THEN Profile(r.profile).cgroup ELSE @]
      BY <2>2 DEF FromProfile, base
    <3> HIDE DEF u, p
    <3>5. p \in Rule /\ p.fields = u.fields
      BY <3>1, <3>3, <3>4 DEF Rule
    <3>6. \A f \in ScopeFields : f \in Fields /\ f \notin ProfileFields
      BY FieldsAssumption DEF Fields
    <3> QED
      BY <2>2, <3>2, <3>3, <3>5, <3>6 DEF IsSet
  <2> QED
    BY <2>1, <2>2
<1>2. Expand(r) = FromCgroup(p)
  BY DEF Expand
<1>3. p.cgroup # None => HasCgroup(p.cgroup)
  BY DEF Expands
<1>6. p = FromProfile(r)
  OBVIOUS
<1> HIDE DEF p
<1>4. CASE p.cgroup = None
  BY <1>1, <1>2, <1>4, <1>6 DEF FromCgroup, IsSet
<1>5. CASE p.cgroup # None
  <2> DEFINE base == Cgroup(p.cgroup)
  <2>1. base \in [ScopeFields -> Value] /\ ScopeFields \in SUBSET Fields
    BY <1>3, <1>5, CgroupType DEF BaseCgroup, Value, Fields
  <2>2. Expand(r) = UpdateRule(base, p)
    BY <1>2, <1>5 DEF FromCgroup
  <2> HIDE DEF base
  <2>3. /\ Expand(r) \in Rule
        /\ \A f \in Fields :
             Expand(r).fields[f] = IF f \in ScopeFields /\ p.fields[f] = Unset
                                     THEN base[f] ELSE p.fields[f]
    BY <1>1, <2>1, <2>2, UpdateRuleOf
  <2>4. /\ \A f \in ProfileFields : f \in Fields /\ f \notin ScopeFields
        /\ ScopeFields \subseteq Fields
    BY FieldsAssumption DEF Fields
  <2>5. \A f \in ScopeFields :
          Expand(r).fields[f] = IF IsSet(r.fields, f) THEN r.fields[f]
                                ELSE Cgroup(FromProfile(r).cgroup)[f]
    BY <1>1, <1>6, <2>3, <2>4 DEF IsSet, base
  <2> QED
    BY <1>1, <1>5, <1>6, <2>3, <2>4, <2>5 DEF IsSet
<1> QED
  BY <1>4, <1>5


(* A cgroup that is asked for, or found, changes no property of the rule.    *)
LEMMA WithCgroupOf ==
  ASSUME Known, NEW r \in Rule, NEW x \in WithCgroup(r)
  PROVE  x \in Rule /\ x.fields = r.fields
<1> DEFINE asked == IF request.cgroup = None THEN r
                    ELSE [r EXCEPT !.cgroup = request.cgroup]
<1>1. asked \in Rule /\ asked.fields = r.fields
  BY ConfigType DEF Rule
<1>2. \/ x = asked
      \/ \E k \in Candidates(ScopeOf(asked)) : x = [asked EXCEPT !.cgroup = k]
  BY DEF WithCgroup
<1> HIDE DEF asked
<1>3. Candidates(ScopeOf(asked)) \subseteq Names
  BY ConfigType DEF Candidates, IsConfig
<1> QED
  BY <1>1, <1>2, <1>3 DEF Rule

LEMMA CgroupOnlyOf ==
  ASSUME NEW r \in Rule
  PROVE  /\ CgroupOnly(r) \in Rule
         /\ \A f \in ProfileFields : CgroupOnly(r).fields[f] = Unset
         /\ \A f \in ScopeFields : CgroupOnly(r).fields[f] = r.fields[f]
<1> DEFINE new == [f \in Fields |->
              IF f \in ProfileFields THEN Unset ELSE r.fields[f]]
<1>1. new \in BaseRule
  BY DEF BaseRule, Rule
<1>2. CgroupOnly(r) = [r EXCEPT !.profile = None, !.fields = new]
  BY DEF CgroupOnly, Rule
<1>3. /\ \A f \in ProfileFields : new[f] = Unset
      /\ \A f \in ScopeFields : new[f] = r.fields[f]
  BY FieldsAssumption DEF Fields
<1>4. None \in Names
  BY FieldsAssumption
<1> HIDE DEF new
<1>5. /\ [r EXCEPT !.profile = None, !.fields = new] \in Rule
      /\ [r EXCEPT !.profile = None, !.fields = new].fields = new
  BY <1>1, <1>4 DEF Rule
<1> QED
  BY <1>2, <1>3, <1>5

(* A rule that is fit to be run leaves to the slice what the slice has.      *)
LEMMA RunnableOf ==
  ASSUME Known, NEW r \in Rule
  PROVE  /\ Runnable(r) \in Rule
         /\ \A f \in ProfileFields : Runnable(r).fields[f] = r.fields[f]
         /\ \A f \in ScopeFields :
              f \notin SliceProperties(Runnable(r)) =>
                Runnable(r).fields[f] = r.fields[f]
         /\ \A f \in SliceProperties(Runnable(r)) :
              f \in Fields /\ ~IsSet(Runnable(r).fields, f)
<1>1. CASE ~(r.cgroup # None /\ HasCgroup(r.cgroup))
  <2>1. Runnable(r) = r /\ SliceProperties(r) = {}
    BY <1>1 DEF Runnable, SliceProperties
  <2> QED
    BY <2>1
<1>2. CASE r.cgroup # None /\ HasCgroup(r.cgroup)
  <2> DEFINE base == Cgroup(r.cgroup)
             x == ResetMatching(base, r)
  <2>1. base \in BaseCgroup
    BY <1>2, CgroupType
  <2>2. Runnable(r) = x
    BY <1>2 DEF Runnable
  <2>3. /\ x \in Rule /\ x.cgroup = r.cgroup
        /\ \A f \in Fields :
             x.fields[f] = IF f \in SetFields(base) THEN Unset ELSE r.fields[f]
    BY <2>1, ResetMatchingOf
  <2>4. SetFields(base) \subseteq ScopeFields
    BY <2>1 DEF SetFields, BaseCgroup
  <2>5. SliceProperties(x) = SetFields(base)
    BY <1>2, <2>3 DEF SliceProperties
  <2> HIDE DEF base, x
  <2>6. /\ \A f \in ProfileFields : f \in Fields /\ f \notin SetFields(base)
        /\ \A f \in ScopeFields : f \in Fields
    BY <2>4, FieldsAssumption DEF Fields
  <2> QED
    BY <2>2, <2>3, <2>4, <2>5, <2>6 DEF IsSet
<1> QED
  BY <1>1, <1>2

-----------------------------------------------------------------------------
(* What RequestRule promises of each outcome, whatever the configuration.    *)
OwnFirst(o) ==
  \A f \in ProfileFields :
    o.rule.fields[f] =
      IF request.preset = "cgroup-only" THEN Unset
      ELSE IF IsSet(o.raw.fields, f) THEN o.raw.fields[f]
      ELSE IF o.raw.profile # None THEN Profile(o.raw.profile).fields[f]
      ELSE Unset

InOnePlace(o) ==
  \A f \in SliceProperties(o.rule) : f \in Fields /\ ~IsSet(o.rule.fields, f)

(* The value of a scope property that no slice decides.                      *)
Decided(raw, f) ==
  IF IsSet(raw.fields, f) THEN raw.fields[f]
  ELSE IF FromProfile(raw).cgroup # None THEN Cgroup(FromProfile(raw).cgroup)[f]
  ELSE Unset

Limited(o) ==
  \A f \in ScopeFields :
    f \notin SliceProperties(o.rule) => o.rule.fields[f] = Decided(o.raw, f)

Good(o) ==
  /\ o.kind \in {"rule", "fatal", "empty"} /\ o.rule \in Rule
  /\ o.kind = "rule" => OwnFirst(o) /\ InOnePlace(o) /\ Limited(o)

LEMMA RequestRuleGood ==
  ASSUME Known, NEW o \in RequestRule
  PROVE  Good(o)
<1>1. CASE RawRule = {}
  <2>1. o = Outcome("empty", BlankRule, BlankRule)
    BY <1>1 DEF RequestRule
  <2> QED
    BY <2>1, BlankType DEF Outcome, Good
<1>2. CASE RawRule # {}
  <2>1. PICK raw \in RawRule :
          o \in IF ~Expands(raw) THEN {Outcome("fatal", raw, BlankRule)}
                ELSE LET full == IF request.preset = "cgroup-only"
                                   THEN CgroupOnly(Expand(raw)) ELSE Expand(raw)
                     IN  {Outcome("rule", raw, Runnable(r)) : r \in WithCgroup(full)}
    BY <1>2 DEF RequestRule
  <2>2. raw \in Rule
    BY RawRuleType
  <2>3. CASE ~Expands(raw)
    BY <2>1, <2>3, BlankType DEF Outcome, Good
  <2>4. CASE Expands(raw)
    <3> DEFINE full == IF request.preset = "cgroup-only"
                         THEN CgroupOnly(Expand(raw)) ELSE Expand(raw)
    <3>1. PICK r \in WithCgroup(full) : o = Outcome("rule", raw, Runnable(r))
      BY <2>1, <2>4
    <3>2. /\ Expand(raw) \in Rule
          /\ \A f \in Fields :
               IsSet(raw.fields, f) => Expand(raw).fields[f] = raw.fields[f]
          /\ \A f \in ProfileFields :
               Expand(raw).fields[f] =
                 IF IsSet(raw.fields, f) THEN raw.fields[f]
                 ELSE IF raw.profile # None THEN Profile(raw.profile).fields[f]
                 ELSE Unset
          /\ \A f \in ScopeFields : Expand(raw).fields[f] = Decided(raw, f)
      BY <2>2, <2>4, ExpandOf DEF Decided
    <3>3. /\ full \in Rule
          /\ \A f \in ScopeFields : full.fields[f] = Expand(raw).fields[f]
          /\ \A f \in ProfileFields :
               full.fields[f] = IF request.preset = "cgroup-only" THEN Unset
                                ELSE Expand(raw).fields[f]
      BY <3>2, CgroupOnlyOf
    <3> HIDE DEF full
    <3>4. r \in Rule /\ r.fields = full.fields
      BY <3>1, <3>3, WithCgroupOf
    <3>5. /\ Runnable(r) \in Rule
          /\ \A f \in ProfileFields : Runnable(r).fields[f] = r.fields[f]
          /\ \A f \in ScopeFields :
               f \notin SliceProperties(Runnable(r)) =>
                 Runnable(r).fields[f] = r.fields[f]
          /\ \A f \in SliceProperties(Runnable(r)) :
               f \in Fields /\ ~IsSet(Runnable(r).fields, f)
      BY <3>4, RunnableOf
    <3>6. o.kind = "rule" /\ o.raw = raw /\ o.rule = Runnable(r)
      BY <3>1 DEF Outcome
    <3>7. OwnFirst(o)
      BY <3>2, <3>3, <3>4, <3>5, <3>6 DEF OwnFirst
    <3>8. InOnePlace(o)
      BY <3>5, <3>6 DEF InOnePlace
    <3>9. Limited(o)
      BY <3>2, <3>3, <3>4, <3>5, <3>6 DEF Limited
    <3> QED
      BY <3>5, <3>6, <3>7, <3>8, <3>9 DEF Good
  <2> QED
    BY <2>3, <2>4
<1> QED
  BY <1>1, <1>2


-----------------------------------------------------------------------------
(* The commands of a rule: what the utilities that are left will set, and    *)
(* what the slice will be when the others have been run.                     *)
Utils == {"renice", "chrt", "ionice", "choom"}
Left(list) == UNION {Sets[u] : u \in Range(list)}
Wanted(r) == {"Nice"} \cup (SetFields(r.fields) \cap ProfileFields)

Lists ==
  {<<"slice", "props", "exec">>, <<"slice", "exec">>, <<"props", "exec">>,
   <<"exec">>}
UnitAfter(list, u) ==
  IF list \in {<<"slice", "props", "exec">>, <<"props", "exec">>} THEN "set"
  ELSE IF list = <<"slice", "exec">> THEN "started"
  ELSE u
FinalUnit(r) ==
  IF SliceProperties(r) # {} THEN "set"
  ELSE IF r.cgroup # None THEN "started"
  ELSE "stopped"

LEMMA SetsOf ==
  /\ DOMAIN Sets = Utils
  /\ Sets["renice"] = {"Nice"} /\ Sets["chrt"] = {"Sched"}
  /\ Sets["ionice"] = {"IOClass"} /\ Sets["choom"] = {"OomScoreAdj"}
BY DEF Sets, Utils

LEMMA OnlyList ==
  ASSUME NEW T, NEW s \in Seq(T), NEW c \in BOOLEAN
  PROVE  /\ Only(c, s) \in Seq(T)
         /\ Range(Only(c, s)) = IF c THEN Range(s) ELSE {}
BY Nothing DEF Only

LEMMA UtilitiesOf ==
  ASSUME NEW r \in Rule
  PROVE  Utilities(r) \in Seq(Utils) /\ Left(Utilities(r)) = Wanted(r)
<1> DEFINE set == SetFields(r.fields)
           a == <<"renice">>
           b == Only("Sched" \in set, <<"chrt">>)
           e == Only("IOClass" \in set, <<"ionice">>)
           f == Only("OomScoreAdj" \in set, <<"choom">>)
           ab == a \o b
           abe == ab \o e
           abef == abe \o f
<1>1. a \in Seq(Utils) /\ Range(a) = {"renice"}
  BY OneItem DEF Utils
<1>2. b \in Seq(Utils) /\ Range(b) = IF "Sched" \in set THEN {"chrt"} ELSE {}
  <2>1. <<"chrt">> \in Seq(Utils) /\ Range(<<"chrt">>) = {"chrt"}
    BY OneItem DEF Utils
  <2>2. ("Sched" \in set) \in BOOLEAN
    OBVIOUS
  <2> QED
    BY <2>1, <2>2, OnlyList
<1>3. e \in Seq(Utils) /\ Range(e) = IF "IOClass" \in set THEN {"ionice"} ELSE {}
  <2>1. <<"ionice">> \in Seq(Utils) /\ Range(<<"ionice">>) = {"ionice"}
    BY OneItem DEF Utils
  <2>2. ("IOClass" \in set) \in BOOLEAN
    OBVIOUS
  <2> QED
    BY <2>1, <2>2, OnlyList
<1>4. f \in Seq(Utils) /\ Range(f) = IF "OomScoreAdj" \in set THEN {"choom"} ELSE {}
  <2>1. <<"choom">> \in Seq(Utils) /\ Range(<<"choom">>) = {"choom"}
    BY OneItem DEF Utils
  <2>2. ("OomScoreAdj" \in set) \in BOOLEAN
    OBVIOUS
  <2> QED
    BY <2>1, <2>2, OnlyList
<1>5. Utilities(r) = abef
  BY DEF Utilities
<1> HIDE DEF a, b, e, f
<1>6. ab \in Seq(Utils) /\ Range(ab) = Range(a) \cup Range(b)
  BY <1>1, <1>2, Joined
<1> HIDE DEF ab
<1>7. abe \in Seq(Utils) /\ Range(abe) = Range(ab) \cup Range(e)
  BY <1>3, <1>6, Joined
<1> HIDE DEF abe
<1>8. abef \in Seq(Utils) /\ Range(abef) = Range(abe) \cup Range(f)
  BY <1>4, <1>7, Joined
<1> HIDE DEF abef
<1>9. /\ "renice" \in Range(abef)
      /\ "chrt" \in Range(abef) <=> "Sched" \in set
      /\ "ionice" \in Range(abef) <=> "IOClass" \in set
      /\ "choom" \in Range(abef) <=> "OomScoreAdj" \in set
      /\ Range(abef) \subseteq Utils
  BY <1>1, <1>2, <1>3, <1>4, <1>6, <1>7, <1>8 DEF Utils
<1>10. set \subseteq Fields /\ ScopeFields \cap Attributes = {}
       /\ ProfileFields \subseteq Attributes
  BY RunAssumption DEF Rule, BaseRule, SetFields
<1>11. Wanted(r) = {"Nice"} \cup (set \cap {"Sched", "IOClass", "OomScoreAdj"})
       \/ Wanted(r) = {"Nice"} \cup (set \cap Attributes)
  BY <1>10 DEF Wanted, Attributes, Fields
<1>12. Left(abef) = {"Nice"} \cup (set \cap {"Sched", "IOClass", "OomScoreAdj"})
  <2> HIDE DEF set
  <2>1. ASSUME NEW x \in Left(abef)
        PROVE  x = "Nice" \/ x \in set \cap {"Sched", "IOClass", "OomScoreAdj"}
    <3>1. PICK u \in Range(abef) : x \in Sets[u]
      BY <2>1 DEF Left
    <3> QED
      BY <1>9, <3>1, SetsOf DEF Utils
  <2>2. "Nice" \in Left(abef)
    BY <1>9, SetsOf DEF Left
  <2>3. "Sched" \in set => "Sched" \in Left(abef)
    BY <1>9, SetsOf DEF Left
  <2>4. "IOClass" \in set => "IOClass" \in Left(abef)
    BY <1>9, SetsOf DEF Left
  <2>5. "OomScoreAdj" \in set => "OomScoreAdj" \in Left(abef)
    BY <1>9, SetsOf DEF Left
  <2> QED
    BY <2>1, <2>2, <2>3, <2>4, <2>5
<1>13. {"Nice"} \cup (set \cap Attributes)
         = {"Nice"} \cup (set \cap {"Sched", "IOClass", "OomScoreAdj"})
  BY DEF Attributes
<1> QED
  BY <1>5, <1>8, <1>11, <1>12, <1>13

(* Tuples, one by one.                                                       *)
LEMMA Pair ==
  ASSUME NEW x, NEW y
  PROVE  <<x>> \o <<y>> = <<x, y>>
<1> DEFINE T == {x, y}
           s == <<x>>
           t == <<y>>
           p == <<x, y>>
<1>1. /\ s \in Seq(T) /\ Len(s) = 1 /\ s[1] = x
      /\ t \in Seq(T) /\ Len(t) = 1 /\ t[1] = y
      /\ p \in Seq(T) /\ Len(p) = 2 /\ p[1] = x /\ p[2] = y
  OBVIOUS
<1> HIDE DEF T, s, t, p
<1>2. /\ s \o t \in Seq(T) /\ Len(s \o t) = 2
      /\ (s \o t)[1] = x /\ (s \o t)[2] = y
  BY <1>1, ConcatProperties
<1>3. \A i \in 1 .. 2 : (s \o t)[i] = p[i]
  BY <1>1, <1>2
<1>4. s \o t = p
  BY <1>1, <1>2, <1>3, SeqEqual
<1> QED
  BY <1>4 DEF s, t, p

LEMMA Triple ==
  ASSUME NEW x, NEW y, NEW z
  PROVE  <<x, y>> \o <<z>> = <<x, y, z>>
<1> DEFINE T == {x, y, z}
           s == <<x, y>>
           t == <<z>>
           p == <<x, y, z>>
<1>1. /\ s \in Seq(T) /\ Len(s) = 2 /\ s[1] = x /\ s[2] = y
      /\ t \in Seq(T) /\ Len(t) = 1 /\ t[1] = z
      /\ p \in Seq(T) /\ Len(p) = 3 /\ p[1] = x /\ p[2] = y /\ p[3] = z
  OBVIOUS
<1> HIDE DEF T, s, t, p
<1>2. /\ s \o t \in Seq(T) /\ Len(s \o t) = 3
      /\ (s \o t)[1] = x /\ (s \o t)[2] = y /\ (s \o t)[3] = z
  BY <1>1, ConcatProperties
<1>3. \A i \in 1 .. 3 : (s \o t)[i] = p[i]
  BY <1>1, <1>2
<1>4. s \o t = p
  BY <1>1, <1>2, <1>3, SeqEqual
<1> QED
  BY <1>4 DEF s, t, p

LEMMA BeforeOne ==
  ASSUME NEW x
  PROVE  <<>> \o <<x>> = <<x>> /\ <<x>> \o <<>> = <<x>>
<1>1. <<x>> \in Seq({x})
  OBVIOUS
<1> QED
  BY <1>1, ConcatEmptySeq

LEMMA ExecCommandsOf ==
  ASSUME NEW r \in Rule
  PROVE  /\ ExecCommands(r) \in Lists
         /\ UnitAfter(ExecCommands(r), "stopped") = FinalUnit(r)
<1>1. CASE r.cgroup # None /\ SliceProperties(r) # {}
  <2>1. ExecCommands(r) = <<"slice", "props", "exec">>
    <3>1. ExecCommands(r) = (<<"slice">> \o <<"props">>) \o <<"exec">>
      BY <1>1 DEF ExecCommands, Only
    <3>2. <<"slice">> \o <<"props">> = <<"slice", "props">>
      BY Pair
    <3>3. <<"slice", "props">> \o <<"exec">> = <<"slice", "props", "exec">>
      BY Triple
    <3> QED
      BY <3>1, <3>2, <3>3, Zenon
  <2> QED
    BY <1>1, <2>1 DEF Lists, UnitAfter, FinalUnit
<1>2. CASE r.cgroup # None /\ SliceProperties(r) = {}
  <2>1. ExecCommands(r) = <<"slice", "exec">>
    BY <1>2, Pair, BeforeOne DEF ExecCommands, Only
  <2> QED
    BY <1>2, <2>1 DEF Lists, UnitAfter, FinalUnit
<1>3. CASE r.cgroup = None /\ SliceProperties(r) # {}
  <2>1. ExecCommands(r) = <<"props", "exec">>
    BY <1>3, Pair, BeforeOne DEF ExecCommands, Only
  <2> QED
    BY <1>3, <2>1 DEF Lists, UnitAfter, FinalUnit
<1>4. CASE r.cgroup = None /\ SliceProperties(r) = {}
  <2>1. ExecCommands(r) = <<"exec">>
    BY <1>4 DEF ExecCommands, Only
  <2> QED
    BY <1>4, <2>1 DEF Lists, UnitAfter, FinalUnit
<1> QED
  BY <1>1, <1>2, <1>3, <1>4

(* One command of the list less.                                             *)
LEMMA ListsLess ==
  ASSUME NEW s \in Lists, Head(s) # "exec", NEW u
  PROVE  /\ Tail(s) \in Lists
         /\ UnitAfter(Tail(s), IF Head(s) = "slice" THEN "started" ELSE "set")
              = UnitAfter(s, u)
<1>1. CASE s = <<"slice", "props", "exec">>
  <2>1. Tail(s) = <<"props", "exec">>
    BY <1>1
  <2> QED
    BY <1>1, <2>1 DEF Lists, UnitAfter
<1>2. CASE s = <<"slice", "exec">>
  <2>1. Tail(s) = <<"exec">> /\ Head(s) = "slice"
    BY <1>2
  <2>2. s # <<"props", "exec">> /\ s # <<"slice", "props", "exec">>
    BY <1>2
  <2>3. /\ <<"exec">> # <<"props", "exec">> /\ <<"exec">> # <<"slice", "exec">>
        /\ <<"exec">> # <<"slice", "props", "exec">>
    OBVIOUS
  <2> QED
    BY <1>2, <2>1, <2>2, <2>3 DEF Lists, UnitAfter
<1>3. CASE s = <<"props", "exec">>
  <2>1. Tail(s) = <<"exec">> /\ Head(s) = "props"
    BY <1>3
  <2>2. /\ <<"exec">> # <<"props", "exec">> /\ <<"exec">> # <<"slice", "exec">>
        /\ <<"exec">> # <<"slice", "props", "exec">>
    OBVIOUS
  <2> QED
    BY <1>3, <2>1, <2>2 DEF Lists, UnitAfter
<1>4. CASE s = <<"exec">>
  BY <1>4
<1> QED
  BY <1>1, <1>2, <1>3, <1>4 DEF Lists

LEMMA ListsEnd ==
  ASSUME NEW s \in Lists, Head(s) = "exec", NEW u
  PROVE  UnitAfter(s, u) = u
BY DEF Lists, UnitAfter

LEMMA ListsType == Lists \subseteq Seq({"slice", "props", "exec"})
BY DEF Lists


-----------------------------------------------------------------------------
(* The inductive invariant, in parts.                                        *)

Steady == Known /\ \A o \in result : Good(o)

RunTypes ==
  /\ phase \in {"split", "request", "prepare", "ready", "utils", "rest",
                "ended"}
  /\ utils \in Seq(Utils) /\ rest \in Seq({"slice", "props", "exec"})
  /\ caps \in {"own", "ambient", "none"} /\ attrs \subseteq Attributes
  /\ unit \in {"stopped", "started", "set"}
  /\ how \in {"nobody", "nicy", "script"} /\ skipped \in BOOLEAN
  /\ status \in {"running", "program", "exit0", "exit1"}

One == \E o : result = {o}

(* What each stage has and has not yet.                                      *)
Stages ==
  /\ phase \in {"split", "request"} => result = {}
  /\ phase \in {"prepare", "ready", "utils", "rest"} \/ status = "program" => One
  /\ phase \in {"split", "request", "prepare"} => attrs = {} /\ unit = "stopped"
  /\ phase = "ended" <=> status # "running"
  /\ phase = "rest" => utils = <<>>

(* What has been done and what is left to do make what the rule says.        *)
Planned ==
  /\ phase \in {"ready", "utils", "rest"} /\ ~skipped =>
       attrs \cup Left(utils) = Wanted(JobRule)
  /\ phase \in {"ready", "utils"} =>
       rest = ExecCommands(JobRule) /\ unit = "stopped"
  /\ phase = "rest" /\ ~skipped =>
       rest \in Lists /\ UnitAfter(rest, unit) = FinalUnit(JobRule)

RunInv ==
  /\ Steady /\ RunTypes /\ Stages /\ Planned
  /\ StartedAsResolved /\ NothingInherited

LEMMA JobRuleType ==
  ASSUME Steady, One
  PROVE  JobRule \in Rule
<1>1. PICK o : result = {o}
  BY DEF One
<1>2. (CHOOSE x \in result : TRUE) = o
  BY <1>1
<1> QED
  BY <1>1, <1>2 DEF JobRule, Steady, Good

LEMMA LeftOf ==
  /\ Left(<<>>) = {}
  /\ \A s \in Seq(Utils) : s # <<>> =>
       Left(s) = Sets[Head(s)] \cup Left(Tail(s)) /\ Sets[Head(s)] \subseteq Attributes
<1>1. Left(<<>>) = {}
  BY Nothing DEF Left
<1>2. ASSUME NEW s \in Seq(Utils), s # <<>>
      PROVE  /\ Left(s) = Sets[Head(s)] \cup Left(Tail(s))
             /\ Sets[Head(s)] \subseteq Attributes
  <2>1. Head(s) \in Utils /\ Range(s) = Range(Tail(s)) \cup {Head(s)}
    BY <1>2, Receiving
  <2>2. Sets[Head(s)] \subseteq Attributes
    BY <2>1, SetsOf DEF Utils, Attributes
  <2> QED
    BY <2>1, <2>2 DEF Left
<1> QED
  BY <1>1, <1>2

LEMMA InitRun == Init => RunInv
<1> SUFFICES ASSUME Init PROVE RunInv
  OBVIOUS
<1>1. Steady
  BY DEF Init, ResolveInit, Steady, Known
<1>2. RunTypes
  BY Nothing DEF Init, RunTypes
<1>3. Stages /\ Planned /\ StartedAsResolved /\ NothingInherited
  BY DEF Init, ResolveInit, Stages, Planned, StartedAsResolved, NothingInherited
<1> QED
  BY <1>1, <1>2, <1>3 DEF RunInv

(* Once resolved, the rule of the job is what it is.                         *)
LEMMA Settled ==
  ASSUME Steady, UNCHANGED resolveVars
  PROVE  /\ Steady' /\ (One' <=> One) /\ result' = result
         /\ JobRule' = JobRule /\ Wanted(JobRule)' = Wanted(JobRule)
         /\ FinalUnit(JobRule)' = FinalUnit(JobRule)
         /\ SliceProperties(JobRule)' = SliceProperties(JobRule)
         /\ ExecCommands(JobRule)' = ExecCommands(JobRule)
<1>1. config' = config /\ request' = request /\ result' = result
  BY DEF resolveVars
<1>2. JobRule' = JobRule
  BY <1>1 DEF JobRule
<1>3. SliceProperties(JobRule)' = SliceProperties(JobRule)
  BY <1>1, <1>2 DEF SliceProperties, HasCgroup, Cgroup
<1>4. \A o : Good(o)' <=> Good(o)
  BY <1>1 DEF Good, OwnFirst, InOnePlace, Limited, Decided, SliceProperties, HasCgroup,
              Cgroup, Profile, FromProfile, BaseProfileOf
<1>5. Steady'
  BY <1>1, <1>4 DEF Steady, Known
<1> QED
  BY <1>1, <1>2, <1>3, <1>5 DEF One, Wanted, FinalUnit, ExecCommands, SetFields,
                               IsSet


(* A step after which the program does not run, and no command is left.      *)
LEMMA Stops ==
  ASSUME RunInv, UNCHANGED <<resolveVars, utils, rest, attrs, unit, skipped>>,
         how' \in {"nobody", "nicy", "script"},
         caps' \in {"own", "ambient", "none"},
         phase' = "ended", status' \in {"exit0", "exit1"}
  PROVE  RunInv'
<1>1. Steady' /\ result' = result
  BY Settled DEF RunInv
<1>2. RunTypes'
  BY DEF RunInv, RunTypes
<1>3. Stages' /\ Planned' /\ StartedAsResolved' /\ NothingInherited'
  BY DEF Stages, Planned, StartedAsResolved, NothingInherited
<1> QED
  BY <1>1, <1>2, <1>3 DEF RunInv

LEMMA NextRun == RunInv /\ [Next]_vars => RunInv'
<1> SUFFICES ASSUME RunInv, [Next]_vars PROVE RunInv'
  OBVIOUS
<1>0. Steady /\ RunTypes /\ Stages /\ Planned
  BY DEF RunInv
<1>1. CASE NotFound
  BY <1>0, <1>1, Stops DEF NotFound, Goto, commands, process, RunTypes
<1>2. CASE Ask
  <2>1. Steady' /\ result' = result
    BY <1>0, <1>2, Settled DEF Ask
  <2>2. RunTypes'
    BY <1>0, <1>2 DEF Ask, Goto, commands, process, RunTypes
  <2>3. Stages' /\ Planned' /\ StartedAsResolved' /\ NothingInherited'
    BY <1>0, <1>2, <2>1 DEF Ask, Goto, commands, process, Stages, Planned, One,
                        StartedAsResolved, NothingInherited
  <2> QED
    BY <2>1, <2>2, <2>3 DEF RunInv
<1>3. CASE RequestJob
  <2>1. PICK r \in RequestRule : result' = {r}
    BY <1>3 DEF RequestJob, Resolve
  <2>2. config' = config /\ request' = request
    BY <1>3 DEF RequestJob, Resolve
  <2>3. Good(r)
    BY <1>0, <2>1, RequestRuleGood DEF Steady
  <2>4. Good(r)'
    BY <2>2, <2>3 DEF Good, OwnFirst, InOnePlace, Limited, Decided, SliceProperties,
                      HasCgroup, Cgroup, Profile, FromProfile, BaseProfileOf
  <2>5. Steady'
    BY <1>0, <2>1, <2>2, <2>4 DEF Steady, Known
  <2>6. One'
    BY <2>1 DEF One
  <2>7. RunTypes'
    BY <1>0, <1>3 DEF RequestJob, commands, process, RunTypes
  <2>8. Stages' /\ Planned' /\ StartedAsResolved' /\ NothingInherited'
    BY <1>0, <1>3, <2>6 DEF RequestJob, commands, process, Stages, Planned,
                        StartedAsResolved, NothingInherited
  <2> QED
    BY <2>5, <2>7, <2>8 DEF RunInv
<1>4. CASE PrepareCommands
  <2>1. /\ Steady' /\ (One' <=> One) /\ result' = result /\ JobRule' = JobRule
        /\ Wanted(JobRule)' = Wanted(JobRule)
        /\ ExecCommands(JobRule)' = ExecCommands(JobRule)
    BY <1>0, <1>4, Settled DEF PrepareCommands
  <2>2. JobRule \in Rule
    BY <1>0, <1>4, JobRuleType DEF PrepareCommands, Goto, Stages
  <2>3. utils' \in Seq(Utils) /\ Left(utils') = Wanted(JobRule)
    BY <1>4, <2>2, UtilitiesOf DEF PrepareCommands
  <2>4. rest' \in Lists
    BY <1>4, <2>2, ExecCommandsOf DEF PrepareCommands
  <2>5. RunTypes'
    BY <1>0, <1>4, <2>3, <2>4, ListsType
       DEF PrepareCommands, Goto, process, RunTypes
  <2>6. Stages'
    BY <1>0, <1>4, <2>1 DEF PrepareCommands, Goto, process, Stages
  <2>7. Planned' /\ StartedAsResolved' /\ NothingInherited'
    BY <1>0, <1>4, <2>1, <2>3 DEF PrepareCommands, Goto, process, Stages, Planned,
                              StartedAsResolved, NothingInherited
  <2> QED
    BY <2>1, <2>5, <2>6, <2>7 DEF RunInv
<1>5. CASE Raise \/ Script
  <2>1. /\ Steady' /\ (One' <=> One) /\ result' = result /\ JobRule' = JobRule
        /\ Wanted(JobRule)' = Wanted(JobRule)
        /\ ExecCommands(JobRule)' = ExecCommands(JobRule)
    BY <1>0, <1>5, Settled DEF Raise, Script
  <2>2. RunTypes'
    BY <1>0, <1>5 DEF Raise, Script, Goto, commands, RunTypes
  <2>3. Stages'
    BY <1>0, <1>5, <2>1 DEF Raise, Script, Goto, commands, Stages
  <2>4. Planned' /\ StartedAsResolved' /\ NothingInherited'
    BY <1>0, <1>5, <2>1 DEF Raise, Script, Goto, commands, Planned,
                        StartedAsResolved, NothingInherited
  <2> QED
    BY <2>1, <2>2, <2>3, <2>4 DEF RunInv
<1>6. CASE DryRun
  BY <1>0, <1>6, Stops DEF DryRun, Goto, commands
<1>7. CASE Utility
  <2>1. /\ Steady' /\ (One' <=> One) /\ result' = result /\ JobRule' = JobRule
        /\ Wanted(JobRule)' = Wanted(JobRule)
        /\ ExecCommands(JobRule)' = ExecCommands(JobRule)
    BY <1>0, <1>7, Settled DEF Utility
  <2>2. /\ Left(utils) = Sets[Head(utils)] \cup Left(Tail(utils))
        /\ Sets[Head(utils)] \subseteq Attributes
        /\ Tail(utils) \in Seq(Utils)
    BY <1>0, <1>7, LeftOf, Receiving DEF Utility, RunTypes
  <2>3. /\ utils' \in Seq(Utils) /\ attrs' \subseteq Attributes
        /\ attrs' \cup Left(utils') = attrs \cup Left(utils)
    BY <1>0, <1>7, <2>2 DEF Utility, RunTypes
  <2>4. RunTypes'
    BY <1>0, <1>7, <2>3 DEF Utility, Goto, RunTypes
  <2>5. Stages'
    BY <1>0, <1>7, <2>1 DEF Utility, Goto, Stages
  <2>6. Planned' /\ StartedAsResolved' /\ NothingInherited'
    BY <1>0, <1>7, <2>1, <2>3 DEF Utility, Goto, Planned, StartedAsResolved,
                              NothingInherited
  <2> QED
    BY <2>1, <2>4, <2>5, <2>6 DEF RunInv
<1>8. CASE Clear
  <2>1. /\ Steady' /\ (One' <=> One) /\ result' = result /\ JobRule' = JobRule
        /\ Wanted(JobRule)' = Wanted(JobRule)
        /\ FinalUnit(JobRule)' = FinalUnit(JobRule)
    BY <1>0, <1>8, Settled DEF Clear
  <2>2. JobRule \in Rule
    BY <1>0, <1>8, JobRuleType DEF Clear, Goto, Stages
  <2>3. rest \in Lists /\ UnitAfter(rest, unit) = FinalUnit(JobRule)
    BY <1>0, <1>8, <2>2, ExecCommandsOf DEF Clear, Goto, Planned
  <2>4. RunTypes'
    BY <1>0, <1>8 DEF Clear, Goto, commands, RunTypes
  <2>5. Stages'
    BY <1>0, <1>8, <2>1 DEF Clear, Goto, commands, Stages
  <2>6. Planned' /\ StartedAsResolved' /\ NothingInherited'
    BY <1>0, <1>8, <2>1, <2>3 DEF Clear, Goto, commands, Planned,
                              StartedAsResolved, NothingInherited
  <2> QED
    BY <2>1, <2>4, <2>5, <2>6 DEF RunInv
<1>9. CASE Systemctl
  <2>1. /\ Steady' /\ (One' <=> One) /\ result' = result /\ JobRule' = JobRule
        /\ Wanted(JobRule)' = Wanted(JobRule)
        /\ FinalUnit(JobRule)' = FinalUnit(JobRule)
    BY <1>0, <1>9, Settled DEF Systemctl
  <2>2. ~skipped => rest' \in Lists /\ UnitAfter(rest', unit') = FinalUnit(JobRule)
    <3>1. ~skipped => rest \in Lists /\ UnitAfter(rest, unit) = FinalUnit(JobRule)
      BY <1>0, <1>9 DEF Systemctl, Goto, Planned
    <3>2. /\ Head(rest) # "exec" /\ rest' = Tail(rest)
          /\ unit' = IF Head(rest) = "slice" THEN "started" ELSE "set"
      BY <1>9 DEF Systemctl
    <3> QED
      BY <3>1, <3>2, ListsLess
  <2>3. rest' \in Seq({"slice", "props", "exec"})
    BY <1>0, <1>9, Receiving DEF Systemctl, RunTypes
  <2>4. RunTypes'
    BY <1>0, <1>9, <2>3 DEF Systemctl, Goto, RunTypes
  <2>5. Stages'
    BY <1>0, <1>9, <2>1 DEF Systemctl, Goto, Stages
  <2>6. Planned' /\ StartedAsResolved' /\ NothingInherited'
    BY <1>0, <1>9, <2>1, <2>2 DEF Systemctl, Goto, Planned, StartedAsResolved,
                              NothingInherited, RunInv
  <2> QED
    BY <2>1, <2>4, <2>5, <2>6 DEF RunInv
<1>10. CASE Exec
  <2>1. /\ Steady' /\ (One' <=> One) /\ result' = result /\ JobRule' = JobRule
        /\ Wanted(JobRule)' = Wanted(JobRule)
        /\ FinalUnit(JobRule)' = FinalUnit(JobRule)
    BY <1>0, <1>10, Settled DEF Exec
  <2>2. ~skipped => attrs = Wanted(JobRule) /\ unit = FinalUnit(JobRule)
    <3>1. utils = <<>> /\ phase = "rest" /\ Head(rest) = "exec"
      BY <1>0, <1>10 DEF Exec, Goto, Stages
    <3> QED
      BY <1>0, <3>1, LeftOf, ListsEnd DEF Planned
  <2>3. RunTypes'
    BY <1>0, <1>10 DEF Exec, Goto, commands, RunTypes
  <2>4. Stages' /\ Planned' /\ NothingInherited'
    BY <1>0, <1>10, <2>1 DEF Exec, Goto, commands, Stages, Planned, NothingInherited
  <2>5. StartedAsResolved'
    <3>1. /\ ~skipped' => attrs' = Wanted(JobRule)' /\ unit' = FinalUnit(JobRule)'
      BY <1>10, <2>1, <2>2 DEF Exec
    <3> QED
      BY <3>1 DEF StartedAsResolved, Wanted, FinalUnit
  <2> QED
    BY <2>1, <2>3, <2>4, <2>5 DEF RunInv
<1>11. CASE ShellFails
  <2>1. CASE PassOver /\ skipped' = TRUE
    <3>1. /\ Steady' /\ (One' <=> One) /\ result' = result /\ JobRule' = JobRule
          /\ ExecCommands(JobRule)' = ExecCommands(JobRule)
      BY <1>0, <2>1, Settled DEF PassOver
    <3>2. /\ phase' = phase /\ status' = status /\ caps' = caps /\ attrs' = attrs
          /\ unit' = unit /\ how' = how /\ status = "running"
      BY <2>1 DEF PassOver, process
    <3>3. \/ phase = "utils" /\ utils # <<>> /\ utils' = Tail(utils) /\ rest' = rest
          \/ phase = "rest" /\ Len(rest) > 1 /\ rest' = Tail(rest) /\ utils' = utils
      BY <2>1 DEF PassOver
    <3>4. utils' \in Seq(Utils) /\ rest' \in Seq({"slice", "props", "exec"})
      <4>1. Len(<<>>) = 0
        BY Nothing
      <4>2. CASE phase = "utils" /\ utils # <<>> /\ utils' = Tail(utils) /\ rest' = rest
        BY <1>0, <4>2, Receiving DEF RunTypes
      <4>3. CASE phase = "rest" /\ Len(rest) > 1 /\ rest' = Tail(rest) /\ utils' = utils
        <5>1. rest # <<>>
          BY <4>1, <4>3
        <5> QED
          BY <1>0, <4>3, <5>1, Receiving DEF RunTypes
      <4> QED
        BY <3>3, <4>2, <4>3
    <3>5. RunTypes'
      BY <1>0, <2>1, <3>2, <3>4 DEF RunTypes
    <3>6. Stages'
      BY <1>0, <3>1, <3>2, <3>3 DEF Stages
    <3>7. Planned'
      BY <1>0, <2>1, <3>1, <3>2, <3>3 DEF Planned
    <3>8. StartedAsResolved' /\ NothingInherited'
      BY <3>2 DEF RunInv, StartedAsResolved, NothingInherited
    <3> QED
      BY <3>1, <3>5, <3>6, <3>7, <3>8 DEF RunInv
  <2>2. CASE Len(rest) = 1 /\ Goto("rest", "ended") /\ status' = "exit1"
               /\ UNCHANGED <<resolveVars, commands, process, how, skipped>>
    BY <1>0, <2>2, Stops DEF Goto, commands, process, RunTypes
  <2> QED
    BY <1>11, <2>1, <2>2 DEF ShellFails
<1>12. CASE Fails
  BY <1>0, <1>12, Stops DEF Fails, Goto, commands, process, RunTypes
<1>13. CASE UNCHANGED vars
  <2>1. UNCHANGED <<resolveVars, phase, utils, rest, caps, attrs, unit, how,
                    skipped, status>>
    BY <1>13 DEF vars, commands, process
  <2>2. /\ Steady' /\ (One' <=> One) /\ result' = result /\ JobRule' = JobRule
        /\ Wanted(JobRule)' = Wanted(JobRule)
        /\ FinalUnit(JobRule)' = FinalUnit(JobRule)
        /\ SliceProperties(JobRule)' = SliceProperties(JobRule)
        /\ ExecCommands(JobRule)' = ExecCommands(JobRule)
    BY <1>0, <2>1, Settled
  <2>3. RunTypes' /\ Stages' /\ Planned' /\ NothingInherited'
    BY <2>1, <2>2 DEF RunInv, RunTypes, Stages, Planned, NothingInherited
  <2>4. StartedAsResolved'
    BY <2>1, <2>2 DEF RunInv, StartedAsResolved
  <2> QED
    BY <2>2, <2>3, <2>4 DEF RunInv
<1> QED
  BY <1>1, <1>2, <1>3, <1>4, <1>5, <1>6, <1>7, <1>8, <1>9, <1>10, <1>11, <1>12,
     <1>13 DEF Next

LEMMA RunAlways == Spec => []RunInv
BY InitRun, NextRun, PTL DEF Spec


-----------------------------------------------------------------------------
(* The variables only ever hold what they are meant to hold: a resolved rule *)
(* has every field, whichever bases have filled or reset some of them.       *)
THEOREM TypeCorrect == Spec => []TypeOK
<1>1. RunInv => TypeOK
  <2> SUFFICES ASSUME RunInv PROVE TypeOK
    OBVIOUS
  <2>1. ResolveTypeOK
    BY DEF RunInv, Steady, Good, ResolveTypeOK, Rule, BaseRule
  <2>2. DOMAIN Sets = Utils
    BY DEF Sets, Utils
  <2> QED
    BY <2>1, <2>2 DEF RunInv, RunTypes, TypeOK
<1> QED
  BY <1>1, RunAlways, PTL

(* What the application's own rule says goes before what its profile says,   *)
(* which fills the rest, and nothing else does: Expand, the cgroup and the   *)
(* reset that follows leave the properties of a profile alone.               *)
THEOREM OwnGoesFirst == Spec => []OwnBeforeProfile
<1>1. RunInv => OwnBeforeProfile
  BY DEF RunInv, Steady, Good, OwnFirst, Resolved, OwnBeforeProfile
<1> QED
  BY <1>1, RunAlways, PTL

(* A property is never limited twice, on the slice and on the scope: a rule  *)
(* that is run inside a cgroup has lost what the slice of the cgroup sets.   *)
THEOREM LimitedOnce == Spec => []SliceOrScope
<1>1. RunInv => SliceOrScope
  <2> SUFFICES ASSUME RunInv, NEW o \in Resolved,
                      NEW f \in SliceProperties(o.rule), f \in SetFields(ScopeOf(o.rule))
               PROVE  FALSE
    BY DEF SliceOrScope
  <2>1. ~IsSet(o.rule.fields, f)
    BY DEF RunInv, Steady, Good, InOnePlace, Resolved
  <2>2. f \in ScopeFields /\ IsSet(o.rule.fields, f)
    BY DEF SetFields, ScopeOf, IsSet
  <2> QED
    BY <2>1, <2>2
<1> QED
  BY <1>1, RunAlways, PTL

(* The program is started with every attribute and every limit of its rule,  *)
(* or a command has been passed over, which nicy itself never does.          *)
THEOREM AsResolvedOrNot == Spec => []StartedAsResolved
<1>1. RunInv => StartedAsResolved
  BY DEF RunInv
<1> QED
  BY <1>1, RunAlways, PTL

(* Whichever presets set a scope property, and wherever ResetMatching leaves *)
(* it, it has the value of the one that decides when the program starts: the *)
(* cgroup around it, its own rule, or the cgroup its configuration names.    *)
THEOREM LimitsHold == Spec => []LimitsInForce
<1>1. RunInv => LimitsInForce
  <2> SUFFICES ASSUME RunInv, status = "program", ~skipped,
                      NEW o \in Resolved, NEW f \in ScopeFields
               PROVE  InForce(o.rule, f) =
                        IF f \in SliceProperties(o.rule) THEN Cgroup(o.rule.cgroup)[f]
                        ELSE Decided(o.raw, f)
    BY DEF LimitsInForce, Decided
  <2>1. InOnePlace(o) /\ Limited(o)
    BY DEF RunInv, Steady, Good, Resolved
  <2>2. PICK x : result = {x}
    BY DEF RunInv, Stages, One
  <2>3. JobRule = o.rule
    BY <2>2 DEF JobRule, Resolved
  <2>4. CASE f \in SliceProperties(o.rule)
    <3>1. unit = "set"
      BY <2>3, <2>4 DEF RunInv, StartedAsResolved
    <3>2. ~IsSet(o.rule.fields, f)
      BY <2>1, <2>4 DEF InOnePlace
    <3> QED
      BY <2>4, <3>1, <3>2 DEF InForce
  <2>5. CASE f \notin SliceProperties(o.rule)
    <3>1. o.rule.fields[f] = Decided(o.raw, f)
      BY <2>1, <2>5 DEF Limited
    <3>2. InForce(o.rule, f) = o.rule.fields[f]
      BY <2>5 DEF InForce, IsSet
    <3> QED
      BY <2>5, <3>1, <3>2
  <2> QED
    BY <2>4, <2>5
<1> QED
  BY <1>1, RunAlways, PTL

(* Whatever the rule called for, the capabilities that nicy raised for its   *)
(* utilities are gone before systemctl or the program is run.                *)
THEOREM CapsDropped == Spec => []NothingInherited
<1>1. RunInv => NothingInherited
  BY DEF RunInv
<1> QED
  BY <1>1, RunAlways, PTL
=============================================================================

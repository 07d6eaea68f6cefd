------------------------- MODULE GroupAdjustProofs -------------------------
(* For any pids, rules, places, number of workers, of reloads and of changes *)
(* by others: what a pass without failures has done to the group, although   *)
(* processes come and go and other workers run passes of their own.          *)
EXTENDS GroupAdjust, SequenceTheorems, WellFoundedInduction, TLAPS

-----------------------------------------------------------------------------
(* What is left of a list of commands once the first one has run.            *)
LEMMA Receiving ==
  ASSUME NEW T, NEW s \in Seq(T), s # <<>>
  PROVE  /\ Head(s) \in T /\ Tail(s) \in Seq(T) /\ Len(Tail(s)) = Len(s) - 1
         /\ Range(s) = Range(Tail(s)) \cup {Head(s)}
<1> DEFINE h == <<Head(s)>>
<1>1. /\ Head(s) \in T /\ Tail(s) \in Seq(T) /\ Len(Tail(s)) = Len(s) - 1
      /\ h \in Seq(T) /\ Range(h) = {Head(s)}
  BY HeadTailProperties DEF Range
<1>2. s = h \o Tail(s)
  <2>1. /\ h \o Tail(s) \in Seq(T) /\ Len(h \o Tail(s)) = Len(s)
        /\ Len(s) \in Nat \ {0}
    BY <1>1, ConcatProperties, EmptySeq
  <2> QED
    BY <1>1, <2>1, ConcatProperties, HeadTailProperties, SeqEqual
<1> HIDE DEF h
<1>3. Range(h \o Tail(s)) = Range(h) \cup Range(Tail(s))
  BY <1>1, RangeConcatenation
<1> QED
  BY <1>1, <1>2, <1>3

LEMMA Nothing ==
  /\ \A T : <<>> \in Seq(T)
  /\ Len(<<>>) = 0 /\ Range(<<>>) = {}
BY DEF Range

(* Lists of one command, and of several.                                     *)
LEMMA OneItem ==
  ASSUME NEW T, NEW x \in T
  PROVE  <<x>> \in Seq(T) /\ Range(<<x>>) = {x}
BY DEF Range

LEMMA Joined ==
  ASSUME NEW T, NEW s \in Seq(T), NEW t \in Seq(T)
  PROVE  s \o t \in Seq(T) /\ Range(s \o t) = Range(s) \cup Range(t)
BY RangeConcatenation

-----------------------------------------------------------------------------

Utils == {"renice", "ionice", "chrt", "choom"}
Others == {"slice", "move", "enter", "props"}

(* A step is one of the group's processes, a reload, a change by somebody    *)
(* else, one of a worker or none.                                            *)
LEMMA StepCases ==
  ASSUME [Next]_vars
  PROVE  \/ Fork \/ Exit \/ Reload \/ Meddle
         \/ \E w \in Workers :
              \/ Scan(w) \/ Prepare(w) \/ Utility(w) \/ UtilityFails(w)
              \/ UtilitiesDone(w) \/ Other(w) \/ OtherFails(w) \/ PassDone(w)
         \/ UNCHANGED vars
BY DEF Next, Pass

LEMMA LeaderLeads ==
  ASSUME NEW S \in SUBSET Nat, S # {}
  PROVE  Leader(S) \in S /\ \A q \in S : Leader(S) <= q
<1>1. PICK R : /\ IsWellFoundedOn(R, Nat)
                /\ \A x, y \in Nat : y < x => <<y, x>> \in R
  <2>1. \A x, y \in Nat : y < x => <<y, x>> \in OpToRel(<, Nat)
    BY DEF OpToRel
  <2> QED
    BY <2>1, NatLessThanWellFounded
<1>2. \E x \in S : \A y \in S : ~ (<<y, x>> \in R)
  BY <1>1, WFMin
<1>3. PICK x \in S : \A y \in S : ~ (<<y, x>> \in R)
  BY <1>2
<1>4. ASSUME NEW y \in S PROVE x <= y
  <2>1. x \in Nat /\ y \in Nat /\ ~ (<<y, x>> \in R)
    BY <1>3
  <2>2. ~ (y < x)
    BY <1>1, <2>1, Zenon
  <2> QED
    BY <2>1, <2>2
<1> QED
  BY <1>3, <1>4 DEF Leader

-----------------------------------------------------------------------------
(* The commands that a difference asks for.                                  *)

Difference == [attrs : SUBSET Attrs, key : BOOLEAN, props : BOOLEAN]

LEMMA OnlyList ==
  ASSUME NEW T, NEW s \in Seq(T), NEW c \in BOOLEAN
  PROVE  /\ Only(c, s) \in Seq(T)
         /\ Range(Only(c, s)) = IF c THEN Range(s) ELSE {}
BY Nothing DEF Only

LEMMA UtilitiesOf ==
  ASSUME NEW d \in Difference
  PROVE  /\ Utilities(d) \in Seq(Utils)
         /\ \A c \in Utils :
              c \in Range(Utilities(d)) <=> c = "renice" \/ Sets(c) \subseteq d.attrs
<1> DEFINE a == <<"renice">>
           b == Only("ioclass" \in d.attrs, <<"ionice">>)
           e == Only("sched" \in d.attrs, <<"chrt">>)
           f == Only("oom" \in d.attrs, <<"choom">>)
<1>1. a \in Seq(Utils) /\ Range(a) = {"renice"}
  BY OneItem DEF Utils
<1>2. b \in Seq(Utils) /\ Range(b) = IF "ioclass" \in d.attrs THEN {"ionice"} ELSE {}
  <2>1. <<"ionice">> \in Seq(Utils) /\ Range(<<"ionice">>) = {"ionice"}
    BY OneItem DEF Utils
  <2>2. ("ioclass" \in d.attrs) \in BOOLEAN
    OBVIOUS
  <2> QED
    BY <2>1, <2>2, OnlyList
<1>3. e \in Seq(Utils) /\ Range(e) = IF "sched" \in d.attrs THEN {"chrt"} ELSE {}
  <2>1. <<"chrt">> \in Seq(Utils) /\ Range(<<"chrt">>) = {"chrt"}
    BY OneItem DEF Utils
  <2>2. ("sched" \in d.attrs) \in BOOLEAN
    OBVIOUS
  <2> QED
    BY <2>1, <2>2, OnlyList
<1>4. f \in Seq(Utils) /\ Range(f) = IF "oom" \in d.attrs THEN {"choom"} ELSE {}
  <2>1. <<"choom">> \in Seq(Utils) /\ Range(<<"choom">>) = {"choom"}
    BY OneItem DEF Utils
  <2>2. ("oom" \in d.attrs) \in BOOLEAN
    OBVIOUS
  <2> QED
    BY <2>1, <2>2, OnlyList
<1>5. Utilities(d) = a \o b \o e \o f
  BY DEF Utilities
<1> HIDE DEF a, b, e, f
<1>6. /\ a \o b \in Seq(Utils) /\ a \o b \o e \in Seq(Utils)
      /\ a \o b \o e \o f \in Seq(Utils)
      /\ Range(a \o b \o e \o f) = Range(a) \cup Range(b) \cup Range(e) \cup Range(f)
  <2> DEFINE ab == a \o b
             abe == ab \o e
             abef == abe \o f
  <2>1. ab \in Seq(Utils) /\ Range(ab) = Range(a) \cup Range(b)
    BY <1>1, <1>2, Joined
  <2> HIDE DEF ab
  <2>2. abe \in Seq(Utils) /\ Range(abe) = Range(ab) \cup Range(e)
    BY <2>1, <1>3, Joined
  <2> HIDE DEF abe
  <2>3. abef \in Seq(Utils) /\ Range(abef) = Range(abe) \cup Range(f)
    BY <2>2, <1>4, Joined
  <2> HIDE DEF abef
  <2>4. a \o b \o e \o f = abef /\ a \o b \o e = abe /\ a \o b = ab
    BY DEF ab, abe, abef
  <2> QED
    BY <2>1, <2>2, <2>3, <2>4
<1> QED
  BY <1>1, <1>2, <1>3, <1>4, <1>5, <1>6 DEF Utils, Sets

LEMMA ForSystemdOf ==
  ASSUME NEW s, NEW d \in Difference
  PROVE  /\ ForSystemd(s, d) \in Seq(Others)
         /\ d.key /\ Movable(s) => "enter" \in Range(ForSystemd(s, d))
         /\ s.place = Session /\ d.props /\ ~d.key
              => "move" \in Range(ForSystemd(s, d))
         /\ "move" \in Range(ForSystemd(s, d)) => s.place = Session /\ ~d.key
<1> DEFINE a == <<"slice">>
           m == Move(d)
           e == <<"props">>
           moved == d.key \/ (d.props /\ s.place = Session)
<1>1. a \in Seq(Others) /\ Range(a) = {"slice"}
  BY OneItem DEF Others
<1>2. m \in Seq(Others) /\ Range(m) = IF d.key THEN {"enter"} ELSE {"move"}
  BY OneItem DEF Others, Move
<1>3. e \in Seq(Others) /\ Range(e) = {"props"}
  BY OneItem DEF Others
<1>4. d.key \in BOOLEAN /\ d.props \in BOOLEAN /\ moved \in BOOLEAN
  BY DEF Difference
<1> DEFINE x == Only(d.key, a)
           y == Only(moved, m)
           z == Only(d.props, e)
<1>5. ForSystemd(s, d) = IF s.place.unit = "elsewhere" THEN <<>> ELSE x \o y \o z
  BY DEF ForSystemd
<1> HIDE DEF a, m, e
<1>6. /\ x \in Seq(Others) /\ Range(x) = IF d.key THEN {"slice"} ELSE {}
      /\ y \in Seq(Others) /\ Range(y) = IF moved THEN Range(m) ELSE {}
      /\ z \in Seq(Others) /\ Range(z) = IF d.props THEN {"props"} ELSE {}
  BY <1>1, <1>2, <1>3, <1>4, OnlyList
<1> HIDE DEF x, y, z
<1>7. /\ x \o y \o z \in Seq(Others)
      /\ Range(x \o y \o z) = Range(x) \cup Range(y) \cup Range(z)
  <2> DEFINE xy == x \o y
             xyz == xy \o z
  <2>1. xy \in Seq(Others) /\ Range(xy) = Range(x) \cup Range(y)
    BY <1>6, Joined
  <2> HIDE DEF xy
  <2>2. xyz \in Seq(Others) /\ Range(xyz) = Range(xy) \cup Range(z)
    BY <2>1, <1>6, Joined
  <2>3. x \o y \o z = xyz
    BY DEF xy, xyz
  <2> QED
    BY <2>1, <2>2, <2>3
<1>8. CASE s.place.unit = "elsewhere"
  BY <1>5, <1>8, Nothing DEF Movable, Session, Place
<1>9. CASE s.place.unit # "elsewhere"
  <2>1. ForSystemd(s, d) = x \o y \o z
    BY <1>5, <1>9
  <2>2. Range(ForSystemd(s, d)) = Range(x) \cup Range(y) \cup Range(z)
    BY <1>7, <2>1
  <2>3. /\ "enter" \notin Range(x) /\ "move" \notin Range(x)
        /\ "move" \notin Range(z)
        /\ d.key => "enter" \in Range(y) /\ "move" \notin Range(y)
        /\ ~d.key => ("move" \in Range(y) <=> d.props /\ s.place = Session)
    BY <1>2, <1>4, <1>6
  <2>4. ForSystemd(s, d) \in Seq(Others)
    BY <1>7, <2>1
  <2> QED
    BY <2>2, <2>3, <2>4
<1> QED
  BY <1>8, <1>9

-----------------------------------------------------------------------------
(* Types.  A pass that has not prepared its commands has none; the commands  *)
(* of a replaced rule are in no pass that is clean; and what a pass has seen *)
(* it will never meet again as a new process.                                *)

InOrder(w) ==
  /\ pass[w].at \in {"scan", "prepare"} =>
       pass[w].utils = <<>> /\ pass[w].rest = <<>> /\ pass[w].rule = "new"
  /\ pass[w].at = "rest" => pass[w].utils = <<>>
  /\ pass[w].clean =>
       /\ pass[w].rule = "new"
       /\ Seen(w).pids # {} /\ Seen(w).pids \cap unused = {}

Orderly == \A w \in Workers : InOrder(w)

SeenType == [pids : SUBSET Pids, ok : SUBSET Attrs, place : Places]

(* The places that nicy's commands and a reload lead to.                     *)
LEMMA PlaceTypes ==
  /\ Session \in Places /\ Session.unit # "elsewhere" /\ Session.nicy = "no"
  /\ \A n \in {"no", "other", "own"} :
       /\ Place("managed", n) \in Places /\ Place("managed", n) # Session
       /\ Place(SliceUnit, n) \in Places /\ Place(SliceUnit, n) # Session
       /\ Place("managed", n).nicy = n /\ Place(SliceUnit, n).nicy = n
  /\ \A c \in Places :
       OutOfPlace(c) \in Places /\ (OutOfPlace(c) = Session <=> c = Session)
<1>1. ASSUME NEW c \in Places
      PROVE  OutOfPlace(c) \in Places /\ (OutOfPlace(c) = Session <=> c = Session)
  <2>1. CASE c = Session
    BY <2>1 DEF OutOfPlace, Session, Place, Places
  <2>2. CASE c \in [unit : {"managed", "elsewhere"}, nicy : {"no", "other", "own"}]
    BY <2>2 DEF OutOfPlace, Session, Place, Places
  <2> QED
    BY <2>1, <2>2 DEF Places
<1> QED
  BY <1>1, GroupAssumption DEF Session, Place, Places

LEMMA IdleType == Idle \in Passes
BY Nothing, PlaceTypes DEF Idle, Passes

LEMMA UncleanType ==
  ASSUME NEW p \in Passes
  PROVE  /\ Unclean(p) \in Passes /\ ~Unclean(p).clean
         /\ Unclean(p).at = p.at
         /\ p.at = "scan" => Unclean(p) = Idle
         /\ p.at # "scan" =>
              /\ Unclean(p).rule = p.rule
              /\ Unclean(p).utils = p.utils /\ Unclean(p).rest = p.rest
              /\ Unclean(p).seen.pids = p.seen.pids
<1>1. CASE p.at = "scan"
  BY <1>1, IdleType DEF Unclean, Idle
<1>2. CASE p.at = "prepare"
  <2>1. Unclean(p) = [p EXCEPT !.clean = FALSE]
    BY <1>2 DEF Unclean
  <2> QED
    BY <1>2, <2>1 DEF Passes
<1>3. CASE p.at \notin {"scan", "prepare"}
  <2> DEFINE s == [p.seen EXCEPT !.ok = {}, !.place = Session]
  <2>1. s \in [pids : SUBSET Pids, ok : SUBSET Attrs, place : Places]
        /\ s.pids = p.seen.pids
    BY PlaceTypes DEF Passes
  <2>2. Unclean(p) = [p EXCEPT !.clean = FALSE, !.seen = s]
    BY <1>3 DEF Unclean, Passes
  <2> HIDE DEF s
  <2> QED
    BY <1>3, <2>1, <2>2 DEF Passes
<1> QED
  BY <1>1, <1>2, <1>3

LEMMA DiffType ==
  ASSUME TypeOK, NEW s \in SeenType
  PROVE  Diff(s) \in Difference
BY GroupAssumption DEF TypeOK, SeenType, Rule, Difference, Diff

LEMMA WantType ==
  ASSUME TypeOK
  PROVE  rule.want \subseteq Attrs /\ \A p \in alive : ok[p] \subseteq rule.want
BY GroupAssumption DEF TypeOK, Rule

LEMMA ObservedType ==
  ASSUME TypeOK
  PROVE  /\ Observed \in SeenType /\ Observed.pids = alive
         /\ Leader(alive) \in alive
         /\ Observed.ok = ok[Leader(alive)]
         /\ Observed.place = place[Leader(alive)]
<1>1. alive \in SUBSET Nat /\ alive # {}
  BY GroupAssumption DEF TypeOK
<1>2. Leader(alive) \in alive
  BY <1>1, LeaderLeads
<1> QED
  BY <1>2, WantType DEF TypeOK, Observed, SeenType

LEMMA InitType == Init => TypeOK /\ Orderly
<1> SUFFICES ASSUME Init PROVE TypeOK /\ Orderly
  OBVIOUS
<1>1. alive \subseteq Pids /\ alive # {} /\ unused = Pids \ alive
  BY DEF Init
<1>2. /\ ok \in [alive -> SUBSET rule.want]
      /\ place \in [alive -> Places]
  BY GroupAssumption DEF Init
<1>3. pass \in [Workers -> Passes] /\ \A w \in Workers : pass[w] = Idle
  BY IdleType DEF Init
<1>4. TypeOK
  BY <1>1, <1>2, <1>3, GroupAssumption DEF Init, TypeOK
<1>5. Orderly
  BY <1>3 DEF Orderly, InOrder, Idle
<1> QED
  BY <1>4, <1>5

(* A pass that is changed alone.                                             *)
LEMMA SetType ==
  ASSUME TypeOK, NEW w \in Workers, NEW p \in Passes, Set(w, p)
  PROVE  /\ pass' \in [Workers -> Passes] /\ pass'[w] = p
         /\ \A v \in Workers \ {w} : pass'[v] = pass[v]
BY DEF Set, TypeOK

(* A command leaves the other passes as they are, or makes them unclean.     *)
LEMMA ThenType ==
  ASSUME TypeOK, NEW w \in Workers, NEW p \in Passes, Then(w, p)
  PROVE  /\ pass' \in [Workers -> Passes]
         /\ pass'[w] = IF IsOld(w) THEN Unclean(p) ELSE p
         /\ \A v \in Workers \ {w} :
              pass'[v] = IF IsOld(w) THEN Unclean(pass[v]) ELSE pass[v]
BY UncleanType DEF Then, TypeOK

(* The state of the processes after a command.                               *)
LEMMA EffectType ==
  ASSUME TypeOK, NEW w \in Workers, NEW c \in Utils \cup Others, Effect(w, c)
  PROVE  /\ ok' \in [alive -> SUBSET rule.want]
         /\ place' \in [alive -> Places]
         /\ \A p \in alive \ Targets(w, c) : ok'[p] = ok[p] /\ place'[p] = place[p]
         /\ ~IsOld(w) => \A p \in Targets(w, c) \cap alive :
              /\ ok'[p] = ok[p] \cup (Sets(c) \cap rule.want)
              /\ place'[p] = CASE c = "move" -> Place("managed", "no")
                               [] c = "enter" -> Place(SliceUnit, "own")
                               [] OTHER -> place[p]
<1>2. ok' \in [alive -> SUBSET rule.want]
  BY DEF Effect, TypeOK
<1>3. place' \in [alive -> Places]
  BY PlaceTypes DEF Effect, TypeOK
<1>4. \A p \in alive \ Targets(w, c) : ok'[p] = ok[p] /\ place'[p] = place[p]
  BY DEF Effect, TypeOK
<1>5. ASSUME ~IsOld(w), NEW p \in Targets(w, c) \cap alive
      PROVE  /\ ok'[p] = ok[p] \cup (Sets(c) \cap rule.want)
             /\ place'[p] = CASE c = "move" -> Place("managed", "no")
                              [] c = "enter" -> Place(SliceUnit, "own")
                              [] OTHER -> place[p]
  <2>1. CASE c = "move"
    BY <1>5, <2>1 DEF Effect
  <2>2. CASE c = "enter"
    BY <1>5, <2>2 DEF Effect
  <2>3. CASE c \notin {"move", "enter"}
    BY <1>5, <2>3 DEF Effect
  <2> QED
    BY <2>1, <2>2, <2>3
<1> QED
  BY <1>2, <1>3, <1>4, <1>5

(* The passes that the steps of a worker lead to.                            *)
Scanned(w) ==
  [pass[w] EXCEPT !.at = "prepare", !.seen = Observed, !.clean = TRUE]
Planned(w) ==
  [pass[w] EXCEPT !.at = "utils", !.utils = Utilities(Diff(Seen(w))),
                  !.rest = ForSystemd(Seen(w), Diff(Seen(w)))]
NotDue(w) == [pass[w] EXCEPT !.at = "scan"]
UtilsLess(w) == [pass[w] EXCEPT !.utils = Tail(@)]
RestLess(w) == [pass[w] EXCEPT !.rest = Tail(@)]

LEMMA PassTypes ==
  ASSUME TypeOK, NEW w \in Workers
  PROVE  /\ pass[w] \in Passes /\ Seen(w) \in SeenType
         /\ Scanned(w) \in Passes /\ Planned(w) \in Passes /\ NotDue(w) \in Passes
         /\ Scanned(w).seen = Observed /\ Scanned(w).at = "prepare"
         /\ Scanned(w).utils = pass[w].utils /\ Scanned(w).rest = pass[w].rest
         /\ Scanned(w).rule = pass[w].rule
         /\ Planned(w).utils = Utilities(Diff(Seen(w)))
         /\ Planned(w).rest = ForSystemd(Seen(w), Diff(Seen(w)))
         /\ Planned(w).at = "utils" /\ Planned(w).seen = Seen(w)
         /\ Planned(w).clean = pass[w].clean /\ Planned(w).rule = pass[w].rule
<1>1. pass[w] \in Passes /\ Seen(w) \in SeenType
  BY DEF TypeOK, Passes, Seen, SeenType
<1>2. /\ Observed \in SeenType
      /\ Utilities(Diff(Seen(w))) \in Seq(Utils)
      /\ ForSystemd(Seen(w), Diff(Seen(w))) \in Seq(Others)
  BY <1>1, ObservedType, DiffType, UtilitiesOf, ForSystemdOf
<1> DEFINE o == Observed
           u == Utilities(Diff(Seen(w)))
           r == ForSystemd(Seen(w), Diff(Seen(w)))
<1>3. /\ Scanned(w) = [pass[w] EXCEPT !.at = "prepare", !.seen = o, !.clean = TRUE]
      /\ Planned(w) = [pass[w] EXCEPT !.at = "utils", !.utils = u, !.rest = r]
  BY DEF Scanned, Planned
<1> HIDE DEF o, u, r
<1>4. o \in SeenType /\ u \in Seq(Utils) /\ r \in Seq(Others)
  BY <1>2 DEF o, u, r
<1>5. /\ Scanned(w) \in Passes /\ Planned(w) \in Passes /\ NotDue(w) \in Passes
      /\ Scanned(w).seen = o /\ Scanned(w).at = "prepare"
      /\ Scanned(w).utils = pass[w].utils /\ Scanned(w).rest = pass[w].rest
      /\ Scanned(w).rule = pass[w].rule
      /\ Planned(w).utils = u /\ Planned(w).rest = r
      /\ Planned(w).at = "utils" /\ Planned(w).seen = pass[w].seen
      /\ Planned(w).clean = pass[w].clean /\ Planned(w).rule = pass[w].rule
  BY <1>1, <1>3, <1>4 DEF Passes, SeenType, Utils, Others, NotDue
<1> QED
  BY <1>1, <1>5 DEF o, u, r, Seen

LEMMA LessTypes ==
  ASSUME TypeOK, NEW w \in Workers
  PROVE  /\ pass[w].utils # <<>> =>
              /\ Head(pass[w].utils) \in Utils /\ UtilsLess(w) \in Passes
              /\ Range(pass[w].utils) =
                   Range(UtilsLess(w).utils) \cup {Head(pass[w].utils)}
              /\ UtilsLess(w).at = pass[w].at /\ UtilsLess(w).seen = pass[w].seen
              /\ UtilsLess(w).rest = pass[w].rest
              /\ UtilsLess(w).rule = pass[w].rule
              /\ UtilsLess(w).clean = pass[w].clean
         /\ pass[w].rest # <<>> =>
              /\ Head(pass[w].rest) \in Others /\ RestLess(w) \in Passes
              /\ Range(pass[w].rest) =
                   Range(RestLess(w).rest) \cup {Head(pass[w].rest)}
              /\ RestLess(w).at = pass[w].at /\ RestLess(w).seen = pass[w].seen
              /\ RestLess(w).utils = pass[w].utils
              /\ RestLess(w).rule = pass[w].rule
              /\ RestLess(w).clean = pass[w].clean
<1>1. /\ pass[w] \in Passes
      /\ pass[w].utils \in Seq(Utils) /\ pass[w].rest \in Seq(Others)
  BY DEF TypeOK, Passes, Utils, Others
<1>2. ASSUME pass[w].utils # <<>>
      PROVE  /\ Head(pass[w].utils) \in Utils /\ UtilsLess(w) \in Passes
             /\ Range(pass[w].utils) =
                  Range(UtilsLess(w).utils) \cup {Head(pass[w].utils)}
             /\ UtilsLess(w).at = pass[w].at /\ UtilsLess(w).seen = pass[w].seen
             /\ UtilsLess(w).rest = pass[w].rest
             /\ UtilsLess(w).rule = pass[w].rule
             /\ UtilsLess(w).clean = pass[w].clean
  <2> DEFINE t == Tail(pass[w].utils)
  <2>1. /\ t \in Seq(Utils) /\ Head(pass[w].utils) \in Utils
        /\ Range(pass[w].utils) = Range(t) \cup {Head(pass[w].utils)}
    BY <1>1, <1>2, Receiving
  <2>2. UtilsLess(w) = [pass[w] EXCEPT !.utils = t]
    BY DEF UtilsLess
  <2> HIDE DEF t
  <2> QED
    BY <1>1, <2>1, <2>2 DEF Passes, Utils
<1>3. ASSUME pass[w].rest # <<>>
      PROVE  /\ Head(pass[w].rest) \in Others /\ RestLess(w) \in Passes
             /\ Range(pass[w].rest) =
                  Range(RestLess(w).rest) \cup {Head(pass[w].rest)}
             /\ RestLess(w).at = pass[w].at /\ RestLess(w).seen = pass[w].seen
             /\ RestLess(w).utils = pass[w].utils
             /\ RestLess(w).rule = pass[w].rule
             /\ RestLess(w).clean = pass[w].clean
  <2> DEFINE t == Tail(pass[w].rest)
  <2>1. /\ t \in Seq(Others) /\ Head(pass[w].rest) \in Others
        /\ Range(pass[w].rest) = Range(t) \cup {Head(pass[w].rest)}
    BY <1>1, <1>3, Receiving
  <2>2. RestLess(w) = [pass[w] EXCEPT !.rest = t]
    BY DEF RestLess
  <2> HIDE DEF t
  <2> QED
    BY <1>1, <2>1, <2>2 DEF Passes, Others
<1> QED
  BY <1>2, <1>3

(* A command of worker w, and what is left of its pass.                      *)
Command(w, c, p) ==
  /\ pass[w].at \in {"utils", "rest"}
  /\ c \in Utils \cup Others /\ Effect(w, c) /\ Then(w, p) /\ p \in Passes
  /\ p.at = pass[w].at /\ p.seen = pass[w].seen /\ p.rule = pass[w].rule
  /\ p.clean = pass[w].clean
  /\ Range(pass[w].utils) \subseteq Range(p.utils) \cup {c}
  /\ Range(pass[w].rest) \subseteq Range(p.rest) \cup {c}
  /\ Range(p.rest) \subseteq Range(pass[w].rest)
  /\ pass[w].utils = <<>> => p.utils = <<>>
  /\ c = "move" => c \in Range(pass[w].rest)
  /\ UNCHANGED <<rules, members>>

LEMMA CommandCases ==
  ASSUME TypeOK, NEW w \in Workers, Utility(w) \/ Other(w)
  PROVE  \E c, p : Command(w, c, p)
<1>1. CASE Utility(w)
  <2> DEFINE c == Head(pass[w].utils)
             p == UtilsLess(w)
  <2>1. pass[w].utils # <<>> /\ Effect(w, c) /\ Then(w, p) /\ pass[w].at = "utils"
    BY <1>1 DEF Utility, At, UtilsLess
  <2>2. /\ c \in Utils /\ p \in Passes
        /\ Range(pass[w].utils) = Range(p.utils) \cup {c}
        /\ p.at = pass[w].at /\ p.seen = pass[w].seen /\ p.rest = pass[w].rest
        /\ p.rule = pass[w].rule /\ p.clean = pass[w].clean
    BY <2>1, LessTypes
  <2>3. c # "move"
    BY <2>2 DEF Utils
  <2> HIDE DEF c, p
  <2>4. Command(w, c, p)
    BY <1>1, <2>1, <2>2, <2>3 DEF Command, Utility
  <2> QED
    BY <2>4
<1>2. CASE Other(w)
  <2> DEFINE c == Head(pass[w].rest)
             p == RestLess(w)
  <2>1. pass[w].rest # <<>> /\ Effect(w, c) /\ Then(w, p) /\ pass[w].at = "rest"
    BY <1>2 DEF Other, At, RestLess
  <2>2. /\ c \in Others /\ p \in Passes
        /\ Range(pass[w].rest) = Range(p.rest) \cup {c}
        /\ p.at = pass[w].at /\ p.seen = pass[w].seen /\ p.utils = pass[w].utils
        /\ p.rule = pass[w].rule /\ p.clean = pass[w].clean
    BY <2>1, LessTypes
  <2> HIDE DEF c, p
  <2>3. Command(w, c, p)
    BY <1>2, <2>1, <2>2 DEF Command, Other
  <2> QED
    BY <2>3
<1> QED
  BY <1>1, <1>2

(* What a reload makes of a pass.                                            *)
LEMMA ReloadType ==
  ASSUME TypeOK, Reload
  PROVE  /\ pass' \in [Workers -> Passes]
         /\ \A w \in Workers :
              /\ pass[w].at = "scan" => pass'[w] = Idle
              /\ pass[w].at = "prepare" =>
                   /\ pass'[w].at = "prepare" /\ pass'[w].clean = pass[w].clean
                   /\ pass'[w].seen.pids = pass[w].seen.pids
                   /\ pass'[w].seen.ok = {}
                   /\ pass'[w].seen.place = OutOfPlace(pass[w].seen.place)
                   /\ pass'[w].utils = pass[w].utils
                   /\ pass'[w].rest = pass[w].rest
                   /\ pass'[w].rule = pass[w].rule
              /\ pass[w].at \in {"utils", "rest"} =>
                   /\ ~pass'[w].clean /\ pass'[w].at = pass[w].at
                   /\ pass'[w].utils = pass[w].utils
                   /\ pass'[w].rest = pass[w].rest
                   /\ pass'[w].rule = "old"
<1> DEFINE Made(w) ==
       CASE pass[w].at = "scan" -> Idle
         [] pass[w].at = "prepare" ->
              [pass[w] EXCEPT !.seen.ok = {}, !.seen.place = OutOfPlace(@)]
         [] OTHER -> [Unclean(pass[w]) EXCEPT !.rule = "old"]
<1>1. pass' = [w \in Workers |-> Made(w)]
  BY DEF Reload
<1>2. ASSUME NEW w \in Workers
      PROVE  /\ Made(w) \in Passes
             /\ pass[w].at = "scan" => Made(w) = Idle
             /\ pass[w].at = "prepare" =>
                  /\ Made(w).at = "prepare" /\ Made(w).clean = pass[w].clean
                  /\ Made(w).seen.pids = pass[w].seen.pids
                  /\ Made(w).seen.ok = {}
                  /\ Made(w).seen.place = OutOfPlace(pass[w].seen.place)
                  /\ Made(w).utils = pass[w].utils
                  /\ Made(w).rest = pass[w].rest
                  /\ Made(w).rule = pass[w].rule
             /\ pass[w].at \in {"utils", "rest"} =>
                  /\ ~Made(w).clean /\ Made(w).at = pass[w].at
                  /\ Made(w).utils = pass[w].utils
                  /\ Made(w).rest = pass[w].rest
                  /\ Made(w).rule = "old"
  <2>1. pass[w] \in Passes
    BY DEF TypeOK
  <2>2. CASE pass[w].at = "scan"
    BY <2>2, IdleType
  <2>3. CASE pass[w].at = "prepare"
    <3> DEFINE s == [pass[w].seen EXCEPT !.ok = {}, !.place = OutOfPlace(@)]
    <3>1. OutOfPlace(pass[w].seen.place) \in Places
      BY <2>1, PlaceTypes DEF Passes
    <3>2. /\ s \in [pids : SUBSET Pids, ok : SUBSET Attrs, place : Places]
          /\ s.pids = pass[w].seen.pids /\ s.ok = {}
          /\ s.place = OutOfPlace(pass[w].seen.place)
      BY <2>1, <3>1 DEF Passes
    <3>3. Made(w) = [pass[w] EXCEPT !.seen = s]
      BY <2>1, <2>3 DEF Passes
    <3> HIDE DEF s, Made
    <3> QED
      BY <2>1, <2>3, <3>2, <3>3 DEF Passes
  <2>4. CASE pass[w].at \in {"utils", "rest"}
    <3>1. Made(w) = [Unclean(pass[w]) EXCEPT !.rule = "old"]
      BY <2>4
    <3> HIDE DEF Made
    <3>2. /\ Unclean(pass[w]) \in Passes /\ ~Unclean(pass[w]).clean
          /\ Unclean(pass[w]).at = pass[w].at
          /\ Unclean(pass[w]).utils = pass[w].utils
          /\ Unclean(pass[w]).rest = pass[w].rest
      BY <2>1, <2>4, UncleanType
    <3> QED
      BY <2>4, <3>1, <3>2 DEF Passes
  <2> QED
    BY <2>1, <2>2, <2>3, <2>4 DEF Passes
<1> HIDE DEF Made
<1> QED
  BY <1>1, <1>2

(* What a change by somebody else makes of it.                               *)
LEMMA MeddleType ==
  ASSUME TypeOK, Meddle
  PROVE  /\ pass' \in [Workers -> Passes]
         /\ \A w \in Workers : pass'[w] = Unclean(pass[w])
         /\ rule' = rule /\ UNCHANGED members
         /\ ok' \in [alive -> SUBSET rule.want] /\ place' \in [alive -> Places]
<1>1. \A w \in Workers : Unclean(pass[w]) \in Passes
  BY UncleanType DEF TypeOK
<1>2. /\ pass' = [w \in Workers |-> Unclean(pass[w])]
      /\ UNCHANGED <<rule, members>>
  BY DEF Meddle
<1>3. ok' \in [alive -> SUBSET rule.want] /\ place' \in [alive -> Places]
  BY GroupAssumption DEF Meddle, TypeOK
<1> QED
  BY <1>1, <1>2, <1>3

(* Both count.                                                               *)
LEMMA ChangeType == TypeOK /\ Change => changes' \in 0..MaxChanges
BY GroupAssumption DEF TypeOK, Change

-----------------------------------------------------------------------------
(* The steps of a worker that run no command change its own pass only.       *)
Quiet(w, p) ==
  /\ p \in Passes /\ Set(w, p) /\ UNCHANGED <<rules, members, state>>

Stopped(w) == [Unclean(pass[w]) EXCEPT !.utils = <<>>, !.rest = <<>>]
Resting(w) == [pass[w] EXCEPT !.at = "rest"]
RestStopped(w) == [Unclean(pass[w]) EXCEPT !.rest = <<>>]

LEMMA StoppedTypes ==
  ASSUME TypeOK, NEW w \in Workers, pass[w].at \in {"utils", "rest"}
  PROVE  /\ Stopped(w) \in Passes /\ ~Stopped(w).clean
         /\ Stopped(w).at = pass[w].at /\ Stopped(w).rule = pass[w].rule
         /\ Stopped(w).utils = <<>> /\ Stopped(w).rest = <<>>
         /\ RestStopped(w) \in Passes /\ ~RestStopped(w).clean
         /\ RestStopped(w).at = pass[w].at /\ RestStopped(w).rule = pass[w].rule
         /\ RestStopped(w).utils = pass[w].utils /\ RestStopped(w).rest = <<>>
         /\ Resting(w) \in Passes /\ Resting(w).at = "rest"
         /\ Resting(w).seen = Seen(w) /\ Resting(w).clean = pass[w].clean
         /\ Resting(w).utils = pass[w].utils /\ Resting(w).rest = pass[w].rest
         /\ Resting(w).rule = pass[w].rule
<1>1. pass[w] \in Passes
  BY DEF TypeOK
<1>2. /\ Unclean(pass[w]) \in Passes /\ ~Unclean(pass[w]).clean
      /\ Unclean(pass[w]).at = pass[w].at
      /\ Unclean(pass[w]).rule = pass[w].rule
      /\ Unclean(pass[w]).utils = pass[w].utils
  BY <1>1, UncleanType
<1>3. /\ <<>> \in Seq({"renice", "ionice", "chrt", "choom"})
      /\ <<>> \in Seq({"slice", "move", "enter", "props"})
  BY Nothing
<1> HIDE DEF Unclean
<1> QED
  BY <1>1, <1>2, <1>3 DEF Passes, Stopped, RestStopped, Resting, Seen

(* A pass is over.                                                           *)
Ended(w) == IF pass[w].clean THEN NotDue(w) ELSE Idle

LEMMA QuietSteps ==
  ASSUME TypeOK, NEW w \in Workers
  PROVE  /\ Scan(w) => Quiet(w, Scanned(w))
         /\ Prepare(w) => \/ IsDue(Seen(w)) /\ Quiet(w, Planned(w))
                          \/ ~IsDue(Seen(w)) /\ Quiet(w, Ended(w))
         /\ UtilityFails(w) => Quiet(w, Stopped(w))
         /\ UtilitiesDone(w) => Quiet(w, Resting(w))
         /\ OtherFails(w) => Quiet(w, RestStopped(w))
         /\ PassDone(w) => Quiet(w, Ended(w))
<1>1. /\ Scanned(w) \in Passes /\ Planned(w) \in Passes /\ Ended(w) \in Passes
  BY PassTypes, IdleType DEF Ended
<1>2. pass[w].at \in {"utils", "rest"} =>
        Stopped(w) \in Passes /\ Resting(w) \in Passes /\ RestStopped(w) \in Passes
  BY StoppedTypes
<1>3. Scan(w) => Quiet(w, Scanned(w))
  BY <1>1 DEF Scan, Quiet, Scanned
<1>4. ASSUME Prepare(w)
      PROVE  \/ IsDue(Seen(w)) /\ Quiet(w, Planned(w))
             \/ ~IsDue(Seen(w)) /\ Quiet(w, Ended(w))
  <2>1. /\ UNCHANGED <<rules, members, state>>
        /\ IF IsDue(Seen(w)) THEN Set(w, Planned(w)) ELSE Set(w, Ended(w))
    BY <1>4 DEF Prepare, Planned, Ended, NotDue, Over, Seen
  <2>2. CASE IsDue(Seen(w))
    BY <1>1, <2>1, <2>2 DEF Quiet
  <2>3. CASE ~IsDue(Seen(w))
    BY <1>1, <2>1, <2>3 DEF Quiet
  <2> QED
    BY <2>2, <2>3
<1>5. UtilityFails(w) => Quiet(w, Stopped(w))
  BY <1>2 DEF UtilityFails, Quiet, Stopped, At
<1>6. UtilitiesDone(w) => Quiet(w, Resting(w))
  BY <1>2 DEF UtilitiesDone, Quiet, Resting, At
<1>7. OtherFails(w) => Quiet(w, RestStopped(w))
  BY <1>2 DEF OtherFails, Quiet, RestStopped, At
<1>8. PassDone(w) => Quiet(w, Ended(w))
  BY <1>1 DEF PassDone, Quiet, Ended, NotDue, Over
<1> QED
  BY <1>3, <1>4, <1>5, <1>6, <1>7, <1>8

(* Every step keeps the types.                                               *)
LEMMA QuietType ==
  ASSUME TypeOK, NEW w \in Workers, NEW p, Quiet(w, p)
  PROVE  /\ TypeOK' /\ pass'[w] = p
         /\ \A v \in Workers \ {w} : pass'[v] = pass[v]
         /\ UNCHANGED <<rules, members, state>>
<1>1. p \in Passes /\ Set(w, p) /\ UNCHANGED <<rules, members, state>>
  BY DEF Quiet
<1>2. /\ pass' \in [Workers -> Passes] /\ pass'[w] = p
      /\ \A v \in Workers \ {w} : pass'[v] = pass[v]
  BY <1>1, SetType
<1> QED
  BY <1>1, <1>2 DEF TypeOK, rules, members, state

LEMMA NextType == TypeOK /\ [Next]_vars => TypeOK'
<1> SUFFICES ASSUME TypeOK, [Next]_vars PROVE TypeOK'
  OBVIOUS
<1>1. CASE Fork
  <2>1. PICK p \in alive, q \in unused :
          /\ alive' = alive \cup {q} /\ unused' = unused \ {q}
          /\ ok' = [r \in alive' |-> ok[IF r = q THEN p ELSE r]]
          /\ place' = [r \in alive' |-> place[IF r = q THEN p ELSE r]]
    BY <1>1 DEF Fork
  <2>2. \A r \in alive' : (IF r = q THEN p ELSE r) \in alive
    BY <2>1
  <2>3. ok' \in [alive' -> SUBSET rule.want] /\ place' \in [alive' -> Places]
    BY <2>1, <2>2 DEF TypeOK
  <2> QED
    BY <1>1, <2>1, <2>3 DEF Fork, TypeOK, rules
<1>2. CASE Exit
  <2>1. alive' \subseteq alive /\ alive' # {}
    BY <1>2 DEF Exit, TypeOK
  <2>2. ok' \in [alive' -> SUBSET rule.want] /\ place' \in [alive' -> Places]
    BY <1>2, <2>1 DEF Exit, TypeOK
  <2> QED
    BY <1>2, <2>1, <2>2 DEF Exit, TypeOK, rules
<1>3. CASE Reload
  <2>1. pass' \in [Workers -> Passes]
    BY <1>3, ReloadType
  <2>2. rule' \in Rules /\ ok' \in [alive -> SUBSET rule'.want]
    BY <1>3 DEF Reload
  <2>3. place' \in [alive -> Places]
    BY <1>3, PlaceTypes DEF Reload, TypeOK
  <2> QED
    BY <1>3, <2>1, <2>2, <2>3, ChangeType DEF Reload, TypeOK, members
<1>7. CASE Meddle
  BY <1>7, MeddleType, ChangeType DEF Meddle, TypeOK, members
<1>4. ASSUME NEW w \in Workers, Utility(w) \/ Other(w) PROVE TypeOK'
  <2>1. PICK c, p : Command(w, c, p)
    BY <1>4, CommandCases
  <2>2. pass' \in [Workers -> Passes]
    BY <2>1, ThenType DEF Command
  <2>3. ok' \in [alive -> SUBSET rule.want] /\ place' \in [alive -> Places]
    BY <2>1, EffectType DEF Command
  <2> QED
    BY <2>1, <2>2, <2>3 DEF Command, TypeOK, rules, members
<1>5. ASSUME NEW w \in Workers,
             \/ Scan(w) \/ Prepare(w) \/ UtilityFails(w)
             \/ UtilitiesDone(w) \/ OtherFails(w) \/ PassDone(w)
      PROVE  TypeOK'
  <2>1. PICK p : Quiet(w, p)
    BY <1>5, QuietSteps
  <2> QED
    BY <2>1, QuietType
<1>6. CASE UNCHANGED vars
  BY <1>6 DEF vars, TypeOK
<1> QED
  BY <1>1, <1>2, <1>3, <1>4, <1>5, <1>6, <1>7, StepCases

(* Whatever the processes and the workers do, the group is never empty, no   *)
(* pid is used twice, and every process has its attributes and its place.    *)
THEOREM TypeCorrect == Spec => []TypeOK
<1>1. Init => TypeOK
  BY InitType
<1>2. TypeOK /\ [Next]_vars => TypeOK'
  BY NextType
<1> QED
  BY <1>1, <1>2, PTL DEF Spec


-----------------------------------------------------------------------------
(* Every step keeps the passes in order.                                     *)
LEMMA UncleanOrderly ==
  ASSUME NEW v \in Workers, pass[v] \in Passes, InOrder(v),
         pass'[v] = Unclean(pass[v])
  PROVE  InOrder(v)'
<1>1. CASE pass[v].at = "scan"
  BY <1>1, UncleanType DEF InOrder, Idle
<1>2. CASE pass[v].at # "scan"
  BY <1>2, UncleanType DEF InOrder
<1> QED
  BY <1>1, <1>2

LEMMA NextOrderly == TypeOK /\ Orderly /\ [Next]_vars => Orderly'
<1> SUFFICES ASSUME TypeOK, Orderly, [Next]_vars, NEW v \in Workers
             PROVE  InOrder(v)'
  BY DEF Orderly
<1>1. InOrder(v) /\ pass[v] \in Passes
  BY DEF Orderly, TypeOK
<1>2. CASE Fork
  <2>1. unused' \subseteq unused /\ pass' = pass
    BY <1>2 DEF Fork
  <2> QED
    BY <1>1, <2>1 DEF InOrder, Seen
<1>3. CASE Exit
  <2>1. unused' = unused /\ pass' = pass
    BY <1>3 DEF Exit
  <2> QED
    BY <1>1, <2>1 DEF InOrder, Seen
<1>4. CASE Reload
  <2>1. unused' = unused
    BY <1>4 DEF Reload, members
  <2>2. CASE pass[v].at = "scan"
    BY <1>4, <2>1, <2>2, ReloadType DEF InOrder, Seen, Idle
  <2>3. CASE pass[v].at = "prepare"
    BY <1>1, <1>4, <2>1, <2>3, ReloadType DEF InOrder, Seen
  <2>4. CASE pass[v].at \in {"utils", "rest"}
    BY <1>1, <1>4, <2>1, <2>4, ReloadType DEF InOrder, Seen
  <2> QED
    BY <1>1, <2>2, <2>3, <2>4 DEF Passes
<1>5. ASSUME NEW w \in Workers, Utility(w) \/ Other(w) PROVE InOrder(v)'
  <2>1. PICK c, p : Command(w, c, p)
    BY <1>5, CommandCases
  <2>2. /\ p \in Passes /\ Then(w, p) /\ p.at = pass[w].at
        /\ p.seen = pass[w].seen /\ p.rule = pass[w].rule
        /\ p.clean = pass[w].clean /\ pass[w].at \in {"utils", "rest"}
        /\ pass[w].utils = <<>> => p.utils = <<>>
        /\ unused' = unused
    BY <2>1 DEF Command, members
  <2>3. CASE v = w /\ ~IsOld(w)
    <3>1. pass'[v] = p
      BY <2>2, <2>3, ThenType
    <3> QED
      BY <1>1, <2>2, <2>3, <3>1 DEF InOrder, Seen
  <2>4. CASE v = w /\ IsOld(w)
    <3>1. pass'[v] = Unclean(p)
      BY <2>2, <2>4, ThenType
    <3>2. ~pass'[v].clean /\ pass'[v].at = p.at /\ pass'[v].utils = p.utils
      BY <2>2, <3>1, UncleanType
    <3> QED
      BY <1>1, <2>2, <2>4, <3>2 DEF InOrder
  <2>5. CASE v # w /\ ~IsOld(w)
    <3>1. pass'[v] = pass[v]
      BY <2>2, <2>5, ThenType
    <3> QED
      BY <1>1, <2>2, <3>1 DEF InOrder, Seen
  <2>6. CASE v # w /\ IsOld(w)
    <3>1. pass'[v] = Unclean(pass[v])
      BY <2>2, <2>6, ThenType
    <3> QED
      BY <1>1, <3>1, UncleanOrderly
  <2> QED
    BY <2>3, <2>4, <2>5, <2>6
<1>10. CASE Meddle
  BY <1>1, <1>10, MeddleType, UncleanOrderly
<1>6. ASSUME NEW w \in Workers, NEW p, Quiet(w, p), v # w PROVE InOrder(v)'
  <2>1. pass'[v] = pass[v] /\ unused' = unused
    BY <1>6, QuietType DEF members
  <2> QED
    BY <1>1, <2>1 DEF InOrder, Seen
<1>7. ASSUME NEW p, Quiet(v, p),
             \/ p = Scanned(v) /\ At(v, "scan")
             \/ p = Planned(v) /\ At(v, "prepare")
             \/ p = Ended(v) /\ At(v, "prepare")
             \/ p = Ended(v) /\ At(v, "rest") /\ pass[v].rest = <<>>
             \/ p = Stopped(v) /\ At(v, "utils")
             \/ p = Resting(v) /\ At(v, "utils") /\ pass[v].utils = <<>>
             \/ p = RestStopped(v) /\ At(v, "rest")
      PROVE  InOrder(v)'
  <2>1. pass'[v] = p /\ unused' = unused
    BY <1>7, QuietType DEF members
  <2>2. CASE p = Scanned(v) /\ At(v, "scan")
    <3>1. /\ p.seen.pids = alive /\ p.at = "prepare" /\ p.utils = pass[v].utils
          /\ p.rest = pass[v].rest /\ p.rule = pass[v].rule
      BY <2>2, PassTypes, ObservedType
    <3> QED
      BY <1>1, <2>1, <2>2, <3>1 DEF InOrder, Seen, At, TypeOK
  <2>3. CASE p = Planned(v) /\ At(v, "prepare")
    <3>1. /\ p.seen = Seen(v) /\ p.at = "utils"
          /\ p.clean = pass[v].clean /\ p.rule = pass[v].rule
      BY <2>3, PassTypes
    <3> QED
      BY <1>1, <2>1, <2>3, <3>1 DEF InOrder, Seen, At
  <2>4. CASE p = Ended(v) /\ (At(v, "prepare") \/ (At(v, "rest") /\ pass[v].rest = <<>>))
    <3>1. CASE pass[v].clean
      <4>1. pass'[v] = NotDue(v)
        BY <2>1, <2>4, <3>1 DEF Ended
      <4> QED
        BY <1>1, <2>1, <2>4, <3>1, <4>1 DEF InOrder, Seen, At, NotDue, Passes
    <3>2. CASE ~pass[v].clean
      BY <2>1, <2>4, <3>2 DEF InOrder, Idle, Ended
    <3> QED
      BY <3>1, <3>2
  <2>6. CASE p = Stopped(v) /\ At(v, "utils")
    BY <1>1, <2>1, <2>6, StoppedTypes DEF InOrder, At
  <2>7. CASE p = Resting(v) /\ At(v, "utils") /\ pass[v].utils = <<>>
    BY <1>1, <2>1, <2>7, StoppedTypes DEF InOrder, Seen, At
  <2>8. CASE p = RestStopped(v) /\ At(v, "rest")
    BY <1>1, <2>1, <2>8, StoppedTypes DEF InOrder, At
  <2> QED
    BY <1>7, <2>2, <2>3, <2>4, <2>6, <2>7, <2>8
<1>8. CASE UNCHANGED vars
  BY <1>1, <1>8 DEF vars, InOrder, Seen
<1>9. ASSUME NEW w \in Workers,
             \/ Scan(w) \/ Prepare(w) \/ UtilityFails(w)
             \/ UtilitiesDone(w) \/ OtherFails(w) \/ PassDone(w)
      PROVE  InOrder(v)'
  <2>1. CASE v # w
    BY <1>6, <1>9, <2>1, QuietSteps
  <2>2. CASE v = w
    <3>1. CASE Scan(v)
      BY <1>7, <3>1, QuietSteps DEF Scan
    <3>2. CASE Prepare(v)
      <4>1. \/ Quiet(v, Planned(v)) \/ Quiet(v, Ended(v))
        BY <3>2, QuietSteps
      <4>2. At(v, "prepare")
        BY <3>2 DEF Prepare
      <4>3. CASE Quiet(v, Planned(v))
        BY <1>7, <4>2, <4>3
      <4>4. CASE Quiet(v, Ended(v))
        BY <1>7, <4>2, <4>4
      <4> QED
        BY <4>1, <4>3, <4>4
    <3>3. CASE UtilityFails(v)
      BY <1>7, <3>3, QuietSteps DEF UtilityFails
    <3>4. CASE UtilitiesDone(v)
      BY <1>7, <3>4, QuietSteps DEF UtilitiesDone
    <3>5. CASE OtherFails(v)
      BY <1>7, <3>5, QuietSteps DEF OtherFails
    <3>6. CASE PassDone(v)
      BY <1>7, <3>6, QuietSteps DEF PassDone
    <3> QED
      BY <1>9, <2>2, <3>1, <3>2, <3>3, <3>4, <3>5, <3>6
  <2> QED
    BY <2>1, <2>2
<1> QED
  BY <1>2, <1>3, <1>4, <1>5, <1>8, <1>9, <1>10, StepCases


-----------------------------------------------------------------------------
(* What holds of the group while a pass is clean.  Its members need not      *)
(* agree in anything when it begins.                                         *)

(* Nobody moves the group away from the slice of its present rule.           *)
NeverOut(w) ==
  pass[w].rule = "new" /\ rule.key => "move" \notin Range(pass[w].rest)

Has(w, c) == \A p \in Targets(w, c) : Sets(c) \cap rule.want \subseteq ok[p]
SeenLeader(w) == Leader(Seen(w).pids)
Kept(w) == SeenLeader(w) \in alive => Seen(w).ok \cap rule.want \subseteq ok[SeenLeader(w)]
Moved(w) == \A p \in alive \cap Seen(w).pids : place[p].nicy = "own"
LeaderOut(w) == SeenLeader(w) \in alive => place[SeenLeader(w)] # Session

(* What the scan saw to be right of the leader is still right ...            *)
SeenHolds(w) == Kept(w) /\ (Seen(w).place # Session => LeaderOut(w))

(* ... and the utilities that the review asks for have been run by now, on   *)
(* every process they reach, or are still to be; so is the move.             *)
Asked(w) ==
  {c \in Utils : \/ c = "renice" /\ IsDue(Seen(w))
                 \/ Sets(c) \subseteq Diff(Seen(w)).attrs}

DoneOrAhead(w) ==
  /\ \A c \in Asked(w) : c \in Range(pass[w].utils) \/ Has(w, c)
  /\ Moves(Seen(w)) => "enter" \in Range(pass[w].rest) \/ Moved(w)
  /\ rule.props => \/ {"enter", "move"} \cap Range(pass[w].rest) # {}
                   \/ LeaderOut(w)

Sound(w) ==
  /\ NeverOut(w)
  /\ pass[w].clean =>
       SeenHolds(w) /\ (pass[w].at # "prepare" => DoneOrAhead(w))

GroupInv == TypeOK /\ Orderly /\ \A w \in Workers : Sound(w)

LEMMA TargetsOf ==
  ASSUME NEW w \in Workers
  PROVE  /\ Targets(w, "renice") = alive /\ Targets(w, "ionice") = alive
         /\ Targets(w, "chrt") = alive \cap {SeenLeader(w)}
         /\ Targets(w, "choom") = alive \cap {SeenLeader(w)}
         /\ Targets(w, "move") = alive \cap Seen(w).pids
         /\ Targets(w, "enter") = alive \cap Seen(w).pids
         /\ \A c \in Utils \cup Others : Targets(w, c) \subseteq alive
BY DEF Targets, SeenLeader, Seen, Utils, Others

LEMMA SetsOf ==
  /\ Sets("renice") = {"nice"} /\ Sets("ionice") = {"ioclass"}
  /\ Sets("chrt") = {"sched"} /\ Sets("choom") = {"oom"}
  /\ \A c \in Others : Sets(c) = {}
BY DEF Sets, Others

LEMMA SeenLeaderSeen ==
  ASSUME TypeOK, Orderly, NEW w \in Workers, pass[w].clean
  PROVE  SeenLeader(w) \in Seen(w).pids
<1>1. Seen(w).pids # {} /\ Seen(w).pids \in SUBSET Nat
  BY PassTypes, GroupAssumption DEF Orderly, InOrder, SeenType
<1> QED
  BY <1>1, LeaderLeads DEF SeenLeader

(* What a pass is about depends on the rule and on what its scan saw.        *)
LEMMA SameReview ==
  ASSUME NEW w \in Workers, rule' = rule, Seen(w)' = Seen(w)
  PROVE  /\ SeenLeader(w)' = SeenLeader(w) /\ Diff(Seen(w))' = Diff(Seen(w))
         /\ Asked(w)' = Asked(w) /\ (Moves(Seen(w))' <=> Moves(Seen(w)))
         /\ (IsDue(Seen(w))' <=> IsDue(Seen(w)))
         /\ Moves(Seen(w)) => rule.key
<1>1. /\ SeenLeader(w)' = SeenLeader(w) /\ Diff(Seen(w))' = Diff(Seen(w))
      /\ (IsDue(Seen(w))' <=> IsDue(Seen(w)))
  BY DEF SeenLeader, Diff, IsDue
<1>2. Asked(w)' = Asked(w)
  BY <1>1 DEF Asked
<1>3. (Moves(Seen(w))' <=> Moves(Seen(w))) /\ (Moves(Seen(w)) => rule.key)
  BY <1>1 DEF Moves, Movable, Diff
<1> QED
  BY <1>1, <1>2, <1>3

(* A step that undoes nothing keeps a pass sound that it does not change.    *)
Keeps(w) ==
  /\ \A c \in Utils : Has(w, c) => Has(w, c)'
  /\ Kept(w) => Kept(w)'
  /\ rule.key /\ Moved(w) => Moved(w)'
  /\ LeaderOut(w) => LeaderOut(w)'

LEMMA SoundStays ==
  ASSUME NEW w \in Workers, Sound(w), rule' = rule,
         pass'[w] = pass[w], pass[w].clean => Keeps(w)
  PROVE  Sound(w)'
<1>1. NeverOut(w)'
  BY DEF Sound, NeverOut
<1>2. Seen(w)' = Seen(w)
  BY DEF Seen
<1>3. /\ Asked(w)' = Asked(w) /\ (Moves(Seen(w))' <=> Moves(Seen(w)))
      /\ (Moves(Seen(w)) => rule.key)
  BY <1>2, SameReview
<1>4. ASSUME pass[w].clean
      PROVE  (SeenHolds(w) /\ (pass[w].at # "prepare" => DoneOrAhead(w)))'
  <2>1. SeenHolds(w) /\ (pass[w].at # "prepare" => DoneOrAhead(w)) /\ Keeps(w)
    BY <1>4 DEF Sound
  <2>2. SeenHolds(w)'
    BY <1>2, <2>1 DEF SeenHolds, Keeps
  <2>3. ASSUME pass[w].at # "prepare" PROVE DoneOrAhead(w)'
    <3>1. \A c \in Asked(w) : c \in Utils
      BY DEF Asked
    <3> QED
      BY <1>3, <2>1, <2>3, <3>1 DEF DoneOrAhead, Keeps
  <2> QED
    BY <2>2, <2>3
<1> QED
  BY <1>1, <1>4 DEF Sound

(* Nor does one that changes neither the processes nor what a pass has seen. *)
LEMMA SameKeeps ==
  ASSUME NEW w \in Workers, rule' = rule, alive' = alive, ok' = ok,
         place' = place, Seen(w)' = Seen(w)
  PROVE  /\ Keeps(w) /\ (Kept(w)' <=> Kept(w)) /\ (Moved(w)' <=> Moved(w))
         /\ (LeaderOut(w)' <=> LeaderOut(w))
         /\ \A c \in Utils : Has(w, c)' <=> Has(w, c)
<1>1. \A c \in Utils : Targets(w, c)' = Targets(w, c)
  BY DEF Targets, Seen
<1>2. SeenLeader(w)' = SeenLeader(w)
  BY DEF SeenLeader
<1>3. \A c \in Utils : Has(w, c)' <=> Has(w, c)
  BY <1>1 DEF Has
<1>4. /\ (Kept(w)' <=> Kept(w)) /\ (Moved(w)' <=> Moved(w))
      /\ (LeaderOut(w)' <=> LeaderOut(w))
  BY <1>2 DEF Kept, Moved, LeaderOut
<1> QED
  BY <1>3, <1>4 DEF Keeps

(* A command of the present rule undoes nothing.                             *)
LEMMA CommandKeeps ==
  ASSUME TypeOK, NEW v \in Workers, NEW w \in Workers,
         NEW c \in Utils \cup Others, Effect(v, c), ~IsOld(v), alive' = alive,
         rule' = rule, Seen(w)' = Seen(w), rule.key => c # "move"
  PROVE  Keeps(w)
<1>1. /\ \A p \in alive : ok[p] \subseteq ok'[p]
      /\ \A p \in alive : \/ place'[p] = place[p]
                          \/ place'[p] = Place(SliceUnit, "own")
                          \/ place'[p] = Place("managed", "no") /\ c = "move"
  BY EffectType
<1>2. \A b \in Utils : Targets(w, b)' = Targets(w, b) /\ Targets(w, b) \subseteq alive
  BY TargetsOf DEF Targets, Seen
<1>3. SeenLeader(w)' = SeenLeader(w)
  BY DEF SeenLeader
<1>4. ASSUME NEW b \in Utils, Has(w, b) PROVE Has(w, b)'
  BY <1>1, <1>2, <1>4 DEF Has
<1>5. ASSUME rule.key, Moved(w) PROVE Moved(w)'
  BY <1>1, <1>5, PlaceTypes DEF Moved
<1>6. ASSUME LeaderOut(w) PROVE LeaderOut(w)'
  BY <1>1, <1>3, <1>6, PlaceTypes DEF LeaderOut
<1>7. ASSUME Kept(w) PROVE Kept(w)'
  BY <1>1, <1>3, <1>7 DEF Kept
<1> QED
  BY <1>4, <1>5, <1>6, <1>7 DEF Keeps

(* Nor does a process that comes or goes.                                    *)
LEMMA ProcessKeeps ==
  ASSUME TypeOK, Orderly, Fork \/ Exit, NEW w \in Workers, pass[w].clean
  PROVE  Keeps(w)
<1>1. Seen(w)' = Seen(w) /\ SeenLeader(w)' = SeenLeader(w) /\ rule' = rule
  BY DEF Fork, Exit, Seen, SeenLeader, rules
<1>2. SeenLeader(w) \in Seen(w).pids /\ Seen(w).pids \cap unused = {}
  BY SeenLeaderSeen DEF Orderly, InOrder
<1>3. /\ \A p \in alive' : \E q \in alive : ok'[p] = ok[q]
      /\ \A p \in alive' \cap Seen(w).pids :
           p \in alive /\ ok'[p] = ok[p] /\ place'[p] = place[p]
  <2>1. CASE Fork
    <3>1. PICK p \in alive, q \in unused :
            /\ alive' = alive \cup {q}
            /\ ok' = [r \in alive' |-> ok[IF r = q THEN p ELSE r]]
            /\ place' = [r \in alive' |-> place[IF r = q THEN p ELSE r]]
      BY <2>1 DEF Fork
    <3> QED
      BY <1>2, <3>1
  <2>2. CASE Exit
    BY <2>2 DEF Exit
  <2> QED
    BY <2>1, <2>2
<1>4. /\ \A b \in {"renice", "ionice"} :
           Targets(w, b) = alive /\ Targets(w, b)' = alive'
      /\ \A b \in {"chrt", "choom"} :
           /\ Targets(w, b) = alive \cap {SeenLeader(w)}
           /\ Targets(w, b)' = alive' \cap {SeenLeader(w)}
  BY <1>1 DEF Targets, SeenLeader, Seen
<1>5. ASSUME NEW b \in Utils, Has(w, b) PROVE Has(w, b)'
  <2>1. CASE b \in {"renice", "ionice"}
    BY <1>1, <1>3, <1>4, <1>5, <2>1 DEF Has
  <2>2. CASE b \in {"chrt", "choom"}
    BY <1>1, <1>2, <1>3, <1>4, <1>5, <2>2 DEF Has
  <2> QED
    BY <2>1, <2>2 DEF Utils
<1>6. ASSUME Moved(w) PROVE Moved(w)'
  BY <1>1, <1>3, <1>6 DEF Moved
<1>7. ASSUME LeaderOut(w) PROVE LeaderOut(w)'
  BY <1>1, <1>2, <1>3, <1>7 DEF LeaderOut
<1>8. ASSUME Kept(w) PROVE Kept(w)'
  BY <1>1, <1>2, <1>3, <1>8 DEF Kept
<1> QED
  BY <1>5, <1>6, <1>7, <1>8 DEF Keeps


-----------------------------------------------------------------------------
LEMMA InitGroup == Init => GroupInv
<1> SUFFICES ASSUME Init PROVE GroupInv
  OBVIOUS
<1>1. TypeOK /\ Orderly
  BY InitType
<1>2. ASSUME NEW w \in Workers PROVE Sound(w)
  <2>1. pass[w].rest = <<>> /\ ~pass[w].clean
    BY DEF Init, Idle
  <2> QED
    BY <2>1, Nothing DEF Sound, NeverOut
<1> QED
  BY <1>1, <1>2 DEF GroupInv

(* A command of the present rule does what the pass has planned, ...         *)
LEMMA CommandSound ==
  ASSUME GroupInv, NEW w \in Workers, NEW c, NEW p, Command(w, c, p),
         ~IsOld(w), NEW v \in Workers
  PROVE  Sound(v)'
<1>1. TypeOK /\ Orderly /\ Sound(v) /\ Sound(w)
  BY DEF GroupInv
<1>2. /\ c \in Utils \cup Others /\ Effect(w, c) /\ Then(w, p) /\ p \in Passes
      /\ p.at = pass[w].at /\ p.seen = pass[w].seen /\ p.rule = pass[w].rule
      /\ p.clean = pass[w].clean /\ pass[w].at # "prepare"
      /\ Range(pass[w].utils) \subseteq Range(p.utils) \cup {c}
      /\ Range(pass[w].rest) \subseteq Range(p.rest) \cup {c}
      /\ Range(p.rest) \subseteq Range(pass[w].rest)
      /\ c = "move" => c \in Range(pass[w].rest)
      /\ rule' = rule /\ alive' = alive
  BY DEF Command, rules, members
<1>3. pass[w].rule = "new"
  BY <1>1 DEF IsOld, TypeOK, Passes
<1>4. rule.key => c # "move"
  BY <1>1, <1>2, <1>3 DEF Sound, NeverOut
<1>5. pass'[w] = p /\ (v # w => pass'[v] = pass[v])
  BY <1>1, <1>2, ThenType
<1>6. Seen(v)' = Seen(v)
  BY <1>2, <1>5 DEF Seen
<1>7. Keeps(v)
  BY <1>1, <1>2, <1>4, <1>6, CommandKeeps
<1>8. CASE v # w
  BY <1>1, <1>2, <1>5, <1>7, <1>8, SoundStays
<1>9. CASE v = w
  <2>1. NeverOut(v)'
    BY <1>1, <1>2, <1>5, <1>9 DEF Sound, NeverOut
  <2>2. SUFFICES ASSUME pass[v].clean
                 PROVE  SeenHolds(v)' /\ DoneOrAhead(v)'
    BY <1>2, <1>5, <1>9, <2>1 DEF Sound
  <2>3. SeenHolds(v) /\ DoneOrAhead(v)
    BY <1>1, <1>2, <1>9, <2>2 DEF Sound
  <2>4. SeenHolds(v)'
    BY <1>6, <1>7, <2>3 DEF SeenHolds, Keeps
  <2>5. ASSUME c \in Utils PROVE Has(v, c)'
    <3>1. Targets(v, c)' = Targets(v, c) /\ Targets(v, c) \subseteq alive
      BY <1>2, <1>6, TargetsOf DEF Targets, Seen
    <3>2. \A q \in Targets(v, c) : ok'[q] = ok[q] \cup (Sets(c) \cap rule.want)
      BY <1>1, <1>2, <1>9, <3>1, EffectType
    <3> QED
      BY <1>2, <3>1, <3>2 DEF Has
  <2>6. ASSUME NEW b \in Asked(v) PROVE b \in Range(p.utils) \/ Has(v, b)'
    <3>1. b \in Utils
      BY DEF Asked
    <3> QED
      BY <1>2, <1>7, <1>9, <2>3, <2>5, <3>1 DEF DoneOrAhead, Keeps
  <2>7. c = "enter" => Moved(v)' /\ LeaderOut(v)'
    <3>1. SUFFICES ASSUME c = "enter" PROVE Moved(v)' /\ LeaderOut(v)'
      OBVIOUS
    <3>2. \A q \in alive \cap Seen(v).pids : place'[q] = Place(SliceUnit, "own")
      BY <1>1, <1>2, <1>9, <3>1, TargetsOf, EffectType
    <3>3. SeenLeader(v) \in Seen(v).pids
      BY <1>1, <2>2, SeenLeaderSeen
    <3> QED
      BY <1>2, <1>6, <3>2, <3>3, PlaceTypes DEF Moved, LeaderOut, SeenLeader
  <2>8. c = "move" => LeaderOut(v)'
    <3>1. SUFFICES ASSUME c = "move" PROVE LeaderOut(v)'
      OBVIOUS
    <3>2. \A q \in alive \cap Seen(v).pids : place'[q] = Place("managed", "no")
      BY <1>1, <1>2, <1>9, <3>1, TargetsOf, EffectType
    <3>3. SeenLeader(v) \in Seen(v).pids
      BY <1>1, <2>2, SeenLeaderSeen
    <3> QED
      BY <1>2, <1>6, <3>2, <3>3, PlaceTypes DEF LeaderOut, SeenLeader
  <2>9. /\ Asked(v)' = Asked(v) /\ (Moves(Seen(v))' <=> Moves(Seen(v)))
        /\ (Moves(Seen(v)) => rule.key)
    BY <1>2, <1>6, SameReview
  <2>10. Moves(Seen(v)) => "enter" \in Range(p.rest) \/ Moved(v)'
    BY <1>2, <1>7, <1>9, <2>3, <2>7, <2>9 DEF DoneOrAhead, Keeps
  <2>11. rule.props => \/ {"enter", "move"} \cap Range(p.rest) # {}
                       \/ LeaderOut(v)'
    BY <1>2, <1>7, <1>9, <2>3, <2>7, <2>8 DEF DoneOrAhead, Keeps
  <2> QED
    BY <1>2, <1>5, <1>9, <2>4, <2>6, <2>9, <2>10, <2>11 DEF DoneOrAhead
<1> QED
  BY <1>8, <1>9

(* ... and one of an older rule leaves no pass clean, as a change by others  *)
(* does.                                                                     *)
LEMMA UncleanSound ==
  ASSUME NEW v \in Workers, pass[v] \in Passes, Sound(v), rule' = rule,
         pass'[v] = Unclean(pass[v])
  PROVE  Sound(v)'
<1>1. CASE pass[v].at = "scan"
  BY <1>1, UncleanType, Nothing DEF Sound, NeverOut, Idle
<1>2. CASE pass[v].at # "scan"
  BY <1>2, UncleanType DEF Sound, NeverOut
<1> QED
  BY <1>1, <1>2

LEMMA OldCommandSound ==
  ASSUME GroupInv, NEW w \in Workers, NEW c, NEW p, Command(w, c, p),
         IsOld(w), NEW v \in Workers
  PROVE  Sound(v)'
<1>1. TypeOK /\ Sound(v) /\ pass[v] \in Passes
  BY DEF GroupInv, TypeOK
<1>2. /\ Then(w, p) /\ p \in Passes /\ p.rule = "old" /\ rule' = rule
      /\ p.at # "scan"
  BY DEF Command, rules, IsOld
<1>3. CASE v = w
  <2>1. pass'[v] = Unclean(p)
    BY <1>1, <1>2, <1>3, ThenType
  <2> QED
    BY <1>2, <2>1, UncleanType DEF Sound, NeverOut
<1>4. CASE v # w
  <2>1. pass'[v] = Unclean(pass[v])
    BY <1>1, <1>2, <1>4, ThenType
  <2> QED
    BY <1>1, <1>2, <2>1, UncleanSound
<1> QED
  BY <1>3, <1>4

LEMMA ReloadSound ==
  ASSUME GroupInv, Reload, NEW v \in Workers
  PROVE  Sound(v)'
<1>1. TypeOK /\ Orderly /\ Sound(v) /\ pass[v] \in Passes
  BY DEF GroupInv, TypeOK
<1>2. CASE pass[v].at = "scan"
  BY <1>1, <1>2, ReloadType, Nothing DEF Sound, NeverOut, Idle
<1>3. CASE pass[v].at \in {"utils", "rest"}
  BY <1>1, <1>3, ReloadType DEF Sound, NeverOut
<1>4. CASE pass[v].at = "prepare"
  <2>1. /\ pass'[v].at = "prepare" /\ pass'[v].clean = pass[v].clean
        /\ Seen(v)'.pids = Seen(v).pids /\ Seen(v)'.ok = {}
        /\ Seen(v)'.place = OutOfPlace(Seen(v).place)
        /\ pass'[v].rest = <<>>
    BY <1>1, <1>4, ReloadType DEF Seen, Orderly, InOrder
  <2>2. NeverOut(v)'
    BY <2>1, Nothing DEF NeverOut
  <2>3. ASSUME pass[v].clean PROVE SeenHolds(v)'
    <3>1. Kept(v)'
      BY <2>1 DEF Kept
    <3>2. SeenLeader(v)' = SeenLeader(v) /\ alive' = alive
      BY <2>1 DEF SeenLeader, Reload, members
    <3>3. ASSUME Seen(v)'.place # Session PROVE LeaderOut(v)'
      <4>1. Seen(v).place # Session
        BY <1>1, <2>1, <3>3, PlaceTypes DEF Passes, Seen
      <4>2. LeaderOut(v)
        BY <1>1, <2>3, <4>1 DEF Sound, SeenHolds
      <4>3. \A q \in alive : place'[q] = OutOfPlace(place[q]) /\ place[q] \in Places
        BY <1>1 DEF Reload, TypeOK
      <4> QED
        BY <3>2, <4>2, <4>3, PlaceTypes DEF LeaderOut
    <3> QED
      BY <3>1, <3>3 DEF SeenHolds
  <2> QED
    BY <2>1, <2>2, <2>3 DEF Sound
<1> QED
  BY <1>1, <1>2, <1>3, <1>4 DEF Passes


-----------------------------------------------------------------------------
(* A scan sees what is so; ...                                               *)
LEMMA ScanSound ==
  ASSUME GroupInv, NEW w \in Workers, At(w, "scan"), Quiet(w, Scanned(w))
  PROVE  Sound(w)'
<1>1. TypeOK /\ Orderly
  BY DEF GroupInv
<1>2. /\ pass'[w] = Scanned(w) /\ pass'[w].at = "prepare"
      /\ pass'[w].rest = <<>> /\ Seen(w)' = Observed /\ UNCHANGED state
      /\ alive' = alive
  BY <1>1, QuietType, PassTypes DEF Orderly, InOrder, At, Seen, members
<1>3. NeverOut(w)'
  BY <1>2, Nothing DEF NeverOut
<1>4. /\ Leader(alive) \in alive /\ Observed.ok = ok[Leader(alive)]
      /\ Observed.place = place[Leader(alive)] /\ Observed.pids = alive
  BY <1>1, ObservedType
<1>5. SeenLeader(w)' = Leader(alive)
  BY <1>2, <1>4 DEF SeenLeader
<1>6. ok' = ok /\ place' = place
  BY <1>2 DEF state
<1>7. Kept(w)'
  BY <1>2, <1>4, <1>5, <1>6 DEF Kept
<1>8. Observed.place # Session => LeaderOut(w)'
  BY <1>4, <1>5, <1>6 DEF LeaderOut
<1>9. SeenHolds(w)'
  BY <1>2, <1>7, <1>8 DEF SeenHolds
<1> QED
  BY <1>2, <1>3, <1>9 DEF Sound

(* ... what the review asks for is planned, ...                              *)
LEMMA PlannedSound ==
  ASSUME GroupInv, NEW w \in Workers, At(w, "prepare"), Quiet(w, Planned(w))
  PROVE  Sound(w)'
<1>1. TypeOK /\ Orderly /\ Sound(w)
  BY DEF GroupInv
<1> DEFINE s == Seen(w)
           d == Diff(Seen(w))
<1>2. /\ pass'[w] = Planned(w) /\ pass'[w].utils = Utilities(d)
      /\ pass'[w].rest = ForSystemd(s, d) /\ Seen(w)' = s
      /\ pass'[w].clean = pass[w].clean /\ pass'[w].at = "utils"
      /\ UNCHANGED <<rules, members, state>>
  BY <1>1, QuietType, PassTypes DEF Seen
<1>3. s \in SeenType /\ d \in Difference
  BY <1>1, PassTypes, DiffType
<1>4. /\ d.attrs = rule.want \ s.ok /\ d.props = rule.props
      /\ (rule.key /\ s.place = Session => d.key) /\ (Moves(s) => d.key /\ Movable(s))
  BY DEF Diff, Moves
<1>5. rule' = rule /\ alive' = alive /\ ok' = ok /\ place' = place
  BY <1>2 DEF rules, members, state
<1>6. Asked(w)' = Asked(w) /\ (Moves(Seen(w))' <=> Moves(s))
  BY <1>2, <1>5, SameReview
<1>7. \A c \in Asked(w) : c \in Utils /\ (c = "renice" \/ Sets(c) \subseteq d.attrs)
  BY DEF Asked
<1> HIDE DEF d
<1>8. NeverOut(w)'
  BY <1>2, <1>3, <1>4, <1>5, ForSystemdOf DEF NeverOut
<1>9. (Kept(w)' <=> Kept(w)) /\ (LeaderOut(w)' <=> LeaderOut(w))
  BY <1>2, <1>5, SameKeeps
<1>10. ASSUME pass[w].clean PROVE SeenHolds(w)' /\ DoneOrAhead(w)'
  <2>1. SeenHolds(w)
    BY <1>1, <1>10 DEF Sound
  <2>2. SeenHolds(w)'
    BY <1>2, <1>9, <2>1 DEF SeenHolds
  <2>3. \A c \in Asked(w) : c \in Range(Utilities(d))
    BY <1>3, <1>7, UtilitiesOf
  <2>4. Moves(s) => "enter" \in Range(ForSystemd(s, d))
    BY <1>3, <1>4, ForSystemdOf
  <2>5. rule.props => \/ {"enter", "move"} \cap Range(ForSystemd(s, d)) # {}
                      \/ LeaderOut(w)
    <3>1. CASE s.place = Session /\ d.key
      BY <1>3, <3>1, ForSystemdOf, PlaceTypes DEF Movable
    <3>2. CASE s.place = Session /\ ~d.key
      BY <1>3, <1>4, <3>2, ForSystemdOf
    <3>3. CASE s.place # Session
      BY <2>1, <3>3 DEF SeenHolds
    <3> QED
      BY <3>1, <3>2, <3>3
  <2> QED
    BY <1>2, <1>5, <1>6, <1>9, <2>2, <2>3, <2>4, <2>5 DEF DoneOrAhead
<1> QED
  BY <1>2, <1>8, <1>10 DEF Sound

(* ... and a pass that has nothing to do leaves nothing to be done.          *)
LEMMA EndedSound ==
  ASSUME GroupInv, NEW w \in Workers, Quiet(w, Ended(w)),
         (At(w, "prepare") /\ ~IsDue(Seen(w))) \/ At(w, "rest")
  PROVE  Sound(w)'
<1>1. TypeOK /\ Orderly /\ Sound(w) /\ pass[w] \in Passes
  BY DEF GroupInv, TypeOK
<1>2. /\ pass'[w] = Ended(w)
      /\ rule' = rule /\ alive' = alive /\ ok' = ok /\ place' = place
  BY <1>1, QuietType DEF rules, members, state
<1>3. CASE ~pass[w].clean
  <2>1. pass'[w].rest = <<>> /\ ~pass'[w].clean
    BY <1>2, <1>3 DEF Ended, Idle
  <2> QED
    BY <2>1, Nothing DEF Sound, NeverOut
<1>4. CASE pass[w].clean
  <2>1. /\ pass'[w].utils = pass[w].utils
        /\ pass'[w].rest = pass[w].rest /\ Seen(w)' = Seen(w)
        /\ pass'[w].clean = pass[w].clean /\ pass'[w].rule = pass[w].rule
    BY <1>1, <1>2, <1>4 DEF Ended, Seen, NotDue, Passes
  <2>2. /\ Asked(w)' = Asked(w) /\ (Moves(Seen(w))' <=> Moves(Seen(w)))
        /\ Asked(w) \subseteq Utils
    BY <1>2, <2>1, SameReview DEF Asked
  <2>3. /\ \A c \in Utils : Has(w, c)' <=> Has(w, c)
        /\ (Kept(w)' <=> Kept(w)) /\ (Moved(w)' <=> Moved(w))
        /\ (LeaderOut(w)' <=> LeaderOut(w))
    BY <1>2, <2>1, SameKeeps
  <2>4. NeverOut(w)'
    BY <1>1, <1>2, <2>1 DEF Sound, NeverOut
  <2>5. SeenHolds(w)
    BY <1>1, <1>4 DEF Sound
  <2>6. DoneOrAhead(w)
    <3>1. CASE At(w, "rest")
      BY <1>1, <1>4, <3>1 DEF Sound, At
    <3>2. CASE ~IsDue(Seen(w))
      <4>1. /\ Diff(Seen(w)).attrs = {} /\ ~rule.props /\ ~Moves(Seen(w))
        BY <3>2 DEF IsDue, Diff, Moves
      <4>2. Asked(w) = {}
        <5>1. \A c \in Utils : Sets(c) # {}
          BY SetsOf DEF Utils
        <5> QED
          BY <3>2, <4>1, <5>1 DEF Asked
      <4> QED
        BY <4>1, <4>2 DEF DoneOrAhead
    <3> QED
      BY <3>1, <3>2
  <2>7. SeenHolds(w)' /\ DoneOrAhead(w)'
    BY <1>2, <2>1, <2>2, <2>3, <2>5, <2>6 DEF SeenHolds, DoneOrAhead
  <2> QED
    BY <2>4, <2>7 DEF Sound
<1> QED
  BY <1>3, <1>4

LEMMA QuietSound ==
  ASSUME GroupInv, NEW w \in Workers, NEW v \in Workers,
         \/ Scan(w) \/ Prepare(w) \/ UtilityFails(w)
         \/ UtilitiesDone(w) \/ OtherFails(w) \/ PassDone(w)
  PROVE  Sound(v)'
<1>1. TypeOK /\ Orderly /\ Sound(v) /\ pass[w] \in Passes
  BY DEF GroupInv, TypeOK
<1>2. CASE v # w
  <2>1. PICK p : Quiet(w, p)
    BY <1>1, QuietSteps
  <2>2. /\ pass'[v] = pass[v] /\ rule' = rule
        /\ alive' = alive /\ ok' = ok /\ place' = place
    BY <1>1, <1>2, <2>1, QuietType DEF rules, members, state
  <2>3. Keeps(v)
    BY <2>2, SameKeeps DEF Seen
  <2> QED
    BY <1>1, <2>2, <2>3, SoundStays
<1>3. CASE Scan(w) /\ v = w
  BY <1>1, <1>3, QuietSteps, ScanSound DEF Scan
<1>4. CASE Prepare(w) /\ v = w
  <2>1. At(w, "prepare")
    BY <1>4 DEF Prepare
  <2>2. CASE IsDue(Seen(w)) /\ Quiet(w, Planned(w))
    BY <1>4, <2>1, <2>2, PlannedSound
  <2>3. CASE ~IsDue(Seen(w)) /\ Quiet(w, Ended(w))
    BY <1>4, <2>1, <2>3, EndedSound
  <2> QED
    BY <1>1, <1>4, <2>2, <2>3, QuietSteps
<1>5. CASE UtilityFails(w) /\ v = w
  <2>1. pass'[w] = Stopped(w) /\ pass[w].at = "utils"
    BY <1>1, <1>5, QuietSteps, QuietType DEF UtilityFails, At
  <2> QED
    BY <1>1, <1>5, <2>1, StoppedTypes, Nothing DEF Sound, NeverOut
<1>6. CASE OtherFails(w) /\ v = w
  <2>1. pass'[w] = RestStopped(w) /\ pass[w].at = "rest"
    BY <1>1, <1>6, QuietSteps, QuietType DEF OtherFails, At
  <2> QED
    BY <1>1, <1>6, <2>1, StoppedTypes, Nothing DEF Sound, NeverOut
<1>7. CASE UtilitiesDone(w) /\ v = w
  <2>1. /\ pass'[w] = Resting(w) /\ rule' = rule /\ pass[w].at = "utils"
        /\ alive' = alive /\ ok' = ok /\ place' = place
    BY <1>1, <1>7, QuietSteps, QuietType DEF rules, members, state, UtilitiesDone, At
  <2>2. /\ Seen(w)' = Seen(w) /\ pass'[w].utils = pass[w].utils
        /\ pass'[w].rest = pass[w].rest /\ pass'[w].clean = pass[w].clean
        /\ pass'[w].rule = pass[w].rule /\ pass[w].at # "prepare"
    BY <1>1, <2>1, StoppedTypes DEF Seen
  <2>3. /\ Asked(w)' = Asked(w) /\ (Moves(Seen(w))' <=> Moves(Seen(w)))
        /\ Asked(w) \subseteq Utils
    BY <2>1, <2>2, SameReview DEF Asked
  <2>4. /\ \A c \in Utils : Has(w, c)' <=> Has(w, c)
        /\ (Kept(w)' <=> Kept(w)) /\ (Moved(w)' <=> Moved(w))
        /\ (LeaderOut(w)' <=> LeaderOut(w))
    BY <2>1, <2>2, SameKeeps
  <2>5. NeverOut(w)'
    BY <1>1, <1>7, <2>1, <2>2 DEF Sound, NeverOut
  <2>6. ASSUME pass[w].clean PROVE SeenHolds(w)' /\ DoneOrAhead(w)'
    BY <1>1, <1>7, <2>1, <2>2, <2>3, <2>4, <2>6
       DEF Sound, SeenHolds, DoneOrAhead
  <2> QED
    BY <1>7, <2>2, <2>5, <2>6 DEF Sound
<1>8. CASE PassDone(w) /\ v = w
  BY <1>1, <1>8, QuietSteps, EndedSound DEF PassDone
<1> QED
  BY <1>2, <1>3, <1>4, <1>5, <1>6, <1>7, <1>8

LEMMA NextGroup == GroupInv /\ [Next]_vars => GroupInv'
<1> SUFFICES ASSUME GroupInv, [Next]_vars PROVE GroupInv'
  OBVIOUS
<1>1. TypeOK /\ Orderly
  BY DEF GroupInv
<1>2. TypeOK' /\ Orderly'
  BY <1>1, NextType, NextOrderly
<1>3. ASSUME NEW v \in Workers PROVE Sound(v)'
  <2>1. Sound(v) /\ pass[v] \in Passes
    BY DEF GroupInv, TypeOK
  <2>2. CASE Fork \/ Exit
    <3>1. pass' = pass /\ rule' = rule
      BY <2>2 DEF Fork, Exit, rules
    <3> QED
      BY <1>1, <2>1, <2>2, <3>1, ProcessKeeps, SoundStays
  <2>3. CASE Reload
    BY <2>3, ReloadSound
  <2>4. CASE Meddle
    BY <1>1, <2>1, <2>4, MeddleType, UncleanSound
  <2>5. ASSUME NEW w \in Workers, Utility(w) \/ Other(w) PROVE Sound(v)'
    <3>1. PICK c, p : Command(w, c, p)
      BY <1>1, <2>5, CommandCases
    <3> QED
      BY <3>1, CommandSound, OldCommandSound
  <2>6. CASE UNCHANGED vars
    <3>1. Keeps(v) /\ pass' = pass /\ rule' = rule
      BY <2>6, SameKeeps DEF vars, Seen
    <3> QED
      BY <2>1, <3>1, SoundStays
  <2> QED
    BY <2>2, <2>3, <2>4, <2>5, <2>6, StepCases, QuietSound
<1> QED
  BY <1>2, <1>3 DEF GroupInv


-----------------------------------------------------------------------------
LEMMA GroupAlways == Spec => []GroupInv
BY InitGroup, NextGroup, PTL DEF Spec

(* After a pass that is clean, no command is left and everything is done.    *)
LEMMA AllDone ==
  ASSUME GroupInv, NEW w \in Workers, AfterPass(w)
  PROVE  /\ \A c \in Asked(w) : Has(w, c)
         /\ Moves(Seen(w)) => Moved(w)
         /\ rule.props => LeaderOut(w)
         /\ Kept(w)
         /\ SeenLeader(w) \in Seen(w).pids
<1>1. /\ TypeOK /\ Orderly /\ Sound(w) /\ InOrder(w)
      /\ pass[w].at = "scan" /\ pass[w].clean
  BY DEF GroupInv, AfterPass, At, Orderly
<1>2. Range(pass[w].utils) = {} /\ Range(pass[w].rest) = {}
  BY <1>1, Nothing DEF InOrder
<1>3. SeenHolds(w) /\ DoneOrAhead(w)
  BY <1>1 DEF Sound
<1>4. SeenLeader(w) \in Seen(w).pids
  BY <1>1, SeenLeaderSeen
<1> QED
  BY <1>2, <1>3, <1>4 DEF SeenHolds, DoneOrAhead

(* Whatever the processes of the group and the other workers do, and however *)
(* often the presets are loaded again: after a pass without failures, that   *)
(* nobody else interferes with, the leader that it saw, if it still runs, is *)
(* what its rule says, as far as nicy moves groups at all.                   *)
THEOREM LeaderIsReconciled == Spec => []LeaderReconciled
<1>1. GroupInv => LeaderReconciled
  <2> SUFFICES ASSUME GroupInv, NEW w \in Workers, AfterPass(w),
                      SeenLeader(w) \in alive
               PROVE  /\ rule.want \subseteq ok[SeenLeader(w)]
                      /\ Moves(Seen(w)) => place[SeenLeader(w)].nicy = "own"
                      /\ rule.props => place[SeenLeader(w)] # Session
    BY DEF LeaderReconciled, SeenLeader
  <2>1. rule.want \subseteq Attrs
    BY WantType DEF GroupInv
  <2>2. ASSUME NEW c \in Utils, Sets(c) \subseteq rule.want
        PROVE  Sets(c) \subseteq ok[SeenLeader(w)]
    <3>1. SeenLeader(w) \in Targets(w, c) /\ \E a \in rule.want : Sets(c) = {a}
      BY <2>2, TargetsOf, SetsOf DEF Utils
    <3>2. CASE Sets(c) \subseteq Diff(Seen(w)).attrs
      <4>1. Has(w, c)
        BY <3>2, AllDone DEF Asked
      <4> QED
        BY <2>2, <3>1, <4>1 DEF Has
    <3>3. CASE Sets(c) \subseteq Seen(w).ok
      BY <2>2, <3>3, AllDone DEF Kept
    <3> QED
      BY <3>1, <3>2, <3>3 DEF Diff
  <2>3. rule.want \subseteq ok[SeenLeader(w)]
    BY <2>1, <2>2, SetsOf DEF Attrs, Utils
  <2> QED
    BY <2>3, AllDone DEF Moved, LeaderOut
<1> QED
  BY <1>1, GroupAlways, PTL

(* After a pass without failures that was due, every process of the group    *)
(* has the nice value of the rule and, if the leader lacked it, the I/O      *)
(* class - whatever it had before, and those that were forked while the      *)
(* commands ran included.                                                    *)
THEOREM GroupIsReniced == Spec => []WholeGroupReniced
<1>1. GroupInv => WholeGroupReniced
  <2> SUFFICES ASSUME GroupInv, NEW w \in Workers, AfterPass(w),
                      IsDue(Seen(w)), NEW p \in alive
               PROVE  (rule.want \cap {"nice"})
                        \cup (Diff(Seen(w)).attrs \cap {"ioclass"}) \subseteq ok[p]
    BY DEF WholeGroupReniced
  <2>1. rule.want \cap {"nice"} \subseteq ok[p]
    <3>1. "renice" \in Asked(w)
      BY DEF Asked, Utils
    <3> QED
      BY <3>1, AllDone, TargetsOf, SetsOf DEF Has
  <2>2. ASSUME "ioclass" \in Diff(Seen(w)).attrs PROVE "ioclass" \in ok[p]
    <3>1. "ionice" \in Asked(w) /\ "ioclass" \in rule.want
      BY <2>2, SetsOf DEF Asked, Utils, Diff
    <3> QED
      BY <3>1, AllDone, TargetsOf, SetsOf DEF Has
  <2> QED
    BY <2>1, <2>2
<1> QED
  BY <1>1, GroupAlways, PTL

(* After a pass without failures that found the leader in a session scope or *)
(* in a wrong slice of its manager, every process that its scan saw is in    *)
(* the slice of the rule, wherever it was.                                   *)
THEOREM SeenMembersMove == Spec => []MovesSeenMembers
<1>1. GroupInv => MovesSeenMembers
  BY AllDone DEF MovesSeenMembers, Moved
<1> QED
  BY <1>1, GroupAlways, PTL
=============================================================================

-------------------------- MODULE PresetCacheProofs -------------------------
(* For any directories, any edits of their files, any keys and any number of *)
(* processes that come, go and rebuild the cache: what a process has of what *)
(* the files say.                                                            *)
EXTENDS PresetCache, SequenceTheorems, TLAPS

(* The list of directories after n loads, and the order of the n-th: the     *)
(* default list is turned around by each load.                               *)
Odd(n) == n % 2 = 1
ListAt(default, n) == IF default /\ ~Odd(n) THEN Reverse(Dirs) ELSE Dirs
Order(default, n) == IF default /\ Odd(n) THEN Dirs ELSE Reverse(Dirs)

(* What the files F put into the presets once the first m directories of an  *)
(* order have been loaded: of those that define a key, the last one wins.  A *)
(* process that never reloads has nothing else.                              *)
LastOf(F, o, m, k, j) ==
  /\ F[o[j]][k] # None
  /\ \A i \in 1..m : j < i => F[o[i]][k] = None

Loads(F, content, o, m, once) ==
  \A k \in Keys :
    /\ once /\ content[k] # Nothing => \E d \in DirSet : F[d][k] # None
    /\ (\E j \in 1..m : F[o[j]][k] # None) =>
         \E j \in 1..m : /\ LastOf(F, o, m, k, j)
                         /\ content[k] = <<o[j], F[o[j]][k]>>

Once(p) == command[p].name = "build"
OrderOf(p) == Order(command[p].default, loads[p])
LoadsFirst(p, m) == ~stale[p] => Loads(files, presets[p], OrderOf(p), m, Once(p))
LoadsAll(p) == LoadsFirst(p, Len(Dirs))

(* What a process has, by where it is.                                       *)
Loading(p) ==
  LET m == Len(Dirs) - Len(left[p])
  IN  /\ m \in Nat
      /\ \A i \in 1..Len(left[p]) : left[p][i] = OrderOf(p)[m + i]
      /\ LoadsFirst(p, m)

Ready(p) ==
  \/ origin[p] = "config" /\ LoadsAll(p)
  \/ /\ origin[p] = "file" /\ loads[p] = 0 /\ ~command[p].force
     /\ ~stale[p] => FromCache(p)

Sound(p) ==
  /\ pc[p] \in {"none", "get"} => presets[p] = Empty /\ loads[p] = 0
  /\ pc[p] # "none" => confdirs[p] = ListAt(command[p].default, loads[p])
  /\ pc[p] = "load" => Loading(p)
  /\ pc[p] = "ready" => Ready(p)
  /\ pc[p] \in {"write", "writing"} => Once(p) /\ LoadsAll(p)

(* What a cache file has, whole or not.                                      *)
Said(k, found) ==
  \E list \in {Dirs, Reverse(Dirs)} : AsFilesSay(list, k, found)

Kept(file) ==
  ~file.stale => \A k \in Keys :
    IF Section[k] > file.upto THEN file.presets[k] = Nothing
    ELSE Said(k, file.presets[k])

Inv ==
  /\ TypeOK
  /\ \A file \in cache : Kept(file)
  /\ \A p \in Processes : Sound(p)

-----------------------------------------------------------------------------
(* Lists of directories.                                                     *)
LEMMA Mirror ==
  ASSUME NEW n \in Nat, NEW i \in 1..n
  PROVE  n - i + 1 \in 1..n /\ n - (n - i + 1) + 1 = i
OBVIOUS

LEMMA ReverseOf ==
  ASSUME NEW T, NEW s \in Seq(T)
  PROVE  /\ Reverse(s) \in Seq(T) /\ Len(Reverse(s)) = Len(s)
         /\ \A i \in 1..Len(s) : Reverse(s)[i] = s[Len(s) - i + 1]
         /\ Reverse(Reverse(s)) = s
<1> DEFINE n == Len(s)
           r == [i \in 1..n |-> s[n - i + 1]]
           t == [i \in 1..n |-> r[n - i + 1]]
<1>1. n \in Nat /\ DOMAIN s = 1..n /\ \A i \in 1..n : s[i] \in T /\ s[n - i + 1] \in T
  BY LenProperties, ElementOfSeq
<1>2. r \in Seq(T) /\ Len(r) = n /\ \A i \in 1..n : r[i] = s[n - i + 1]
  BY <1>1
<1>3. t = s
  <2>1. \A i \in 1..n : t[i] = s[i]
    <3> SUFFICES ASSUME NEW i \in 1..n PROVE t[i] = s[i]
      OBVIOUS
    <3>1. n - i + 1 \in 1..n /\ n - (n - i + 1) + 1 = i
      BY <1>1
    <3> QED
      BY <3>1
  <2>2. s = [i \in 1..n |-> s[i]]
    BY <1>1
  <2> QED
    BY <2>1, <2>2
<1>4. Reverse(s) = r
  BY DEF Reverse
<1>5. Reverse(r) = t
  BY <1>2 DEF Reverse
<1> QED
  BY <1>2, <1>3, <1>4, <1>5

LEMMA DirsOf ==
  /\ Dirs \in Seq(DirSet) /\ Len(Dirs) \in Nat /\ Len(Dirs) # 0
  /\ DirSet = {Dirs[i] : i \in 1..Len(Dirs)}
BY DirsAssumption, LenProperties, EmptySeq DEF DirSet, ToSet

LEMMA ListAtLoads ==
  ASSUME NEW b \in BOOLEAN, NEW n \in Nat
  PROVE  /\ Order(b, n) \in Seq(DirSet) /\ Len(Order(b, n)) = Len(Dirs)
         /\ ListAt(b, n) \in Seq(DirSet)
         /\ Order(b, n + 1) = Reverse(ListAt(b, n))
         /\ ListAt(b, n + 1) = IF b THEN Reverse(ListAt(b, n)) ELSE ListAt(b, n)
         /\ ListAt(b, 0) = IF b THEN Reverse(Dirs) ELSE Dirs
         /\ Order(b, n) \in {Dirs, Reverse(Dirs)}
<1>1. Reverse(Dirs) \in Seq(DirSet) /\ Len(Reverse(Dirs)) = Len(Dirs)
      /\ Reverse(Reverse(Dirs)) = Dirs
  BY DirsOf, ReverseOf
<1>2. Odd(n + 1) = ~Odd(n) /\ ~Odd(0)
  BY DEF Odd
<1>3. Order(b, n + 1) = Reverse(ListAt(b, n))
  BY <1>1, <1>2 DEF Order, ListAt
<1>4. ListAt(b, n + 1) = IF b THEN Reverse(ListAt(b, n)) ELSE ListAt(b, n)
  BY <1>1, <1>2 DEF ListAt
<1> QED
  BY <1>1, <1>2, <1>3, <1>4, DirsOf DEF Order, ListAt

(* A list ranks the directories as they win when loaded backwards.           *)
LEMMA ForemostIsLast ==
  ASSUME NEW list \in Seq(DirSet), NEW content, NEW once \in BOOLEAN,
         DirSet = {list[i] : i \in 1..Len(list)},
         Loads(files, content, Reverse(list), Len(list), once), NEW k \in Keys
  PROVE  \/ AsFilesSay(list, k, content[k])
         \/ Defining(list, k) = {} /\ ~once
<1> DEFINE n == Len(list)
           o == Reverse(list)
<1>1. /\ n \in Nat /\ DOMAIN list = 1..n
      /\ \A i \in 1..n : o[i] = list[n - i + 1]
  BY LenProperties, ReverseOf
<1>2. Defining(list, k) = {i \in 1..n : files[list[i]][k] # None}
  BY <1>1 DEF Defining
<1>3. CASE Defining(list, k) = {} /\ once
  <2>1. \A d \in DirSet : files[d][k] = None
    <3> SUFFICES ASSUME NEW d \in DirSet PROVE files[d][k] = None
      OBVIOUS
    <3>1. d \in {list[i] : i \in 1..n}
      OBVIOUS
    <3> QED
      BY <1>2, <1>3, <3>1
  <2>2. content[k] = Nothing
    BY <1>3, <2>1 DEF Loads
  <2> QED
    BY <1>3, <2>2 DEF AsFilesSay
<1>4. CASE Defining(list, k) # {}
  <2>1. PICK i \in 1..n : files[list[i]][k] # None
    BY <1>2, <1>4
  <2>2. n - i + 1 \in 1..n /\ o[n - i + 1] = list[i]
    BY <1>1, Mirror
  <2>3. PICK j \in 1..n : /\ LastOf(files, o, n, k, j)
                          /\ content[k] = <<o[j], files[o[j]][k]>>
    BY <2>1, <2>2 DEF Loads
  <2> DEFINE f == n - j + 1
  <2>4. f \in 1..n /\ o[j] = list[f]
    BY <1>1, Mirror
  <2>5. f \in Defining(list, k)
    BY <1>2, <2>3, <2>4 DEF LastOf
  <2>6. \A h \in Defining(list, k) : f <= h
    <3> SUFFICES ASSUME NEW h \in 1..n, files[list[h]][k] # None, h < f PROVE FALSE
      <4>1. \A h \in Defining(list, k) : h \in 1..n /\ files[list[h]][k] # None
        BY <1>2
      <4>2. \A h \in 1..n : ~(h < f) => f <= h
        BY <1>1, <2>4
      <4> QED
        BY <4>1, <4>2
    <3>1. n - h + 1 \in 1..n /\ o[n - h + 1] = list[h]
      BY <1>1, Mirror
    <3>2. j < n - h + 1
      BY <1>1
    <3> QED
      BY <2>3, <3>1, <3>2 DEF LastOf
  <2>7. \A h \in Defining(list, k) :
          (\A g \in Defining(list, k) : h <= g) => h = f
    <3> SUFFICES ASSUME NEW h \in Defining(list, k),
                        \A g \in Defining(list, k) : h <= g
                 PROVE  h = f
      OBVIOUS
    <3>0. Defining(list, k) \subseteq 1..n /\ n \in Nat
      BY <1>1, <1>2
    <3>1. h <= f /\ f <= h /\ h \in Int /\ f \in Int
      <4> HIDE DEF f, n
      <4> QED
        BY <3>0, <2>4, <2>5, <2>6
    <3> HIDE DEF f
    <3> QED
      BY <3>1
  <2>8. (CHOOSE h \in Defining(list, k) : \A g \in Defining(list, k) : h <= g) = f
    BY <2>5, <2>6, <2>7
  <2>9. Foremost(list, k) = <<list[f], files[list[f]][k]>>
    BY <2>8 DEF Foremost
  <2> QED
    BY <1>4, <2>3, <2>4, <2>9 DEF AsFilesSay
<1> QED
  BY <1>3, <1>4

(* Whoever has loaded all directories and nothing else has what the files    *)
(* say, in the one order or the other.                                       *)
LEMMA RankingOf ==
  ASSUME TypeOK, NEW p \in Processes, LoadsAll(p), ~stale[p], NEW k \in Keys
  PROVE  /\ \/ AsFilesSay(Ranking(p), k, presets[p][k])
            \/ Defining(Dirs, k) = {} /\ ~Once(p)
         /\ Once(p) => Said(k, presets[p][k])
<1> DEFINE list == Ranking(p)
           n == Len(Dirs)
<1>1. /\ Reverse(Dirs) \in Seq(DirSet) /\ Len(Reverse(Dirs)) = n
      /\ Reverse(Reverse(Dirs)) = Dirs /\ n \in Nat
      /\ \A i \in 1..n : Reverse(Dirs)[i] = Dirs[n - i + 1]
  BY DirsOf, ReverseOf
<1>2. /\ list \in {Dirs, Reverse(Dirs)} /\ Len(list) = n
      /\ Reverse(list) = OrderOf(p) /\ list \in Seq(DirSet)
  BY <1>1, DirsOf DEF Ranking, OrderOf, Order, Odd
<1>3. {Reverse(Dirs)[i] : i \in 1..n} = {Dirs[i] : i \in 1..n}
  <2>1. \A i \in 1..n : n - i + 1 \in 1..n /\ Reverse(Dirs)[n - i + 1] = Dirs[i]
    BY <1>1, Mirror
  <2>2. \A i \in 1..n : n - i + 1 \in 1..n /\ Reverse(Dirs)[i] = Dirs[n - i + 1]
    BY <1>1, Mirror
  <2>3. \A d : d \in {Reverse(Dirs)[i] : i \in 1..n} => d \in {Dirs[i] : i \in 1..n}
    BY <2>2
  <2>4. \A d : d \in {Dirs[i] : i \in 1..n} => d \in {Reverse(Dirs)[i] : i \in 1..n}
    BY <2>1
  <2> QED
    BY <2>3, <2>4
<1>4. DirSet = {list[i] : i \in 1..Len(list)}
  BY <1>2, <1>3, DirsOf
<1>5. Loads(files, presets[p], Reverse(list), Len(list), Once(p))
  BY <1>2 DEF LoadsAll, LoadsFirst
<1>6. Once(p) \in BOOLEAN
  BY DEF Once
<1>7. \/ AsFilesSay(list, k, presets[p][k])
      \/ Defining(list, k) = {} /\ ~Once(p)
  BY <1>2, <1>4, <1>5, <1>6, ForemostIsLast
<1>8. Defining(list, k) = {} => Defining(Dirs, k) = {}
  <2> SUFFICES ASSUME Defining(list, k) = {}, NEW i \in 1..n
               PROVE  files[Dirs[i]][k] = None
    BY LenProperties, DirsOf DEF Defining
  <2>1. Dirs[i] \in {list[j] : j \in 1..n}
    BY <1>2, <1>4, DirsOf
  <2>2. DOMAIN list = 1..n
    BY <1>2, LenProperties
  <2> QED
    BY <2>1, <2>2 DEF Defining
<1> QED
  BY <1>2, <1>7, <1>8 DEF Said

-----------------------------------------------------------------------------
(* Loading one more directory.                                               *)
What(content, dir) ==
  [k \in Keys |-> IF files[dir][k] # None THEN <<dir, files[dir][k]>>
                                         ELSE content[k]]

LEMMA LoadsOneMore ==
  ASSUME NEW content, NEW o, NEW m \in Nat, NEW once \in BOOLEAN,
         Loads(files, content, o, m, once), NEW dir \in DirSet, o[m + 1] = dir
  PROVE  Loads(files, What(content, dir), o, m + 1, once)
<1> DEFINE new == What(content, dir)
<1> SUFFICES ASSUME NEW k \in Keys
             PROVE  /\ once /\ new[k] # Nothing => \E d \in DirSet : files[d][k] # None
                    /\ (\E j \in 1..m + 1 : files[o[j]][k] # None) =>
                         \E j \in 1..m + 1 :
                           /\ LastOf(files, o, m + 1, k, j)
                           /\ new[k] = <<o[j], files[o[j]][k]>>
  BY DEF Loads
<1>1. CASE files[dir][k] # None
  <2>1. new[k] = <<o[m + 1], files[o[m + 1]][k]>>
    BY <1>1 DEF What
  <2>2. LastOf(files, o, m + 1, k, m + 1)
    BY <1>1 DEF LastOf
  <2> QED
    BY <1>1, <2>1, <2>2
<1>2. CASE files[dir][k] = None
  <2>1. new[k] = content[k]
    BY <1>2 DEF What
  <2>2. once /\ new[k] # Nothing => \E d \in DirSet : files[d][k] # None
    BY <2>1 DEF Loads
  <2>3. ASSUME NEW j \in 1..m + 1, files[o[j]][k] # None
        PROVE  \E i \in 1..m + 1 : /\ LastOf(files, o, m + 1, k, i)
                                   /\ new[k] = <<o[i], files[o[i]][k]>>
    <3>1. j \in 1..m
      BY <1>2, <2>3
    <3>2. PICK i \in 1..m : /\ LastOf(files, o, m, k, i)
                            /\ content[k] = <<o[i], files[o[i]][k]>>
      BY <2>3, <3>1 DEF Loads
    <3>3. LastOf(files, o, m + 1, k, i) /\ i \in 1..m + 1
      <4>1. ASSUME NEW h \in 1..m + 1, i < h PROVE files[o[h]][k] = None
        <5>1. CASE h = m + 1
          BY <1>2, <5>1
        <5>2. CASE h # m + 1
          BY <3>2, <4>1, <5>2 DEF LastOf
        <5> QED
          BY <5>1, <5>2
      <4>2. files[o[i]][k] # None
        BY <3>2 DEF LastOf
      <4> QED
        BY <4>1, <4>2 DEF LastOf
    <3> QED
      BY <2>1, <3>2, <3>3
  <2> QED
    BY <2>2, <2>3
<1> QED
  BY <1>1, <1>2

-----------------------------------------------------------------------------
(* Types.                                                                    *)
LEMMA EmptyTypes ==
  /\ Empty \in [Keys -> Active] /\ NoCommand \in Command /\ Blank \in CacheFile
  /\ <<>> \in Seq(DirSet)
<1>1. Empty \in [Keys -> Active]
  BY DEF Empty, Active
<1>2. Blank \in CacheFile
  BY <1>1, CacheAssumption DEF Blank, CacheFile
<1> QED
  BY <1>1, <1>2, EmptySeq DEF NoCommand, Command

LEMMA InitType == Init => TypeOK
<1> SUFFICES ASSUME Init PROVE TypeOK
  OBVIOUS
<1>1. files \in [DirSet -> [Keys -> Versions \union {None}]]
  <2>1. 1 \in Versions
    BY CacheAssumption DEF Versions
  <2>2. files \in [DirSet -> [Keys -> {None, 1}]]
    BY CacheAssumption DEF Init
  <2> QED
    BY <2>1, <2>2
<1> QED
  BY <1>1, EmptyTypes, CacheAssumption DEF Init, TypeOK

LEMMA WhatType ==
  ASSUME TypeOK, NEW p \in Processes, NEW dir \in DirSet
  PROVE  What(presets[p], dir) \in [Keys -> Active]
<1>1. presets[p] \in [Keys -> Active]
  BY DEF TypeOK
<1>2. \A k \in Keys : files[dir][k] # None => files[dir][k] \in Versions
  BY DEF TypeOK
<1> QED
  BY <1>1, <1>2 DEF What, Active

LEMMA ForgetType ==
  ASSUME TypeOK, NEW p \in Processes, Forget(p)
  PROVE  /\ command' \in [Processes -> Command]
         /\ confdirs' \in [Processes -> Seq(DirSet)]
         /\ left' \in [Processes -> Seq(DirSet)]
         /\ presets' \in [Processes -> [Keys -> Active]]
         /\ origin' \in [Processes -> {"none", "file", "config"}]
         /\ loads' \in [Processes -> 0..MaxLoads]
         /\ stale' \in [Processes -> BOOLEAN]
BY EmptyTypes, CacheAssumption DEF Forget, TypeOK

LEMMA LoadType ==
  ASSUME TypeOK, NEW p \in Processes, Load(p), loads[p] < MaxLoads,
         pc' \in [Processes ->
                   {"none", "get", "load", "ready", "write", "writing"}]
  PROVE  TypeOK'
<1>1. Reverse(confdirs[p]) \in Seq(DirSet)
  BY ReverseOf DEF TypeOK
<1>2. left' \in [Processes -> Seq(DirSet)] /\ confdirs' \in [Processes -> Seq(DirSet)]
  BY <1>1 DEF Load, TypeOK
<1>3. loads' \in [Processes -> 0..MaxLoads]
  <2>1. loads[p] + 1 \in 0..MaxLoads
    BY CacheAssumption DEF TypeOK
  <2> QED
    BY <2>1 DEF Load, TypeOK
<1> QED
  BY <1>2, <1>3 DEF Load, TypeOK

LEMMA EditType ==
  ASSUME TypeOK, Edit
  PROVE  TypeOK'
<1>1. files' \in [DirSet -> [Keys -> Versions \union {None}]]
  <2>1. PICK dir \in DirSet, text \in [Keys -> {"keep", "remove", "write"}] :
          files' = [files EXCEPT ![dir] = [k \in Keys |->
            CASE text[k] = "keep" -> @[k]
              [] text[k] = "remove" -> None
              [] text[k] = "write" -> edits + 2]]
    BY DEF Edit
  <2>2. edits + 2 \in Versions
    BY CacheAssumption DEF Edit, TypeOK, Versions
  <2>3. \A k \in Keys : files[dir][k] \in Versions \union {None}
    BY DEF TypeOK
  <2>4. [k \in Keys |-> CASE text[k] = "keep" -> files[dir][k]
                          [] text[k] = "remove" -> None
                          [] text[k] = "write" -> edits + 2]
          \in [Keys -> Versions \union {None}]
    BY <2>2, <2>3
  <2> QED
    BY <2>1, <2>4 DEF TypeOK
<1>2. edits' \in 0..MaxEdits /\ stale' \in [Processes -> BOOLEAN]
  BY CacheAssumption DEF Edit, TypeOK
<1>3. \A file \in cache' : file \in CacheFile
  <2> SUFFICES ASSUME NEW file \in cache PROVE [file EXCEPT !.stale = TRUE] \in CacheFile
    BY DEF Edit
  <2> QED
    BY DEF TypeOK, CacheFile
<1> QED
  BY <1>1, <1>2, <1>3 DEF Edit, TypeOK

LEMMA WrittenType ==
  ASSUME TypeOK, NEW p \in Processes, NEW n \in 0..Parts, NEW parses \in BOOLEAN,
         Written(p, n, parses)
  PROVE  \A file \in cache' : file \in CacheFile
<1>1. PICK file \in cache : \E other \in SUBSET (1..file.upto) :
        cache' =
          {[presets |-> [k \in Keys |->
              IF Section[k] > n \/ Section[k] \in other THEN file.presets[k]
                                                        ELSE presets[p][k]],
            upto |-> IF n > file.upto THEN n ELSE file.upto,
            parses |-> parses,
            by |-> file.by \union {p},
            stale |-> file.stale \/ stale[p]]}
  BY DEF Written
<1>2. /\ file.presets \in [Keys -> Active] /\ file.upto \in 0..Parts
      /\ file.by \in SUBSET Processes /\ file.stale \in BOOLEAN
      /\ presets[p] \in [Keys -> Active] /\ stale[p] \in BOOLEAN
  BY DEF TypeOK, CacheFile
<1> QED
  BY <1>1, <1>2 DEF CacheFile

LEMMA NextType == Inv /\ [Next]_vars => TypeOK'
<1> SUFFICES ASSUME Inv, [Next]_vars PROVE TypeOK'
  OBVIOUS
<1>0. TypeOK
  BY DEF Inv
<1>1. ASSUME NEW p \in Processes, Start(p) PROVE TypeOK'
  <2>1. Dirs \in Seq(DirSet) /\ Reverse(Dirs) \in Seq(DirSet)
    BY DirsOf, ReverseOf
  <2> QED
    BY <1>0, <1>1, <2>1 DEF Start, Goto, TypeOK
<1>2. ASSUME NEW p \in Processes, GetFromCache(p) PROVE TypeOK'
  <2>1. PICK file \in cache : /\ presets' = [presets EXCEPT ![p] = file.presets]
                              /\ stale' = [stale EXCEPT ![p] = file.stale]
    BY <1>2 DEF GetFromCache
  <2>2. file.presets \in [Keys -> Active] /\ file.stale \in BOOLEAN
    BY <1>0 DEF TypeOK, CacheFile
  <2> QED
    BY <1>0, <1>2, <2>1, <2>2 DEF GetFromCache, Goto, TypeOK
<1>3. ASSUME NEW p \in Processes, GetFromConfig(p) \/ Reload(p), loads[p] < MaxLoads
      PROVE  TypeOK'
  <2>1. Load(p)
    BY <1>3 DEF GetFromConfig, Reload
  <2>2. pc' \in [Processes ->
                  {"none", "get", "load", "ready", "write", "writing"}]
    BY <1>0, <1>3 DEF GetFromConfig, Reload, Goto, TypeOK
  <2> QED
    BY <1>0, <1>3, <2>1, <2>2, LoadType
<1>4. ASSUME NEW p \in Processes, GetFromConfig(p) PROVE TypeOK'
  <2>1. loads[p] = 0
    BY <1>4 DEF Inv, Sound, GetFromConfig, Goto
  <2> QED
    BY <1>3, <1>4, <2>1, CacheAssumption
<1>5. ASSUME NEW p \in Processes, LoadDir(p) PROVE TypeOK'
  <2> DEFINE rest == Tail(left[p])
             new == What(presets[p], Head(left[p]))
  <2>1. rest \in Seq(DirSet) /\ Head(left[p]) \in DirSet
    BY <1>0, <1>5, HeadTailProperties DEF LoadDir, TypeOK
  <2>2. new \in [Keys -> Active]
    BY <1>0, <2>1, WhatType
  <2>3. left' = [left EXCEPT ![p] = rest] /\ presets' = [presets EXCEPT ![p] = new]
    BY <1>5 DEF LoadDir, What
  <2> HIDE DEF rest, new
  <2> QED
    BY <1>0, <1>5, <2>1, <2>2, <2>3 DEF LoadDir, TypeOK
<1>6. ASSUME NEW p \in Processes, Loaded(p) PROVE TypeOK'
  BY <1>0, <1>6 DEF Loaded, Goto, TypeOK
<1>7. ASSUME NEW p \in Processes, Truncate(p) PROVE TypeOK'
  BY <1>0, <1>7, EmptyTypes DEF Truncate, Goto, TypeOK, known
<1>8. ASSUME NEW p \in Processes, WriteSome(p) PROVE TypeOK'
  <2>1. PICK n \in 0..(Parts - 1), parses \in BOOLEAN : Written(p, n, parses)
    BY <1>8 DEF WriteSome
  <2>2. n \in 0..Parts
    BY CacheAssumption
  <2>3. \A file \in cache' : file \in CacheFile
    BY <1>0, <2>1, <2>2, WrittenType
  <2> QED
    BY <1>0, <1>8, <2>3 DEF WriteSome, Goto, TypeOK, known
<1>9. ASSUME NEW p \in Processes, Write(p) PROVE TypeOK'
  <2>1. PICK parses \in BOOLEAN : Written(p, Parts, parses)
    BY <1>9 DEF Write
  <2>2. \A file \in cache' : file \in CacheFile
    BY <1>0, <2>1, WrittenType, CacheAssumption
  <2>3. Forget(p) /\ UNCHANGED <<files, edits>>
        /\ pc' \in [Processes ->
                     {"none", "get", "load", "ready", "write", "writing"}]
    BY <1>0, <1>9 DEF Write, TypeOK
  <2> QED
    BY <1>0, <2>2, <2>3, ForgetType DEF TypeOK
<1>10. ASSUME NEW p \in Processes, End(p) PROVE TypeOK'
  BY <1>0, <1>10, ForgetType DEF End, TypeOK
<1>11. CASE UNCHANGED vars
  BY <1>0, <1>11 DEF vars, known, TypeOK
<1>12. CASE Edit
  BY <1>0, <1>12, EditType
<1> QED
  BY <1>1, <1>2, <1>3, <1>4, <1>5, <1>6, <1>7, <1>8, <1>9, <1>10, <1>11, <1>12
     DEF Next, Step, Reload
-----------------------------------------------------------------------------
(* The invariant.                                                            *)
LEMMA InitInv == Init => Inv
<1> SUFFICES ASSUME Init PROVE Inv
  OBVIOUS
<1>1. TypeOK
  BY InitType
<1>2. \A p \in Processes : Sound(p)
  BY DEF Init, Sound
<1> QED
  BY <1>1, <1>2 DEF Inv, Init

(* A process keeps what it has while another one steps.                      *)
Rest(q) ==
  /\ pc'[q] = pc[q] /\ command'[q] = command[q] /\ confdirs'[q] = confdirs[q]
  /\ left'[q] = left[q] /\ presets'[q] = presets[q] /\ origin'[q] = origin[q]
  /\ loads'[q] = loads[q] /\ stale'[q] = stale[q]

LEMMA SaysKept ==
  ASSUME UNCHANGED files, NEW list, NEW k, NEW found
  PROVE  /\ AsFilesSay(list, k, found)' <=> AsFilesSay(list, k, found)
         /\ Said(k, found)' <=> Said(k, found)
BY DEF AsFilesSay, Said, Defining, Foremost

LEMMA FromCacheKept ==
  ASSUME UNCHANGED files, NEW p \in Processes, presets'[p] = presets[p],
         FromCache(p)
  PROVE  FromCache(p)'
<1>1. \A list, k : AsFilesSay(list, k, presets[p][k])' <=>
                    AsFilesSay(list, k, presets[p][k])
  BY DEF AsFilesSay, Defining, Foremost
<1>2. PICK n \in 0..Parts : \A k \in Keys :
        IF Section[k] > n THEN presets[p][k] = Nothing
        ELSE \E list \in {Dirs, Reverse(Dirs)} : AsFilesSay(list, k, presets[p][k])
  BY DEF FromCache
<1>3. \A k \in Keys :
        IF Section[k] > n THEN presets'[p][k] = Nothing
        ELSE \E list \in {Dirs, Reverse(Dirs)} : AsFilesSay(list, k, presets[p][k])'
  BY <1>1, <1>2
<1> QED
  BY <1>3 DEF FromCache

LEMMA LoadsKept ==
  ASSUME UNCHANGED files, NEW p \in Processes, command'[p] = command[p],
         presets'[p] = presets[p], loads'[p] = loads[p], stale'[p] = stale[p]
  PROVE  /\ OrderOf(p)' = OrderOf(p) /\ Once(p)' = Once(p)
         /\ \A m : LoadsFirst(p, m)' <=> LoadsFirst(p, m)
         /\ LoadsAll(p)' <=> LoadsAll(p)
BY DEF OrderOf, Once, LoadsFirst, LoadsAll, Order

LEMMA SoundKept ==
  ASSUME NEW q \in Processes, Rest(q), UNCHANGED files, Sound(q)
  PROVE  Sound(q)'
<1>1. Loading(q) => Loading(q)'
  BY LoadsKept DEF Rest, Loading
<1>2. Ready(q) => Ready(q)'
  BY LoadsKept, FromCacheKept DEF Rest, Ready
<1>3. Once(q)' = Once(q) /\ (LoadsAll(q)' <=> LoadsAll(q))
  BY LoadsKept DEF Rest
<1>4. (confdirs[q] = ListAt(command[q].default, loads[q]))'
        <=> (confdirs[q] = ListAt(command[q].default, loads[q]))
  BY DEF Rest, ListAt
<1> QED
  BY <1>1, <1>2, <1>3, <1>4 DEF Sound, Rest

LEMMA KeptKept ==
  ASSUME UNCHANGED files, NEW file, Kept(file)
  PROVE  Kept(file)'
BY SaysKept DEF Kept

(* What a step by one process does to the others and to the files.           *)
LEMMA OneSteps ==
  ASSUME TypeOK, NEW p \in Processes, Step(p)
  PROVE  UNCHANGED files /\ \A q \in Processes \ {p} : Rest(q)
<1> USE DEF TypeOK, Goto, Rest, known
<1>1. CASE Start(p) \/ GetFromCache(p) \/ Loaded(p) \/ Truncate(p) \/ WriteSome(p)
  BY <1>1 DEF Start, GetFromCache, Loaded, Truncate, WriteSome
<1>2. CASE GetFromConfig(p) \/ Reload(p)
  BY <1>2 DEF GetFromConfig, Reload, Load
<1>3. CASE LoadDir(p)
  BY <1>3 DEF LoadDir
<1>4. CASE Write(p) \/ End(p)
  BY <1>4 DEF Write, End, Forget
<1> QED
  BY <1>1, <1>2, <1>3, <1>4 DEF Step

LEMMA StartSound ==
  ASSUME Inv, NEW p \in Processes, Start(p)
  PROVE  Sound(p)'
<1>1. PICK c \in Command :
        /\ command' = [command EXCEPT ![p] = c]
        /\ confdirs' = [confdirs EXCEPT ![p] =
                          IF c.default THEN Reverse(Dirs) ELSE Dirs]
  BY DEF Start
<1>2. /\ pc'[p] = "get" /\ presets'[p] = Empty /\ loads'[p] = 0
      /\ command'[p] = c
      /\ confdirs'[p] = IF c.default THEN Reverse(Dirs) ELSE Dirs
  BY <1>1 DEF Inv, TypeOK, Sound, Start, Goto
<1>3. ListAt(c.default, 0) = IF c.default THEN Reverse(Dirs) ELSE Dirs
  BY DEF ListAt, Odd
<1> QED
  BY <1>2, <1>3 DEF Sound

LEMMA GetFromCacheSound ==
  ASSUME Inv, NEW p \in Processes, GetFromCache(p)
  PROVE  Sound(p)'
<1>1. PICK file \in cache : /\ presets' = [presets EXCEPT ![p] = file.presets]
                            /\ stale' = [stale EXCEPT ![p] = file.stale]
  BY DEF GetFromCache
<1>2. /\ pc'[p] = "ready" /\ presets'[p] = file.presets /\ loads'[p] = loads[p]
      /\ stale'[p] = file.stale /\ loads[p] = 0 /\ origin'[p] = "file"
      /\ command' = command /\ ~command[p].force /\ confdirs'[p] = confdirs[p]
      /\ confdirs[p] = ListAt(command[p].default, loads[p]) /\ UNCHANGED files
  BY <1>1 DEF Inv, TypeOK, Sound, GetFromCache, Goto
<1>3. Kept(file) /\ file.upto \in 0..Parts
  BY DEF Inv, TypeOK, CacheFile
<1>4. ASSUME ~file.stale PROVE FromCache(p)'
  <2>1. \A k \in Keys : IF Section[k] > file.upto THEN presets'[p][k] = Nothing
                        ELSE Said(k, presets'[p][k])
    BY <1>2, <1>3, <1>4 DEF Kept
  <2>2. \A k \in Keys : Said(k, presets'[p][k]) =>
          \E list \in {Dirs, Reverse(Dirs)} : AsFilesSay(list, k, presets[p][k])'
    BY <1>2 DEF Said, AsFilesSay, Defining, Foremost
  <2> QED
    BY <1>3, <2>1, <2>2 DEF FromCache
<1>5. Ready(p)'
  BY <1>2, <1>4 DEF Ready
<1>6. ListAt(command[p].default, loads[p])' = ListAt(command[p].default, loads[p])
  BY <1>2 DEF ListAt
<1> QED
  BY <1>2, <1>5, <1>6 DEF Sound

LEMMA LoadSound ==
  ASSUME Inv, NEW p \in Processes, GetFromConfig(p) \/ Reload(p)
  PROVE  Sound(p)'
<1> DEFINE n == loads[p]
           b == command[p].default
           rest == Reverse(confdirs[p])
<1>1. /\ pc'[p] = "load" /\ left'[p] = rest /\ loads'[p] = n + 1
      /\ confdirs'[p] = IF b THEN rest ELSE confdirs[p]
      /\ presets'[p] = presets[p] /\ command'[p] = command[p]
      /\ confdirs[p] = ListAt(b, n) /\ n \in Nat /\ b \in BOOLEAN
      /\ UNCHANGED files
  BY DEF Inv, TypeOK, Command, Sound, GetFromConfig, Reload, Goto, Load
<1>2. rest = Order(b, n + 1) /\ confdirs'[p] = ListAt(b, n + 1)
      /\ rest \in Seq(DirSet) /\ Len(rest) = Len(Dirs)
  <2>1. /\ Order(b, n + 1) = Reverse(ListAt(b, n))
        /\ ListAt(b, n + 1) = IF b THEN Reverse(ListAt(b, n)) ELSE ListAt(b, n)
    BY <1>1, ListAtLoads
  <2>2. Order(b, n + 1) \in Seq(DirSet) /\ Len(Order(b, n + 1)) = Len(Dirs)
    BY <1>1, ListAtLoads
  <2> QED
    BY <1>1, <2>1, <2>2
<1>3. Len(Dirs) - Len(rest) = 0 /\ \A i \in 1..Len(rest) : 0 + i = i
  BY <1>2, DirsOf
<1>4. Once(p) => presets[p] = Empty
  BY DEF Inv, Sound, GetFromConfig, Reload, Goto, Once
<1>5. Loads(files, presets[p], rest, 0, Once(p))
  BY <1>4 DEF Loads, Empty
<1> HIDE DEF n, b, rest
<1>6. OrderOf(p)' = rest /\ Once(p)' = Once(p)
  BY <1>1, <1>2 DEF OrderOf, Once, b
<1>7. Loading(p)'
  BY <1>1, <1>2, <1>3, <1>5, <1>6 DEF Loading, LoadsFirst
<1> QED
  BY <1>1, <1>2, <1>7 DEF Sound, b

LEMMA LoadDirSound ==
  ASSUME Inv, NEW p \in Processes, LoadDir(p)
  PROVE  Sound(p)'
<1> DEFINE l == left[p]
           rest == Tail(l)
           dir == Head(l)
           o == OrderOf(p)
           m == Len(Dirs) - Len(l)
           new == What(presets[p], dir)
<1>1. l \in Seq(DirSet) /\ l # <<>> /\ pc[p] = "load"
  BY DEF Inv, TypeOK, LoadDir
<1>2. /\ m \in Nat /\ LoadsFirst(p, m) /\ \A i \in 1..Len(l) : l[i] = o[m + i]
      /\ confdirs[p] = ListAt(command[p].default, loads[p])
  BY <1>1 DEF Inv, Sound, Loading
<1>3. /\ dir \in DirSet /\ rest \in Seq(DirSet) /\ Len(rest) = Len(l) - 1
      /\ \A i \in 1..Len(rest) : rest[i] = l[i + 1]
      /\ Len(l) \in Nat \ {0} /\ dir = l[1]
  BY <1>1, HeadTailProperties, LenProperties, EmptySeq
<1>4. m \in Int /\ Len(Dirs) = m + Len(l) /\ m = Len(Dirs) - Len(l)
  BY <1>1, DirsOf, LenProperties
<1> HIDE DEF m
<1>5. dir = o[m + 1]
  BY <1>2, <1>3
<1>6. ~stale[p] => Loads(files, new, o, m + 1, Once(p))
  <2>1. Once(p) \in BOOLEAN
    BY DEF Once
  <2> QED
    BY <1>2, <1>3, <1>5, <2>1, LoadsOneMore DEF LoadsFirst
<1>7. /\ m + 1 \in Nat /\ Len(Dirs) - Len(rest) = m + 1
      /\ \A i \in 1..Len(rest) : rest[i] = o[(m + 1) + i]
  <2>1. Len(Dirs) \in Nat /\ Len(rest) \in Nat
    BY <1>3, DirsOf, LenProperties
  <2>2. m + 1 \in Nat /\ Len(Dirs) - Len(rest) = m + 1
    <3>1. m \in Nat /\ Len(Dirs) = m + Len(l)
      BY <1>2, <1>4
    <3>2. Len(rest) = Len(l) - 1 /\ Len(l) \in Nat
      BY <1>3
    <3> HIDE DEF l, rest
    <3> QED
      BY <3>1, <3>2
  <2>3. ASSUME NEW i \in 1..Len(rest) PROVE rest[i] = o[(m + 1) + i]
    <3>1. i + 1 \in 1..Len(l) /\ m + (i + 1) = (m + 1) + i
      BY <1>2, <1>3, <2>1
    <3> QED
      BY <1>2, <1>3, <3>1
  <2> QED
    BY <2>2, <2>3
<1>8. left'[p] = rest /\ presets'[p] = new
  <2>1. left' = [left EXCEPT ![p] = rest] /\ presets' = [presets EXCEPT ![p] = new]
    BY DEF LoadDir, What
  <2> HIDE DEF rest, new
  <2> QED
    BY <2>1 DEF Inv, TypeOK
<1>9. /\ pc' = pc /\ confdirs' = confdirs /\ loads' = loads /\ command' = command
      /\ stale' = stale /\ files' = files
  BY DEF LoadDir
<1>10. OrderOf(p)' = o /\ Once(p)' = Once(p)
       /\ ListAt(command[p].default, loads[p])' = ListAt(command[p].default, loads[p])
  BY <1>9 DEF OrderOf, Once, Order, ListAt
<1> HIDE DEF o, new, rest, dir
<1>11. Loading(p)'
  BY <1>6, <1>7, <1>8, <1>9, <1>10 DEF Loading, LoadsFirst
<1> QED
  BY <1>1, <1>2, <1>9, <1>10, <1>11 DEF Sound

LEMMA LoadedSound ==
  ASSUME Inv, NEW p \in Processes, Loaded(p)
  PROVE  Sound(p)'
<1>1. /\ pc[p] = "load" /\ left[p] = <<>> /\ pc'[p] = "ready"
      /\ origin'[p] = "config" /\ presets' = presets /\ loads' = loads
      /\ confdirs' = confdirs /\ command' = command /\ stale' = stale
      /\ UNCHANGED files
  BY DEF Inv, TypeOK, Loaded, Goto
<1>2. Len(Dirs) - Len(left[p]) = Len(Dirs)
  BY <1>1, DirsOf, EmptySeq
<1>3. LoadsAll(p) /\ confdirs[p] = ListAt(command[p].default, loads[p])
  BY <1>1, <1>2 DEF Inv, Sound, Loading, LoadsAll
<1>4. LoadsAll(p)'
  BY <1>1, <1>3, LoadsKept
<1>5. Ready(p)'
  BY <1>1, <1>4 DEF Ready
<1>6. ListAt(command[p].default, loads[p])' = ListAt(command[p].default, loads[p])
  BY <1>1 DEF ListAt
<1> QED
  BY <1>1, <1>3, <1>5, <1>6 DEF Sound

LEMMA WritingSound ==
  ASSUME Inv, NEW p \in Processes, Truncate(p) \/ WriteSome(p)
  PROVE  Sound(p)'
<1>1. /\ pc'[p] \in {"write", "writing"} /\ presets' = presets
      /\ loads' = loads /\ confdirs' = confdirs /\ command' = command
      /\ stale' = stale /\ UNCHANGED files
  BY DEF Inv, TypeOK, Truncate, WriteSome, Goto, known
<1>2. /\ Once(p) /\ LoadsAll(p)
      /\ confdirs[p] = ListAt(command[p].default, loads[p])
  BY DEF Inv, Sound, Ready, Truncate, WriteSome, Goto, Once
<1>3. Once(p)' /\ LoadsAll(p)'
  BY <1>1, <1>2, LoadsKept
<1>4. ListAt(command[p].default, loads[p])' = ListAt(command[p].default, loads[p])
  BY <1>1 DEF ListAt
<1> QED
  BY <1>1, <1>2, <1>3, <1>4 DEF Sound

LEMMA ForgetSound ==
  ASSUME Inv, NEW p \in Processes, Write(p) \/ End(p)
  PROVE  Sound(p)'
<1>1. pc'[p] = "none" /\ presets'[p] = Empty /\ loads'[p] = 0
  BY DEF Inv, TypeOK, Write, End, Forget
<1> QED
  BY <1>1 DEF Sound

(* The files change under the processes and under the cache: nothing is said *)
(* any more of what they have.                                               *)
LEMMA EditInv ==
  ASSUME Inv, Edit
  PROVE  /\ \A file \in cache' : file.stale
         /\ \A p \in Processes : Sound(p)'
<1>1. \A file \in cache' : file.stale
  BY DEF Edit, Inv, TypeOK, CacheFile
<1>2. ASSUME NEW p \in Processes PROVE Sound(p)'
  <2>1. /\ pc' = pc /\ command' = command /\ confdirs' = confdirs /\ left' = left
        /\ presets' = presets /\ origin' = origin /\ loads' = loads
        /\ stale'[p] = (pc[p] \notin {"none", "get"}) /\ Sound(p)
    BY <1>2 DEF Edit, Inv
  <2>2. OrderOf(p)' = OrderOf(p) /\ Once(p)' = Once(p)
        /\ ListAt(command[p].default, loads[p])' = ListAt(command[p].default, loads[p])
    BY <2>1 DEF OrderOf, Order, Once, ListAt
  <2>3. pc[p] = "load" => Loading(p)'
    BY <2>1, <2>2 DEF Sound, Loading, LoadsFirst
  <2>4. pc[p] = "ready" => Ready(p)'
    BY <2>1 DEF Sound, Ready, LoadsAll, LoadsFirst
  <2>5. pc[p] \in {"write", "writing"} => Once(p)' /\ LoadsAll(p)'
    BY <2>1, <2>2 DEF Sound, LoadsAll, LoadsFirst
  <2> QED
    BY <2>1, <2>2, <2>3, <2>4, <2>5 DEF Sound
<1> QED
  BY <1>1, <1>2

(* Each part that is in the cache file is as the files say, whichever of the *)
(* processes that wrote to it at the same time it is from.                   *)
LEMMA WrittenKept ==
  ASSUME Inv, NEW p \in Processes, pc[p] \in {"write", "writing"},
         NEW n \in 0..Parts, NEW parses \in BOOLEAN, Written(p, n, parses)
  PROVE  \A file \in cache' : Kept(file)
<1>1. PICK file \in cache : \E other \in SUBSET (1..file.upto) :
        cache' =
          {[presets |-> [k \in Keys |->
              IF Section[k] > n \/ Section[k] \in other THEN file.presets[k]
                                                        ELSE presets[p][k]],
            upto |-> IF n > file.upto THEN n ELSE file.upto,
            parses |-> parses,
            by |-> file.by \union {p},
            stale |-> file.stale \/ stale[p]]}
  BY DEF Written
<1>2. PICK other \in SUBSET (1..file.upto) :
        cache' =
          {[presets |-> [k \in Keys |->
              IF Section[k] > n \/ Section[k] \in other THEN file.presets[k]
                                                        ELSE presets[p][k]],
            upto |-> IF n > file.upto THEN n ELSE file.upto,
            parses |-> parses,
            by |-> file.by \union {p},
            stale |-> file.stale \/ stale[p]]}
  BY <1>1
<1>3. Kept(file) /\ file.upto \in 0..Parts
  BY DEF Inv, TypeOK, CacheFile
<1> DEFINE upto == IF n > file.upto THEN n ELSE file.upto
           content == [k \in Keys |->
              IF Section[k] > n \/ Section[k] \in other THEN file.presets[k]
                                                        ELSE presets[p][k]]
           new == [presets |-> content, upto |-> upto, parses |-> parses,
                   by |-> file.by \union {p}, stale |-> file.stale \/ stale[p]]
<1>0. SUFFICES ASSUME ~file.stale, ~stale[p], NEW k \in Keys
               PROVE  IF Section[k] > upto THEN content[k] = Nothing
                      ELSE Said(k, content[k])
  <2>1. cache' = {new}
    BY <1>2
  <2>2. /\ new.presets = content /\ new.upto = upto
        /\ new.stale <=> file.stale \/ stale[p]
    OBVIOUS
  <2> HIDE DEF new, content, upto
  <2> QED
    BY <2>1, <2>2 DEF Kept
<1>4. Section[k] \in 1..Parts /\ Parts \in Nat
  BY CacheAssumption
<1>5. IF Section[k] > file.upto THEN file.presets[k] = Nothing
      ELSE Said(k, file.presets[k])
  BY <1>0, <1>3 DEF Kept
<1>6. Said(k, presets[p][k])
  <2>1. TypeOK /\ Once(p) /\ LoadsAll(p)
    BY DEF Inv, Sound
  <2> QED
    BY <1>0, <2>1, RankingOf
<1>7. CASE Section[k] > n
  BY <1>3, <1>4, <1>5, <1>7
<1>8. CASE Section[k] \in other
  <2>1. Section[k] <= file.upto /\ ~(Section[k] > file.upto) /\ ~(Section[k] > upto)
    BY <1>3, <1>4, <1>8
  <2>2. content[k] = file.presets[k]
    BY <1>8
  <2> QED
    BY <1>5, <2>1, <2>2
<1>9. CASE ~(Section[k] > n) /\ Section[k] \notin other
  <2>1. ~(Section[k] > upto) /\ content[k] = presets[p][k]
    BY <1>3, <1>4, <1>9
  <2> QED
    BY <1>6, <2>1
<1> QED
  BY <1>7, <1>8, <1>9

LEMMA NextKept ==
  ASSUME Inv, NEW p \in Processes, Step(p)
  PROVE  \A file \in cache' : Kept(file)'
<1>1. UNCHANGED files
  BY OneSteps DEF Inv
<1> SUFFICES \A file \in cache' : Kept(file)
  BY <1>1, KeptKept
<1>2. CASE Truncate(p)
  <2>1. cache' = {Blank}
    BY <1>2 DEF Truncate
  <2>2. \A k \in Keys : Section[k] > 0 /\ Empty[k] = Nothing
    BY CacheAssumption DEF Empty
  <2> QED
    BY <2>1, <2>2 DEF Kept, Blank
<1>3. CASE WriteSome(p)
  <2>1. PICK n \in 0..(Parts - 1), parses \in BOOLEAN : Written(p, n, parses)
    BY <1>3 DEF WriteSome
  <2>2. n \in 0..Parts /\ pc[p] = "write"
    BY <1>3, CacheAssumption DEF WriteSome, Goto
  <2> QED
    BY <2>1, <2>2, WrittenKept
<1>4. CASE Write(p)
  <2>1. PICK parses \in BOOLEAN : Written(p, Parts, parses)
    BY <1>4 DEF Write
  <2>2. Parts \in 0..Parts /\ pc[p] \in {"write", "writing"}
    BY <1>4, CacheAssumption DEF Write
  <2> QED
    BY <2>1, <2>2, WrittenKept
<1>5. CASE UNCHANGED cache
  BY <1>5 DEF Inv
<1> QED
  BY <1>2, <1>3, <1>4, <1>5
     DEF Step, Start, GetFromCache, GetFromConfig, Reload, Load, LoadDir, Loaded, End

LEMMA NextInv == Inv /\ [Next]_vars => Inv'
<1> SUFFICES ASSUME Inv, [Next]_vars PROVE Inv'
  OBVIOUS
<1>1. TypeOK'
  BY NextType
<1>2. CASE UNCHANGED vars
  <2>1. UNCHANGED files /\ UNCHANGED cache /\ \A q \in Processes : Rest(q)
    BY <1>2 DEF vars, known, Rest
  <2> QED
    BY <1>1, <2>1, SoundKept, KeptKept DEF Inv
<1>3. CASE Edit
  <2>1. /\ \A file \in cache' : file.stale
        /\ \A p \in Processes : Sound(p)'
    BY <1>3, EditInv
  <2> QED
    BY <1>1, <2>1 DEF Inv, Kept
<1>4. ASSUME NEW p \in Processes, Step(p) PROVE Inv'
  <2>1. Sound(p)'
    BY <1>4, StartSound, GetFromCacheSound, LoadSound, LoadDirSound, LoadedSound,
       WritingSound, ForgetSound DEF Step
  <2>2. ASSUME NEW q \in Processes, q # p PROVE Sound(q)'
    BY <1>4, <2>2, OneSteps, SoundKept DEF Inv
  <2>3. \A file \in cache' : Kept(file)'
    BY <1>4, NextKept
  <2>4. \A q \in Processes : Sound(q)'
    BY <2>1, <2>2
  <2> QED
    BY <1>1, <2>3, <2>4 DEF Inv
<1> QED
  BY <1>2, <1>3, <1>4 DEF Next

LEMMA Always == Spec => []Inv
BY InitInv, NextInv, PTL DEF Spec

-----------------------------------------------------------------------------
(* The files, the cache and what a process knows of them keep their types,   *)
(* through any number of edits and reloads up to the bounds.                 *)
THEOREM TypeCorrect == Spec => []TypeOK
<1>1. Inv => TypeOK
  BY DEF Inv
<1> QED
  BY <1>1, Always, PTL

(* A process that is ready, and whose files were not edited since they were  *)
(* read for it, has for every key what the foremost directory says, in the   *)
(* order that its list of directories has at that load (the default list is  *)
(* turned around by every other one); from a cache, it has that in the order *)
(* of whoever built it, or of the first parts of the file only; however many *)
(* processes build, read, reload and die at the same time.                   *)
THEOREM PresetsAreOfFiles == Spec => []PresetsOfFiles
<1>1. Inv => PresetsOfFiles
  <2> SUFFICES ASSUME Inv, NEW p \in Processes, pc[p] = "ready", ~stale[p]
               PROVE  IF origin[p] = "config" THEN FromFiles(p) ELSE FromCache(p)
    BY DEF PresetsOfFiles
  <2>1. TypeOK /\ Ready(p)
    BY DEF Inv, Sound
  <2>2. CASE origin[p] = "config"
    <3>1. LoadsAll(p)
      BY <2>1, <2>2 DEF Ready
    <3>2. command[p].name \in {"build", "control"}
      BY <2>1 DEF TypeOK, Command
    <3>3. \A k \in Keys : \/ AsFilesSay(Ranking(p), k, presets[p][k])
                          \/ Defining(Dirs, k) = {} /\ ~Once(p)
      BY <2>1, <3>1, RankingOf
    <3> QED
      BY <2>2, <3>2, <3>3 DEF FromFiles, Once
  <2>3. CASE origin[p] # "config"
    BY <2>1, <2>3 DEF Ready
  <2> QED
    BY <2>2, <2>3
<1> QED
  BY <1>1, Always, PTL
=============================================================================

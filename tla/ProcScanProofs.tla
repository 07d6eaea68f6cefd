--------------------------- MODULE ProcScanProofs ---------------------------
(* For any files, any number of goroutines and any schedule of their appends:*)
(* what FilteredProcs returns.                                               *)
EXTENDS ProcScan, SequenceTheorems, FiniteSetTheorems, TLAPS

(* ------------------------------- types -------------------------------- *)
Stages == {"receive", "user", "cgroup", "filter", "load", "size", "grow",
           "capacity", "array", "length", "element", "done"}
Items == [pid : Listed \cup {Nil}, mine : BOOLEAN, user : BOOLEAN]
Headers == [array : Nat, len : Nat, cap : Nat]
Slices == Seq(Listed \cup {Nil})

(* A worker that appends works on one of the arrays allocated so far.        *)
Typed ==
  /\ Types
  /\ arrays \in Seq(Seq(Listed \cup {Nil}))
  /\ header.array \in 0..Len(arrays)
  /\ \A w \in Workers : local[w].array \in 0..Len(arrays)

(* ------------------------- what was kept is fit ------------------------ *)
Allowed == (InScope \cup IF scope = "system" THEN gone ELSE {}) \ Blank

InHand(w) == pc[w] \notin {"receive", "done"}

Looked(w) ==
  /\ ~InHand(w) => item[w] = NoProc
  /\ InHand(w) => item[w].pid \in Listed \ Blank
  /\ pc[w] \in {"cgroup", "filter"} =>
       /\ item[w].mine => item[w].pid \in Mine
       /\ ~item[w].mine => item[w].pid \notin Mine \ gone
  /\ pc[w] = "filter" =>
       /\ item[w].user => item[w].pid \in UserSlice
       /\ ~item[w].user => item[w].pid \notin UserSlice \ gone
  /\ Appending(w) => item[w].pid \in Allowed

Fit ==
  /\ \A w \in Workers : Looked(w)
  /\ \A k \in DOMAIN arrays : \A i \in DOMAIN arrays[k] :
       arrays[k][i] \in Allowed \cup {Nil}

(* ------------------- every process is in one place only ---------------- *)
Stored(p, a) == \E k \in DOMAIN a : \E i \in DOMAIN a[k] : a[k][i] = p

InItsCell ==
  \A a, b \in DOMAIN arrays : \A i \in DOMAIN arrays[a], k \in DOMAIN arrays[b] :
    arrays[a][i] = arrays[b][k] /\ arrays[a][i] # Nil => i = k

Distinct ==
  /\ IsInjective(unread) /\ IsInjective(stats)
  /\ ToSet(unread) \cap ToSet(stats) = {}
  /\ \A p \in ToSet(unread) \cup ToSet(stats) :
       ~Stored(p, arrays) /\ \A w \in Workers : item[w].pid # p
  /\ \A w \in Workers : InHand(w) =>
       ~Stored(item[w].pid, arrays) /\ \A v \in Workers \ {w} : item[v].pid # item[w].pid
  /\ InItsCell

(* -------------------- without a race the slice is solid ---------------- *)
Whole(c, len, cap) ==
  /\ len \in 0..cap /\ cap = Len(c)
  /\ \A i \in 1..cap : c[i] = Nil <=> i > len

Settled == Whole(Cells(header), header.len, header.cap)

AtStage(w) ==
  LET l == local[w] IN
  /\ pc[w] \in {"load", "size", "grow"} => Settled
  /\ pc[w] = "size" => l.array = header.array
  /\ pc[w] = "grow" => l = header /\ l.len = l.cap
  /\ pc[w] = "capacity" => Settled /\ l.len = header.cap
  /\ pc[w] = "array" => header.cap = l.cap /\ Whole(Cells(header), l.len, l.len)
  /\ pc[w] \in {"capacity", "array"} =>
       /\ header.len = l.len /\ l.len < l.cap
       /\ Whole(Cells(l), l.len, l.cap)
       /\ \A i \in 1..l.len : Cells(l)[i] = Cells(header)[i]
  /\ pc[w] = "length" => Settled /\ l = header /\ l.len < l.cap
  /\ pc[w] = "element" =>
       /\ header.array = l.array /\ header.cap = l.cap
       /\ header.len = l.len + 1 /\ l.len < l.cap
       /\ Whole(Cells(l), l.len, l.cap)

OnItsWay(p) ==
  \/ p \in ToSet(unread) \cup ToSet(stats)
  \/ \E w \in Workers : item[w].pid = p
  \/ p \in ToSet(Cells(header))

InTurn ==
  /\ ~wild
  /\ \A v, w \in Workers : Appending(v) /\ Appending(w) => v = w
  /\ (\A w \in Workers : ~Appending(w)) => Settled
  /\ \A w \in Workers : AtStage(w)

Complete ==
  \A p \in (InScope \ Blank) \ gone : OnItsWay(p)

(* ------------------------------- the end ------------------------------- *)
Finished ==
  /\ reader = "done" => unread = <<>>
  /\ \A w \in Workers : pc[w] = "done" => reader = "done" /\ stats = <<>>
  /\ result # {} => reader = "done" /\ \A w \in Workers : pc[w] = "done"

Inv ==
  Typed /\ Fit /\ Distinct /\ Finished /\ (~raced => InTurn /\ Complete)
-----------------------------------------------------------------------------
(* A pid is not the nil pointer.                                             *)
LEMMA Pids == Listed \subseteq Nat \ {0} /\ Nil \notin Listed /\ Files \in Seq(Listed)
<1>1. Files \in Seq(Nat \ {0})
  BY ScanAssumption
<1>2. DOMAIN Files = 1 .. Len(Files) /\ \A i \in 1 .. Len(Files) : Files[i] \in Nat \ {0}
  BY <1>1, LenProperties, ElementOfSeq
<1> QED
  BY <1>1, <1>2, SeqOfRange DEF Listed, ToSet, Range, Nil

(* What receiving and sending do to a channel in which no item is twice.     *)
LEMMA Taken ==
  ASSUME NEW S, NEW s \in Seq(S), s # <<>>, IsInjective(s)
  PROVE  /\ Tail(s) \in Seq(S) /\ Head(s) \in S /\ IsInjective(Tail(s))
         /\ Head(s) \in ToSet(s) /\ ToSet(Tail(s)) = ToSet(s) \ {Head(s)}
<1> DEFINE t == Tail(s)
           n == Len(s)
<1>1. /\ t \in Seq(S) /\ Len(t) = n - 1 /\ Head(s) \in S
      /\ \A i \in 1 .. Len(t) : t[i] = s[i+1]
  BY HeadTailProperties
<1>2. n \in Nat \ {0} /\ DOMAIN s = 1 .. n /\ DOMAIN t = 1 .. n - 1 /\ Head(s) = s[1]
  BY <1>1, LenProperties, EmptySeq
<1> HIDE DEF t, n
<1>3. \A i, k \in 1 .. n : s[i] = s[k] => i = k
  BY <1>2 DEF IsInjective
<1>4. \A i \in 1 .. n - 1 : i + 1 \in 1 .. n /\ i + 1 # 1 /\ t[i] = s[i+1]
  BY <1>1, <1>2
<1>5. IsInjective(t)
  BY <1>2, <1>3, <1>4 DEF IsInjective
<1>6. Head(s) \in ToSet(s) /\ 1 \in 1 .. n
  BY <1>2 DEF ToSet
<1>7. \A i \in 1 .. n - 1 : t[i] \in ToSet(s) \ {Head(s)}
  BY <1>2, <1>3, <1>4, <1>6 DEF ToSet
<1>8. ASSUME NEW i \in 1 .. n, s[i] # Head(s) PROVE s[i] \in ToSet(t)
  <2>1. i - 1 \in 1 .. n - 1 /\ (i - 1) + 1 = i
    BY <1>2, <1>8
  <2> QED
    BY <2>1, <1>2, <1>4 DEF ToSet
<1>9. ToSet(t) = ToSet(s) \ {Head(s)}
  BY <1>2, <1>7, <1>8 DEF ToSet
<1> QED
  BY <1>1, <1>5, <1>6, <1>9 DEF t

LEMMA Queued ==
  ASSUME NEW S, NEW s \in Seq(S), NEW x \in S, IsInjective(s), x \notin ToSet(s)
  PROVE  /\ Append(s, x) \in Seq(S) /\ IsInjective(Append(s, x))
         /\ ToSet(Append(s, x)) = ToSet(s) \cup {x}
<1> DEFINE t == Append(s, x)
           n == Len(s)
<1>1. /\ t \in Seq(S) /\ Len(t) = n + 1 /\ t[n + 1] = x
      /\ \A i \in 1 .. n : t[i] = s[i]
  BY AppendProperties
<1>2. n \in Nat /\ DOMAIN s = 1 .. n /\ DOMAIN t = 1 .. n + 1
  BY <1>1, LenProperties
<1> HIDE DEF t, n
<1>3. 1 .. n + 1 = (1 .. n) \cup {n + 1}
  BY <1>2
<1>4. ToSet(t) = ToSet(s) \cup {x}
  BY <1>1, <1>2, <1>3 DEF ToSet
<1>5. \A i \in 1 .. n : t[i] = s[i] /\ s[i] # x
  BY <1>1, <1>2 DEF ToSet
<1>6. IsInjective(t)
  BY <1>1, <1>2, <1>3, <1>5 DEF IsInjective
<1> QED
  BY <1>1, <1>4, <1>6 DEF t

LEMMA SameLength ==
  ASSUME NEW a \in Nat, NEW b \in Nat, 1..a = 1..b
  PROVE  a = b
OBVIOUS

(* The sort finds a rearrangement: the rank of an item, the number of items  *)
(* that are not above it, says where it goes.                                *)
LEMMA Ranked ==
  ASSUME NEW s \in Seq(Nat), IsInjective(s)
  PROVE  \E f \in Bijection(DOMAIN s, DOMAIN s) :
           \A i, k \in DOMAIN s : i < k => s[f[i]] <= s[f[k]]
<1> DEFINE n == Len(s)
           D == 1 .. n
           Below(k) == {j \in D : s[j] <= s[k]}
           rank == [k \in D |-> Cardinality(Below(k))]
           f == [i \in D |-> CHOOSE k \in D : rank[k] = i]
<1>1. n \in Nat /\ DOMAIN s = D /\ \A k \in D : s[k] \in Nat
  BY LenProperties, ElementOfSeq
<1> HIDE DEF n
<1>2. IsFiniteSet(D) /\ Cardinality(D) = n
  BY <1>1, FS_Interval
<1>3. ASSUME NEW k \in D
      PROVE  /\ IsFiniteSet(Below(k)) /\ rank[k] \in D
             /\ Cardinality(Below(k)) = rank[k]
  <2>1. Below(k) \in SUBSET D /\ k \in Below(k)
    BY <1>1
  <2>2. IsFiniteSet(Below(k)) /\ Cardinality(Below(k)) <= n
    BY <2>1, <1>2, FS_Subset
  <2>3. Cardinality(Below(k)) \in Nat /\ Cardinality(Below(k)) # 0
    BY <2>1, <2>2, FS_CardinalityType, FS_EmptySet
  <2> HIDE DEF Below
  <2> QED
    BY <2>2, <2>3, <1>1
<1>4. ASSUME NEW j \in D, NEW k \in D, s[j] < s[k] PROVE rank[j] < rank[k]
  <2>1. Below(j) \in SUBSET Below(k) /\ k \in Below(k) /\ k \notin Below(j)
    BY <1>1, <1>4
  <2> HIDE DEF Below
  <2>2. /\ Cardinality(Below(j)) <= Cardinality(Below(k))
        /\ Cardinality(Below(j)) # Cardinality(Below(k))
    BY <2>1, <1>3, FS_Subset
  <2> HIDE DEF rank
  <2> QED
    BY <2>2, <1>1, <1>3
<1>5. \A j, k \in D : rank[j] = rank[k] => j = k
  <2> SUFFICES ASSUME NEW j \in D, NEW k \in D, j # k PROVE rank[j] # rank[k]
    OBVIOUS
  <2>1. s[j] < s[k] \/ s[k] < s[j]
    BY <1>1 DEF IsInjective
  <2> HIDE DEF rank, Below
  <2>2. rank[j] \in Nat /\ rank[k] \in Nat
    BY <1>1, <1>3
  <2> QED
    BY <2>1, <2>2, <1>4
<1>6. ASSUME NEW i \in D PROVE \E k \in D : rank[k] = i
  <2> SUFFICES ASSUME \A k \in D : rank[k] # i PROVE FALSE
    OBVIOUS
  <2>1. IsFiniteSet(D \ {i}) /\ Cardinality(D \ {i}) = n - 1
    BY <1>2, FS_RemoveElement
  <2>2. rank \in [D -> D \ {i}]
    BY <1>3
  <2>3. n - 1 < n
    BY <1>1
  <2> HIDE DEF rank, D
  <2>4. \E x, y \in D : x # y /\ rank[x] = rank[y]
    BY <2>1, <2>2, <2>3, <1>2, FS_PigeonHole
  <2> QED
    BY <2>4, <1>5
<1> HIDE DEF rank, D
<1>7. \A i \in D : f[i] \in D /\ rank[f[i]] = i
  BY <1>6
<1>8. \A k \in D : f[rank[k]] = k
  BY <1>3, <1>5, <1>7
<1>9. f \in [D -> D]
  BY <1>7
<1> HIDE DEF f
<1>10. f \in Bijection(D, D)
  BY <1>3, <1>7, <1>8, <1>9 DEF Bijection, Injection, Surjection, IsInjective
<1>11. ASSUME NEW i \in D, NEW k \in D, i < k PROVE s[f[i]] <= s[f[k]]
  <2>1. s[f[k]] < s[f[i]] => rank[f[k]] < rank[f[i]]
    BY <1>4, <1>7
  <2>2. i \in Nat /\ k \in Nat
    BY <1>1 DEF D
  <2> QED
    BY <2>1, <2>2, <1>1, <1>7, <1>11
<1> QED
  BY <1>1, <1>10, <1>11

LEMMA Sorted ==
  ASSUME NEW s \in Seq(Nat), IsInjective(s)
  PROVE  /\ DOMAIN ByPid(s) = DOMAIN s
         /\ Increasing(ByPid(s)) /\ ToSet(ByPid(s)) = ToSet(s)
<1> DEFINE D == DOMAIN s
           r == ByPid(s)
<1>1. \E f \in Bijection(D, D) :
        /\ r = [i \in D |-> s[f[i]]]
        /\ \A i, k \in D : i < k => r[i] <= r[k]
  <2> DEFINE orders == {[i \in D |-> s[f[i]]] : f \in Bijection(D, D)}
             Right(o) == \A i, k \in DOMAIN o : i < k => o[i] <= o[k]
  <2>1. PICK f \in Bijection(D, D) : \A i, k \in D : i < k => s[f[i]] <= s[f[k]]
    BY Ranked
  <2>2. [i \in D |-> s[f[i]]] \in orders /\ Right([i \in D |-> s[f[i]]])
    BY <2>1
  <2>3. r = CHOOSE o \in orders : Right(o)
    BY DEF ByPid
  <2> HIDE DEF r, Right, orders
  <2>4. r \in orders /\ Right(r)
    BY <2>2, <2>3
  <2> QED
    BY <2>4 DEF Right, orders
<1>2. PICK f \in Bijection(D, D) :
        /\ r = [i \in D |-> s[f[i]]]
        /\ \A i, k \in D : i < k => r[i] <= r[k]
  BY <1>1
<1>3. /\ f \in [D -> D] /\ \A i, k \in D : f[i] = f[k] => i = k
      /\ \A i \in D : \E k \in D : f[k] = i
  BY DEF Bijection, Injection, Surjection, IsInjective
<1>4. \A i \in D : s[i] \in Nat /\ i \in Nat
  BY LenProperties, ElementOfSeq
<1> HIDE DEF r
<1>5. Increasing(r)
  BY <1>2, <1>3, <1>4 DEF Increasing, IsInjective
<1>6. ToSet(r) = ToSet(s)
  BY <1>2, <1>3 DEF ToSet
<1> QED
  BY <1>2, <1>5, <1>6 DEF r

-----------------------------------------------------------------------------
(* The arrays: what allocating one, and storing an element, does to them.    *)
LEMMA SameHeader ==
  ASSUME NEW g \in Headers, NEW h \in Headers,
         g.array = h.array, g.len = h.len, g.cap = h.cap
  PROVE  g = h
<1>1. \A x \in Headers : x = [array |-> x.array, len |-> x.len, cap |-> x.cap]
  BY DEF Headers
<1> QED
  BY <1>1

LEMMA CellsType ==
  ASSUME Typed, NEW h \in Headers, h.array \in 0..Len(arrays)
  PROVE  /\ Cells(h) \in Slices
         /\ Larger(h) \in Nat \ {0} /\ h.cap < Larger(h)
         /\ Copied(h) \in Slices /\ Len(Copied(h)) = Larger(h)
         /\ \A i \in 1..Larger(h) :
              Copied(h)[i] = IF i <= h.len /\ i <= Len(Cells(h))
                               THEN Cells(h)[i] ELSE Nil
<1>1. arrays \in Seq(Slices)
  BY DEF Typed, Slices
<1>2. Cells(h) \in Slices
  <2>1. CASE h.array = 0
    BY <2>1, EmptySeq DEF Cells, Slices
  <2>2. CASE h.array # 0
    <3>1. h.array \in 1..Len(arrays)
      BY <2>2, <1>1, LenProperties
    <3> QED
      BY <2>2, <3>1, <1>1, ElementOfSeq DEF Cells
  <2> QED
    BY <2>1, <2>2
<1>3. Larger(h) \in Nat \ {0} /\ h.cap < Larger(h)
  BY DEF Larger, Headers
<1> DEFINE n == Larger(h)
           cell(i) == IF i <= h.len /\ i <= Len(Cells(h))
                        THEN Cells(h)[i] ELSE Nil
<1>4. Copied(h) = [i \in 1..n |-> cell(i)]
  BY DEF Copied
<1>5. ASSUME NEW i \in 1..n PROVE cell(i) \in Listed \cup {Nil}
  <2>1. CASE i <= h.len /\ i <= Len(Cells(h))
    <3>1. Len(Cells(h)) \in Nat
      BY <1>2, LenProperties DEF Slices
    <3>2. i \in 1..Len(Cells(h))
      BY <2>1, <3>1, <1>3
    <3> QED
      BY <2>1, <3>2, <1>2, ElementOfSeq DEF Slices
  <2> QED
    BY <2>1
<1> HIDE DEF n, cell
<1>6. Copied(h) \in Slices
  BY <1>3, <1>4, <1>5, IsASeq DEF n, Slices
<1>7. Len(Copied(h)) = n
  <2>1. DOMAIN Copied(h) = 1..Len(Copied(h)) /\ Len(Copied(h)) \in Nat
    BY <1>6, LenProperties DEF Slices
  <2>2. DOMAIN Copied(h) = 1..n /\ n \in Nat
    BY <1>3, <1>4 DEF n
  <2> QED
    BY <2>1, <2>2, SameLength
<1>8. \A i \in 1..n : Copied(h)[i] = cell(i)
  BY <1>4
<1> QED
  BY <1>2, <1>3, <1>6, <1>7, <1>8 DEF n, cell

LEMMA Allocated ==
  ASSUME Typed, NEW w \in Workers, Grow(w)
  PROVE  /\ arrays' \in Seq(Slices) /\ Len(arrays) \in Nat
         /\ DOMAIN arrays = 1..Len(arrays) /\ Len(arrays') = Len(arrays) + 1
         /\ DOMAIN arrays' = 1..Len(arrays) + 1
         /\ \A k \in 1..Len(arrays) : arrays'[k] = arrays[k]
         /\ arrays'[Len(arrays) + 1] = Copied(local[w])
<1>1. arrays \in Seq(Slices) /\ local[w] \in Headers /\ local[w].array \in 0..Len(arrays)
  BY DEF Typed, Types, Slices, Headers
<1>2. Copied(local[w]) \in Slices
  BY <1>1, CellsType
<1>3. arrays' = Append(arrays, Copied(local[w]))
  BY DEF Grow
<1>4. arrays' \in Seq(Slices)
  BY <1>1, <1>2, <1>3, AppendProperties
<1>5. DOMAIN arrays' = 1..Len(arrays') /\ Len(arrays) \in Nat
      /\ DOMAIN arrays = 1..Len(arrays)
  BY <1>1, <1>4, LenProperties
<1> QED
  BY <1>1, <1>2, <1>3, <1>4, <1>5, AppendProperties

(* The copy has every element where the original has it.                     *)
LEMMA Copies ==
  ASSUME Typed, NEW w \in Workers, Grow(w)
  PROVE  \A k \in DOMAIN arrays' : \A i \in DOMAIN arrays'[k] : arrays'[k][i] # Nil =>
           \E b \in DOMAIN arrays :
             i \in DOMAIN arrays[b] /\ arrays[b][i] = arrays'[k][i]
<1> DEFINE h == local[w]
           n == Len(arrays)
<1> SUFFICES ASSUME NEW k \in DOMAIN arrays', NEW i \in DOMAIN arrays'[k],
                    arrays'[k][i] # Nil
             PROVE  \E b \in DOMAIN arrays :
                      i \in DOMAIN arrays[b] /\ arrays[b][i] = arrays'[k][i]
  OBVIOUS
<1>1. n \in Nat /\ DOMAIN arrays = 1..n /\ DOMAIN arrays' = 1..n+1
  BY Allocated
<1>2. CASE k \in 1..n
  BY <1>1, <1>2, Allocated
<1>3. CASE k = n + 1
  <2>1. h \in Headers /\ h.array \in 0..n
    BY DEF Typed, Types, Headers
  <2>2. /\ Larger(h) \in Nat /\ Cells(h) \in Slices /\ Len(Cells(h)) \in Nat
        /\ DOMAIN Cells(h) = 1..Len(Cells(h)) /\ DOMAIN Copied(h) = 1..Larger(h)
    BY <2>1, CellsType, LenProperties DEF Slices, Copied
  <2>3. arrays'[k] = Copied(h)
    BY <1>3, Allocated
  <2>4. i \in 1..Larger(h) /\ i \in DOMAIN Cells(h) /\ Copied(h)[i] = Cells(h)[i]
    BY <2>1, <2>2, <2>3, CellsType
  <2>5. h.array # 0
    BY <2>4 DEF Cells
  <2>6. h.array \in DOMAIN arrays /\ Cells(h) = arrays[h.array]
    BY <1>1, <2>1, <2>5 DEF Cells
  <2> QED
    BY <2>3, <2>4, <2>6
<1> QED
  BY <1>1, <1>2, <1>3

LEMMA Stores ==
  ASSUME Typed, NEW w \in Workers, StoreElement(w),
         local[w].len + 1 <= Len(Cells(local[w])),
         item[w].pid \in Listed \cup {Nil}
  PROVE  /\ arrays' \in Seq(Slices) /\ Len(arrays') = Len(arrays)
         /\ DOMAIN arrays' = DOMAIN arrays /\ wild' = wild
         /\ local[w].array \in DOMAIN arrays
         /\ local[w].len + 1 \in DOMAIN arrays[local[w].array]
         /\ \A k \in DOMAIN arrays :
              /\ DOMAIN arrays'[k] = DOMAIN arrays[k]
              /\ Len(arrays'[k]) = Len(arrays[k])
              /\ \A i \in DOMAIN arrays[k] :
                   arrays'[k][i] = IF k = local[w].array /\ i = local[w].len + 1
                                     THEN item[w].pid ELSE arrays[k][i]
<1> DEFINE a == local[w].array
           n == local[w].len + 1
           c == [arrays[a] EXCEPT ![n] = item[w].pid]
<1>1. /\ arrays \in Seq(Slices) /\ Len(arrays) \in Nat /\ a \in 0..Len(arrays)
      /\ DOMAIN arrays = 1..Len(arrays) /\ n \in Nat \ {0}
  BY LenProperties DEF Typed, Types, Slices
<1>2. a # 0 /\ Cells(local[w]) = arrays[a]
  BY <1>1 DEF Cells
<1>3. a \in 1..Len(arrays)
  BY <1>1, <1>2
<1>4. arrays[a] \in Slices /\ Len(arrays[a]) \in Nat
      /\ DOMAIN arrays[a] = 1..Len(arrays[a])
  BY <1>1, <1>3, ElementOfSeq, LenProperties DEF Slices
<1>5. n \in 1..Len(arrays[a])
  BY <1>1, <1>2, <1>4
<1>6. arrays' = [arrays EXCEPT ![a] = c] /\ wild' = wild
  BY DEF StoreElement
<1> HIDE DEF n, a
<1>7. /\ c \in Slices /\ Len(c) = Len(arrays[a])
      /\ \A j \in 1..Len(arrays[a]) : c[j] = IF j = n THEN item[w].pid ELSE arrays[a][j]
  BY <1>4, <1>5, ExceptSeq DEF Slices
<1>8. DOMAIN c = DOMAIN arrays[a]
  BY <1>4, <1>7, LenProperties DEF Slices
<1> HIDE DEF c
<1>9. /\ arrays' \in Seq(Slices) /\ Len(arrays') = Len(arrays)
      /\ \A k \in 1..Len(arrays) : arrays'[k] = IF k = a THEN c ELSE arrays[k]
  BY <1>1, <1>3, <1>6, <1>7, ExceptSeq
<1>10. DOMAIN arrays' = DOMAIN arrays
  BY <1>1, <1>9, LenProperties
<1>11. \A k \in DOMAIN arrays :
         /\ DOMAIN arrays'[k] = DOMAIN arrays[k] /\ Len(arrays'[k]) = Len(arrays[k])
         /\ \A i \in DOMAIN arrays[k] :
              arrays'[k][i] = IF k = a /\ i = n THEN item[w].pid ELSE arrays[k][i]
  BY <1>1, <1>4, <1>7, <1>8, <1>9
<1> QED
  BY <1>1, <1>3, <1>4, <1>5, <1>6, <1>9, <1>10, <1>11 DEF n, a

(* --------------------------- type correctness -------------------------- *)
LEMMA TypedInit == Init => Typed
<1> SUFFICES ASSUME Init PROVE Typed
  OBVIOUS
<1>1. unread \in Seq(Listed) /\ stats \in Seq(Listed) /\ arrays \in Seq(Slices)
      /\ arrays = <<>> /\ Len(arrays) = 0
  BY Pids, EmptySeq DEF Init
<1>2. Cardinality(result) = 0 /\ DOMAIN arrays = {}
  BY <1>1, FS_EmptySet DEF Init
<1>3. /\ item \in [Workers -> Items]
      /\ local \in [Workers -> Headers] /\ header \in Headers
      /\ header.array = 0 /\ \A w \in Workers : local[w].array = 0
  BY DEF Init, NoHeader, NoProc, Headers, Items
<1>4. Types
  <2>1. /\ scope \in Scopes /\ gone \subseteq Listed /\ reader \in {"read", "done"}
        /\ pc \in [Workers -> {"receive", "user", "cgroup", "filter", "load", "size",
                               "grow", "capacity", "array", "length", "element",
                               "done"}]
        /\ wild \in BOOLEAN /\ raced \in BOOLEAN
    BY DEF Init
  <2>2. Cardinality(result) <= 1
    BY <1>2
  <2>3. \A k \in DOMAIN arrays : arrays[k] \in Slices
    BY <1>2
  <2> QED
    BY <2>1, <2>2, <2>3, <1>1, <1>3 DEF Types, Slices, Headers, Items
<1> QED
  BY <1>1, <1>3, <1>4 DEF Typed, Slices

LEMMA TypedStep == Typed /\ [Next]_vars => Typed'
<1> SUFFICES ASSUME Typed, [Next]_vars PROVE Typed'
  OBVIOUS
<1> USE DEF Nil, Items
<1>1. arrays \in Seq(Slices) /\ Len(arrays) \in Nat
  BY LenProperties DEF Typed, Slices
<1>2. ASSUME arrays' \in Seq(Slices)
      PROVE  \A k \in DOMAIN arrays' : arrays'[k] \in Slices
  BY <1>2, LenProperties, ElementOfSeq
<1>3. CASE UNCHANGED vars
  BY <1>3 DEF Typed, Types, vars, files, slice
<1>4. ASSUME NEW p \in Listed, Vanish(p) PROVE Typed'
  BY <1>4 DEF Typed, Types, Vanish, files, slice
<1>5. CASE Read
  <2>1. Head(unread) \in Listed /\ Tail(unread) \in Seq(Listed)
    BY <1>5, HeadTailProperties DEF Typed, Types, Read
  <2>2. stats' \in Seq(Listed) /\ unread' \in Seq(Listed)
    <3>1. stats \in Seq(Listed) /\ stats' \in {stats, Append(stats, Head(unread))}
          /\ unread' = Tail(unread)
      BY <1>5 DEF Typed, Types, Read
    <3> QED
      BY <2>1, <3>1, AppendProperties
  <2> QED
    BY <1>5, <2>2 DEF Typed, Types, Read, slice
<1>6. CASE ReadDone
  BY <1>6 DEF Typed, Types, ReadDone, slice
<1>7. CASE Return
  <2>1. Cardinality(result') <= 1
    <3>1. PICK x : result' = {x}
      BY <1>7 DEF Return
    <3> QED
      BY <3>1, FS_Singleton
  <2> QED
    BY <1>7, <2>1 DEF Typed, Types, Return, files
<1>8. ASSUME NEW w \in Workers, Work(w) PROVE Typed'
  <2>1. CASE Receive(w)
    <3>1. Head(stats) \in Listed /\ Tail(stats) \in Seq(Listed)
      BY <2>1, HeadTailProperties DEF Typed, Types, Receive
    <3> QED
      BY <2>1, <3>1 DEF Typed, Types, Receive, Goto, slice
  <2>2. CASE SetUser(w)
    <3> DEFINE b == item[w].pid \in Mine \ gone
    <3>1. b \in BOOLEAN /\ item' = [item EXCEPT ![w].mine = b]
      BY <2>2 DEF SetUser
    <3> HIDE DEF b
    <3>2. item' \in [Workers -> Items]
      BY <3>1 DEF Typed, Types
    <3> QED
      BY <2>2, <3>2 DEF Typed, Types, SetUser, Goto, files, slice
  <2>3. CASE SetCgroup(w)
    <3> DEFINE b == item[w].pid \in UserSlice \ gone
    <3>1. b \in BOOLEAN /\ item' = [item EXCEPT ![w].user = b]
      BY <2>3 DEF SetCgroup
    <3> HIDE DEF b
    <3>2. item' \in [Workers -> Items]
      BY <3>1 DEF Typed, Types
    <3> QED
      BY <2>3, <3>2 DEF Typed, Types, SetCgroup, Goto, files, slice
  <2>4. CASE Select(w)
    BY <2>4 DEF Typed, Types, Select, Goto, files, slice, NoProc
  <2>5. CASE Leave(w)
    BY <2>5 DEF Typed, Types, Leave, Goto, files, slice
  <2>6. CASE LoadArray(w)
    BY <2>6 DEF Typed, Types, LoadArray, Goto, files
  <2>7. CASE LoadSize(w)
    BY <2>7 DEF Typed, Types, LoadSize, Goto, files
  <2>8. CASE Grow(w)
    <3>1. /\ arrays' \in Seq(Slices) /\ Len(arrays') = Len(arrays) + 1
          /\ Larger(local[w]) \in Nat
      BY <2>8, Allocated, CellsType DEF Typed, Types, Headers
    <3>2. \A k \in DOMAIN arrays' : arrays'[k] \in Slices
      BY <3>1, <1>2
    <3>3. wild' \in BOOLEAN
      BY <2>8 DEF Grow, Typed, Types
    <3>4. /\ local' \in [Workers -> Headers]
          /\ \A v \in Workers : local'[v].array \in 0..Len(arrays')
      <4>1. local \in [Workers -> Headers]
            /\ local' = [local EXCEPT ![w].array = Len(arrays) + 1,
                                     ![w].cap = Larger(local[w])]
            /\ \A v \in Workers : local[v].array \in 0..Len(arrays)
        BY <2>8 DEF Grow, Typed, Types, Headers
      <4> DEFINE n == Len(arrays)
                 m == Larger(local[w])
                 g == [local[w] EXCEPT !.array = n + 1, !.cap = m]
      <4>2. n \in Nat /\ m \in Nat
        BY <3>1, <1>1
      <4> HIDE DEF n, m
      <4>3. g \in Headers /\ g.array = n + 1
        <5>1. local[w] \in Headers /\ n + 1 \in Nat
          BY <4>1, <4>2
        <5> QED
          BY <5>1, <4>2 DEF Headers
      <4>4. local' = [local EXCEPT ![w] = g]
        BY <4>1 DEF n, m
      <4> HIDE DEF g
      <4>5. local' \in [Workers -> Headers]
        BY <4>1, <4>3, <4>4
      <4>6. \A v \in Workers : local'[v].array \in 0..n + 1
        BY <4>1, <4>2, <4>3, <4>4 DEF n
      <4> QED
        BY <4>5, <4>6, <3>1 DEF n
    <3>5. header.array \in 0..Len(arrays')
      BY <3>1, <1>1 DEF Typed
    <3> QED
      BY <2>8, <3>1, <3>2, <3>3, <3>4, <3>5
      DEF Typed, Types, Grow, Goto, files, Slices, Headers
  <2>9. CASE StoreCapacity(w)
    BY <2>9 DEF Typed, Types, StoreCapacity, Goto, files
  <2>10. CASE StoreArray(w)
    BY <2>10 DEF Typed, Types, StoreArray, Goto, files
  <2>11. CASE StoreLength(w)
    <3>1. local[w].len + 1 \in Nat /\ header \in Headers
      BY DEF Typed, Types, Headers
    <3>2. header' \in Headers /\ header'.array = header.array
      BY <2>11, <3>1 DEF StoreLength, Headers
    <3> QED
      BY <2>11, <3>2 DEF Typed, Types, StoreLength, Goto, files, Headers
  <2>12. CASE StoreElement(w)
    <3>1. arrays' \in Seq(Slices) /\ Len(arrays') = Len(arrays)
          /\ wild' \in BOOLEAN
      <4>1. item[w].pid \in Listed \cup {Nil} /\ wild \in BOOLEAN
        BY DEF Typed, Types
      <4>2. CASE local[w].len + 1 <= Len(Cells(local[w]))
        BY <2>12, <4>1, <4>2, Stores
      <4>3. CASE ~(local[w].len + 1 <= Len(Cells(local[w])))
        BY <2>12, <4>3, <1>1 DEF StoreElement
      <4> QED
        BY <4>2, <4>3
    <3>2. \A k \in DOMAIN arrays' : arrays'[k] \in Slices
      BY <3>1, <1>2
    <3>3. /\ local' \in [Workers -> Headers] /\ header' = header
          /\ \A v \in Workers : local'[v].array \in 0..Len(arrays')
      BY <2>12, <3>1, <1>1 DEF StoreElement, Typed, Types, Headers, NoHeader
    <3>4. item' \in [Workers -> Items]
      BY <2>12 DEF StoreElement, Typed, Types, NoProc
    <3> QED
      BY <2>12, <3>1, <3>2, <3>3, <3>4
      DEF Typed, Types, StoreElement, Goto, files, Slices, Headers
  <2> QED
    BY <1>8, <2>1, <2>2, <2>3, <2>4, <2>5, <2>6, <2>7, <2>8, <2>9, <2>10, <2>11,
       <2>12 DEF Work
<1> QED
  BY <1>3, <1>4, <1>5, <1>6, <1>7, <1>8 DEF Next

(* A step of one worker leaves the others, the reader and the filter alone.  *)
LEMMA OneWorker ==
  ASSUME Typed, NEW w \in Workers, Work(w)
  PROVE  /\ UNCHANGED <<scope, gone, unread, reader, result>>
         /\ pc \in [Workers -> Stages]
         /\ \A v \in Workers \ {w} :
              pc'[v] = pc[v] /\ item'[v] = item[v] /\ local'[v] = local[v]
<1>1. pc \in [Workers -> Stages] /\ DOMAIN item = Workers /\ DOMAIN local = Workers
  BY DEF Typed, Types, Stages
<1>2. UNCHANGED <<scope, gone, unread, reader, result>>
  BY DEF Work, Receive, SetUser, SetCgroup, Select, Leave, LoadArray, LoadSize, Grow,
     StoreCapacity, StoreArray, StoreLength, StoreElement, files, slice
<1>3. ASSUME NEW v \in Workers \ {w} PROVE pc'[v] = pc[v]
  BY <1>1 DEF Work, Receive, SetUser, SetCgroup, Select, Leave, LoadArray, LoadSize,
     Grow, StoreCapacity, StoreArray, StoreLength, StoreElement, Goto
<1>4. ASSUME NEW v \in Workers \ {w} PROVE item'[v] = item[v]
  BY <1>1 DEF Work, Receive, SetUser, SetCgroup, Select, Leave, LoadArray, LoadSize,
     Grow, StoreCapacity, StoreArray, StoreLength, StoreElement
<1>5. ASSUME NEW v \in Workers \ {w} PROVE local'[v] = local[v]
  BY <1>1 DEF Work, Receive, SetUser, SetCgroup, Select, Leave, LoadArray, LoadSize,
     Grow, StoreCapacity, StoreArray, StoreLength, StoreElement, slice
<1> QED
  BY <1>1, <1>2, <1>3, <1>4, <1>5

-----------------------------------------------------------------------------
(* ------------------------- what was kept is fit ------------------------ *)
(* What the filter passes is of the scope or has ended, and what it does not *)
(* pass is not of the scope or has ended.                                    *)
LEMMA Filtered ==
  ASSUME Typed, NEW w \in Workers, Looked(w), pc[w] = "filter"
  PROVE  /\ Filter(item[w]) => item[w].pid \in Allowed
         /\ ~Filter(item[w]) => item[w].pid \notin InScope \ gone
<1>1. scope \in {"user", "global", "system", "all"}
  BY ScanAssumption DEF Typed, Types
<1>2. /\ item[w].pid \in Listed \ Blank
      /\ item[w].mine => item[w].pid \in Mine
      /\ ~item[w].mine => item[w].pid \notin Mine \ gone
      /\ item[w].user => item[w].pid \in UserSlice
      /\ ~item[w].user => item[w].pid \notin UserSlice \ gone
  BY DEF Looked, InHand
<1> QED
  BY <1>1, <1>2 DEF Filter, Allowed, InScope

LEMMA LookedKept ==
  ASSUME NEW v \in Workers, Looked(v), pc'[v] = pc[v], item'[v] = item[v],
         scope' = scope, gone \subseteq gone'
  PROVE  Looked(v)'
BY DEF Looked, InHand, Appending, Allowed, InScope

LEMMA FitInit == Init => Fit
BY DEF Init, Fit, Looked, InHand, Appending, NoProc

LEMMA FitStep == Typed /\ Fit /\ [Next]_vars => Fit'
<1> SUFFICES ASSUME Typed, Fit, [Next]_vars PROVE Fit'
  OBVIOUS
<1> USE DEF Items
<1> DEFINE FitCells == \A k \in DOMAIN arrays : \A i \in DOMAIN arrays[k] :
                         arrays[k][i] \in Allowed \cup {Nil}
<1>1. ASSUME scope' = scope, gone \subseteq gone' PROVE Allowed \subseteq Allowed'
  BY <1>1 DEF Allowed, InScope
<1>2. ASSUME scope' = scope, gone \subseteq gone', arrays' = arrays
      PROVE  FitCells'
  BY <1>1, <1>2 DEF Fit
<1>3. ASSUME scope' = scope, gone \subseteq gone', UNCHANGED <<arrays, pc, item>>
      PROVE  Fit'
  BY <1>2, <1>3, LookedKept DEF Fit
<1>4. ASSUME NEW w \in Workers, Work(w) PROVE Fit'
  <2> DEFINE p == item[w].pid
  <2>1. /\ scope' = scope /\ gone' = gone /\ Allowed' = Allowed
        /\ \A v \in Workers \ {w} : Looked(v)'
    BY <1>4, OneWorker, LookedKept DEF Fit, Allowed, InScope
  <2>2. /\ pc \in [Workers -> Stages] /\ item[w].pid \in Listed \cup {Nil}
        /\ item \in [Workers -> Items]
        /\ Looked(w)
    BY <1>4, OneWorker DEF Fit, Typed, Types
  <2> SUFFICES Looked(w)' /\ FitCells'
    BY <2>1 DEF Fit
  <2>3. ASSUME arrays' = arrays PROVE FitCells'
    BY <1>2, <2>1, <2>3
  <2>4. CASE Receive(w)
    <3>1. Head(stats) \in Listed
      BY <2>4, HeadTailProperties DEF Typed, Types, Receive
    <3>2. Looked(w)'
      <4>1. item[w] = NoProc
        BY <2>2, <2>4 DEF Receive, Goto, Looked, InHand
      <4>2. CASE Parses(Head(stats))
        <5>1. pc'[w] = "user" /\ item'[w].pid = Head(stats)
          BY <2>2, <2>4, <4>2 DEF Receive, Goto
        <5> QED
          BY <3>1, <4>2, <5>1 DEF Looked, InHand, Appending, Parses
      <4>3. CASE ~Parses(Head(stats))
        <5>1. pc'[w] = "receive" /\ item' = [item EXCEPT ![w].pid = Nil]
          BY <2>2, <2>4, <4>3 DEF Receive, Goto
        <5>2. item'[w] = NoProc
          <6>1. /\ item'[w] \in Items
                /\ item'[w].pid = Nil /\ ~item'[w].mine /\ ~item'[w].user
            <7>1. /\ item[w].pid = Nil /\ ~item[w].mine /\ ~item[w].user
              BY <4>1 DEF NoProc
            <7> QED
              BY <2>2, <5>1, <7>1
          <6>2. item'[w] = [pid |-> item'[w].pid, mine |-> item'[w].mine,
                            user |-> item'[w].user]
            BY <6>1
          <6> QED
            BY <6>1, <6>2 DEF NoProc
        <5> QED
          BY <5>1, <5>2 DEF Looked, InHand, Appending
      <4> QED
        BY <4>2, <4>3
    <3> QED
      BY <2>3, <2>4, <3>2 DEF Receive, slice
  <2>5. CASE SetUser(w)
    <3>1. /\ item'[w].pid = p /\ pc'[w] = "cgroup" /\ p \in Listed \ Blank
          /\ item'[w].mine <=> p \in Mine \ gone
      BY <2>2, <2>5 DEF SetUser, Goto, Looked, InHand
    <3>2. Looked(w)'
      BY <2>1, <3>1 DEF Looked, InHand, Appending
    <3> QED
      BY <2>3, <2>5, <3>2 DEF SetUser, slice
  <2>6. CASE SetCgroup(w)
    <3>1. /\ item'[w].pid = p /\ pc'[w] = "filter" /\ p \in Listed \ Blank
          /\ item'[w].user <=> p \in UserSlice \ gone
          /\ item'[w].mine = item[w].mine
          /\ item[w].mine => p \in Mine
          /\ ~item[w].mine => p \notin Mine \ gone
      BY <2>2, <2>6 DEF SetCgroup, Goto, Looked, InHand
    <3>2. Looked(w)'
      BY <2>1, <3>1 DEF Looked, InHand, Appending
    <3> QED
      BY <2>3, <2>6, <3>2 DEF SetCgroup, slice
  <2>7. CASE Select(w)
    <3>1. Looked(w)'
      <4>1. CASE Filter(item[w])
        <5>1. /\ pc'[w] = "load" /\ item'[w] = item[w]
              /\ p \in Listed \ Blank /\ p \in Allowed
          BY <2>2, <2>7, <4>1, Filtered DEF Select, Goto, Looked, InHand
        <5>2. item'[w].pid \in Listed \ Blank /\ item'[w].pid \in Allowed'
          BY <2>1, <5>1
        <5> QED
          BY <5>1, <5>2 DEF Looked, InHand, Appending
      <4>2. CASE ~Filter(item[w])
        <5>1. pc'[w] = "receive" /\ item'[w] = NoProc
          BY <2>2, <2>7, <4>2 DEF Select, Goto
        <5> QED
          BY <5>1 DEF Looked, InHand, Appending
      <4> QED
        BY <4>1, <4>2
    <3> QED
      BY <2>3, <2>7, <3>1 DEF Select, slice
  <2>8. CASE Leave(w)
    <3>1. Looked(w)'
      BY <2>2, <2>8 DEF Leave, Goto, Looked, InHand, Appending
    <3> QED
      BY <2>3, <2>8, <3>1 DEF Leave, slice
  <2>9. ASSUME Appending(w), Appending(w)', item' = item PROVE Looked(w)'
    BY <2>1, <2>2, <2>9 DEF Looked, InHand, Appending
  <2>10. CASE \/ LoadArray(w) \/ LoadSize(w) \/ StoreCapacity(w) \/ StoreArray(w)
              \/ StoreLength(w)
    <3>1. Appending(w) /\ Appending(w)' /\ item' = item /\ arrays' = arrays
      BY <2>2, <2>10 DEF LoadArray, LoadSize, StoreCapacity, StoreArray, StoreLength,
         Goto, Appending
    <3> QED
      BY <2>3, <2>9, <3>1
  <2>11. CASE Grow(w)
    <3>1. Looked(w)'
      <4>1. Appending(w) /\ Appending(w)' /\ item' = item
        BY <2>2, <2>11 DEF Grow, Goto, Appending
      <4> QED
        BY <2>9, <4>1
    <3>2. FitCells'
      BY <2>1, <2>11, Copies DEF Fit
    <3> QED
      BY <3>1, <3>2
  <2>12. CASE StoreElement(w)
    <3>1. Looked(w)' /\ p \in Allowed
      BY <2>2, <2>12 DEF StoreElement, Goto, Looked, InHand, Appending
    <3>2. CASE local[w].len + 1 <= Len(Cells(local[w]))
      BY <2>1, <2>2, <2>12, <3>1, <3>2, Stores DEF Fit
    <3>3. CASE ~(local[w].len + 1 <= Len(Cells(local[w])))
      BY <2>3, <2>12, <3>1, <3>3 DEF StoreElement
    <3> QED
      BY <3>1, <3>2, <3>3
  <2> QED
    BY <1>4, <2>4, <2>5, <2>6, <2>7, <2>8, <2>10, <2>11, <2>12 DEF Work
<1>5. CASE (\E p \in Listed : Vanish(p)) \/ Read \/ ReadDone \/ Return \/ UNCHANGED vars
  <2>1. scope' = scope /\ gone \subseteq gone' /\ UNCHANGED <<arrays, pc, item>>
    BY <1>5 DEF Vanish, Read, ReadDone, Return, vars, files, slice
  <2> QED
    BY <2>1, <1>3
<1> QED
  BY <1>4, <1>5 DEF Next

-----------------------------------------------------------------------------
(* ------------------- every process is in one place only ---------------- *)
LEMMA DistinctInit == Init => Distinct
<1> SUFFICES ASSUME Init PROVE Distinct
  OBVIOUS
<1>1. IsInjective(unread)
  BY ScanAssumption DEF Init
<1>2. DOMAIN stats = {} /\ DOMAIN arrays = {}
  BY DEF Init
<1>3. IsInjective(stats) /\ ToSet(stats) = {} /\ InItsCell /\ \A p : ~Stored(p, arrays)
  BY <1>2 DEF IsInjective, ToSet, Stored, InItsCell
<1>4. \A p \in ToSet(unread) : p # Nil
  BY Pids DEF Init, Listed
<1>5. \A w \in Workers : item[w].pid = Nil /\ ~InHand(w)
  BY DEF Init, NoProc, InHand
<1> QED
  BY <1>1, <1>3, <1>4, <1>5 DEF Distinct

(* What stays in the queues and in hand, unless it is let go.                *)
LEMMA DistinctKept ==
  ASSUME Typed, Fit, Distinct, UNCHANGED <<unread, stats>>, InItsCell',
         \A v \in Workers :
           \/ item'[v].pid = item[v].pid /\ (InHand(v)' => InHand(v))
           \/ item'[v].pid = Nil /\ ~InHand(v)',
         \A q \in Listed : Stored(q, arrays') => Stored(q, arrays)
  PROVE  Distinct'
<1>1. ToSet(unread) \subseteq Listed /\ ToSet(stats) \subseteq Listed
  BY LenProperties, ElementOfSeq DEF Typed, Types, ToSet
<1>2. \A v \in Workers : InHand(v) => item[v].pid \in Listed
  BY DEF Fit, Looked
<1>3. /\ IsInjective(unread)' /\ IsInjective(stats)'
      /\ ToSet(unread)' = ToSet(unread) /\ ToSet(stats)' = ToSet(stats)
  BY DEF Distinct, IsInjective, ToSet
<1>4. \A p \in ToSet(unread) \cup ToSet(stats) :
        ~Stored(p, arrays') /\ \A v \in Workers : item'[v].pid # p
  BY <1>1, Pids DEF Distinct
<1>5. \A v \in Workers : InHand(v)' =>
        ~Stored(item[v].pid, arrays') /\ \A u \in Workers \ {v} : item'[u].pid # item[v].pid
  BY <1>2, Pids DEF Distinct
<1>6. \A v \in Workers : InHand(v)' => item'[v].pid = item[v].pid
  OBVIOUS
<1> QED
  BY <1>3, <1>4, <1>5, <1>6 DEF Distinct

LEMMA SameArrays ==
  ASSUME UNCHANGED arrays
  PROVE  (InItsCell => InItsCell') /\ \A q : Stored(q, arrays') <=> Stored(q, arrays)
BY DEF InItsCell, Stored

LEMMA DistinctStep == Typed /\ Fit /\ Distinct /\ [Next]_vars => Distinct'
<1> SUFFICES ASSUME Typed, Fit, Distinct, [Next]_vars PROVE Distinct'
  OBVIOUS
<1> USE DEF Items
<1>1. /\ unread \in Seq(Listed) /\ stats \in Seq(Listed)
      /\ ToSet(unread) \subseteq Listed /\ ToSet(stats) \subseteq Listed
  BY LenProperties, ElementOfSeq DEF Typed, Types, ToSet
<1>2. ASSUME UNCHANGED <<unread, stats, arrays>>,
             \A v \in Workers :
               \/ item'[v].pid = item[v].pid /\ (InHand(v)' => InHand(v))
               \/ item'[v].pid = Nil /\ ~InHand(v)'
      PROVE  Distinct'
  BY <1>2, SameArrays, DistinctKept DEF Distinct
<1>3. CASE (\E p \in Listed : Vanish(p)) \/ ReadDone \/ Return \/ UNCHANGED vars
  <2>1. UNCHANGED <<unread, stats, arrays, pc, item>>
    BY <1>3 DEF Vanish, ReadDone, Return, vars, files, slice
  <2> QED
    BY <2>1, <1>2 DEF InHand
<1>4. CASE Read
  <2> DEFINE x == Head(unread)
  <2>1. /\ unread # <<>> /\ unread' = Tail(unread) /\ UNCHANGED <<pc, item, arrays>>
        /\ stats' = stats \/ stats' = Append(stats, x)
    BY <1>4 DEF Read, slice
  <2>2. /\ x \in Listed /\ IsInjective(unread') /\ x \in ToSet(unread)
        /\ ToSet(unread') = ToSet(unread) \ {x} /\ x \notin ToSet(stats)
    BY <1>1, <2>1, Taken DEF Distinct
  <2>3. IsInjective(stats') /\ ToSet(stats') \subseteq ToSet(stats) \cup {x}
    <3>1. CASE stats' = stats
      BY <3>1 DEF Distinct
    <3>2. CASE stats' = Append(stats, x)
      <4> HIDE DEF x
      <4> QED
        BY <1>1, <2>2, <3>2, Queued DEF Distinct
    <3> QED
      BY <2>1, <3>1, <3>2
  <2>4. \A q : Stored(q, arrays') <=> Stored(q, arrays)
    BY <2>1, SameArrays
  <2>5. InItsCell' /\ \A v \in Workers : InHand(v)' <=> InHand(v)
    BY <2>1, SameArrays DEF Distinct, InHand
  <2> HIDE DEF x
  <2>6. ToSet(unread') \cup ToSet(stats') \subseteq ToSet(unread) \cup ToSet(stats)
        /\ ToSet(unread') \cap ToSet(stats') = {}
    BY <2>2, <2>3 DEF Distinct
  <2>7. \A v \in Workers : InHand(v) => ~Stored(item'[v].pid, arrays')
    BY <2>1, <2>4 DEF Distinct
  <2> QED
    BY <2>1, <2>2, <2>3, <2>4, <2>5, <2>6, <2>7 DEF Distinct
<1>5. ASSUME NEW w \in Workers, Work(w) PROVE Distinct'
  <2> DEFINE p == item[w].pid
  <2>1. /\ unread' = unread /\ pc \in [Workers -> Stages]
        /\ item \in [Workers -> Items]
        /\ \A v \in Workers \ {w} : item'[v] = item[v] /\ (InHand(v)' <=> InHand(v))
    BY <1>5, OneWorker DEF Typed, Types, InHand
  <2>2. CASE Receive(w)
    <3> DEFINE x == Head(stats)
    <3>1. stats # <<>> /\ stats' = Tail(stats) /\ ~InHand(w) /\ UNCHANGED arrays
          /\ item'[w].pid \in {x, Nil} /\ (InHand(w)' => item'[w].pid = x)
      BY <2>1, <2>2 DEF Receive, Goto, InHand, slice
    <3>2. /\ x \in Listed /\ IsInjective(stats') /\ x \in ToSet(stats)
          /\ ToSet(stats') = ToSet(stats) \ {x} /\ x \notin ToSet(unread)
      BY <1>1, <3>1, Taken DEF Distinct
    <3> HIDE DEF x
    <3>3. InItsCell' /\ \A q : Stored(q, arrays') <=> Stored(q, arrays)
      BY <3>1, SameArrays DEF Distinct
    <3>4. /\ ~Stored(x, arrays) /\ \A v \in Workers : item[v].pid # x
          /\ \A v \in Workers : InHand(v) => item[v].pid \in Listed
      BY <3>2 DEF Distinct, Fit, Looked
    <3>5. \A q \in ToSet(unread') \cup ToSet(stats') :
            ~Stored(q, arrays') /\ \A v \in Workers : item'[v].pid # q
      <4>1. \A q \in ToSet(unread) \cup ToSet(stats') :
              ~Stored(q, arrays) /\ q # x /\ q # Nil /\ \A v \in Workers : item[v].pid # q
        BY <1>1, <3>2, Pids DEF Distinct
      <4> QED
        BY <2>1, <3>1, <3>3, <4>1
    <3>6. ASSUME NEW v \in Workers, InHand(v)'
          PROVE  /\ ~Stored(item'[v].pid, arrays')
                 /\ \A u \in Workers \ {v} : item'[u].pid # item'[v].pid
      <4>1. CASE v = w
        <5>1. item'[v].pid = x
          BY <3>1, <3>6, <4>1
        <5>2. ~Stored(x, arrays')
          BY <3>3, <3>4
        <5> QED
          BY <2>1, <3>4, <4>1, <5>1, <5>2
      <4>2. CASE v # w
        <5>1. /\ item'[v].pid = item[v].pid /\ InHand(v) /\ item[v].pid \in Listed
              /\ item[v].pid # x /\ item[v].pid # Nil
          BY <2>1, <3>4, <3>6, <4>2, Pids
        <5>2. /\ ~Stored(item[v].pid, arrays)
              /\ \A u \in Workers \ {v} : item[u].pid # item[v].pid
          BY <5>1 DEF Distinct
        <5>3. ~Stored(item[v].pid, arrays')
          BY <3>3, <5>2
        <5> QED
          BY <2>1, <3>1, <5>1, <5>2, <5>3
      <4> QED
        BY <4>1, <4>2
    <3> QED
      BY <2>1, <3>2, <3>3, <3>5, <3>6 DEF Distinct
  <2>3. CASE SetUser(w) \/ SetCgroup(w)
    <3>1. /\ UNCHANGED <<stats, arrays>> /\ item'[w].pid = item[w].pid
          /\ InHand(w) /\ InHand(w)'
      BY <2>1, <2>3 DEF SetUser, SetCgroup, Goto, InHand, files, slice
    <3> QED
      BY <2>1, <3>1, <1>2
  <2>4. CASE Select(w)
    <3>1. UNCHANGED <<stats, arrays>>
      BY <2>4 DEF Select, files, slice
    <3>2. \/ item'[w] = item[w] /\ InHand(w)
          \/ item'[w] = NoProc /\ ~InHand(w)'
      <4>1. CASE Filter(item[w])
        BY <2>1, <2>4, <4>1 DEF Select, Goto, InHand
      <4>2. CASE ~Filter(item[w])
        <5>1. pc'[w] = "receive" /\ item'[w] = NoProc
          BY <2>1, <2>4, <4>2 DEF Select, Goto
        <5> QED
          BY <5>1 DEF InHand
      <4> QED
        BY <4>1, <4>2
    <3>3. \/ item'[w].pid = item[w].pid /\ (InHand(w)' => InHand(w))
          \/ item'[w].pid = Nil /\ ~InHand(w)'
      BY <3>2 DEF NoProc
    <3> QED
      BY <2>1, <3>1, <3>3, <1>2
  <2>5. CASE \/ Leave(w) \/ LoadArray(w) \/ LoadSize(w) \/ StoreCapacity(w)
             \/ StoreArray(w) \/ StoreLength(w)
    <3>1. UNCHANGED <<stats, arrays, item>> /\ (InHand(w)' => InHand(w))
      BY <2>1, <2>5 DEF Leave, LoadArray, LoadSize, StoreCapacity, StoreArray,
         StoreLength, Goto, InHand, files, slice
    <3> QED
      BY <2>1, <3>1, <1>2
  <2>6. CASE Grow(w)
    <3>1. UNCHANGED <<stats, item>> /\ (InHand(w)' => InHand(w))
      BY <2>1, <2>6 DEF Grow, Goto, InHand, files
    <3>2. \A q \in Listed : Stored(q, arrays') => Stored(q, arrays)
      BY <2>6, Copies, Pids DEF Stored
    <3>3. InItsCell'
      <4> SUFFICES ASSUME NEW a \in DOMAIN arrays', NEW b \in DOMAIN arrays',
                          NEW i \in DOMAIN arrays'[a], NEW k \in DOMAIN arrays'[b],
                          arrays'[a][i] = arrays'[b][k], arrays'[a][i] # Nil
                   PROVE  i = k
        BY DEF InItsCell
      <4>1. PICK c \in DOMAIN arrays :
              i \in DOMAIN arrays[c] /\ arrays[c][i] = arrays'[a][i]
        BY <2>6, Copies
      <4>2. PICK d \in DOMAIN arrays :
              k \in DOMAIN arrays[d] /\ arrays[d][k] = arrays'[b][k]
        BY <2>6, Copies
      <4> QED
        BY <4>1, <4>2 DEF Distinct, InItsCell
    <3> QED
      BY <2>1, <3>1, <3>2, <3>3, DistinctKept
  <2>7. CASE StoreElement(w)
    <3>1. UNCHANGED stats /\ InHand(w) /\ ~InHand(w)' /\ item'[w].pid = Nil
      BY <2>1, <2>7 DEF StoreElement, Goto, InHand, files, NoProc
    <3>2. CASE ~(local[w].len + 1 <= Len(Cells(local[w])))
      <4>1. UNCHANGED arrays
        BY <2>7, <3>2 DEF StoreElement
      <4> QED
        BY <2>1, <3>1, <4>1, <1>2
    <3>3. CASE local[w].len + 1 <= Len(Cells(local[w]))
      <4> DEFINE n == local[w].len + 1
                 c == local[w].array
      <4>1. /\ DOMAIN arrays' = DOMAIN arrays
            /\ c \in DOMAIN arrays /\ n \in DOMAIN arrays[c]
            /\ \A k \in DOMAIN arrays :
                 /\ DOMAIN arrays'[k] = DOMAIN arrays[k]
                 /\ \A i \in DOMAIN arrays[k] :
                      arrays'[k][i] = IF k = c /\ i = n THEN p ELSE arrays[k][i]
        BY <2>1, <2>7, <3>3, Stores
      <4>2. p \in Listed /\ ~Stored(p, arrays) /\ \A v \in Workers \ {w} : item[v].pid # p
        BY <3>1 DEF Distinct, Fit, Looked
      <4> HIDE DEF n, c, p
      <4>3. \A q : Stored(q, arrays') => Stored(q, arrays) \/ q = p
        BY <4>1 DEF Stored
      <4>4. InItsCell'
        BY <4>1, <4>2 DEF Distinct, InItsCell, Stored
      <4>5. \A q \in ToSet(unread) \cup ToSet(stats) :
              ~Stored(q, arrays) /\ q # p /\ q # Nil /\ \A v \in Workers : item[v].pid # q
        BY <1>1, Pids DEF Distinct, p
      <4>6. \A q \in ToSet(unread) \cup ToSet(stats) :
              ~Stored(q, arrays') /\ \A v \in Workers : item'[v].pid # q
        BY <2>1, <3>1, <4>3, <4>5
      <4>7. ASSUME NEW v \in Workers, InHand(v)'
            PROVE  /\ ~Stored(item'[v].pid, arrays')
                   /\ \A u \in Workers \ {v} : item'[u].pid # item'[v].pid
        <5>1. /\ v # w /\ item'[v].pid = item[v].pid /\ InHand(v)
              /\ item[v].pid \in Listed /\ item[v].pid # p /\ item[v].pid # Nil
          BY <2>1, <3>1, <4>2, <4>7, Pids DEF Fit, Looked
        <5>2. /\ ~Stored(item[v].pid, arrays)
              /\ \A u \in Workers \ {v} : item[u].pid # item[v].pid
          BY <5>1 DEF Distinct
        <5>3. ~Stored(item[v].pid, arrays')
          BY <4>3, <5>1, <5>2
        <5> QED
          BY <2>1, <3>1, <5>1, <5>2, <5>3
      <4>8. /\ IsInjective(unread') /\ IsInjective(stats')
            /\ ToSet(unread') = ToSet(unread) /\ ToSet(stats') = ToSet(stats)
        BY <2>1, <3>1 DEF Distinct
      <4> QED
        BY <4>4, <4>6, <4>7, <4>8 DEF Distinct
    <3> QED
      BY <3>2, <3>3
  <2> QED
    BY <1>5, <2>2, <2>3, <2>4, <2>5, <2>6, <2>7 DEF Work
<1> QED
  BY <1>3, <1>4, <1>5 DEF Next

-----------------------------------------------------------------------------
(* ------------------------------- the end ------------------------------- *)
LEMMA FinishedInit == Init => Finished
BY DEF Init, Finished

LEMMA FinishedStep == Typed /\ Finished /\ [Next]_vars => Finished'
<1> SUFFICES ASSUME Typed, Finished, [Next]_vars PROVE Finished'
  OBVIOUS
<1>1. CASE \/ \E p \in Listed : Vanish(p)
           \/ Read \/ ReadDone \/ Return \/ UNCHANGED vars
  BY <1>1 DEF Finished, Vanish, Read, ReadDone, Return, vars, files, slice
<1>2. ASSUME NEW w \in Workers, Work(w) PROVE Finished'
  <2>1. /\ UNCHANGED <<unread, reader, result>> /\ pc \in [Workers -> Stages]
        /\ \A v \in Workers \ {w} : pc'[v] = pc[v]
    BY <1>2, OneWorker
  <2>2. pc[w] # "done" /\ result = {}
    BY <1>2, <2>1 DEF Finished, Work, Receive, SetUser, SetCgroup, Select, Leave,
       LoadArray, LoadSize, Grow, StoreCapacity, StoreArray, StoreLength, StoreElement, Goto
  <2>3. \/ stats' = stats /\ pc'[w] # "done"
        \/ stats # <<>> /\ pc'[w] # "done"
        \/ stats' = stats /\ stats = <<>> /\ reader = "done"
    BY <1>2, <2>1 DEF Work, Receive, SetUser, SetCgroup, Select, Leave,
       LoadArray, LoadSize, Grow, StoreCapacity, StoreArray, StoreLength, StoreElement,
       Goto, files
  <2> QED
    BY <2>1, <2>2, <2>3 DEF Finished
<1> QED
  BY <1>1, <1>2 DEF Next

-----------------------------------------------------------------------------
(* -------------------- without a race the slice is solid ---------------- *)
LEMMA InTurnInit == Init => InTurn /\ Complete
<1> SUFFICES ASSUME Init PROVE InTurn /\ Complete
  OBVIOUS
<1>1. header = NoHeader /\ arrays = <<>> /\ ~wild /\ unread = Files
      /\ \A w \in Workers : pc[w] = "receive"
  BY DEF Init
<1>2. Cells(header) = <<>> /\ Len(Cells(header)) = 0
      /\ header.len = 0 /\ header.cap = 0
  BY <1>1 DEF Cells, NoHeader
<1>3. Settled
  BY <1>2 DEF Settled, Whole
<1>4. InTurn
  BY <1>1, <1>3 DEF InTurn, AtStage, Appending
<1>5. InScope \subseteq ToSet(unread)
  BY <1>1, ScanAssumption DEF Init, InScope, Listed
<1> QED
  BY <1>4, <1>5 DEF Complete, OnItsWay

(* A step that leaves the slice and those who append alone.                  *)
LEMMA TurnKept ==
  ASSUME InTurn, UNCHANGED <<arrays, header, wild>>,
         \A v \in Workers : Appending(v)' => pc'[v] = pc[v] /\ local'[v] = local[v],
         \A v \in Workers : Appending(v) => Appending(v)'
  PROVE  InTurn'
<1>1. (\A h : Cells(h)' = Cells(h)) /\ (Settled => Settled')
  BY DEF Settled, Cells, Whole
<1>2. \A v \in Workers : Appending(v)' => Appending(v)
  BY DEF Appending
<1>3. ASSUME NEW v \in Workers PROVE AtStage(v)'
  <2>1. CASE Appending(v)'
    BY <1>1, <1>3, <2>1 DEF InTurn, AtStage, Cells, Whole
  <2>2. CASE ~Appending(v)'
    BY <2>2 DEF AtStage, Appending
  <2> QED
    BY <2>1, <2>2
<1> QED
  BY <1>1, <1>2, <1>3 DEF InTurn

(* The seven steps of an append, when no other one is under way.  Nothing    *)
(* that the slice names is lost, and at the end it names the process in hand.*)
LEMMA AppendStep ==
  ASSUME Typed, Fit, InTurn, NEW w \in Workers,
         \/ LoadArray(w) \/ LoadSize(w) \/ Grow(w) \/ StoreCapacity(w)
         \/ StoreArray(w) \/ StoreLength(w) \/ StoreElement(w)
  PROVE  /\ InTurn'
         /\ ToSet(Cells(header)) \ {Nil} \subseteq ToSet(Cells(header))'
         /\ StoreElement(w) => item[w].pid \in ToSet(Cells(header))'
<1> DEFINE l == local[w]
           n == Len(arrays)
           Kept == ToSet(Cells(header)) \ {Nil} \subseteq ToSet(Cells(header))'
<1>1. /\ header \in Headers /\ header.array \in 0..n /\ n \in Nat
      /\ l \in Headers /\ l.array \in 0..n /\ DOMAIN local = Workers
      /\ DOMAIN arrays = 1..n
  BY LenProperties DEF Typed, Types, Headers
<1>2. Work(w) /\ Appending(w)
  BY DEF Work, Appending, LoadArray, LoadSize, Grow, StoreCapacity, StoreArray,
     StoreLength, StoreElement, Goto
<1>3. /\ \A v \in Workers \ {w} : ~Appending(v) /\ ~Appending(v)' /\ AtStage(v)'
      /\ pc \in [Workers -> Stages]
  <2>1. /\ pc \in [Workers -> Stages]
        /\ \A v \in Workers \ {w} : ~Appending(v) /\ pc'[v] = pc[v]
    BY <1>2, OneWorker DEF InTurn
  <2> QED
    BY <2>1 DEF AtStage, Appending
<1>4. \A h \in Headers : h.array \in 0..n =>
        /\ Cells(h) \in Slices /\ Len(Cells(h)) \in Nat
        /\ DOMAIN Cells(h) = 1..Len(Cells(h))
  BY CellsType, LenProperties DEF Slices
<1>5. AtStage(w) /\ ~wild
  BY DEF InTurn
<1>6. ASSUME ~wild', Appending(w)', AtStage(w)' PROVE InTurn'
  BY <1>3, <1>6 DEF InTurn
<1>7. ASSUME UNCHANGED arrays, header'.array = header.array
      PROVE  /\ \A h : Cells(h)' = Cells(h)
             /\ Cells(header)' = Cells(header) /\ Kept
  BY <1>7 DEF Cells, ToSet
<1>8. CASE LoadArray(w)
  <2>1. /\ UNCHANGED <<arrays, header, wild>> /\ pc[w] = "load" /\ pc'[w] = "size"
        /\ local'[w] = [header EXCEPT !.len = 0, !.cap = 0]
    BY <1>1, <1>3, <1>8 DEF LoadArray, Goto
  <2>2. local'[w].array = header.array
    BY <1>1, <2>1 DEF Headers
  <2>3. Cells(header)' = Cells(header) /\ Kept
    BY <2>1, <1>7
  <2>4. Settled'
    BY <1>5, <2>1, <2>3 DEF AtStage, Settled
  <2> QED
    BY <1>5, <1>6, <1>8, <2>1, <2>2, <2>3, <2>4
    DEF AtStage, Appending, StoreElement, LoadArray, Goto
<1>9. CASE LoadSize(w)
  <2>1. /\ UNCHANGED <<arrays, header, wild>> /\ pc[w] = "size"
        /\ pc'[w] = IF header.len < header.cap THEN "length" ELSE "grow"
        /\ local'[w] = [header EXCEPT !.array = l.array]
    BY <1>1, <1>3, <1>9 DEF LoadSize, Goto
  <2>2. l.array = header.array /\ Settled
    BY <1>5, <2>1 DEF AtStage
  <2>3. local'[w] = header
    <3>1. local'[w] \in Headers /\ local'[w].array = header.array
          /\ local'[w].len = header.len /\ local'[w].cap = header.cap
      BY <1>1, <2>1, <2>2 DEF Headers
    <3> QED
      BY <1>1, <3>1, SameHeader
  <2>4. Settled' /\ Kept
    BY <2>1, <2>2, <1>7 DEF Settled
  <2>5. header.len \in 0..header.cap /\ header.len \in Nat /\ header.cap \in Nat
    BY <1>1, <2>2 DEF Settled, Whole, Headers
  <2>6. /\ pc'[w] \in {"length", "grow"}
        /\ pc'[w] = "length" => header.len < header.cap
        /\ pc'[w] = "grow" => header.len = header.cap
    BY <2>1, <2>5
  <2>7. AtStage(w)' /\ Appending(w)'
    BY <2>1, <2>3, <2>4, <2>6 DEF AtStage, Appending
  <2>8. ~StoreElement(w)
    BY <2>1 DEF StoreElement, Goto
  <2> QED
    BY <1>5, <1>6, <2>1, <2>4, <2>7, <2>8
<1>10. CASE Grow(w)
  <2>1. /\ UNCHANGED header /\ pc[w] = "grow" /\ pc'[w] = "capacity"
        /\ local'[w] = [l EXCEPT !.array = n + 1, !.cap = Larger(l)]
        /\ wild' = (wild \/ l.len > Len(Cells(l)))
    BY <1>1, <1>3, <1>10 DEF Grow, Goto
  <2>2. Settled /\ l = header /\ l.len = l.cap
    BY <1>5, <2>1 DEF AtStage
  <2>3. l.cap = Len(Cells(l)) /\ l.len \in Nat /\ l.cap \in Nat
        /\ \A i \in 1..l.cap : Cells(l)[i] # Nil
    BY <1>1, <2>2 DEF Settled, Whole, Headers
  <2>4. /\ Larger(l) \in Nat \ {0} /\ l.cap < Larger(l)
        /\ Len(Copied(l)) = Larger(l)
        /\ \A i \in 1..Larger(l) :
             Copied(l)[i] = IF i <= l.len /\ i <= Len(Cells(l)) THEN Cells(l)[i] ELSE Nil
    BY <1>1, CellsType
  <2>5. local'[w].array = n + 1 /\ local'[w].len = l.len /\ local'[w].cap = Larger(l)
    BY <1>1, <2>1, <2>4 DEF Headers
  <2>6. /\ arrays'[n + 1] = Copied(l) /\ \A k \in 1..n : arrays'[k] = arrays[k]
    BY <1>10, Allocated
  <2>7. Cells(local[w])' = Copied(l)
    BY <2>5, <2>6, <1>1 DEF Cells
  <2>8. Cells(header)' = Cells(header)
    BY <2>1, <2>6, <1>1 DEF Cells
  <2>9. Settled' /\ Kept
    BY <2>1, <2>2, <2>8 DEF Settled, ToSet
  <2>10. Whole(Copied(l), l.len, Larger(l))
    BY <2>2, <2>3, <2>4 DEF Whole
  <2>11. \A i \in 1..l.len : Copied(l)[i] = Cells(l)[i]
    BY <2>2, <2>3, <2>4
  <2>12. AtStage(w)'
    BY <2>1, <2>2, <2>3, <2>4, <2>5, <2>7, <2>8, <2>9, <2>10, <2>11 DEF AtStage
  <2>13. ~(l.len > Len(Cells(l)))
    BY <2>2, <2>3
  <2>14. ~wild'
    BY <1>5, <2>1, <2>13
  <2>15. Appending(w)' /\ ~StoreElement(w)
    BY <2>1 DEF Appending, StoreElement, Goto
  <2> QED
    BY <1>6, <2>9, <2>12, <2>14, <2>15
<1>11. CASE StoreCapacity(w)
  <2>1. /\ UNCHANGED <<arrays, wild, local>> /\ pc[w] = "capacity" /\ pc'[w] = "array"
        /\ header' = [header EXCEPT !.cap = l.cap]
    BY <1>1, <1>3, <1>11 DEF StoreCapacity, Goto
  <2>2. /\ Settled /\ l.len = header.cap /\ header.len = l.len /\ l.len < l.cap
        /\ Whole(Cells(l), l.len, l.cap)
        /\ \A i \in 1..l.len : Cells(l)[i] = Cells(header)[i]
    BY <1>5, <2>1 DEF AtStage
  <2>3. header'.array = header.array /\ header'.len = header.len /\ header'.cap = l.cap
    BY <1>1, <2>1 DEF Headers
  <2>4. Cells(header)' = Cells(header) /\ Kept /\ Cells(local[w])' = Cells(l)
    BY <2>1, <2>3, <1>7 DEF Cells
  <2>5. Whole(Cells(header), l.len, l.len)
    BY <2>2 DEF Settled
  <2>6. AtStage(w)'
    BY <2>1, <2>2, <2>3, <2>4, <2>5 DEF AtStage
  <2>7. ~wild' /\ Appending(w)' /\ ~StoreElement(w)
    BY <1>5, <2>1 DEF Appending, StoreElement, Goto
  <2> QED
    BY <1>6, <2>4, <2>6, <2>7
<1>12. CASE StoreArray(w)
  <2>1. /\ UNCHANGED <<arrays, wild, local>> /\ pc[w] = "array" /\ pc'[w] = "length"
        /\ header' = [header EXCEPT !.array = l.array]
    BY <1>1, <1>3, <1>12 DEF StoreArray, Goto
  <2>2. /\ header.cap = l.cap /\ Whole(Cells(header), l.len, l.len)
        /\ header.len = l.len /\ l.len < l.cap
        /\ Whole(Cells(l), l.len, l.cap)
        /\ \A i \in 1..l.len : Cells(l)[i] = Cells(header)[i]
    BY <1>5, <2>1 DEF AtStage
  <2>3. header' = l
    <3>1. header' \in Headers /\ header'.array = l.array
          /\ header'.len = l.len /\ header'.cap = l.cap
      BY <1>1, <2>1, <2>2 DEF Headers
    <3> QED
      BY <1>1, <3>1, SameHeader
  <2>4. Cells(header)' = Cells(l)
    BY <2>1, <2>3 DEF Cells
  <2>5. Kept
    <3>1. DOMAIN Cells(header) = 1..l.len /\ DOMAIN Cells(l) = 1..l.cap
          /\ l.len \in Nat /\ l.cap \in Nat
      BY <1>1, <1>4, <2>2 DEF Whole, Headers
    <3> QED
      BY <2>2, <2>4, <3>1 DEF ToSet
  <2>6. Settled'
    BY <2>2, <2>3, <2>4 DEF Settled
  <2>7. AtStage(w)'
    BY <2>1, <2>2, <2>3, <2>6 DEF AtStage
  <2>8. ~wild' /\ Appending(w)' /\ ~StoreElement(w)
    BY <1>5, <2>1 DEF Appending, StoreElement, Goto
  <2> QED
    BY <1>6, <2>5, <2>7, <2>8
<1>13. CASE StoreLength(w)
  <2>1. /\ UNCHANGED <<arrays, wild, local>> /\ pc[w] = "length" /\ pc'[w] = "element"
        /\ header' = [header EXCEPT !.len = l.len + 1]
    BY <1>1, <1>3, <1>13 DEF StoreLength, Goto
  <2>2. Settled /\ l = header /\ l.len < l.cap
    BY <1>5, <2>1 DEF AtStage
  <2>3. header'.array = l.array /\ header'.len = l.len + 1 /\ header'.cap = l.cap
    BY <1>1, <2>1, <2>2 DEF Headers
  <2>4. Cells(header)' = Cells(header) /\ Kept /\ Cells(local[w])' = Cells(l)
    BY <2>1, <2>2, <2>3, <1>7 DEF Cells
  <2>5. AtStage(w)'
    BY <2>1, <2>2, <2>3, <2>4 DEF AtStage, Settled
  <2>6. ~wild' /\ Appending(w)' /\ ~StoreElement(w)
    BY <1>5, <2>1 DEF Appending, StoreElement, Goto
  <2> QED
    BY <1>6, <2>4, <2>5, <2>6
<1>14. CASE StoreElement(w)
  <2> DEFINE i == l.len + 1
             p == item[w].pid
  <2>1. /\ UNCHANGED header /\ pc[w] = "element" /\ pc'[w] = "receive"
    BY <1>1, <1>3, <1>14 DEF StoreElement, Goto
  <2>2. /\ header.array = l.array /\ header.cap = l.cap
        /\ header.len = i /\ l.len < l.cap
        /\ Whole(Cells(l), l.len, l.cap)
    BY <1>5, <2>1 DEF AtStage
  <2>3. /\ p \in Listed /\ p # Nil
    BY <2>1, Pids DEF Fit, Looked, InHand
  <2>4. l.len \in Nat /\ l.cap \in Nat /\ i \in 1..l.cap /\ l.cap = Len(Cells(l))
    BY <1>1, <2>2 DEF Whole, Headers
  <2>5. l.array # 0
    BY <2>4 DEF Cells
  <2>6. l.array \in 1..n /\ Cells(l) = arrays[l.array] /\ Cells(header) = Cells(l)
    BY <1>1, <2>2, <2>5 DEF Cells
  <2>7. DOMAIN Cells(l) = 1..l.cap
    BY <1>1, <1>4, <2>4
  <2>8. /\ wild' = wild /\ Len(arrays'[l.array]) = l.cap
        /\ DOMAIN arrays'[l.array] = 1..l.cap
        /\ \A k \in 1..l.cap : arrays'[l.array][k] = IF k = i THEN p ELSE Cells(l)[k]
    BY <1>1, <1>14, <2>3, <2>4, <2>6, <2>7, Stores
  <2>9. Cells(header)' = arrays'[l.array]
    BY <2>1, <2>2, <2>5 DEF Cells
  <2>10. /\ Cells(l)[i] = Nil
         /\ \A k \in 1..l.cap : k # i => (Cells(l)[k] = Nil <=> k > i)
    BY <2>2, <2>4 DEF Whole
  <2>11. Kept /\ p \in ToSet(Cells(header))'
    <3>1. \A k \in 1..l.cap : Cells(l)[k] # Nil =>
            k \in 1..l.cap /\ arrays'[l.array][k] = Cells(l)[k]
      BY <2>8, <2>10
    <3> QED
      BY <2>4, <2>6, <2>7, <2>8, <2>9, <3>1 DEF ToSet
  <2>12. Settled'
    <3>1. Whole(arrays'[l.array], i, l.cap)
      BY <2>3, <2>4, <2>8, <2>10 DEF Whole
    <3> QED
      BY <2>1, <2>2, <2>9, <3>1 DEF Settled
  <2>13. ~Appending(w)' /\ AtStage(w)'
    BY <2>1 DEF Appending, AtStage
  <2>14. InTurn'
    BY <1>3, <1>5, <2>8, <2>12, <2>13 DEF InTurn
  <2> QED
    BY <2>11, <2>14
<1> QED
  BY <1>8, <1>9, <1>10, <1>11, <1>12, <1>13, <1>14

(* What a worker finds in its hand is of the scope, in the queue, or listed. *)
LEMMA SolidStep ==
  ASSUME Typed, Fit, Distinct, Finished, InTurn, Complete, [Next]_vars, ~raced'
  PROVE  InTurn' /\ Complete'
<1> DEFINE Wanted == (InScope \ Blank) \ gone
<1>1. Wanted \subseteq Listed /\ Nil \notin Wanted
  BY Pids, ScanAssumption DEF Typed, Types, InScope
<1>2. ASSUME scope' = scope, gone \subseteq gone' PROVE Wanted' \subseteq Wanted
  BY <1>2 DEF InScope
<1>3. \A p \in Wanted : OnItsWay(p)
  BY DEF Complete
<1>4. ASSUME UNCHANGED <<unread, stats, pc, item, local, arrays, header, wild, scope>>,
             gone \subseteq gone'
      PROVE  InTurn' /\ Complete'
  <2>1. InTurn'
    BY <1>4, TurnKept DEF Appending
  <2>2. \A p \in Wanted : OnItsWay(p)'
    BY <1>3, <1>4 DEF OnItsWay, Cells, ToSet
  <2> QED
    BY <1>2, <1>4, <2>1, <2>2 DEF Complete
<1>5. CASE \/ \E p \in Listed : Vanish(p)
           \/ ReadDone \/ Return \/ UNCHANGED vars
  <2>1. UNCHANGED <<unread, stats, pc, item, local, arrays, header, wild, scope>>
        /\ gone \subseteq gone'
    BY <1>5 DEF Vanish, ReadDone, Return, vars, files, slice
  <2> QED
    BY <2>1, <1>4
<1>6. CASE Read
  <2> DEFINE x == Head(unread)
  <2>1. /\ unread # <<>> /\ unread' = Tail(unread)
        /\ UNCHANGED <<scope, gone, pc, item, local, arrays, header, wild>>
        /\ stats' = IF x \in gone THEN stats ELSE Append(stats, x)
    BY <1>6 DEF Read, slice
  <2>2. ToSet(unread') = ToSet(unread) \ {x} /\ x \in Listed
        /\ x \in ToSet(unread) /\ unread \in Seq(Listed) /\ stats \in Seq(Listed)
    BY <2>1, Taken DEF Distinct, Typed, Types
  <2>3. ToSet(stats') = IF x \in gone THEN ToSet(stats) ELSE ToSet(stats) \cup {x}
    <3>1. x \notin ToSet(stats) /\ IsInjective(stats)
      BY <2>2 DEF Distinct
    <3> HIDE DEF x
    <3>2. x \notin gone => ToSet(Append(stats, x)) = ToSet(stats) \cup {x}
      BY <2>2, <3>1, Queued
    <3> QED
      BY <2>1, <3>2
  <2>4. InTurn'
    BY <2>1, TurnKept DEF Appending
  <2> HIDE DEF x
  <2>5. \A p \in Wanted : p \in ToSet(unread) \cup ToSet(stats) =>
          p \in ToSet(unread') \cup ToSet(stats')
    BY <2>2, <2>3
  <2>6. \A p \in Wanted : OnItsWay(p)'
    BY <1>3, <2>1, <2>5 DEF OnItsWay, Cells
  <2> QED
    BY <1>2, <2>1, <2>4, <2>6 DEF Complete
<1>7. ASSUME NEW w \in Workers, Work(w) PROVE InTurn' /\ Complete'
  <2>1. /\ UNCHANGED <<scope, gone, unread>> /\ pc \in [Workers -> Stages]
        /\ \A v \in Workers \ {w} :
             pc'[v] = pc[v] /\ item'[v] = item[v] /\ local'[v] = local[v]
    BY <1>7, OneWorker
  <2>2. /\ item \in [Workers -> Items] /\ Looked(w)
    BY DEF Typed, Types, Fit, Items
  <2>3. ASSUME \A p \in Wanted : OnItsWay(p)' PROVE Complete'
    BY <1>2, <2>1, <2>3 DEF Complete
  <2>4. ASSUME UNCHANGED <<stats, arrays, header>>,
               \A p \in Wanted : item[w].pid = p => item'[w].pid = p
        PROVE  Complete'
    <3>1. \A p \in Wanted : OnItsWay(p)'
      BY <1>3, <2>1, <2>4 DEF OnItsWay, Cells
    <3> QED
      BY <2>3, <3>1
  <2>5. ASSUME UNCHANGED slice, ~Appending(w), ~Appending(w)' PROVE InTurn'
    BY <2>1, <2>5, TurnKept DEF slice, Appending
  <2>6. CASE Receive(w)
    <3> DEFINE x == Head(stats)
    <3>1. /\ stats # <<>> /\ stats' = Tail(stats) /\ UNCHANGED slice
          /\ ~Appending(w) /\ ~Appending(w)' /\ item[w] = NoProc
          /\ x \notin Blank => item'[w].pid = x
      BY <2>1, <2>2, <2>6 DEF Receive, Goto, Parses, Appending, Looked, InHand
    <3>2. ToSet(stats') = ToSet(stats) \ {x}
      BY <3>1, Taken DEF Distinct, Typed, Types
    <3> HIDE DEF x
    <3>3. item[w].pid = Nil
      BY <3>1 DEF NoProc
    <3>4. ASSUME NEW p \in Wanted PROVE OnItsWay(p)'
      <4>1. p # Nil /\ p \notin Blank /\ OnItsWay(p)
        BY <1>1, <1>3
      <4>2. p = x => item'[w].pid = p
        BY <3>1, <4>1
      <4>3. \A v \in Workers : item[v].pid = p => item'[v].pid = p
        BY <2>1, <3>3, <4>1
      <4>4. ToSet(Cells(header))' = ToSet(Cells(header))
        BY <3>1 DEF slice, Cells, ToSet
      <4>5. p \in ToSet(stats) => p \in ToSet(stats') \/ p = x
        BY <3>2
      <4> QED
        BY <2>1, <4>1, <4>2, <4>3, <4>4, <4>5 DEF OnItsWay
    <3> QED
      BY <2>3, <2>5, <3>1, <3>4
  <2>7. CASE SetUser(w) \/ SetCgroup(w)
    <3>1. /\ UNCHANGED stats /\ UNCHANGED slice /\ item'[w].pid = item[w].pid
          /\ ~Appending(w) /\ ~Appending(w)'
      BY <2>1, <2>2, <2>7 DEF SetUser, SetCgroup, Goto, Appending, files, Items
    <3> QED
      BY <2>4, <2>5, <3>1 DEF slice
  <2>8. CASE Select(w)
    <3>1. UNCHANGED stats /\ UNCHANGED slice /\ pc[w] = "filter"
      BY <2>8 DEF Select, files, Goto
    <3>2. CASE Filter(item[w])
      <4>1. pc'[w] = "load" /\ item'[w] = item[w]
        BY <2>1, <2>2, <2>8, <3>2 DEF Select, Goto
      <4>2. \A v \in Workers \ {w} : ~Appending(v)
        BY <2>8, <3>2 DEF Select
      <4>3. Settled
        BY <3>1, <4>2 DEF InTurn, Appending
      <4>4. Settled' /\ ~wild'
        BY <3>1, <4>3 DEF Settled, Cells, Whole, slice, InTurn
      <4>5. \A v \in Workers \ {w} : ~Appending(v)' /\ AtStage(v)'
        BY <2>1, <4>2 DEF Appending, AtStage
      <4>6. Appending(w)' /\ AtStage(w)'
        BY <4>1, <4>4 DEF Appending, AtStage
      <4>7. InTurn'
        BY <4>4, <4>5, <4>6 DEF InTurn
      <4> QED
        BY <2>4, <3>1, <4>1, <4>7 DEF slice
    <3>3. CASE ~Filter(item[w])
      <4>1. pc'[w] = "receive"
        BY <2>1, <2>8, <3>3 DEF Select, Goto
      <4>2. item[w].pid \notin Wanted
        BY <2>2, <3>1, <3>3, Filtered
      <4> QED
        BY <2>4, <2>5, <3>1, <4>1, <4>2 DEF slice, Appending
    <3> QED
      BY <3>2, <3>3
  <2>9. CASE Leave(w)
    <3>1. /\ UNCHANGED stats /\ UNCHANGED slice /\ UNCHANGED item
          /\ ~Appending(w) /\ ~Appending(w)'
      BY <2>1, <2>9 DEF Leave, Goto, Appending, files
    <3> QED
      BY <2>4, <2>5, <3>1 DEF slice
  <2>10. CASE \/ LoadArray(w) \/ LoadSize(w) \/ Grow(w) \/ StoreCapacity(w)
              \/ StoreArray(w) \/ StoreLength(w) \/ StoreElement(w)
    <3>1. /\ InTurn'
          /\ ToSet(Cells(header)) \ {Nil} \subseteq ToSet(Cells(header))'
          /\ StoreElement(w) => item[w].pid \in ToSet(Cells(header))'
      BY <2>10, AppendStep
    <3>2. UNCHANGED stats /\ (StoreElement(w) \/ UNCHANGED item)
      BY <2>10 DEF LoadArray, LoadSize, Grow, StoreCapacity, StoreArray, StoreLength,
         StoreElement, files
    <3>3. ASSUME NEW p \in Wanted PROVE OnItsWay(p)'
      <4>1. p # Nil /\ OnItsWay(p)
        BY <1>1, <1>3
      <4>2. \A v \in Workers : item[v].pid = p =>
              item'[v].pid = p \/ p \in ToSet(Cells(header))'
        BY <2>1, <3>1, <3>2
      <4>3. p \in ToSet(Cells(header)) => p \in ToSet(Cells(header))'
        BY <3>1, <4>1
      <4> QED
        BY <2>1, <3>2, <4>1, <4>2, <4>3 DEF OnItsWay
    <3> QED
      BY <2>3, <3>1, <3>3
  <2> QED
    BY <1>7, <2>6, <2>7, <2>8, <2>9, <2>10 DEF Work
<1> QED
  BY <1>5, <1>6, <1>7 DEF Next

-----------------------------------------------------------------------------
(* The invariant, and what Return makes of it.                               *)
LEMMA InvInit == Init => Inv
BY TypedInit, FitInit, DistinctInit, FinishedInit, InTurnInit DEF Inv

LEMMA InvStep == Inv /\ [Next]_vars => Inv'
<1> SUFFICES ASSUME Inv, [Next]_vars PROVE Inv'
  OBVIOUS
<1>1. Typed' /\ Fit' /\ Distinct' /\ Finished'
  BY TypedStep, FitStep, DistinctStep, FinishedStep DEF Inv
<1>2. raced => raced'
  <2>1. CASE \/ \E p \in Listed : Vanish(p)
             \/ Read \/ ReadDone \/ Return \/ UNCHANGED vars
    BY <2>1 DEF Vanish, Read, ReadDone, Return, vars
  <2>2. ASSUME NEW w \in Workers, Work(w) PROVE raced => raced'
    BY <2>2 DEF Work, Receive, SetUser, SetCgroup, Select, Leave, LoadArray, LoadSize,
       Grow, StoreCapacity, StoreArray, StoreLength, StoreElement
  <2> QED
    BY <2>1, <2>2 DEF Next
<1>3. ~raced' => InTurn' /\ Complete'
  BY <1>2, SolidStep DEF Inv
<1> QED
  BY <1>1, <1>3 DEF Inv

(* The invariant holds of every scan: with what follows it gives the rest.   *)
THEOREM Invariance == Spec => []Inv
<1> QED
  BY InvInit, InvStep, PTL DEF Spec

(* Every step but Return leaves the result alone, and after it nothing moves.*)
LEMMA ResultKept ==
  ASSUME Inv, [Next]_vars, ~Return
  PROVE  /\ UNCHANGED <<scope, result>>
         /\ result # {} => gone' = gone /\ UNCHANGED raced
<1>1. CASE \/ \E p \in Listed : Vanish(p)
           \/ Read \/ ReadDone \/ UNCHANGED vars
  BY <1>1 DEF Vanish, Read, ReadDone, vars, Inv, Finished
<1>2. ASSUME NEW w \in Workers, Work(w)
      PROVE  UNCHANGED <<scope, result>> /\ result = {}
  <2>1. UNCHANGED <<scope, result>>
    BY <1>2, OneWorker DEF Inv
  <2>2. pc[w] # "done"
    BY <1>2 DEF Work, Receive, SetUser, SetCgroup, Select, Leave, LoadArray, LoadSize,
       Grow, StoreCapacity, StoreArray, StoreLength, StoreElement, Goto
  <2> QED
    BY <2>1, <2>2 DEF Inv, Finished
<1> QED
  BY <1>1, <1>2 DEF Next

(* A sound slice is sorted strictly, for no process is in it twice.          *)
LEMMA Returned ==
  ASSUME Inv, Return, Sound
  PROVE  \E r : /\ result' = {r} /\ Increasing(r)
                /\ ToSet(r) = {Cells(header)[i] : i \in 1..header.len}
                /\ ToSet(r) \subseteq Allowed
<1> DEFINE c == Cells(header)
           n == header.len
           s == SubSeq(c, 1, n)
           r == ByPid(s)
<1>1. /\ header \in Headers /\ header.array \in 0..Len(arrays) /\ n \in Nat
      /\ DOMAIN arrays = 1..Len(arrays)
  BY LenProperties DEF Inv, Typed, Types, Headers
<1>2. c \in Slices /\ Len(c) \in Nat /\ DOMAIN c = 1..Len(c)
  BY <1>1, CellsType, LenProperties DEF Inv, Slices
<1>3. n <= Len(c) /\ \A i \in 1..n : i \in DOMAIN c /\ c[i] # Nil
  BY <1>1, <1>2 DEF Sound
<1>4. \A i \in 1..n : /\ header.array \in DOMAIN arrays /\ c = arrays[header.array]
                      /\ c[i] \in Allowed
  <2> SUFFICES ASSUME NEW i \in 1..n
               PROVE  /\ header.array \in DOMAIN arrays /\ c = arrays[header.array]
                      /\ c[i] \in Allowed
    OBVIOUS
  <2>1. i \in DOMAIN c /\ c[i] # Nil
    BY <1>3
  <2>2. header.array # 0
    BY <2>1 DEF Cells
  <2>3. header.array \in DOMAIN arrays /\ c = arrays[header.array]
    BY <1>1, <2>2 DEF Cells
  <2> QED
    BY <2>1, <2>3 DEF Inv, Fit
<1>5. \A i, k \in 1..n : c[i] = c[k] => i = k
  BY <1>3, <1>4 DEF Inv, Distinct, InItsCell
<1>6. /\ Len(s) = n /\ \A i \in 1..n : s[i] = c[i]
  BY <1>1, <1>2, <1>3, SubSeqProperties DEF Slices
<1>7. \A i \in 1..n : c[i] \in Nat
  BY <1>4, Pids, ScanAssumption DEF Allowed, InScope, Inv, Typed, Types
<1> HIDE DEF c, n
<1>8. DOMAIN s = 1..n /\ s \in Seq(Listed \cup {Nil})
  <2>1. s \in Seq(Listed \cup {Nil})
    BY <1>1, <1>2, <1>3, SubSeqProperties DEF Slices
  <2> QED
    BY <2>1, <1>6, LenProperties
<1> HIDE DEF s
<1>9. s \in Seq(Nat) /\ DOMAIN s = 1..n
  <2>1. Listed \cup {Nil} \subseteq Nat
    BY Pids DEF Nil
  <2> QED
    BY <1>8, <2>1, SeqMonotonic
<1>10. IsInjective(s)
  BY <1>5, <1>6, <1>9 DEF IsInjective
<1>11. Increasing(r) /\ ToSet(r) = ToSet(s)
  BY <1>9, <1>10, Sorted
<1>12. ToSet(s) = {c[i] : i \in 1..n}
  BY <1>6, <1>9 DEF ToSet
<1>13. result' = {r}
  BY DEF Return, s, c, n
<1> QED
  BY <1>4, <1>11, <1>12, <1>13 DEF c, n

(* ------------------------------- theorems ------------------------------ *)
(* Whatever is listed and however the appends overlap, the variables of the  *)
(* scan keep their types: result is set once.                                *)
THEOREM TypeCorrect == Spec => []TypeOK
<1>1. Inv => TypeOK
  BY Pids DEF Inv, Typed, TypeOK, Fit, Looked, InHand, NoProc
<1> QED
  BY <1>1, Invariance, PTL

(* With any number of goroutines in any schedule, however their appends      *)
(* overlap: a slice that FilteredProcs returns is sorted, names no process   *)
(* twice and none but those it is asked for, or that ended on the way.       *)
THEOREM NeverForeign == Spec => []NothingForeign
<1>1. Init => NothingForeign
  BY DEF Init, NothingForeign
<1>2. ASSUME Inv, NothingForeign, [Next]_vars PROVE NothingForeign'
  <2>1. CASE Return
    <3>1. UNCHANGED <<scope, gone>>
      BY <2>1 DEF Return
    <3>2. CASE Sound
      BY <1>2, <2>1, <3>1, <3>2, Returned DEF NothingForeign, Allowed, InScope
    <3>3. CASE ~Sound
      BY <2>1, <3>3 DEF Return, NothingForeign
    <3> QED
      BY <3>2, <3>3
  <2>2. CASE ~Return
    <3>1. /\ UNCHANGED <<scope, result>>
          /\ result # {} => gone' = gone
      BY <1>2, <2>2, ResultKept
    <3> QED
      BY <1>2, <3>1 DEF NothingForeign, InScope
  <2> QED
    BY <2>1, <2>2
<1> QED
  BY <1>1, <1>2, Invariance, PTL DEF Spec

(* As long as no two appends overlap, what FilteredProcs returns is sorted   *)
(* and complete, and it does return: whichever processes end on the way.     *)
THEOREM ExactUnlessRaced == Spec => []FilteredUnlessRaced
<1>1. Init => FilteredUnlessRaced
  BY DEF Init, FilteredUnlessRaced, ReturnsFiltered
<1>2. ASSUME Inv, FilteredUnlessRaced, [Next]_vars PROVE FilteredUnlessRaced'
  <2>1. CASE Return
    <3> SUFFICES ASSUME ~raced PROVE ReturnsFiltered'
      BY <2>1 DEF Return, FilteredUnlessRaced
    <3>1. InTurn /\ Complete /\ UNCHANGED <<scope, gone>>
      BY <1>2, <2>1 DEF Return, Inv
    <3>2. /\ \A w \in Workers : pc[w] = "done" /\ ~Appending(w) /\ item[w] = NoProc
          /\ unread = <<>>
      BY <1>2, <2>1 DEF Return, Appending, Inv, Finished, Fit, Looked, InHand
    <3>3. stats = <<>>
      BY <1>2, <3>2, ScanAssumption DEF Inv, Finished
    <3>4. Settled /\ ~wild
      BY <3>1, <3>2 DEF InTurn
    <3>5. /\ header \in Headers /\ header.len \in Nat /\ header.cap \in Nat
          /\ Cells(header) \in Slices
          /\ DOMAIN Cells(header) = 1..Len(Cells(header))
      BY <1>2, CellsType, LenProperties DEF Inv, Typed, Types, Headers, Slices
    <3>6. /\ header.cap = Len(Cells(header)) /\ header.len <= header.cap
          /\ \A i \in 1..header.cap : Cells(header)[i] = Nil <=> i > header.len
      BY <3>4, <3>5 DEF Settled, Whole
    <3>7. Sound
      BY <3>4, <3>5, <3>6 DEF Sound
    <3>8. PICK r : /\ result' = {r} /\ Increasing(r)
                   /\ ToSet(r) = {Cells(header)[i] : i \in 1..header.len}
                   /\ ToSet(r) \subseteq Allowed
      BY <1>2, <2>1, <3>7, Returned
    <3>9. ASSUME NEW p \in (InScope \ Blank) \ gone PROVE p \in ToSet(r)
      <4>1. p # Nil
        BY <1>2, Pids, ScanAssumption DEF InScope, Inv, Typed, Types
      <4>2. p \in ToSet(Cells(header))
        <5>1. \A w \in Workers : item[w].pid # p
          BY <3>2, <4>1 DEF NoProc
        <5>2. p \notin ToSet(unread) \cup ToSet(stats)
          BY <3>2, <3>3 DEF ToSet
        <5> QED
          BY <3>1, <3>9, <5>1, <5>2 DEF Complete, OnItsWay
      <4>3. PICK i \in 1..header.cap : Cells(header)[i] = p
        BY <3>5, <3>6, <4>2 DEF ToSet
      <4>4. i \in 1..header.len
        BY <3>5, <3>6, <4>1, <4>3
      <4> QED
        BY <3>8, <4>3, <4>4
    <3>10. r # Crash
      <4>1. Nil \notin Allowed
        BY <1>2, Pids, ScanAssumption DEF Allowed, InScope, Inv, Typed, Types
      <4>2. Nil \in ToSet(Crash)
        BY DEF Crash, ToSet
      <4> QED
        BY <3>8, <4>1, <4>2
    <3> QED
      BY <3>1, <3>8, <3>9, <3>10 DEF ReturnsFiltered, InScope
  <2>2. CASE ~Return
    <3>1. /\ UNCHANGED <<scope, result>>
          /\ result # {} => gone' = gone /\ UNCHANGED raced
      BY <1>2, <2>2, ResultKept
    <3>2. CASE result = {}
      BY <3>1, <3>2 DEF FilteredUnlessRaced, ReturnsFiltered
    <3>3. CASE result # {}
      BY <1>2, <3>1, <3>3 DEF FilteredUnlessRaced, ReturnsFiltered, InScope
    <3> QED
      BY <3>2, <3>3
  <2> QED
    BY <2>1, <2>2
<1> QED
  BY <1>1, <1>2, Invariance, PTL DEF Spec

(* Where one goroutine parses (GOMAXPROCS 1), FilteredProcs keeps the promise*)
(* of its comment (proc.go:535) without a condition.                         *)
THEOREM ExactAlone ==
  ASSUME \A v, w \in Workers : v = w
  PROVE  Spec => []ReturnsFiltered
<1>1. Init => ~raced
  BY DEF Init
<1>2. ASSUME ~raced, [Next]_vars PROVE ~raced'
  <2>1. CASE \/ \E p \in Listed : Vanish(p)
             \/ Read \/ ReadDone \/ Return \/ UNCHANGED vars
    BY <1>2, <2>1 DEF Vanish, Read, ReadDone, Return, vars
  <2>2. ASSUME NEW w \in Workers, Work(w) PROVE ~raced'
    BY <1>2, <2>2 DEF Work, Receive, SetUser, SetCgroup, Select, Leave, LoadArray,
       LoadSize, Grow, StoreCapacity, StoreArray, StoreLength, StoreElement
  <2> QED
    BY <1>2, <2>1, <2>2 DEF Next
<1>3. Spec => []~raced
  BY <1>1, <1>2, PTL DEF Spec
<1>4. FilteredUnlessRaced /\ ~raced => ReturnsFiltered
  BY DEF FilteredUnlessRaced
<1> QED
  BY <1>3, <1>4, ExactUnlessRaced, PTL
=============================================================================

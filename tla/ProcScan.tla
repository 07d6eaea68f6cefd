------------------------------ MODULE ProcScan ------------------------------
(* FilteredProcs: one goroutine reads the stat files of /proc that Glob      *)
(* listed, GOMAXPROCS others parse them, look up the owner and the cgroup of *)
(* each process, filter by scope and append what is kept to one shared       *)
(* slice, without a lock.  A process may end between any two of these steps. *)
(*                                                                           *)
(* A slice is a header (array, length, capacity) and an array.  The compiled *)
(* append loads the header, allocates a larger array when it is full and     *)
(* stores capacity and array, then stores the length, then the element.  The *)
(* goroutines may interleave between any two of these.                       *)
EXTENDS Integers, Sequences, FiniteSets, SequencesExt

CONSTANTS
  Files,      \* the pids of the files Glob returns, in the order of their names
  Mine,       \* those of the calling user
  UserSlice,  \* those in user.slice
  Blank,      \* those with a blank in the name of their command
  Scopes,     \* the scopes a scan may be asked for
  Workers     \* GOMAXPROCS goroutines

Listed == ToSet(Files)

ASSUME ScanAssumption ==
  /\ Files \in Seq(Nat \ {0}) /\ IsInjective(Files)
  /\ Mine \subseteq Listed /\ UserSlice \subseteq Listed
  /\ Blank \subseteq Listed
  /\ Scopes \subseteq {"user", "global", "system", "all"}
  /\ IsFiniteSet(Workers) /\ Workers # {}

VARIABLES
  scope,      \* what the filter asks for
  gone,       \* the processes that have ended
  unread,     \* files left to read
  stats,      \* the channel, as large as the list: sending never blocks
  reader,     \* "read" or "done"
  pc,         \* where each worker is
  item,       \* what it knows of the process in hand
  local,      \* the header its append works on
  arrays,     \* the arrays allocated so far; a cell never written holds 0
  header,     \* the shared variable result
  wild,       \* memory outside an array was read or written
  raced,      \* two appends overlapped (history)
  result      \* what FilteredProcs returns, {} until it does

files == <<unread, stats, reader>>
slice == <<local, arrays, header, wild>>
vars == <<scope, gone, files, pc, item, slice, raced, result>>

Nil == 0
Crash == <<Nil>>
NoHeader == [array |-> 0, len |-> 0, cap |-> 0]
NoProc == [pid |-> Nil, mine |-> FALSE, user |-> FALSE]

Init ==
  /\ scope \in Scopes /\ gone = {}
  /\ unread = Files
  /\ stats = <<>> /\ reader = "read"
  /\ pc = [w \in Workers |-> "receive"]
  /\ item = [w \in Workers |-> NoProc]
  /\ local = [w \in Workers |-> NoHeader]
  /\ arrays = <<>>
  /\ header = NoHeader /\ wild = FALSE /\ raced = FALSE
  /\ result = {}

Vanish(p) ==
  /\ result = {} /\ p \notin gone
  /\ gone' = gone \cup {p}
  /\ UNCHANGED <<scope, files, pc, item, slice, raced, result>>

(* A process may be gone by the time its file is read.                       *)
Read ==
  /\ reader = "read" /\ unread # <<>>
  /\ unread' = Tail(unread)
  /\ IF Head(unread) \in gone
       THEN UNCHANGED stats
       ELSE stats' = Append(stats, Head(unread))
  /\ UNCHANGED <<scope, gone, reader, pc, item, slice, raced, result>>

(* Slip: the channel is never closed.                                        *)
ReadDoneOpen ==
  /\ reader = "read" /\ unread = <<>>
  /\ UNCHANGED vars

ReadDone ==
  /\ reader = "read" /\ unread = <<>>
  /\ reader' = "done"
  /\ UNCHANGED <<scope, gone, unread, stats, pc, item, slice, raced,
                 result>>

Goto(w, from, to) == pc[w] = from /\ pc' = [pc EXCEPT ![w] = to]

Appending(w) ==
  pc[w] \in {"load", "size", "grow", "capacity", "array", "length", "element"}

(* The fields of a stat are split at blanks: with one in the command's name  *)
(* a letter stands where a number should, and UnmarshalText gives an error,  *)
(* which no filter passes.                                                   *)
Parses(p) == p \notin Blank

(* Slip: no filter looks at the error.                                       *)
ReceiveUnparsed(w) ==
  /\ stats # <<>>
  /\ Goto(w, "receive", "user")
  /\ stats' = Tail(stats)
  /\ item' = [item EXCEPT ![w].pid =
                IF Parses(Head(stats)) THEN Head(stats) ELSE Nil]
  /\ UNCHANGED <<scope, gone, unread, reader, slice, raced, result>>

Receive(w) ==
  /\ stats # <<>>
  /\ Goto(w, "receive", IF Parses(Head(stats)) THEN "user" ELSE "receive")
  /\ stats' = Tail(stats)
  /\ item' = [item EXCEPT ![w].pid =
                IF Parses(Head(stats)) THEN Head(stats) ELSE Nil]
  /\ UNCHANGED <<scope, gone, unread, reader, slice, raced, result>>

(* The errors of the setters stay inside them: an ended process has uid -1   *)
(* and an empty slice.                                                       *)
SetUser(w) ==
  /\ Goto(w, "user", "cgroup")
  /\ item' = [item EXCEPT ![w].mine = item[w].pid \in Mine \ gone]
  /\ UNCHANGED <<scope, gone, files, slice, raced, result>>

SetCgroup(w) ==
  /\ Goto(w, "cgroup", "filter")
  /\ item' = [item EXCEPT ![w].user = item[w].pid \in UserSlice \ gone]
  /\ UNCHANGED <<scope, gone, files, slice, raced, result>>

(* Slip: the owner is not asked for.                                         *)
FilterAnyone(p) ==
  CASE scope \in {"user", "global"} -> p.user
    [] scope = "system" -> ~p.user
    [] scope = "all"    -> TRUE

(* NewProcScopeFilter.  InSystemSlice is the negation of InUserSlice.        *)
Filter(p) ==
  CASE scope = "user"   -> p.mine /\ p.user
    [] scope = "global" -> p.user
    [] scope = "system" -> ~p.user
    [] scope = "all"    -> TRUE

Select(w) ==
  /\ Goto(w, "filter", IF Filter(item[w]) THEN "load" ELSE "receive")
  /\ raced' = (raced \/ /\ Filter(item[w])
                        /\ \E v \in Workers \ {w} : Appending(v))
  /\ item' = [item EXCEPT ![w] = IF Filter(@) THEN @ ELSE NoProc]
  /\ UNCHANGED <<scope, gone, files, slice, result>>

Leave(w) ==
  /\ stats = <<>> /\ reader = "done"
  /\ Goto(w, "receive", "done")
  /\ UNCHANGED <<scope, gone, files, item, slice, raced, result>>

(* append(result, p).  The words of a header are loaded one after the other, *)
(* and another goroutine may have stored some of them in between.            *)
Cells(h) == IF h.array = 0 THEN <<>> ELSE arrays[h.array]

LoadArray(w) ==
  /\ Goto(w, "load", "size")
  /\ local' = [local EXCEPT ![w] = [header EXCEPT !.len = 0, !.cap = 0]]
  /\ UNCHANGED <<scope, gone, files, item, arrays, header, wild, raced, result>>

LoadSize(w) ==
  /\ Goto(w, "size", IF header.len < header.cap THEN "length" ELSE "grow")
  /\ local' = [local EXCEPT ![w] = [header EXCEPT !.array = local[w].array]]
  /\ UNCHANGED <<scope, gone, files, item, arrays, header, wild, raced, result>>

(* growslice: twice the capacity, and a copy of the cells in use.            *)
Larger(h) == IF h.cap = 0 THEN 1 ELSE 2 * h.cap

Copied(h) ==
  [i \in 1..Larger(h) |->
     IF i <= h.len /\ i <= Len(Cells(h)) THEN Cells(h)[i] ELSE Nil]

Grow(w) ==
  /\ Goto(w, "grow", "capacity")
  /\ arrays' = Append(arrays, Copied(local[w]))
  /\ wild' = (wild \/ local[w].len > Len(Cells(local[w])))
  /\ local' = [local EXCEPT ![w].array = Len(arrays) + 1,
                            ![w].cap = Larger(local[w])]
  /\ UNCHANGED <<scope, gone, files, item, header, raced, result>>

StoreCapacity(w) ==
  /\ Goto(w, "capacity", "array")
  /\ header' = [header EXCEPT !.cap = local[w].cap]
  /\ UNCHANGED <<scope, gone, files, item, local, arrays, wild, raced, result>>

StoreArray(w) ==
  /\ Goto(w, "array", "length")
  /\ header' = [header EXCEPT !.array = local[w].array]
  /\ UNCHANGED <<scope, gone, files, item, local, arrays, wild, raced, result>>

StoreLength(w) ==
  /\ Goto(w, "length", "element")
  /\ header' = [header EXCEPT !.len = local[w].len + 1]
  /\ UNCHANGED <<scope, gone, files, item, local, arrays, wild, raced, result>>

StoreElement(w) ==
  /\ Goto(w, "element", "receive")
  /\ LET i == local[w].len + 1
     IN  IF i <= Len(Cells(local[w]))
           THEN arrays' = [arrays EXCEPT ![local[w].array][i] = item[w].pid]
                /\ UNCHANGED wild
           ELSE wild' = TRUE /\ UNCHANGED arrays
  /\ local' = [local EXCEPT ![w] = NoHeader]
  /\ item' = [item EXCEPT ![w] = NoProc]
  /\ UNCHANGED <<scope, gone, files, header, raced, result>>

(* sort.Sort of a ProcByPid: a rearrangement without inversions.             *)
ByPid(s) ==
  LET orders == {[i \in DOMAIN s |-> s[f[i]]] :
                   f \in Bijection(DOMAIN s, DOMAIN s)}
  IN  CHOOSE r \in orders : \A i, k \in DOMAIN r : i < k => r[i] <= r[k]

(* wg.Wait, then the sort, which dereferences every element: a nil one, or a *)
(* length beyond the array, ends the program.                                *)
Sound ==
  ~wild /\ header.len <= Len(Cells(header))
    /\ \A i \in 1..header.len : Cells(header)[i] # Nil

(* Slip: only the reader is counted in the WaitGroup.                        *)
ReturnEarly ==
  /\ reader = "done" /\ result = {}
  /\ result' = IF Sound
                 THEN {ByPid(SubSeq(Cells(header), 1, header.len))}
                 ELSE {Crash}
  /\ UNCHANGED <<scope, gone, files, pc, item, local, arrays, header,
                 wild, raced>>

Return ==
  /\ reader = "done" /\ \A w \in Workers : pc[w] = "done"
  /\ result = {}
  /\ result' = IF Sound
                 THEN {ByPid(SubSeq(Cells(header), 1, header.len))}
                 ELSE {Crash}
  /\ UNCHANGED <<scope, gone, files, pc, item, local, arrays, header,
                 wild, raced>>

Work(w) ==
  \/ Receive(w) \/ SetUser(w) \/ SetCgroup(w) \/ Select(w) \/ Leave(w)
  \/ LoadArray(w) \/ LoadSize(w) \/ Grow(w) \/ StoreCapacity(w)
  \/ StoreArray(w) \/ StoreLength(w) \/ StoreElement(w)

Next ==
  \/ Read \/ ReadDone \/ Return \/ \E w \in Workers : Work(w)
  \/ \E p \in Listed : Vanish(p)
  \/ result # {} /\ UNCHANGED vars

Spec ==
  /\ Init /\ [][Next]_vars
  /\ WF_vars(Read \/ ReadDone) /\ WF_vars(Return)
  /\ \A w \in Workers : WF_vars(Work(w))

-----------------------------------------------------------------------------
Types ==
  /\ scope \in Scopes /\ gone \subseteq Listed
  /\ unread \in Seq(Listed) /\ stats \in Seq(Listed)
  /\ reader \in {"read", "done"}
  /\ pc \in [Workers -> {"receive", "user", "cgroup", "filter", "load", "size",
                         "grow", "capacity", "array", "length", "element",
                         "done"}]
  /\ item \in [Workers -> [pid : Listed \cup {Nil}, mine : BOOLEAN,
                           user : BOOLEAN]]
  /\ local \in [Workers -> [array : Nat, len : Nat, cap : Nat]]
  /\ \A k \in DOMAIN arrays : arrays[k] \in Seq(Listed \cup {Nil})
  /\ header \in [array : Nat, len : Nat, cap : Nat]
  /\ wild \in BOOLEAN /\ raced \in BOOLEAN /\ Cardinality(result) <= 1

(* The types; a worker holds a process from a stat that parsed to the filter *)
(* that refuses it or to its cell of the slice, and none otherwise.          *)
TypeOK ==
  /\ Types
  /\ \A w \in Workers :
       item[w].pid # Nil <=> pc[w] \notin {"receive", "done"}

(* The processes of a scope, as long as they live.                           *)
InScope ==
  CASE scope = "user"   -> Mine \cap UserSlice
    [] scope = "global" -> UserSlice
    [] scope = "system" -> Listed \ UserSlice
    [] scope = "all"    -> Listed

Increasing(s) == \A i, k \in DOMAIN s : i < k => s[i] < s[k]

(* "FilteredProcs returns a slice of Proc for filtered processes." (proc.go: *)
(* 535): sorted by pid, with every process of the scope that is there from   *)
(* the first step of the scan to the last, unless it has a blank in its name.*)
ReturnsFiltered ==
  \A r \in result : /\ r # Crash /\ Increasing(r)
                     /\ (InScope \ Blank) \ gone \subseteq ToSet(r)

(* The overlap of two appends is the only way to anything else: with one     *)
(* worker, or while appends happen to take turns, the slice grows right,     *)
(* whichever processes vanish before they are read or half-way.              *)
FilteredUnlessRaced == ~raced => ReturnsFiltered

(* Whatever the workers do to the slice and wherever processes vanish, those *)
(* it names were read whole and are of the scope - or have ended, when the   *)
(* scope is "system": an ended process is in no slice, thus not in user's.   *)
(* And none is named twice.  The race loses processes or ends the program,   *)
(* but invents nothing.                                                      *)
NothingForeign ==
  \A r \in result \ {Crash} :
    /\ Increasing(r)
    /\ ToSet(r) \subseteq
         (InScope \cup IF scope = "system" THEN gone ELSE {}) \ Blank

(* The scan ends: the reader never blocks, and the workers leave once it has *)
(* closed the channel.                                                       *)
Ends == <>(result # {})
=============================================================================

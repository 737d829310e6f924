----------------------------- MODULE LinearMap -----------------------------
(***************************************************************************)
(* HeaplessLinearMap (core_lib/src/heapless_linear_map.rs): the fixed      *)
(* array of slots, some of them uninitialized, that holds a sorted map     *)
(* against its right end.  A map is [base, cells]; the live entries are at *)
(* base .. Window - 1, best (smallest) first.  ptr::copy moves ownership:  *)
(* what it leaves behind is Vacant, and reading a Vacant cell would be a   *)
(* read of memory that is not initialized.                                 *)
(*                                                                         *)
(* The first part is the map's functions; the second drives one map with   *)
(* them, the two batch operations step by step as their iterators are, so  *)
(* that they can be dropped, leaked or cut short by a panic in between.    *)
(***************************************************************************)
EXTENDS Integers, FiniteSets, Sequences

CONSTANTS Window,   \* N
          Keys,     \* bound: the keys that are tried
          Values

ASSUME WindowAssumption == Window \in Nat \ {0}
ASSUME KeysAssumption == Keys \subseteq Int /\ IsFiniteSet(Keys) /\ IsFiniteSet(Values)

Cells == 0 .. Window - 1
Vacant == [vacant |-> TRUE]
Entry(k, v) == [key |-> k, val |-> v]

Empty == [base |-> Window, cells |-> [i \in Cells |-> Vacant]]
Size(m) == Window - m.base
IsFull(m) == m.base = 0
At(m, pos) == m.cells[m.base + pos]
Live(m) == {At(m, pos) : pos \in 0 .. Size(m) - 1}
InOrder(m) == [i \in 1 .. Size(m) |-> At(m, i - 1)]
Worst(m) == m.cells[Window - 1]

Least(S) == CHOOSE x \in S : \A y \in S : x <= y

Copy(cells, from, to, n) ==
  [i \in Cells |-> IF i \in to .. to + n - 1 THEN cells[i - to + from]
                   ELSE IF i \in from .. from + n - 1 THEN Vacant ELSE cells[i]]

(* A forward scan: the first key that is not smaller stops it.             *)
Locate(m, k) == Least({Size(m)} \cup {pos \in 0 .. Size(m) - 1 : At(m, pos).key >= k})
Occupied(m, k) == Locate(m, k) < Size(m) /\ At(m, Locate(m, k)).key = k

Overwrite(m, pos, v) == [m EXCEPT !.cells[m.base + pos].val = v]

(* Slip: the entries that stay are the better ones, not the worse ones.    *)
InsertAtShiftingWorse(m, pos, e) ==
  [base |-> m.base - 1,
   cells |-> [Copy(m.cells, m.base + pos, m.base - 1 + pos, Size(m) - pos)
                EXCEPT ![m.base - 1 + pos] = e]]

InsertAt(m, pos, e) ==
  [base |-> m.base - 1,
   cells |-> [Copy(m.cells, m.base, m.base - 1, pos) EXCEPT ![m.base - 1 + pos] = e]]

RemoveAt(m, pos) ==
  [base |-> m.base + 1,
   cells |-> Copy([m.cells EXCEPT ![m.base + pos] = Vacant], m.base, m.base + 1, pos)]

EvictLast(m) == RemoveAt(m, Size(m) - 1)
InsertLast(m, e) == InsertAt(m, Size(m), e)

(* insert: the entry is refused when the map is full of better ones, and   *)
(* evicts the worst when it is better itself.                              *)
Insert(m, e) ==
  LET pos == Locate(m, e.key)
      done(map, out) == [map |-> map, ok |-> TRUE, pos |-> pos, out |-> out]
  IN  CASE Occupied(m, e.key) -> done(Overwrite(m, pos, e.val), Vacant)
        [] ~Occupied(m, e.key) /\ ~IsFull(m) -> done(InsertAt(m, pos, e), Vacant)
        [] ~Occupied(m, e.key) /\ IsFull(m) /\ pos = Size(m) ->
             [map |-> m, ok |-> FALSE, pos |-> pos, out |-> e]
        [] OTHER -> done(InsertAt(EvictLast(m), pos, e), Worst(m))

Remove(m, k) == IF Occupied(m, k) THEN RemoveAt(m, Locate(m, k)) ELSE m

(* clone_from: the common prefix in place, then the rest appended, or what *)
(* is too much evicted.                                                    *)
CloneFrom(m, source) ==
  LET common == IF Size(m) < Size(source) THEN Size(m) ELSE Size(source)
      over == [m EXCEPT !.cells = [i \in Cells |-> IF i \in m.base .. m.base + common - 1
                                                   THEN At(source, i - m.base) ELSE m.cells[i]]]
      grown[n \in common .. Window] ==
        IF n = common THEN over ELSE InsertLast(grown[n - 1], At(source, n - 1))
      shrunk[n \in 0 .. Window] == IF n = 0 THEN over ELSE EvictLast(shrunk[n - 1])
  IN  IF Size(m) < Size(source) THEN grown[Size(source)] ELSE shrunk[Size(m) - common]

(* drain_worst: the map disowns everything while the drain is alive ...    *)
StartDrain(m, count) == [next |-> Window - count, end |-> Window,
                         from |-> m.base, to |-> Window - count]
Disowned(m) == [m EXCEPT !.base = Window]

(* ... and Drop slides the survivors up and hands them back, whatever was  *)
(* not handed out dropped.                                                 *)
Restore(m, d) ==
  LET dropped == [i \in Cells |-> IF i \in d.next .. d.end - 1 THEN Vacant ELSE m.cells[i]]
      drained == Window - d.to
  IN  [base |-> d.from + drained,
       cells |-> Copy(dropped, d.from, d.from + drained, d.to - d.from)]

DrainWorst(m, count) == Restore(Disowned(m), StartDrain(m, count))

(* extend_worst_unchecked makes room for the promised entries at once ...  *)
StartFill(m, count) == [start |-> m.base - count, filled |-> 0, count |-> count]
Opened(m, count) == [base |-> Window, cells |-> Copy(m.cells, m.base, m.base - count, Size(m))]
Write(m, f, e) == [m EXCEPT !.cells[Window - f.count + f.filled] = e]

(* ... and Drop closes the gap an iterator leaves that stopped early.      *)
CloseGap(m, f) ==
  LET missing == f.count - f.filled
  IN  [base |-> f.start + missing,
       cells |-> Copy(m.cells, f.start, f.start + missing, Window - missing - f.start)]

ExtendWorst(m, entries) ==
  LET n == Len(entries)
      f(i) == [StartFill(m, n) EXCEPT !.filled = i]
      written[i \in 0 .. n] ==
        IF i = 0 THEN Opened(m, n) ELSE Write(written[i - 1], f(i - 1), entries[i])
  IN  CloseGap(written[n], f(n))

-----------------------------------------------------------------------------
(* One map and whoever uses it *)

VARIABLES
  map,
  busy     \* the batch operation under way, with the map it started from

mapVars == <<map, busy>>

Free == [op |-> "none"]

MapInit == map = Empty /\ busy = Free

Put(k, v) ==
  /\ busy = Free
  /\ map' = Insert(map, Entry(k, v)).map
  /\ UNCHANGED busy

Delete(k) ==
  /\ busy = Free
  /\ map' = Remove(map, k)
  /\ UNCHANGED busy

Clear ==
  /\ busy = Free
  /\ map' = Empty
  /\ UNCHANGED busy

Drain(count) ==
  /\ busy = Free /\ count <= Size(map)
  /\ busy' = [op |-> "drain", it |-> StartDrain(map, count), was |-> map]
  /\ map' = Disowned(map)

(* next and next_back close in on each other.                              *)
DrainNext ==
  /\ busy.op = "drain" /\ busy.it.next # busy.it.end
  /\ map' = [map EXCEPT !.cells[busy.it.next] = Vacant]
  /\ busy' = [busy EXCEPT !.it.next = @ + 1]

DrainNextBack ==
  /\ busy.op = "drain" /\ busy.it.next # busy.it.end
  /\ map' = [map EXCEPT !.cells[busy.it.end - 1] = Vacant]
  /\ busy' = [busy EXCEPT !.it.end = @ - 1]

DropDrain ==
  /\ busy.op = "drain"
  /\ map' = Restore(map, busy.it)
  /\ busy' = Free

(* mem::forget: the entries are leaked, those outside the range as well.   *)
(* After a destructor that panics a guard still restores the map, which is *)
(* DropDrain.                                                              *)
LeakDrain ==
  /\ busy.op = "drain"
  /\ map' = Empty
  /\ busy' = Free

Fill(count) ==
  /\ busy = Free /\ count <= map.base
  /\ busy' = [op |-> "fill", it |-> StartFill(map, count), was |-> map]
  /\ map' = Opened(map, count)

(* The keys arrive in ascending order, and after those the map holds.      *)
FillNext(k, v) ==
  /\ busy.op = "fill" /\ busy.it.filled < busy.it.count
  /\ LET last == Window - busy.it.count + busy.it.filled - 1
     IN  last >= busy.it.start => map.cells[last].key < k
  /\ map' = Write(map, busy.it, Entry(k, v))
  /\ busy' = [busy EXCEPT !.it.filled = @ + 1]

(* The iterator is done, or panicked, after as many entries as it pleased. *)
EndFill ==
  /\ busy.op = "fill"
  /\ map' = CloseGap(map, busy.it)
  /\ busy' = Free

MapNext ==
  \/ \E k \in Keys, v \in Values : Put(k, v) \/ FillNext(k, v)
  \/ \E k \in Keys : Delete(k)
  \/ \E n \in 0 .. Window : Drain(n) \/ Fill(n)
  \/ Clear \/ DrainNext \/ DrainNextBack \/ DropDrain \/ LeakDrain \/ EndFill

-----------------------------------------------------------------------------
(* Properties *)

(* Exactly the live cells are initialized, and their keys ascend.          *)
Whole(m) ==
  /\ \A i \in Cells : (m.cells[i] # Vacant) <=> i >= m.base
  /\ \A i, j \in Cells : m.base <= i /\ i < j => m.cells[i].key < m.cells[j].key

Below(S, k) == {e \in S : e.key < k}
TheWorst(S) == CHOOSE e \in S : \A o \in S : o.key <= e.key
Ascending(S) == [i \in 1 .. Cardinality(S) |-> CHOOSE e \in S : Cardinality(Below(S, e.key)) = i - 1]

(* Wherever a batch stops, a drain's drop leaves the best entries, less    *)
(* those drained, and a fill's the old entries and those that arrived      *)
(* (drain_worst, FillWorst).                                               *)
BatchIsExact ==
  /\ busy.op = "drain" =>
       LET m == Restore(map, busy.it)
       IN  /\ Whole(m)
           /\ InOrder(m) = SubSeq(InOrder(busy.was), 1, busy.it.to - busy.it.from)
           /\ \A i \in busy.it.next .. busy.it.end - 1 : map.cells[i] = busy.was.cells[i]
  /\ busy.op = "fill" =>
       LET m == CloseGap(map, busy.it)
       IN  /\ Whole(m)
           /\ Size(m) = Size(busy.was) + busy.it.filled
           /\ SubSeq(InOrder(m), 1, Size(busy.was)) = InOrder(busy.was)

(* The map is a plain map of at most Window keys that keeps the smallest:  *)
(* insert, remove and locate report and leave behind what that map would,  *)
(* a clone_from over it holds what its source does, and no cell is read    *)
(* that is not initialized, after any sequence of operations, batches that *)
(* were leaked or cut short among them.  A batch leaves nothing in a state *)
(* of its own either, wherever it stops (BatchIsExact).                    *)
MapIsPlainMap ==
  /\ BatchIsExact
  /\ busy = Free =>
    /\ Whole(map)
    /\ \A k \in Keys, v \in Values :
         LET S == Live(map)
             r == Insert(map, Entry(k, v))
             plain == {e \in S : e.key # k} \cup {Entry(k, v)}
             kept == IF Cardinality(plain) > Window THEN plain \ {TheWorst(plain)} ELSE plain
             removed == Remove(map, k)
         IN  /\ Whole(r.map) /\ Live(r.map) = kept
             /\ r.out = IF kept = plain THEN Vacant ELSE TheWorst(plain)
             /\ r.ok <=> Entry(k, v) \in kept
             /\ r.pos = Cardinality(Below(S, k))
             /\ Whole(removed) /\ Live(removed) = {e \in S : e.key # k}
    /\ \A K \in SUBSET Keys, v \in Values :
         LET source == ExtendWorst(Empty, Ascending({Entry(k, v) : k \in K}))
         IN  Cardinality(K) <= Window => CloneFrom(map, source) = source

=============================================================================

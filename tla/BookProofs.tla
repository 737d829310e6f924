----------------------------- MODULE BookProofs -----------------------------
(***************************************************************************)
(* Proofs about LinearMap and IncrementalBook, for any capacity, keys and  *)
(* values, published depth, prices and quantities.  The theorems are in    *)
(* StructuresProofs.                                                       *)
(*                                                                         *)
(* The map: its cells, moved about by ptr::copy, are those of a plain      *)
(* sorted map that evicts its worst entry, whatever was done to it, and a  *)
(* batch operation can end at any point.  The recursive functions of       *)
(* clone_from and extend_worst are compared with closed forms (Followed).  *)
(*                                                                         *)
(* The book: a step is a step of PlainBook or invisible, and the window    *)
(* holds the top whenever there is a deeper level.  The window and then    *)
(* the deque make one sequence that is in order of its keys (Chain), whose *)
(* cells are the plain book's levels.  What an operation does to the book  *)
(* is stated of that sequence, as the entry that is put over, put in or    *)
(* taken out (Changes), whatever levels are moved over the boundary on the *)
(* way; and how far the best of the window stay as they were (SideStep) is *)
(* what lets a batch go unpublished.  BookSound, the inductive invariant,  *)
(* adds what a batch has disturbed so far.                                 *)
(***************************************************************************)
EXTENDS IncrementalBook, FiniteSetTheorems, SequenceTheorems, TLAPS

(* A set of naturals that is not empty has a least one: every argument     *)
(* over data is made by the least counterexample.                          *)
LEMMA LeastNatural ==
  ASSUME NEW T, T \subseteq Nat, T # {}
  PROVE  \E x \in T : \A y \in T : x <= y
<1>1. PICK x \in T : \A y \in T : ~(<<y, x>> \in OpToRel(<, Nat))
  BY NatLessThanWellFounded, WFMin
<1>2. \A y \in T : ~(y < x)
  BY <1>1 DEF OpToRel
<1>. QED
  BY <1>2

-----------------------------------------------------------------------------
(* Cells and positions *)

(* The types of what is read: an entry ...                                 *)
Cell == [key : Int, val : Values \cup Quantities]

(* ... a map, whatever is in its cells ...                                 *)
MapType == [base : 0 .. Window, cells : [Cells -> Cell \cup {Vacant}]]

(* ... and a map whose live cells are its sorted entries and whose others  *)
(* are vacant.                                                             *)
Solid(m) == m \in MapType /\ Whole(m)

(* An entry is not the vacant cell, and is its key and value.              *)
LEMMA CellFacts ==
  /\ \A e \in Cell :
       e # Vacant /\ e.key \in Int /\ e.val \in Values \cup Quantities /\ e = Entry(e.key, e.val)
  /\ \A k \in Int, v \in Values \cup Quantities : Entry(k, v) \in Cell
<1>1. \A e \in Cell : e # Vacant
  <2>. SUFFICES ASSUME NEW e \in Cell, e = Vacant PROVE FALSE
    OBVIOUS
  <2>1. "vacant" \in DOMAIN e
    BY DEF Vacant
  <2>2. DOMAIN e = {"key", "val"}
    BY DEF Cell
  <2>. QED
    BY <2>1, <2>2
<1>2. \A e \in Cell : e.key \in Int /\ e.val \in Values \cup Quantities /\ e = Entry(e.key, e.val)
  BY DEF Cell, Entry
<1>3. \A k \in Keys : k \in Int
  BY KeysAssumption
<1>4. \A k \in Int, v \in Values \cup Quantities : Entry(k, v) \in Cell
  BY DEF Cell, Entry
<1>. QED
  BY <1>1, <1>2, <1>3, <1>4

(* What is in a solid map, by cell and by position.                        *)
LEMMA SolidFacts ==
  ASSUME NEW m, Solid(m)
  PROVE  /\ m.base \in 0 .. Window /\ Size(m) = Window - m.base /\ Size(m) \in 0 .. Window
         /\ m.cells \in [Cells -> Cell \cup {Vacant}]
         /\ \A i \in Cells : i < m.base => m.cells[i] = Vacant
         /\ \A i \in Cells : i >= m.base => m.cells[i] \in Cell
         /\ \A i, j \in Cells : m.base <= i /\ i < j => m.cells[i].key < m.cells[j].key
         /\ \A p \in 0 .. Size(m) - 1 :
              m.base + p \in Cells /\ At(m, p) = m.cells[m.base + p] /\ At(m, p) \in Cell
         /\ \A p, q \in 0 .. Size(m) - 1 : p < q => At(m, p).key < At(m, q).key
<1>1. /\ m.base \in 0 .. Window /\ m.cells \in [Cells -> Cell \cup {Vacant}]
      /\ Size(m) = Window - m.base
  BY DEF Solid, MapType, Size
<1>2. /\ \A i \in Cells : i < m.base => m.cells[i] = Vacant
      /\ \A i \in Cells : i >= m.base => m.cells[i] \in Cell
      /\ \A i, j \in Cells : m.base <= i /\ i < j => m.cells[i].key < m.cells[j].key
  <2>1. \A i \in Cells : m.cells[i] \in Cell \cup {Vacant}
    BY <1>1
  <2>2. \A i \in Cells : i < m.base => ~(i >= m.base)
    BY <1>1 DEF Cells
  <2>. QED
    BY <2>1, <2>2 DEF Solid, Whole
<1>3. Size(m) \in 0 .. Window /\ \A p \in 0 .. Size(m) - 1 : m.base + p \in Cells /\ m.base + p >= m.base
  BY <1>1, WindowAssumption DEF Cells
<1>4. \A p \in 0 .. Size(m) - 1 : At(m, p) = m.cells[m.base + p] /\ At(m, p) \in Cell
  BY <1>2, <1>3 DEF At
<1>5. \A p, q \in 0 .. Size(m) - 1 : p < q => At(m, p).key < At(m, q).key
  <2>. SUFFICES ASSUME NEW p \in 0 .. Size(m) - 1, NEW q \in 0 .. Size(m) - 1, p < q
                PROVE  At(m, p).key < At(m, q).key
    OBVIOUS
  <2>1. m.base + p < m.base + q /\ m.base <= m.base + p
    BY <1>1, <1>3
  <2>. QED
    BY <1>2, <1>3, <1>4, <2>1
<1>. QED
  BY <1>1, <1>2, <1>3, <1>4, <1>5

(* ptr::copy, cell by cell.                                                *)
LEMMA CopyFacts ==
  ASSUME NEW cells \in [Cells -> Cell \cup {Vacant}],
         NEW from \in Nat, NEW to \in Int, NEW n \in Int, from + n <= Window
  PROVE  /\ Copy(cells, from, to, n) \in [Cells -> Cell \cup {Vacant}]
         /\ \A i \in Cells :
              Copy(cells, from, to, n)[i] =
                IF i \in to .. to + n - 1 THEN cells[i - to + from]
                ELSE IF i \in from .. from + n - 1 THEN Vacant ELSE cells[i]
<1>1. \A i \in Cells : i \in to .. to + n - 1 => i - to + from \in Cells
  BY WindowAssumption DEF Cells
<1>. QED
  BY <1>1 DEF Copy

(* A map is solid if it is so by position.                                 *)
LEMMA SolidFromAt ==
  ASSUME NEW r \in MapType, \A i \in Cells : i < r.base => r.cells[i] = Vacant,
         \A p \in 0 .. Size(r) - 1 : At(r, p) \in Cell,
         \A p, q \in 0 .. Size(r) - 1 : p < q => At(r, p).key < At(r, q).key
  PROVE  Solid(r)
<1>1. r.base \in 0 .. Window /\ Size(r) = Window - r.base /\ Window \in Nat
  BY WindowAssumption DEF MapType, Size
<1>2. \A i \in Cells : i >= r.base => i - r.base \in 0 .. Size(r) - 1 /\ r.cells[i] = At(r, i - r.base)
  <2>. SUFFICES ASSUME NEW i \in Cells, i >= r.base
                PROVE  i - r.base \in 0 .. Size(r) - 1 /\ r.cells[i] = At(r, i - r.base)
    OBVIOUS
  <2>1. i \in Int /\ i - r.base \in 0 .. Size(r) - 1 /\ r.base + (i - r.base) = i
    BY <1>1 DEF Cells
  <2>. QED
    BY <2>1 DEF At
<1>3. \A i \in Cells : (r.cells[i] # Vacant) <=> i >= r.base
  <2>. SUFFICES ASSUME NEW i \in Cells PROVE (r.cells[i] # Vacant) <=> i >= r.base
    OBVIOUS
  <2>1. i >= r.base \/ i < r.base
    BY <1>1 DEF Cells
  <2>2. i < r.base => ~(i >= r.base)
    BY <1>1 DEF Cells
  <2>. QED
    BY <1>2, <2>1, <2>2, CellFacts
<1>4. \A i, j \in Cells : r.base <= i /\ i < j => r.cells[i].key < r.cells[j].key
  <2>. SUFFICES ASSUME NEW i \in Cells, NEW j \in Cells, r.base <= i, i < j
                PROVE  r.cells[i].key < r.cells[j].key
    OBVIOUS
  <2>1. i - r.base < j - r.base /\ i >= r.base /\ j >= r.base
    BY <1>1 DEF Cells
  <2>. QED
    BY <2>1, <1>2
<1>. QED
  BY <1>3, <1>4 DEF Solid, Whole

(* insert_at: the better entries move down by one cell, and the entry is   *)
(* where the last of them was.                                             *)
LEMMA InsertAtFacts ==
  ASSUME NEW m, Solid(m), ~IsFull(m), NEW pos \in 0 .. Size(m), NEW e \in Cell,
         \A p \in 0 .. pos - 1 : At(m, p).key < e.key,
         \A p \in pos .. Size(m) - 1 : e.key < At(m, p).key
  PROVE  LET r == InsertAt(m, pos, e)
         IN  /\ Solid(r) /\ r.base = m.base - 1 /\ Size(r) = Size(m) + 1
             /\ \A p \in 0 .. Size(m) :
                  At(r, p) = IF p < pos THEN At(m, p) ELSE IF p = pos THEN e ELSE At(m, p - 1)
<1>. DEFINE r == InsertAt(m, pos, e)
            c == Copy(m.cells, m.base, m.base - 1, pos)
            b == m.base
<1>1. /\ b \in 1 .. Window /\ Size(m) = Window - b
      /\ m.cells \in [Cells -> Cell \cup {Vacant}] /\ pos \in Nat /\ b - 1 + pos \in Cells
      /\ Window \in Nat /\ b + pos <= Window
  BY SolidFacts, WindowAssumption DEF IsFull, Cells
<1>2. /\ c \in [Cells -> Cell \cup {Vacant}]
      /\ \A i \in Cells : c[i] = IF i \in b - 1 .. b - 1 + pos - 1 THEN m.cells[i - (b - 1) + b]
                                 ELSE IF i \in b .. b + pos - 1 THEN Vacant ELSE m.cells[i]
  <2>1. b \in Nat /\ b - 1 \in Int /\ pos \in Int
    BY <1>1
  <2>. QED
    BY <1>1, <2>1, CopyFacts
<1>0. r = [base |-> b - 1, cells |-> [c EXCEPT ![b - 1 + pos] = e]]
  BY DEF InsertAt
<1>. HIDE DEF c, r
<1>3. r.base = b - 1 /\ r.cells = [c EXCEPT ![b - 1 + pos] = e]
  BY <1>0
<1>4. r \in MapType
  <2>2. [c EXCEPT ![b - 1 + pos] = e] \in [Cells -> Cell \cup {Vacant}] /\ b - 1 \in 0 .. Window
    BY <1>1, <1>2
  <2>. QED
    BY <1>0, <2>2 DEF MapType
<1>5. \A i \in Cells : r.cells[i] =
         IF i = b - 1 + pos THEN e
         ELSE IF i >= b - 1 /\ i < b - 1 + pos THEN m.cells[i + 1] ELSE m.cells[i]
  <2>. SUFFICES ASSUME NEW i \in Cells
                PROVE  r.cells[i] = IF i = b - 1 + pos THEN e
                         ELSE IF i >= b - 1 /\ i < b - 1 + pos THEN m.cells[i + 1] ELSE m.cells[i]
    OBVIOUS
  <2>1. i \in Int /\ i - (b - 1) + b = i + 1
    BY <1>1 DEF Cells
  <2>2. r.cells[i] = IF i = b - 1 + pos THEN e ELSE c[i]
    BY <1>2, <1>3
  <2>3. i # b - 1 + pos => (i \in b .. b + pos - 1 => i \in b - 1 .. b - 1 + pos - 1)
    BY <2>1, <1>1
  <2>4. i \in b - 1 .. b - 1 + pos - 1 <=> i >= b - 1 /\ i < b - 1 + pos
    BY <2>1, <1>1
  <2>. QED
    BY <1>2, <2>1, <2>2, <2>3, <2>4
<1>6. \A p \in 0 .. Size(m) :
        At(r, p) = IF p < pos THEN At(m, p) ELSE IF p = pos THEN e ELSE At(m, p - 1)
  <2>. SUFFICES ASSUME NEW p \in 0 .. Size(m)
                PROVE  At(r, p) = IF p < pos THEN At(m, p) ELSE IF p = pos THEN e ELSE At(m, p - 1)
    OBVIOUS
  <2>0. p \in Nat /\ p <= Window - b /\ \A k \in Nat : k < Window => k \in Cells
    BY <1>1 DEF Cells
  <2>1. /\ b - 1 + p \in Cells /\ p \in Int /\ b - 1 + p + 1 = b + p /\ b + (p - 1) = b - 1 + p
        /\ (b - 1 + p = b - 1 + pos <=> p = pos)
        /\ (b - 1 + p >= b - 1 /\ b - 1 + p < b - 1 + pos <=> p < pos)
    <3>1. b - 1 + p \in Nat /\ b - 1 + p < Window
      BY <1>1, <2>0
    <3>2. /\ b - 1 + p + 1 = b + p /\ b + (p - 1) = b - 1 + p
          /\ b - 1 + p = b - 1 + pos <=> p = pos
          /\ (b - 1 + p >= b - 1 /\ b - 1 + p < b - 1 + pos) <=> p < pos
      BY <1>1, <2>0
    <3>. QED
      BY <2>0, <3>1, <3>2
  <2>2. At(r, p) = r.cells[b - 1 + p]
    BY <1>3 DEF At
  <2>3. r.cells[b - 1 + p] = IF p = pos THEN e ELSE IF p < pos THEN m.cells[b + p] ELSE m.cells[b + (p - 1)]
    BY <1>5, <2>1
  <2>. QED
    BY <2>1, <2>2, <2>3, <1>1 DEF At
<1>7. Size(r) = Size(m) + 1
  BY <1>1, <1>3 DEF Size
<1>8. \A i \in Cells : i < b - 1 => r.cells[i] = Vacant
  <2>. SUFFICES ASSUME NEW i \in Cells, i < b - 1 PROVE r.cells[i] = Vacant
    OBVIOUS
  <2>1. i \in Int /\ i # b - 1 + pos /\ ~(i >= b - 1) /\ i < b
    BY <1>1 DEF Cells
  <2>2. m.cells[i] = Vacant
    BY <2>1, SolidFacts
  <2>. QED
    BY <1>5, <2>1, <2>2
<1>10. \A p, q \in 0 .. Size(m) : At(r, p) \in Cell /\ (p < q => At(r, p).key < At(r, q).key)
  <2>. SUFFICES ASSUME NEW p \in 0 .. Size(m), NEW q \in 0 .. Size(m)
                PROVE  At(r, p) \in Cell /\ (p < q => At(r, p).key < At(r, q).key)
    OBVIOUS
  <2>0. /\ p \in Int /\ q \in Int /\ pos \in Int /\ Size(m) \in Nat
        /\ (p < pos => p \in 0 .. Size(m) - 1 /\ p \in 0 .. pos - 1)
        /\ (p > pos => p - 1 \in 0 .. Size(m) - 1 /\ p - 1 \in pos .. Size(m) - 1)
        /\ (q < pos => q \in 0 .. Size(m) - 1 /\ q \in 0 .. pos - 1)
        /\ (q > pos => q - 1 \in 0 .. Size(m) - 1 /\ q - 1 \in pos .. Size(m) - 1)
    BY <1>1
  <2>1. At(r, p) \in Cell
    BY <1>6, <2>0, SolidFacts
  <2>2. ASSUME p < q PROVE At(r, p).key < At(r, q).key
    <3>1. CASE q < pos
      <4>1. At(r, p) = At(m, p) /\ At(r, q) = At(m, q) /\ p < pos
        BY <1>6, <2>0, <2>2, <3>1
      <4>. QED
        BY <4>1, <2>0, <2>2, <3>1, SolidFacts
    <3>2. CASE q = pos
      <4>1. At(r, p) = At(m, p) /\ At(r, q) = e /\ p < pos
        BY <1>6, <2>0, <2>2, <3>2
      <4>. QED
        BY <4>1, <2>0
    <3>3. CASE q > pos /\ p = pos
      <4>1. At(r, p) = e /\ At(r, q) = At(m, q - 1)
        BY <1>6, <2>0, <2>2, <3>3
      <4>. QED
        BY <4>1, <2>0, <3>3
    <3>4. CASE q > pos /\ p > pos
      <4>1. At(r, p) = At(m, p - 1) /\ At(r, q) = At(m, q - 1) /\ p - 1 < q - 1
        BY <1>6, <2>0, <2>2, <3>4
      <4>. QED
        BY <4>1, <2>0, <3>4, SolidFacts
    <3>5. CASE q > pos /\ p < pos
      <4>1. At(r, p) = At(m, p) /\ At(r, q) = At(m, q - 1)
        BY <1>6, <2>0, <2>2, <3>5
      <4>2. p < q - 1
        BY <2>0, <3>5
      <4>. QED
        BY <4>1, <4>2, <2>0, <3>5, SolidFacts
    <3>. QED
      BY <2>0, <3>1, <3>2, <3>3, <3>4, <3>5
  <2>. QED
    BY <2>1, <2>2
<1>11. Solid(r)
  <2>1. /\ \A p \in 0 .. Size(r) - 1 : p \in 0 .. Size(m)
        /\ \A i \in Cells : i < r.base => r.cells[i] = Vacant
    BY <1>1, <1>3, <1>7, <1>8
  <2>. QED
    BY <1>4, <1>10, <2>1, SolidFromAt
<1>. QED
  BY <1>3, <1>6, <1>7, <1>11 DEF r

(* remove_at: the better entries move up by one cell, over the one         *)
(* removed.                                                                *)
LEMMA RemoveAtFacts ==
  ASSUME NEW m, Solid(m), NEW pos \in 0 .. Size(m) - 1
  PROVE  LET r == RemoveAt(m, pos)
         IN  /\ Solid(r) /\ r.base = m.base + 1 /\ Size(r) = Size(m) - 1
             /\ \A p \in 0 .. Size(m) - 2 : At(r, p) = IF p < pos THEN At(m, p) ELSE At(m, p + 1)
<1>. DEFINE r == RemoveAt(m, pos)
            b == m.base
            d == [m.cells EXCEPT ![b + pos] = Vacant]
            c == Copy(d, b, b + 1, pos)
<1>1. /\ b \in 0 .. Window /\ Size(m) = Window - b
      /\ m.cells \in [Cells -> Cell \cup {Vacant}] /\ pos \in Nat /\ b + pos \in Cells
      /\ Window \in Nat /\ b + pos < Window
  BY SolidFacts, WindowAssumption DEF Cells
<1>2. /\ d \in [Cells -> Cell \cup {Vacant}]
      /\ \A i \in Cells : d[i] = IF i = b + pos THEN Vacant ELSE m.cells[i]
  BY <1>1
<1>. HIDE DEF d
<1>3. /\ c \in [Cells -> Cell \cup {Vacant}]
      /\ \A i \in Cells : c[i] = IF i \in b + 1 .. b + 1 + pos - 1 THEN d[i - (b + 1) + b]
                                 ELSE IF i \in b .. b + pos - 1 THEN Vacant ELSE d[i]
  <2>1. b \in Nat /\ b + 1 \in Int /\ pos \in Int /\ b + pos <= Window
    BY <1>1
  <2>. QED
    BY <1>2, <2>1, CopyFacts
<1>4. r = [base |-> b + 1, cells |-> c]
  BY DEF RemoveAt, d
<1>. HIDE DEF c, r
<1>5. r \in MapType /\ r.base = b + 1 /\ r.cells = c
  <2>1. b + 1 \in 0 .. Window
    BY <1>1
  <2>. QED
    BY <1>3, <1>4, <2>1 DEF MapType
<1>6. \A i \in Cells : r.cells[i] = IF i <= b THEN IF i = b THEN Vacant ELSE m.cells[i]
                                    ELSE IF i <= b + pos THEN m.cells[i - 1] ELSE m.cells[i]
  <2>. SUFFICES ASSUME NEW i \in Cells
                PROVE  c[i] = IF i <= b THEN IF i = b THEN Vacant ELSE m.cells[i]
                              ELSE IF i <= b + pos THEN m.cells[i - 1] ELSE m.cells[i]
    BY <1>5
  <2>0. i \in Int /\ 0 <= i /\ i < Window /\ \A k \in Nat : k < Window => k \in Cells
    BY <1>1 DEF Cells
  <2>1. /\ i \in Int /\ i - (b + 1) + b = i - 1 /\ (i > b => i - 1 \in Cells)
        /\ (i \in b + 1 .. b + 1 + pos - 1 <=> i > b /\ i <= b + pos)
        /\ (i \in b .. b + pos - 1 <=> i >= b /\ i < b + pos)
    <3>1. i - (b + 1) + b = i - 1 /\ (i > b => i - 1 \in Nat /\ i - 1 < Window)
      BY <1>1, <2>0
    <3>2. /\ i \in b + 1 .. b + 1 + pos - 1 <=> i > b /\ i <= b + pos
          /\ i \in b .. b + pos - 1 <=> i >= b /\ i < b + pos
      BY <1>1, <2>0
    <3>. QED
      BY <2>0, <3>1, <3>2
  <2>2. CASE i > b /\ i <= b + pos
    <3>1. c[i] = d[i - 1] /\ i - 1 # b + pos /\ ~(i <= b)
      BY <1>1, <1>3, <2>1, <2>2
    <3>. QED
      BY <1>2, <2>1, <2>2, <3>1
  <2>3. CASE i > b + pos
    <3>1. c[i] = d[i] /\ i # b + pos /\ ~(i <= b) /\ ~(i <= b + pos)
      BY <1>1, <1>3, <2>1, <2>3
    <3>. QED
      BY <1>2, <2>1, <2>3, <3>1
  <2>4. CASE i = b
    <3>1. c[i] = IF i < b + pos THEN Vacant ELSE d[i]
      BY <1>1, <1>3, <2>1, <2>4
    <3>2. ~(i < b + pos) => i = b + pos
      BY <1>1, <2>4
    <3>. QED
      BY <1>1, <1>2, <2>1, <2>4, <3>1, <3>2
  <2>5. CASE i < b
    <3>1. c[i] = d[i] /\ i # b + pos /\ i <= b /\ i # b
      BY <1>1, <1>3, <2>1, <2>5
    <3>. QED
      BY <1>2, <2>1, <2>5, <3>1
  <2>. QED
    BY <1>1, <2>1, <2>2, <2>3, <2>4, <2>5
<1>7. \A p \in 0 .. Size(m) - 2 : At(r, p) = IF p < pos THEN At(m, p) ELSE At(m, p + 1)
  <2>. SUFFICES ASSUME NEW p \in 0 .. Size(m) - 2
                PROVE  At(r, p) = IF p < pos THEN At(m, p) ELSE At(m, p + 1)
    OBVIOUS
  <2>1. b \in Nat /\ p \in Nat /\ b + p + 1 < Window
    BY <1>1
  <2>2. b + 1 + p \in Cells
    <3>1. \A k \in Nat : k < Window => k \in Cells
      BY <1>1 DEF Cells
    <3>2. b + 1 + p \in Nat /\ b + 1 + p < Window
      BY <1>1, <2>1
    <3>. QED
      BY <3>1, <3>2
  <2>3. /\ ~(b + 1 + p <= b) /\ b + 1 + p - 1 = b + p
        /\ (b + 1 + p <= b + pos <=> p < pos) /\ b + (p + 1) = b + 1 + p
    BY <1>1, <2>1
  <2>4. At(r, p) = r.cells[b + 1 + p]
    BY <1>5 DEF At
  <2>5. r.cells[b + 1 + p] = IF p < pos THEN m.cells[b + p] ELSE m.cells[b + (p + 1)]
    BY <1>1, <1>6, <2>1, <2>2, <2>3
  <2>. QED
    BY <2>4, <2>5 DEF At
<1>8. Size(r) = Size(m) - 1
  BY <1>1, <1>5 DEF Size
<1>9. \A i \in Cells : i < r.base => r.cells[i] = Vacant
  <2>. SUFFICES ASSUME NEW i \in Cells, i < b + 1 PROVE r.cells[i] = Vacant
    BY <1>5
  <2>1. i <= b /\ (i = b \/ i < b)
    BY <1>1 DEF Cells
  <2>. QED
    BY <1>6, <2>1, SolidFacts
<1>10. \A p, q \in 0 .. Size(r) - 1 : At(r, p) \in Cell /\ (p < q => At(r, p).key < At(r, q).key)
  <2>. SUFFICES ASSUME NEW p \in 0 .. Size(r) - 1, NEW q \in 0 .. Size(r) - 1
                PROVE  At(r, p) \in Cell /\ (p < q => At(r, p).key < At(r, q).key)
    OBVIOUS
  <2>. DEFINE f(x) == IF x < pos THEN x ELSE x + 1
  <2>1. /\ p \in 0 .. Size(m) - 2 /\ q \in 0 .. Size(m) - 2
        /\ f(p) \in 0 .. Size(m) - 1 /\ f(q) \in 0 .. Size(m) - 1 /\ (p < q => f(p) < f(q))
    BY <1>1, <1>8
  <2>2. At(r, p) = At(m, f(p)) /\ At(r, q) = At(m, f(q))
    BY <1>7, <2>1
  <2>. HIDE DEF f
  <2>. QED
    BY <2>1, <2>2, SolidFacts
<1>11. Solid(r)
  BY <1>5, <1>9, <1>10, SolidFromAt
<1>. QED
  BY <1>5, <1>7, <1>8, <1>11 DEF r

-----------------------------------------------------------------------------
(* Keys and entries *)

(* The scan stops at the first key that is not smaller.                    *)
LEMMA LocateFacts ==
  ASSUME NEW m, Solid(m), NEW k \in Int
  PROVE  /\ Locate(m, k) \in 0 .. Size(m)
         /\ \A p \in 0 .. Locate(m, k) - 1 : At(m, p).key < k
         /\ Locate(m, k) < Size(m) => At(m, Locate(m, k)).key >= k
<1>. DEFINE T == {Size(m)} \cup {pos \in 0 .. Size(m) - 1 : At(m, pos).key >= k}
<1>1. Size(m) \in 0 .. Window /\ Window \in Nat
  BY SolidFacts, WindowAssumption
<1>2. T \subseteq Nat /\ T # {}
  BY <1>1
<1>3. PICK x \in T : \A y \in T : x <= y
  BY <1>2, LeastNatural
<1>4. Locate(m, k) \in T /\ \A y \in T : Locate(m, k) <= y
  <2>. HIDE DEF T
  <2>1. Least(T) \in T /\ \A y \in T : Least(T) <= y
    BY <1>3 DEF Least
  <2>. QED
    BY <2>1 DEF T, Locate
<1>. DEFINE l == Locate(m, k)
<1>5. l \in 0 .. Size(m)
  BY <1>1, <1>4
<1>. HIDE DEF l
<1>6. \A p \in 0 .. l - 1 : At(m, p).key < k
  <2>. SUFFICES ASSUME NEW p \in 0 .. l - 1 PROVE At(m, p).key < k
    OBVIOUS
  <2>1. p \in 0 .. Size(m) - 1 /\ ~(l <= p)
    BY <1>1, <1>5
  <2>2. p \notin T
    BY <1>4, <2>1 DEF l
  <2>3. ~(At(m, p).key >= k)
    BY <2>1, <2>2
  <2>4. At(m, p).key \in Int /\ k \in Int
    BY <2>1, SolidFacts, CellFacts, KeysAssumption
  <2>. QED
    BY <2>3, <2>4
<1>7. l < Size(m) => At(m, l).key >= k
  BY <1>1, <1>4, <1>5 DEF l
<1>. QED
  BY <1>5, <1>6, <1>7 DEF l

(* The first n positions hold n entries, as the keys rise ...              *)
LEMMA CountAt ==
  ASSUME NEW m, Solid(m), NEW n \in 0 .. Size(m)
  PROVE  LET S == {At(m, p) : p \in 0 .. n - 1} IN IsFiniteSet(S) /\ Cardinality(S) = n
<1>. DEFINE S == {At(m, p) : p \in 0 .. n - 1}
            f == [p \in 0 .. n - 1 |-> At(m, p)]
<1>1. n \in Nat /\ \A p \in 0 .. n - 1 : p \in 0 .. Size(m) - 1 /\ p \in Int
  BY SolidFacts
<1>2. IsFiniteSet(0 .. n - 1) /\ Cardinality(0 .. n - 1) = n
  <2>1. n - 1 \in Int /\ 0 \in Int /\ (IF 0 > n - 1 THEN 0 ELSE n - 1 - 0 + 1) = n
    BY <1>1
  <2>. QED
    BY <2>1, FS_Interval
<1>3. \A p, q \in 0 .. n - 1 : At(m, p) = At(m, q) => p = q
  <2>. SUFFICES ASSUME NEW p \in 0 .. n - 1, NEW q \in 0 .. n - 1, At(m, p) = At(m, q), p # q
                PROVE  FALSE
    OBVIOUS
  <2>1. p < q \/ q < p
    BY <1>1
  <2>2. At(m, p).key \in Int
    BY <1>1, SolidFacts, CellFacts
  <2>. QED
    BY <1>1, <2>1, <2>2, SolidFacts
<1>4. f \in Bijection(0 .. n - 1, S)
  <2>1. f \in [0 .. n - 1 -> S]
    OBVIOUS
  <2>2. \A p, q \in 0 .. n - 1 : f[p] = f[q] => p = q
    BY <1>3
  <2>3. \A e \in S : \E p \in 0 .. n - 1 : f[p] = e
    OBVIOUS
  <2>. HIDE DEF f, S
  <2>. QED
    BY <2>1, <2>2, <2>3, Zenon DEF Bijection, Injection, Surjection, IsInjective
<1>5. ExistsBijection(0 .. n - 1, S)
  BY <1>4 DEF ExistsBijection
<1>. HIDE DEF S
<1>6. IsFiniteSet(S) /\ Cardinality(S) = n
  BY <1>2, <1>5, FS_Bijection
<1>. QED
  BY <1>6 DEF S

(* ... so a map has as many entries as its size, one of each key.          *)
LEMMA LiveFacts ==
  ASSUME NEW m, Solid(m)
  PROVE  /\ IsFiniteSet(Live(m)) /\ Cardinality(Live(m)) = Size(m) /\ Live(m) \subseteq Cell
         /\ \A e, o \in Live(m) : e.key = o.key => e = o
<1>1. Size(m) \in 0 .. Size(m)
  BY SolidFacts
<1>2. IsFiniteSet(Live(m)) /\ Cardinality(Live(m)) = Size(m)
  BY <1>1, CountAt DEF Live
<1>3. Live(m) \subseteq Cell
  BY SolidFacts DEF Live
<1>4. \A e, o \in Live(m) : e.key = o.key => e = o
  <2>. SUFFICES ASSUME NEW e \in Live(m), NEW o \in Live(m), e.key = o.key, e # o PROVE FALSE
    OBVIOUS
  <2>1. PICK p \in 0 .. Size(m) - 1 : e = At(m, p)
    BY DEF Live
  <2>2. PICK q \in 0 .. Size(m) - 1 : o = At(m, q)
    BY DEF Live
  <2>3. (p < q \/ q < p) /\ e.key \in Int
    BY <1>1, <1>3, <2>1, <2>2, CellFacts
  <2>. QED
    BY <2>1, <2>2, <2>3, SolidFacts
<1>. QED
  BY <1>2, <1>3, <1>4

(* What the scan stops at is the entry of the key, or there is none.       *)
LEMMA OccupiedFacts ==
  ASSUME NEW m, Solid(m), NEW k \in Int
  PROVE  /\ Occupied(m, k) =>
              /\ Locate(m, k) \in 0 .. Size(m) - 1 /\ At(m, Locate(m, k)).key = k
              /\ \A p \in 0 .. Size(m) - 1 : At(m, p).key = k => p = Locate(m, k)
         /\ ~Occupied(m, k) =>
              /\ \A e \in Live(m) : e.key # k
              /\ \A p \in Locate(m, k) .. Size(m) - 1 : k < At(m, p).key
<1>. DEFINE l == Locate(m, k)
<1>1. /\ l \in 0 .. Size(m) /\ Size(m) \in Nat /\ k \in Int
      /\ \A p \in 0 .. l - 1 : At(m, p).key < k
      /\ l < Size(m) => At(m, l).key >= k
  BY SolidFacts, LocateFacts, KeysAssumption
<1>2. Occupied(m, k) <=> l < Size(m) /\ At(m, l).key = k
  BY DEF Occupied
<1>. HIDE DEF l
<1>3. \A p \in 0 .. Size(m) - 1 : p \in Int /\ At(m, p).key \in Int
  BY SolidFacts, CellFacts
<1>4. \A p \in 0 .. Size(m) - 1 : l < p => At(m, l).key < At(m, p).key /\ k < At(m, p).key
  <2>. SUFFICES ASSUME NEW p \in 0 .. Size(m) - 1, l < p
                PROVE  At(m, l).key < At(m, p).key /\ k < At(m, p).key
    OBVIOUS
  <2>1. l \in 0 .. Size(m) - 1
    BY <1>1
  <2>2. At(m, l).key < At(m, p).key
    BY <2>1, SolidFacts
  <2>. QED
    BY <1>1, <1>3, <2>1, <2>2
<1>5. CASE Occupied(m, k)
  <2>1. l \in 0 .. Size(m) - 1 /\ At(m, l).key = k
    BY <1>1, <1>2, <1>5
  <2>2. \A p \in 0 .. Size(m) - 1 : At(m, p).key = k => p = l
    <3>. SUFFICES ASSUME NEW p \in 0 .. Size(m) - 1, At(m, p).key = k, p # l PROVE FALSE
      OBVIOUS
    <3>1. CASE p < l
      BY <1>1, <3>1
    <3>2. CASE l < p
      BY <1>1, <1>4, <3>2
    <3>. QED
      BY <1>1, <3>1, <3>2
  <2>. QED
    BY <1>5, <2>1, <2>2 DEF l
<1>6. CASE ~Occupied(m, k)
  <2>1. \A p \in l .. Size(m) - 1 : k < At(m, p).key
    <3>. SUFFICES ASSUME NEW p \in l .. Size(m) - 1 PROVE k < At(m, p).key
      OBVIOUS
    <3>1. p \in 0 .. Size(m) - 1 /\ (p = l \/ l < p)
      BY <1>1
    <3>2. p = l => k < At(m, p).key
      BY <1>1, <1>2, <1>3, <1>6, <3>1
    <3>. QED
      BY <1>4, <3>1, <3>2
  <2>2. \A e \in Live(m) : e.key # k
    <3>. SUFFICES ASSUME NEW p \in 0 .. Size(m) - 1 PROVE At(m, p).key # k
      BY DEF Live
    <3>1. p \in 0 .. l - 1 \/ p \in l .. Size(m) - 1
      BY <1>1
    <3>. QED
      BY <1>1, <1>3, <2>1, <3>1
  <2>. QED
    BY <1>6, <2>1, <2>2 DEF l
<1>. QED
  BY <1>5, <1>6

(* The position of a key is the number of smaller ones.                    *)
LEMMA BelowFacts ==
  ASSUME NEW m, Solid(m), NEW k \in Int
  PROVE  Cardinality(Below(Live(m), k)) = Locate(m, k)
<1>. DEFINE l == Locate(m, k)
<1>1. /\ l \in 0 .. Size(m) /\ Size(m) \in Nat /\ k \in Int
      /\ \A p \in 0 .. l - 1 : At(m, p).key < k
      /\ l < Size(m) => At(m, l).key >= k
  BY SolidFacts, LocateFacts, KeysAssumption
<1>2. \A p \in l .. Size(m) - 1 : ~(At(m, p).key < k)
  <2>. SUFFICES ASSUME NEW p \in l .. Size(m) - 1, At(m, p).key < k PROVE FALSE
    OBVIOUS
  <2>0. p \in 0 .. Size(m) - 1 /\ l \in 0 .. Size(m) - 1 /\ (p = l \/ l < p)
    BY <1>1
  <2>1. /\ p \in 0 .. Size(m) - 1 /\ l \in 0 .. Size(m) - 1 /\ (p = l \/ l < p)
        /\ At(m, p).key \in Int /\ At(m, l).key \in Int
    BY <2>0, SolidFacts, CellFacts
  <2>2. l < p => At(m, l).key < At(m, p).key
    BY <2>1, SolidFacts
  <2>. QED
    BY <1>1, <2>1, <2>2
<1>. HIDE DEF l
<1>3. Below(Live(m), k) = {At(m, p) : p \in 0 .. l - 1}
  <2>1. \A p \in 0 .. Size(m) - 1 : p \in 0 .. l - 1 \/ p \in l .. Size(m) - 1
    BY <1>1
  <2>2. \A p \in 0 .. l - 1 : p \in 0 .. Size(m) - 1
    BY <1>1
  <2>. QED
    BY <1>1, <1>2, <2>1, <2>2 DEF Below, Live
<1>. QED
  BY <1>1, <1>3, CountAt DEF l

(* The worst of a set is the one above all others.                         *)
LEMMA WorstFacts ==
  ASSUME NEW S, NEW w \in S, \A o \in S : o.key \in Int, \A o \in S : o # w => o.key < w.key
  PROVE  TheWorst(S) = w
<1>1. \A o \in S : o.key <= w.key
  <2>. SUFFICES ASSUME NEW o \in S PROVE o.key <= w.key
    OBVIOUS
  <2>1. o.key \in Int /\ w.key \in Int
    OBVIOUS
  <2>2. o # w => o.key < w.key
    OBVIOUS
  <2>. QED
    BY <2>1, <2>2
<1>. QED
  BY <1>1 DEF TheWorst

-----------------------------------------------------------------------------
(* insert and remove *)

(* The plain map: the entries without a key ...                            *)
OneLess(m, k) == {x \in Live(m) : x.key # k}

(* ... with an entry put in its place ...                                  *)
PutIn(m, e) == OneLess(m, e.key) \cup {e}

(* ... and what the capacity leaves of them.                               *)
Fits(S) == IF Cardinality(S) > Window THEN S \ {TheWorst(S)} ELSE S

(* What insert promises: the entries are those of the plain map, it        *)
(* returns the one evicted, it succeeds if the new one stays, and it tells *)
(* where.                                                                  *)
InsertIsPlain(m, e) ==
  LET r == Insert(m, e)
  IN  /\ Solid(r.map) /\ Live(r.map) = Fits(PutIn(m, e))
      /\ r.out = IF Fits(PutIn(m, e)) = PutIn(m, e) THEN Vacant ELSE TheWorst(PutIn(m, e))
      /\ r.ok <=> e \in Fits(PutIn(m, e))
      /\ r.pos = Locate(m, e.key)

(* Replacing a value moves nothing.                                        *)
LEMMA OverwriteFacts ==
  ASSUME NEW m, Solid(m), NEW pos \in 0 .. Size(m) - 1, NEW e \in Cell, At(m, pos).key = e.key
  PROVE  LET r == Overwrite(m, pos, e.val)
         IN  /\ Solid(r) /\ Size(r) = Size(m)
             /\ \A p \in 0 .. Size(m) - 1 : At(r, p) = IF p = pos THEN e ELSE At(m, p)
<1>. DEFINE r == Overwrite(m, pos, e.val)
            b == m.base
<1>1. /\ b \in 0 .. Window /\ Size(m) = Window - b /\ Window \in Nat
      /\ m.cells \in [Cells -> Cell \cup {Vacant}] /\ pos \in Nat /\ b + pos \in Cells
      /\ m.cells[b + pos] = At(m, pos) /\ At(m, pos) \in Cell
  BY SolidFacts, WindowAssumption
<1>2. r.base = b /\ r.cells = [m.cells EXCEPT ![b + pos].val = e.val] /\ DOMAIN r = DOMAIN m
  <2>1. m \in MapType
    BY DEF Solid
  <2>. QED
    BY <2>1 DEF Overwrite, MapType
<1>3. [At(m, pos) EXCEPT !.val = e.val] = e
  BY <1>1 DEF Cell
<1>4. r.cells = [m.cells EXCEPT ![b + pos] = e]
  BY <1>1, <1>2, <1>3
<1>5. r \in MapType
  <2>1. [m.cells EXCEPT ![b + pos] = e] \in [Cells -> Cell \cup {Vacant}]
    BY <1>1
  <2>2. r = [base |-> b, cells |-> r.cells]
    <3>1. m \in MapType
      BY DEF Solid
    <3>. QED
      BY <1>2, <3>1 DEF Overwrite, MapType
  <2>. QED
    BY <1>1, <1>4, <2>1, <2>2 DEF MapType
<1>. HIDE DEF r
<1>6. \A p \in 0 .. Size(m) - 1 : At(r, p) = IF p = pos THEN e ELSE At(m, p)
  <2>. SUFFICES ASSUME NEW p \in 0 .. Size(m) - 1 PROVE At(r, p) = IF p = pos THEN e ELSE At(m, p)
    OBVIOUS
  <2>1. p \in Int /\ b + p \in Cells /\ (b + p = b + pos <=> p = pos)
    BY <1>1, SolidFacts
  <2>. QED
    BY <1>1, <1>2, <1>4, <2>1 DEF At
<1>7. Size(r) = Size(m)
  BY <1>2 DEF Size
<1>8. \A i \in Cells : i < r.base => r.cells[i] = Vacant
  <2>. SUFFICES ASSUME NEW i \in Cells, i < b PROVE r.cells[i] = Vacant
    BY <1>2
  <2>1. i # b + pos
    BY <1>1 DEF Cells
  <2>. QED
    BY <1>1, <1>4, <2>1, SolidFacts
<1>9. \A p, q \in 0 .. Size(r) - 1 : At(r, p) \in Cell /\ (p < q => At(r, p).key < At(r, q).key)
  <2>. SUFFICES ASSUME NEW p \in 0 .. Size(m) - 1, NEW q \in 0 .. Size(m) - 1
                PROVE  At(r, p) \in Cell /\ (p < q => At(r, p).key < At(r, q).key)
    BY <1>7
  <2>1. At(r, p).key = At(m, p).key /\ At(r, q).key = At(m, q).key
    BY <1>6
  <2>2. At(r, p) \in Cell
    BY <1>6, SolidFacts
  <2>. QED
    BY <2>1, <2>2, SolidFacts
<1>. QED
  BY <1>5, <1>6, <1>7, <1>8, <1>9, SolidFromAt DEF r

(* insert of a key that is there overwrites it ...                         *)
LEMMA InsertOccupied ==
  ASSUME NEW m, Solid(m), NEW e \in Cell, Occupied(m, e.key)
  PROVE  InsertIsPlain(m, e)
<1>. DEFINE l == Locate(m, e.key)
            r == Overwrite(m, l, e.val)
<1>1. /\ e.key \in Int /\ l \in 0 .. Size(m) - 1 /\ At(m, l).key = e.key
      /\ \A p \in 0 .. Size(m) - 1 : At(m, p).key = e.key => p = l
  BY OccupiedFacts, CellFacts
<1>2. Insert(m, e) = [map |-> r, ok |-> TRUE, pos |-> l, out |-> Vacant]
  BY DEF Insert
<1>. HIDE DEF l
<1>3. /\ Solid(r) /\ Size(r) = Size(m)
      /\ \A p \in 0 .. Size(m) - 1 : At(r, p) = IF p = l THEN e ELSE At(m, p)
  BY <1>1, OverwriteFacts
<1>. HIDE DEF r
<1>4. Live(r) = PutIn(m, e)
  <2>1. Live(r) = {At(r, p) : p \in 0 .. Size(m) - 1}
    BY <1>3 DEF Live
  <2>2. ASSUME NEW x \in Live(r) PROVE x \in PutIn(m, e)
    <3>1. PICK p \in 0 .. Size(m) - 1 : x = At(r, p)
      BY <2>1, <2>2
    <3>2. p # l => x = At(m, p) /\ x.key # e.key /\ x \in Live(m)
      BY <1>1, <1>3, <3>1 DEF Live
    <3>. QED
      BY <1>3, <3>1, <3>2 DEF PutIn, OneLess
  <2>3. ASSUME NEW x \in PutIn(m, e) PROVE x \in Live(r)
    <3>1. CASE x = e
      BY <1>1, <1>3, <2>1, <3>1
    <3>2. CASE x # e
      <4>1. PICK p \in 0 .. Size(m) - 1 : x = At(m, p) /\ x.key # e.key
        BY <2>3, <3>2 DEF PutIn, OneLess, Live
      <4>2. p # l
        BY <1>1, <4>1
      <4>. QED
        BY <1>3, <2>1, <4>1, <4>2
    <3>. QED
      BY <3>1, <3>2
  <2>. QED
    BY <2>2, <2>3
<1>5. Fits(PutIn(m, e)) = PutIn(m, e)
  <2>1. Cardinality(PutIn(m, e)) = Size(m) /\ Size(m) \in 0 .. Window
    BY <1>3, <1>4, LiveFacts, SolidFacts
  <2>2. ~(Cardinality(PutIn(m, e)) > Window)
    BY <2>1, WindowAssumption
  <2>. QED
    BY <2>2 DEF Fits
<1>6. e \in PutIn(m, e)
  BY DEF PutIn
<1>. QED
  BY <1>2, <1>3, <1>4, <1>5, <1>6 DEF InsertIsPlain, l

(* A new key makes the entries one more, and the scan splits them by it.   *)
LEMMA PutFacts ==
  ASSUME NEW m, Solid(m), NEW e \in Cell, ~Occupied(m, e.key)
  PROVE  /\ PutIn(m, e) = Live(m) \cup {e} /\ e \notin Live(m) /\ PutIn(m, e) \subseteq Cell
         /\ IsFiniteSet(PutIn(m, e)) /\ Cardinality(PutIn(m, e)) = Size(m) + 1
         /\ Locate(m, e.key) \in 0 .. Size(m)
         /\ \A p \in 0 .. Locate(m, e.key) - 1 : At(m, p).key < e.key
         /\ \A p \in Locate(m, e.key) .. Size(m) - 1 : e.key < At(m, p).key
<1>1. /\ e.key \in Int /\ \A x \in Live(m) : x.key # e.key
      /\ \A p \in Locate(m, e.key) .. Size(m) - 1 : e.key < At(m, p).key
  BY OccupiedFacts, CellFacts
<1>2. PutIn(m, e) = Live(m) \cup {e} /\ e \notin Live(m)
  BY <1>1 DEF PutIn, OneLess
<1>3. IsFiniteSet(PutIn(m, e)) /\ Cardinality(PutIn(m, e)) = Size(m) + 1 /\ PutIn(m, e) \subseteq Cell
  BY <1>2, LiveFacts, FS_AddElement
<1>. QED
  BY <1>1, <1>2, <1>3, LocateFacts

(* The positions of r are those of m with e before position l ...          *)
Widens(m, r, l, e) ==
  /\ Size(m) \in Nat /\ Size(r) = Size(m) + 1 /\ l \in 0 .. Size(m)
  /\ \A p \in 0 .. Size(m) :
       At(r, p) = IF p < l THEN At(m, p) ELSE IF p = l THEN e ELSE At(m, p - 1)

(* ... so its entries are those of m and e.                                *)
LEMMA Widened ==
  ASSUME NEW m, NEW r, NEW l, NEW e, Widens(m, r, l, e)
  PROVE  Live(r) = Live(m) \cup {e}
<1>. USE DEF Widens
<1>1. Live(r) = {At(r, p) : p \in 0 .. Size(m)}
  <2>1. Size(r) - 1 = Size(m)
    OBVIOUS
  <2>. QED
    BY <2>1 DEF Live
<1>2. ASSUME NEW x \in Live(r) PROVE x \in Live(m) \cup {e}
  <2>1. PICK p \in 0 .. Size(m) : x = At(r, p)
    BY <1>1, <1>2
  <2>2. CASE p < l
    <3>1. p \in 0 .. Size(m) - 1
      BY <2>2
    <3>. QED
      BY <2>1, <2>2, <3>1 DEF Live
  <2>3. CASE p = l
    BY <2>1, <2>3
  <2>4. CASE p > l
    <3>1. p - 1 \in 0 .. Size(m) - 1 /\ ~(p < l) /\ p # l
      BY <2>4
    <3>. QED
      BY <2>1, <3>1 DEF Live
  <2>. QED
    BY <2>2, <2>3, <2>4
<1>3. e \in Live(r)
  BY <1>1
<1>4. ASSUME NEW p \in 0 .. Size(m) - 1 PROVE At(m, p) \in Live(r)
  <2>1. CASE p < l
    <3>1. p \in 0 .. Size(m)
      OBVIOUS
    <3>. QED
      BY <1>1, <2>1, <3>1
  <2>2. CASE p >= l
    <3>1. p + 1 \in 0 .. Size(m) /\ ~(p + 1 < l) /\ p + 1 # l /\ p + 1 - 1 = p
      BY <2>2
    <3>2. At(r, p + 1) = At(m, p)
      BY <3>1
    <3>. QED
      BY <1>1, <3>1, <3>2
  <2>. QED
    BY <2>1, <2>2
<1>. QED
  BY <1>2, <1>3, <1>4 DEF Live

(* ... of one that is not takes a free cell ...                            *)
LEMMA InsertWithRoom ==
  ASSUME NEW m, Solid(m), NEW e \in Cell, ~Occupied(m, e.key), ~IsFull(m)
  PROVE  InsertIsPlain(m, e)
<1>. DEFINE l == Locate(m, e.key)
            r == InsertAt(m, l, e)
<1>1. /\ l \in 0 .. Size(m) /\ PutIn(m, e) = Live(m) \cup {e} /\ Cardinality(PutIn(m, e)) = Size(m) + 1
      /\ \A p \in 0 .. l - 1 : At(m, p).key < e.key
      /\ \A p \in l .. Size(m) - 1 : e.key < At(m, p).key
  BY PutFacts
<1>2. Insert(m, e) = [map |-> r, ok |-> TRUE, pos |-> l, out |-> Vacant]
  BY DEF Insert
<1>. HIDE DEF l
<1>3. /\ Solid(r) /\ Size(r) = Size(m) + 1
      /\ \A p \in 0 .. Size(m) :
           At(r, p) = IF p < l THEN At(m, p) ELSE IF p = l THEN e ELSE At(m, p - 1)
  BY <1>1, InsertAtFacts
<1>. HIDE DEF r
<1>4. Size(m) \in Nat /\ Size(r) \in 0 .. Window
  BY <1>3, SolidFacts
<1>5. Live(r) = Live(m) \cup {e}
  <2>1. Widens(m, r, l, e)
    BY <1>1, <1>3, <1>4 DEF Widens
  <2>. QED
    BY <2>1, Widened
<1>6. Fits(PutIn(m, e)) = PutIn(m, e)
  <2>1. ~(Cardinality(PutIn(m, e)) > Window)
    BY <1>1, <1>3, <1>4, WindowAssumption
  <2>. QED
    BY <2>1 DEF Fits
<1>7. Live(r) = Fits(PutIn(m, e)) /\ e \in Fits(PutIn(m, e))
  BY <1>1, <1>5, <1>6
<1>. QED
  BY <1>2, <1>3, <1>6, <1>7 DEF InsertIsPlain, l

(* ... or the worst entry goes for it, unless it is itself the worst.      *)
LEMMA InsertWhenFull ==
  ASSUME NEW m, Solid(m), NEW e \in Cell, ~Occupied(m, e.key), IsFull(m)
  PROVE  InsertIsPlain(m, e)
<1>. DEFINE l == Locate(m, e.key)
            w == Worst(m)
            x == EvictLast(m)
            r == InsertAt(x, l, e)
<1>1. /\ l \in 0 .. Size(m) /\ PutIn(m, e) = Live(m) \cup {e} /\ Cardinality(PutIn(m, e)) = Size(m) + 1
      /\ e \notin Live(m) /\ PutIn(m, e) \subseteq Cell
      /\ \A p \in 0 .. l - 1 : At(m, p).key < e.key
      /\ \A p \in l .. Size(m) - 1 : e.key < At(m, p).key
  BY PutFacts
<1>2. Size(m) = Window /\ Window \in Nat \ {0} /\ m.base = 0
  BY SolidFacts, WindowAssumption DEF IsFull
<1>3. Cardinality(PutIn(m, e)) > Window
  BY <1>1, <1>2
<1>4. Fits(PutIn(m, e)) = PutIn(m, e) \ {TheWorst(PutIn(m, e))}
  BY <1>3 DEF Fits
<1>5. \A o \in PutIn(m, e) : o.key \in Int
  BY <1>1, CellFacts
<1>6. CASE l = Size(m)
  <2>1. Insert(m, e) = [map |-> m, ok |-> FALSE, pos |-> l, out |-> e]
    BY <1>6 DEF Insert
  <2>2. \A o \in Live(m) : o.key < e.key
    BY <1>1, <1>6 DEF Live
  <2>3. e \in PutIn(m, e) /\ \A o \in PutIn(m, e) : o # e => o.key < e.key
    BY <1>1, <2>2
  <2>4. TheWorst(PutIn(m, e)) = e
    BY <1>5, <2>3, WorstFacts
  <2>5. Fits(PutIn(m, e)) = Live(m) /\ Live(m) # PutIn(m, e)
    BY <1>1, <1>4, <2>4
  <2>6. Fits(PutIn(m, e)) # PutIn(m, e) /\ e \notin Fits(PutIn(m, e))
    BY <1>1, <2>5
  <2>. QED
    BY <2>1, <2>4, <2>5, <2>6 DEF InsertIsPlain
<1>7. CASE l # Size(m)
  <2>0. l \in 0 .. Size(m) - 1 /\ Size(m) - 1 \in 0 .. Size(m) - 1
    BY <1>1, <1>2, <1>7
  <2>1. Insert(m, e) = [map |-> r, ok |-> TRUE, pos |-> l, out |-> w]
    BY <1>7 DEF Insert
  <2>2. w = At(m, Size(m) - 1) /\ w \in Live(m)
    BY <1>2, <2>0 DEF Worst, At, Live
  <2>3. /\ Solid(x) /\ Size(x) = Size(m) - 1 /\ x.base = 1
        /\ \A p \in 0 .. Size(m) - 2 : At(x, p) = At(m, p)
    <3>1. x = RemoveAt(m, Size(m) - 1)
      BY DEF EvictLast
    <3>2. /\ Solid(x) /\ x.base = m.base + 1 /\ Size(x) = Size(m) - 1
          /\ \A p \in 0 .. Size(m) - 2 : At(x, p) = IF p < Size(m) - 1 THEN At(m, p) ELSE At(m, p + 1)
      BY <2>0, <3>1, RemoveAtFacts
    <3>3. \A p \in 0 .. Size(m) - 2 : p < Size(m) - 1
      BY <1>2
    <3>. QED
      BY <1>2, <3>2, <3>3
  <2>. HIDE DEF x, w, l
  <2>4. Live(x) = Live(m) \ {w}
    <3>1. \A p \in 0 .. Size(m) - 1 : p \in 0 .. Size(m) - 2 \/ p = Size(m) - 1
      BY <1>2
    <3>2. \A p \in 0 .. Size(m) - 2 :
            p \in 0 .. Size(m) - 1 /\ At(m, p).key < At(m, Size(m) - 1).key /\ At(m, p).key \in Int
      BY <1>2, <2>0, SolidFacts, CellFacts
    <3>3. \A p \in 0 .. Size(m) - 2 : At(m, p) # w
      BY <2>2, <3>2
    <3>4. Size(x) - 1 = Size(m) - 2
      BY <1>2, <2>3
    <3>5. Live(x) = {At(m, p) : p \in 0 .. Size(m) - 2}
      BY <2>3, <3>4 DEF Live
    <3>6. Live(m) = {At(m, p) : p \in 0 .. Size(m) - 1}
      BY DEF Live
    <3>. QED
      BY <2>2, <3>1, <3>2, <3>3, <3>5, <3>6
  <2>5. /\ Solid(r) /\ Size(r) = Size(x) + 1
        /\ \A p \in 0 .. Size(x) :
             At(r, p) = IF p < l THEN At(x, p) ELSE IF p = l THEN e ELSE At(x, p - 1)
    <3>1. l \in 0 .. Size(x) /\ ~IsFull(x)
      BY <1>2, <2>0, <2>3 DEF IsFull
    <3>2. \A p \in 0 .. l - 1 : At(x, p).key < e.key
      <4>1. \A p \in 0 .. l - 1 : p \in 0 .. Size(m) - 2
        BY <1>2, <2>0
      <4>. QED
        BY <1>1, <2>3, <4>1
    <3>3. \A p \in l .. Size(x) - 1 : e.key < At(x, p).key
      <4>1. \A p \in l .. Size(x) - 1 : p \in 0 .. Size(m) - 2 /\ p \in l .. Size(m) - 1
        BY <1>2, <2>0, <2>3
      <4>. QED
        BY <1>1, <2>3, <4>1
    <3>. QED
      BY <2>3, <3>1, <3>2, <3>3, InsertAtFacts
  <2>. HIDE DEF r
  <2>6. Live(r) = Live(x) \cup {e}
    <3>1. Size(x) \in Nat /\ l \in 0 .. Size(x)
      BY <1>2, <2>0, <2>3
    <3>2. Widens(x, r, l, e)
      BY <2>5, <3>1 DEF Widens
    <3>. QED
      BY <3>2, Widened
  <2>7. TheWorst(PutIn(m, e)) = w
    <3>1. e.key < w.key
      <4>1. Size(m) - 1 \in l .. Size(m) - 1
        BY <1>2, <2>0
      <4>. QED
        BY <1>1, <2>2, <4>1
    <3>2. \A o \in Live(m) : o # w => o.key < w.key
      <4>1. \A p \in 0 .. Size(m) - 1 : p = Size(m) - 1 \/ p < Size(m) - 1
        BY <1>2
      <4>. QED
        BY <2>0, <2>2, <4>1, SolidFacts DEF Live
    <3>3. w \in PutIn(m, e) /\ \A o \in PutIn(m, e) : o # w => o.key < w.key
      BY <1>1, <2>2, <3>1, <3>2
    <3>. QED
      BY <1>5, <3>3, WorstFacts
  <2>8. Fits(PutIn(m, e)) = (Live(m) \ {w}) \cup {e} /\ w \notin Fits(PutIn(m, e)) /\ w \in PutIn(m, e)
    BY <1>1, <1>4, <2>2, <2>7
  <2>. QED
    BY <2>1, <2>4, <2>5, <2>6, <2>7, <2>8 DEF InsertIsPlain, l
<1>. QED
  BY <1>6, <1>7

(* insert is the insert of the plain map.                                  *)
LEMMA InsertFacts ==
  ASSUME NEW m, Solid(m), NEW e \in Cell
  PROVE  InsertIsPlain(m, e)
BY InsertOccupied, InsertWithRoom, InsertWhenFull

(* remove is the remove of the plain map.                                  *)
LEMMA RemoveFacts ==
  ASSUME NEW m, Solid(m), NEW k \in Int
  PROVE  Solid(Remove(m, k)) /\ Live(Remove(m, k)) = OneLess(m, k)
<1>1. CASE ~Occupied(m, k)
  <2>1. Remove(m, k) = m
    BY <1>1 DEF Remove
  <2>2. \A x \in Live(m) : x.key # k
    BY <1>1, OccupiedFacts
  <2>. QED
    BY <2>1, <2>2 DEF OneLess
<1>2. CASE Occupied(m, k)
  <2>. DEFINE l == Locate(m, k)
              r == RemoveAt(m, l)
  <2>1. Remove(m, k) = r
    BY <1>2 DEF Remove
  <2>2. /\ l \in 0 .. Size(m) - 1 /\ At(m, l).key = k /\ Size(m) \in Nat
        /\ \A p \in 0 .. Size(m) - 1 : At(m, p).key = k => p = l
    BY <1>2, OccupiedFacts, SolidFacts
  <2>. HIDE DEF l
  <2>3. /\ Solid(r) /\ Size(r) = Size(m) - 1
        /\ \A p \in 0 .. Size(m) - 2 : At(r, p) = IF p < l THEN At(m, p) ELSE At(m, p + 1)
    BY <2>2, RemoveAtFacts
  <2>. HIDE DEF r
  <2>4. Live(r) = {At(r, p) : p \in 0 .. Size(m) - 2}
    <3>1. Size(r) - 1 = Size(m) - 2
      BY <2>2, <2>3
    <3>. QED
      BY <3>1 DEF Live
  <2>5. ASSUME NEW p \in 0 .. Size(m) - 2 PROVE At(r, p) \in OneLess(m, k)
    <3>1. CASE p < l
      <4>1. p \in 0 .. Size(m) - 1 /\ p # l
        BY <2>2, <3>1
      <4>. QED
        BY <2>2, <2>3, <3>1, <4>1 DEF OneLess, Live
    <3>2. CASE ~(p < l)
      <4>1. p + 1 \in 0 .. Size(m) - 1 /\ p + 1 # l
        BY <2>2, <3>2
      <4>. QED
        BY <2>2, <2>3, <3>2, <4>1 DEF OneLess, Live
    <3>. QED
      BY <3>1, <3>2
  <2>6. ASSUME NEW p \in 0 .. Size(m) - 1, At(m, p).key # k PROVE At(m, p) \in Live(r)
    <3>1. CASE p < l
      <4>1. p \in 0 .. Size(m) - 2
        BY <2>2, <3>1
      <4>. QED
        BY <2>3, <2>4, <3>1, <4>1
    <3>2. CASE p > l
      <4>1. p - 1 \in 0 .. Size(m) - 2 /\ ~(p - 1 < l) /\ p - 1 + 1 = p
        BY <2>2, <3>2
      <4>2. At(r, p - 1) = At(m, p)
        BY <2>3, <4>1
      <4>. QED
        BY <2>4, <4>1, <4>2
    <3>. QED
      BY <2>2, <2>6, <3>1, <3>2
  <2>. QED
    BY <2>1, <2>3, <2>4, <2>5, <2>6 DEF OneLess, Live
<1>. QED
  BY <1>1, <1>2

-----------------------------------------------------------------------------
(* Batches, and the steps of the map *)

(* The types of a batch under way: a drain ...                             *)
DrainType ==
  [op : {"drain"}, it : [next : 0 .. Window, end : 0 .. Window, from : 0 .. Window, to : 0 .. Window],
   was : MapType]

(* ... and a fill.                                                         *)
FillType ==
  [op : {"fill"}, it : [start : 0 .. Window, filled : 0 .. Window, count : 0 .. Window], was : MapType]

(* During a drain the map disowns its cells; those of the entries that     *)
(* stay and of those not yet yielded are as they were, the rest vacant.    *)
DrainSound(m, d, was) ==
  /\ Solid(was) /\ m \in MapType /\ m.base = Window
  /\ d.from = was.base /\ d.from <= d.to /\ d.to <= d.next /\ d.next <= d.end
  /\ \A i \in Cells :
       m.cells[i] = IF i < d.to \/ (d.next <= i /\ i < d.end) THEN was.cells[i] ELSE Vacant

(* During a fill it disowns them too; the old entries have been moved to   *)
(* the left of those written so far, and the keys rise over both.          *)
FillSound(m, f, was) ==
  /\ Solid(was) /\ m \in MapType /\ m.base = Window
  /\ f.count <= was.base /\ f.filled <= f.count /\ f.start = was.base - f.count
  /\ \A i \in Cells :
       /\ i < f.start => m.cells[i] = Vacant
       /\ f.start <= i /\ i < Window - f.count => m.cells[i] = was.cells[i + f.count]
       /\ Window - f.count <= i /\ i < Window - f.count + f.filled => m.cells[i] \in Cell
       /\ i >= Window - f.count + f.filled => m.cells[i] = Vacant
  /\ \A i, j \in Cells :
       f.start <= i /\ i < j /\ j < Window - f.count + f.filled => m.cells[i].key < m.cells[j].key

(* The inductive invariant of the map.                                     *)
MapSound ==
  \/ busy = Free /\ Solid(map)
  \/ busy \in DrainType /\ DrainSound(map, busy.it, busy.was)
  \/ busy \in FillType /\ FillSound(map, busy.it, busy.was)

(* The empty map.                                                          *)
LEMMA EmptyIsSolid == Solid(Empty) /\ Size(Empty) = 0 /\ Empty.base = Window
<1>1. /\ Empty \in MapType /\ Empty.base = Window
      /\ \A i \in Cells : Empty.cells[i] = Vacant /\ i < Window
  BY WindowAssumption DEF Empty, MapType, Cells
<1>2. Size(Empty) = 0
  BY <1>1, WindowAssumption DEF Size
<1>3. \A p \in 0 .. Size(Empty) - 1 : FALSE
  BY <1>2
<1>. QED
  BY <1>1, <1>2, <1>3, SolidFromAt

(* Two maps alike in their first positions are alike in that order.        *)
LEMMA PrefixOf ==
  ASSUME NEW m, Solid(m), NEW r, Solid(r), Size(r) <= Size(m),
         \A p \in 0 .. Size(r) - 1 : At(r, p) = At(m, p)
  PROVE  SubSeq(InOrder(m), 1, Size(r)) = InOrder(r)
<1>. DEFINE n == Size(r)
<1>1. n \in Nat /\ Size(m) \in Nat /\ n <= Size(m)
  BY SolidFacts
<1>2. \A i \in 1 .. Size(m) : i - 1 \in 0 .. Size(m) - 1 /\ At(m, i - 1) \in Cell
  BY <1>1, SolidFacts
<1>3. /\ InOrder(m) \in Seq(Cell) /\ Len(InOrder(m)) = Size(m)
      /\ \A i \in 1 .. Size(m) : InOrder(m)[i] = At(m, i - 1)
  BY <1>1, <1>2 DEF InOrder
<1>4. InOrder(r) = [i \in 1 .. n |-> At(m, i - 1)]
  <2>1. \A i \in 1 .. n : i - 1 \in 0 .. Size(r) - 1
    BY <1>1
  <2>. QED
    BY <2>1 DEF InOrder
<1>. HIDE DEF n
<1>5. SubSeq(InOrder(m), 1, n) = [i \in 1 .. n |-> InOrder(m)[i]]
  <2>1. 1 \in 1 .. Len(InOrder(m)) + 1 /\ n \in 1 - 1 .. Len(InOrder(m))
    BY <1>1, <1>3
  <2>2. n - 1 + 1 = n /\ \A i \in 1 .. n : 1 + i - 1 = i
    BY <1>1
  <2>. QED
    BY <1>1, <1>3, <2>1, <2>2, SubSeqProperties
<1>6. \A i \in 1 .. n : i \in 1 .. Size(m)
  BY <1>1
<1>. QED
  BY <1>3, <1>4, <1>5, <1>6 DEF n

(* The drop of a drain, at whatever point, moves the entries that stay to  *)
(* the end: a solid map of them.                                           *)
LEMMA RestoreFacts ==
  ASSUME NEW m, NEW d \in [next : 0 .. Window, end : 0 .. Window, from : 0 .. Window, to : 0 .. Window],
         NEW was, DrainSound(m, d, was)
  PROVE  LET r == Restore(m, d)
         IN  /\ Solid(r) /\ Size(r) = d.to - d.from /\ Size(r) <= Size(was)
             /\ \A p \in 0 .. Size(r) - 1 : At(r, p) = At(was, p)
             /\ \A i \in d.next .. d.end - 1 : m.cells[i] = was.cells[i]
<1>. DEFINE e == [i \in Cells |-> IF i \in d.next .. d.end - 1 THEN Vacant ELSE m.cells[i]]
            n == Window - d.to
            c == Copy(e, d.from, d.from + n, d.to - d.from)
            r == Restore(m, d)
<1>1. /\ Window \in Nat /\ d.from \in Nat /\ d.to \in Nat /\ d.next \in Nat /\ d.end \in Nat
      /\ d.from <= d.to /\ d.to <= d.next /\ d.next <= d.end /\ d.end <= Window
      /\ was.base = d.from /\ n \in Nat /\ Size(was) = Window - d.from
      /\ m.cells \in [Cells -> Cell \cup {Vacant}]
      /\ \A i \in Cells :
       m.cells[i] = IF i < d.to \/ (d.next <= i /\ i < d.end) THEN was.cells[i] ELSE Vacant
      /\ \A i \in Cells : i < d.from => was.cells[i] = Vacant
  <2>1. /\ Window \in Nat /\ d.from \in Nat /\ d.to \in Nat /\ d.next \in Nat /\ d.end \in Nat
        /\ d.end <= Window /\ d.to <= Window
    BY WindowAssumption
  <2>. QED
    BY <2>1, SolidFacts DEF DrainSound, MapType
<1>2. /\ e \in [Cells -> Cell \cup {Vacant}]
      /\ \A i \in Cells : e[i] = IF i < d.to THEN was.cells[i] ELSE Vacant
  <2>1. \A i \in Cells : i \in Int /\ (i \in d.next .. d.end - 1 <=> d.next <= i /\ i < d.end)
                         /\ (i < d.to => ~(d.next <= i))
    BY <1>1 DEF Cells
  <2>. QED
    BY <1>1, <2>1
<1>. HIDE DEF e
<1>3. /\ c \in [Cells -> Cell \cup {Vacant}]
      /\ \A i \in Cells : c[i] = IF i \in d.from + n .. d.from + n + (d.to - d.from) - 1
                                 THEN e[i - (d.from + n) + d.from]
                                 ELSE IF i \in d.from .. d.from + (d.to - d.from) - 1 THEN Vacant ELSE e[i]
  <2>1. d.from + n \in Int /\ d.to - d.from \in Int /\ d.from + (d.to - d.from) <= Window
    BY <1>1
  <2>. QED
    BY <1>1, <1>2, <2>1, CopyFacts
<1>4. r = [base |-> d.from + n, cells |-> c]
  BY DEF Restore, e
<1>. HIDE DEF c, r
<1>5. r \in MapType /\ r.base = d.from + n /\ r.cells = c /\ Size(r) = d.to - d.from /\ Size(r) \in Nat
  <2>1. d.from + n \in 0 .. Window
    BY <1>1
  <2>2. r \in MapType /\ r.base = d.from + n /\ r.cells = c
    BY <1>3, <1>4, <2>1 DEF MapType
  <2>. QED
    BY <1>1, <2>2 DEF Size
<1>6. \A i \in Cells : c[i] = IF i < d.from + n THEN Vacant ELSE was.cells[i - n]
  <2>. SUFFICES ASSUME NEW i \in Cells PROVE c[i] = IF i < d.from + n THEN Vacant ELSE was.cells[i - n]
    OBVIOUS
  <2>0. i \in Int /\ i < Window
    BY <1>1 DEF Cells
  <2>1. /\ i \in Int /\ i - (d.from + n) + d.from = i - n /\ i < Window
        /\ (i \in d.from + n .. d.from + n + (d.to - d.from) - 1 <=> i >= d.from + n)
        /\ (i \in d.from .. d.from + (d.to - d.from) - 1 <=> d.from <= i /\ i < d.to)
    BY <1>1, <2>0
  <2>2. CASE i >= d.from + n
    <3>1. c[i] = e[i - n] /\ ~(i < d.from + n)
      BY <1>1, <1>3, <2>1, <2>2
    <3>0. i - n \in Nat /\ i - n < d.to /\ i - n <= Window - 1
      BY <1>1, <2>1, <2>2
    <3>2. i - n \in Cells /\ i - n < d.to
      BY <1>1, <3>0 DEF Cells
    <3>. QED
      BY <1>2, <3>1, <3>2
  <2>3. CASE i < d.from + n
    <3>1. c[i] = IF d.from <= i /\ i < d.to THEN Vacant ELSE e[i]
      BY <1>1, <1>3, <2>1, <2>3
    <3>2. ~(d.from <= i /\ i < d.to) => e[i] = Vacant
      BY <1>1, <1>2, <2>1
    <3>. QED
      BY <2>3, <3>1, <3>2
  <2>. QED
    BY <1>1, <2>1, <2>2, <2>3
<1>7. \A p \in 0 .. Size(r) - 1 : p \in 0 .. Size(was) - 1 /\ At(r, p) = At(was, p)
  <2>. SUFFICES ASSUME NEW p \in 0 .. Size(r) - 1
                PROVE  p \in 0 .. Size(was) - 1 /\ At(r, p) = At(was, p)
    OBVIOUS
  <2>1. p \in Nat /\ p < d.to - d.from
    BY <1>5
  <2>2. /\ d.from + n + p \in Cells /\ ~(d.from + n + p < d.from + n) /\ d.from + n + p - n = d.from + p
        /\ p \in 0 .. Size(was) - 1
    <3>1. \A k \in Nat : k < Window => k \in Cells
      BY <1>1 DEF Cells
    <3>2. d.from + n + p \in Nat /\ d.from + n + p < Window
      BY <1>1, <2>1
    <3>3. ~(d.from + n + p < d.from + n) /\ d.from + n + p - n = d.from + p
      BY <1>1, <2>1
    <3>4. p \in 0 .. Size(was) - 1
      BY <1>1, <2>1
    <3>. QED
      BY <3>1, <3>2, <3>3, <3>4
  <2>3. At(r, p) = c[d.from + n + p]
    BY <1>5 DEF At
  <2>4. c[d.from + n + p] = was.cells[d.from + n + p - n]
    BY <1>1, <1>6, <2>1, <2>2
  <2>. QED
    BY <1>1, <2>2, <2>3, <2>4 DEF At
<1>8. Solid(r)
  <2>0. Solid(was)
    BY DEF DrainSound
  <2>1. \A i \in Cells : i < r.base => r.cells[i] = Vacant
    BY <1>5, <1>6
  <2>2. \A p \in 0 .. Size(r) - 1 : At(r, p) \in Cell
    BY <1>7, <2>0, SolidFacts
  <2>3. \A p, q \in 0 .. Size(r) - 1 : p < q => At(r, p).key < At(r, q).key
    BY <1>7, <2>0, SolidFacts
  <2>. QED
    BY <1>5, <2>1, <2>2, <2>3, SolidFromAt
<1>9. \A i \in d.next .. d.end - 1 : m.cells[i] = was.cells[i]
  <2>1. \A i \in d.next .. d.end - 1 : i \in Cells /\ d.next <= i /\ i < d.end
    BY <1>1 DEF Cells
  <2>. QED
    BY <1>1, <2>1
<1>10. Size(r) <= Size(was)
  BY <1>1, <1>5
<1>. QED
  BY <1>5, <1>7, <1>8, <1>9, <1>10 DEF r

(* The end of a fill, at whatever point, moves old and new to the end: a   *)
(* solid map of both.                                                      *)
LEMMA CloseGapFacts ==
  ASSUME NEW m, NEW f \in [start : 0 .. Window, filled : 0 .. Window, count : 0 .. Window],
         NEW was, FillSound(m, f, was)
  PROVE  LET r == CloseGap(m, f)
         IN  /\ Solid(r) /\ Size(r) = Size(was) + f.filled
             /\ \A p \in 0 .. Size(was) - 1 : At(r, p) = At(was, p)
             /\ \A p \in 0 .. Size(r) - 1 : f.start + p \in Cells /\ At(r, p) = m.cells[f.start + p]
<1>. DEFINE s == f.start
            n == f.count - f.filled
            c == Copy(m.cells, s, s + n, Window - n - s)
            r == CloseGap(m, f)
            top == Window - f.count + f.filled
<1>1. /\ Window \in Nat /\ s \in Nat /\ f.count \in Nat /\ f.filled \in Nat /\ f.filled <= f.count
      /\ f.count <= was.base /\ s = was.base - f.count /\ was.base \in Nat /\ was.base <= Window
      /\ n \in Nat /\ s + n <= Window /\ top = Window - n /\ top \in Nat
      /\ Size(was) = Window - was.base
      /\ m.cells \in [Cells -> Cell \cup {Vacant}]
  <2>1. Window \in Nat /\ s \in Nat /\ f.count \in Nat /\ f.filled \in Nat
    BY WindowAssumption
  <2>2. /\ f.filled <= f.count /\ f.count <= was.base /\ s = was.base - f.count
        /\ was.base \in 0 .. Window /\ Size(was) = Window - was.base
        /\ m.cells \in [Cells -> Cell \cup {Vacant}]
    BY SolidFacts DEF FillSound, MapType
  <2>. QED
    BY <2>1, <2>2
<1>2. /\ Solid(was)
      /\ \A i \in Cells :
           /\ i < s => m.cells[i] = Vacant
           /\ s <= i /\ i < Window - f.count => m.cells[i] = was.cells[i + f.count]
           /\ Window - f.count <= i /\ i < top => m.cells[i] \in Cell
           /\ i >= top => m.cells[i] = Vacant
      /\ \A i, j \in Cells : s <= i /\ i < j /\ j < top => m.cells[i].key < m.cells[j].key
  BY DEF FillSound
<1>3. /\ c \in [Cells -> Cell \cup {Vacant}]
      /\ \A i \in Cells : c[i] = IF i \in s + n .. s + n + (Window - n - s) - 1 THEN m.cells[i - (s + n) + s]
                                 ELSE IF i \in s .. s + (Window - n - s) - 1 THEN Vacant ELSE m.cells[i]
  <2>1. s \in Nat /\ s + n \in Int /\ Window - n - s \in Int /\ s + (Window - n - s) <= Window
    BY <1>1
  <2>. QED
    BY <1>1, <2>1, CopyFacts
<1>4. r = [base |-> s + n, cells |-> c]
  BY DEF CloseGap
<1>. HIDE DEF c, r, n, top
<1>5. r \in MapType /\ r.base = s + n /\ r.cells = c /\ Size(r) = top - s
      /\ Size(r) = Size(was) + f.filled
  <2>1. s + n \in 0 .. Window
    BY <1>1
  <2>2. r \in MapType /\ r.base = s + n /\ r.cells = c
    BY <1>3, <1>4, <2>1 DEF MapType
  <2>. QED
    BY <1>1, <2>2 DEF Size, n, top
<1>6. \A i \in Cells : c[i] = IF i < s + n THEN Vacant ELSE m.cells[i - n]
  <2>. SUFFICES ASSUME NEW i \in Cells PROVE c[i] = IF i < s + n THEN Vacant ELSE m.cells[i - n]
    OBVIOUS
  <2>0. i \in Int /\ 0 <= i /\ i < Window
    BY <1>1 DEF Cells
  <2>1. /\ i \in Int /\ i - (s + n) + s = i - n /\ i < Window
        /\ (i \in s + n .. s + n + (Window - n - s) - 1 <=> i >= s + n)
        /\ (i \in s .. s + (Window - n - s) - 1 <=> s <= i /\ i < top)
    BY <1>1, <2>0
  <2>2. CASE i >= s + n
    <3>1. c[i] = m.cells[i - n] /\ ~(i < s + n)
      BY <1>1, <1>3, <2>1, <2>2
    <3>. QED
      BY <3>1
  <2>3. CASE i < s + n
    <3>1. c[i] = IF s <= i /\ i < top THEN Vacant ELSE m.cells[i]
      BY <1>1, <1>3, <2>1, <2>3
    <3>2. ~(s <= i /\ i < top) => m.cells[i] = Vacant
      BY <1>1, <1>2, <2>1
    <3>. QED
      BY <2>3, <3>1, <3>2
  <2>. QED
    BY <1>1, <2>1, <2>2, <2>3
<1>7. \A p \in 0 .. Size(r) - 1 : s + p \in Cells /\ s + p < top /\ At(r, p) = m.cells[s + p]
  <2>. SUFFICES ASSUME NEW p \in 0 .. Size(r) - 1
                PROVE  s + p \in Cells /\ s + p < top /\ At(r, p) = m.cells[s + p]
    OBVIOUS
  <2>1. p \in Nat /\ p < top - s
    BY <1>1, <1>5
  <2>2. s + p < top /\ top <= Window /\ s + p \in Nat /\ s + n + p \in Nat /\ s + n + p < Window
    BY <1>1, <2>1
  <2>a. s + p < Window /\ ~(s + n + p < s + n) /\ s + n + p - n = s + p
    BY <1>1, <2>1, <2>2
  <2>b. \A i \in Nat : i < Window => i \in Cells
    BY <1>1 DEF Cells
  <2>3. s + p \in Cells /\ s + n + p \in Cells /\ ~(s + n + p < s + n) /\ s + n + p - n = s + p
    BY <2>2, <2>a, <2>b
  <2>4. At(r, p) = c[s + n + p]
    BY <1>5 DEF At
  <2>5. c[s + n + p] = m.cells[s + n + p - n]
    BY <1>1, <1>6, <2>1, <2>3
  <2>. QED
    BY <2>2, <2>3, <2>4, <2>5
<1>8. \A p \in 0 .. Size(was) - 1 :
        p \in 0 .. Size(r) - 1 /\ s + p < Window - f.count /\ m.cells[s + p] = At(was, p)
  <2>. SUFFICES ASSUME NEW p \in 0 .. Size(was) - 1
                PROVE  p \in 0 .. Size(r) - 1 /\ s + p < Window - f.count /\ m.cells[s + p] = At(was, p)
    OBVIOUS
  <2>1. /\ p \in 0 .. Size(r) - 1 /\ p \in Nat /\ s + p < Window - f.count /\ s <= s + p
        /\ s + p + f.count = was.base + p
    BY <1>1, <1>5
  <2>2. m.cells[s + p] = was.cells[s + p + f.count]
    BY <1>2, <1>7, <2>1
  <2>. QED
    BY <2>1, <2>2 DEF At
<1>9. \A p \in 0 .. Size(r) - 1 : At(r, p) \in Cell
  <2>. SUFFICES ASSUME NEW p \in 0 .. Size(r) - 1 PROVE m.cells[s + p] \in Cell
    BY <1>7
  <2>1. p \in Nat /\ s + p \in Cells /\ s + p < top
    BY <1>1, <1>5, <1>7
  <2>2. CASE s + p < Window - f.count
    <3>1. p \in 0 .. Size(was) - 1
      BY <1>1, <2>1, <2>2
    <3>. QED
      BY <1>2, <1>8, <3>1, SolidFacts
  <2>3. CASE Window - f.count <= s + p
    BY <1>2, <2>1, <2>3
  <2>. QED
    BY <1>1, <2>1, <2>2, <2>3
<1>10. \A p, q \in 0 .. Size(r) - 1 : p < q => At(r, p).key < At(r, q).key
  <2>. SUFFICES ASSUME NEW p \in 0 .. Size(r) - 1, NEW q \in 0 .. Size(r) - 1, p < q
                PROVE  m.cells[s + p].key < m.cells[s + q].key
    BY <1>7
  <2>1. s <= s + p /\ s + p < s + q
    BY <1>1, <1>5
  <2>. QED
    BY <1>2, <1>7, <2>1
<1>11. \A i \in Cells : i < r.base => r.cells[i] = Vacant
  BY <1>5, <1>6
<1>12. Solid(r)
  BY <1>5, <1>9, <1>10, <1>11, SolidFromAt
<1>. QED
  BY <1>5, <1>7, <1>8, <1>12 DEF r

(* So a batch can be cut short anywhere.                                   *)
LEMMA BatchFacts ==
  MapSound => BatchIsExact
<1>. SUFFICES ASSUME MapSound PROVE BatchIsExact
  OBVIOUS
<1>1. CASE busy = Free /\ Solid(map)
  BY <1>1 DEF BatchIsExact, Free
<1>2. CASE busy \in DrainType /\ DrainSound(map, busy.it, busy.was)
  <2>. DEFINE r == Restore(map, busy.it)
  <2>1. /\ busy.op = "drain"
        /\ busy.it \in [next : 0 .. Window, end : 0 .. Window, from : 0 .. Window, to : 0 .. Window]
    BY <1>2 DEF DrainType
  <2>2. /\ Solid(r) /\ Size(r) = busy.it.to - busy.it.from /\ Size(r) <= Size(busy.was)
        /\ \A p \in 0 .. Size(r) - 1 : At(r, p) = At(busy.was, p)
        /\ \A i \in busy.it.next .. busy.it.end - 1 : map.cells[i] = busy.was.cells[i]
    <3>. DEFINE m == map
                d == busy.it
                was == busy.was
    <3>1. d \in [next : 0 .. Window, end : 0 .. Window, from : 0 .. Window, to : 0 .. Window]
          /\ DrainSound(m, d, was)
      BY <1>2, <2>1
    <3>. HIDE DEF m, d, was
    <3>2. LET s == Restore(m, d)
          IN  /\ Solid(s) /\ Size(s) = d.to - d.from /\ Size(s) <= Size(was)
              /\ \A p \in 0 .. Size(s) - 1 : At(s, p) = At(was, p)
              /\ \A i \in d.next .. d.end - 1 : m.cells[i] = was.cells[i]
      BY <3>1, RestoreFacts
    <3>. QED
      BY <3>2, Zenon DEF m, d, was
  <2>3. Solid(busy.was)
    BY <1>2 DEF DrainSound
  <2>. HIDE DEF r
  <2>4. SubSeq(InOrder(busy.was), 1, Size(r)) = InOrder(r)
    BY <2>2, <2>3, PrefixOf
  <2>. QED
    BY <2>1, <2>2, <2>4 DEF BatchIsExact, Solid, r
<1>3. CASE busy \in FillType /\ FillSound(map, busy.it, busy.was)
  <2>. DEFINE r == CloseGap(map, busy.it)
  <2>1. /\ busy.op = "fill"
        /\ busy.it \in [start : 0 .. Window, filled : 0 .. Window, count : 0 .. Window]
    BY <1>3 DEF FillType
  <2>2. /\ Solid(r) /\ Size(r) = Size(busy.was) + busy.it.filled
        /\ \A p \in 0 .. Size(busy.was) - 1 : At(r, p) = At(busy.was, p)
    BY <1>3, <2>1, CloseGapFacts
  <2>3. Solid(busy.was)
    BY <1>3 DEF FillSound
  <2>. HIDE DEF r
  <2>4. Size(busy.was) <= Size(r)
    BY <2>1, <2>2, <2>3, SolidFacts
  <2>5. SubSeq(InOrder(r), 1, Size(busy.was)) = InOrder(busy.was)
    BY <2>2, <2>3, <2>4, PrefixOf
  <2>. QED
    BY <2>1, <2>2, <2>5 DEF BatchIsExact, Solid, r
<1>. QED
  BY <1>1, <1>2, <1>3 DEF MapSound

(* The invariant by what the map is busy with.                             *)
LEMMA FreeFacts ==
  MapSound => /\ busy = Free => Solid(map)
              /\ busy.op = "drain" => busy \in DrainType /\ DrainSound(map, busy.it, busy.was)
              /\ busy.op = "fill" => busy \in FillType /\ FillSound(map, busy.it, busy.was)
<1>1. Free.op = "none"
  BY DEF Free
<1>2. \A b \in DrainType : b.op = "drain"
  BY DEF DrainType
<1>3. \A b \in FillType : b.op = "fill"
  BY DEF FillType
<1>. QED
  BY <1>1, <1>2, <1>3, Zenon DEF MapSound

(* The steps that are not of a batch, and those that end one, keep the     *)
(* invariant, ...                                                          *)
LEMMA PlainSteps ==
  ASSUME MapSound,
         \/ \E k \in Keys, v \in Values : Put(k, v)
         \/ \E k \in Keys : Delete(k)
         \/ Clear \/ DropDrain \/ LeakDrain \/ EndFill
  PROVE  MapSound'
<1>1. ASSUME NEW k \in Keys, NEW v \in Values, Put(k, v) PROVE MapSound'
  <2>1. Entry(k, v) \in Cell /\ Solid(map) /\ busy' = Free
    BY <1>1, CellFacts, KeysAssumption, FreeFacts DEF Put
  <2>2. Solid(Insert(map, Entry(k, v)).map)
    BY <2>1, InsertFacts DEF InsertIsPlain
  <2>. QED
    BY <1>1, <2>1, <2>2 DEF Put, MapSound, Free
<1>2. ASSUME NEW k \in Keys, Delete(k) PROVE MapSound'
  BY <1>2, KeysAssumption, RemoveFacts, FreeFacts DEF Delete, MapSound, Free
<1>3. ASSUME Clear \/ LeakDrain PROVE MapSound'
  BY <1>3, EmptyIsSolid DEF Clear, LeakDrain, MapSound, Free
<1>4. ASSUME DropDrain PROVE MapSound'
  <2>1. /\ busy.it \in [next : 0 .. Window, end : 0 .. Window, from : 0 .. Window, to : 0 .. Window]
        /\ DrainSound(map, busy.it, busy.was)
    BY <1>4, FreeFacts DEF DropDrain, DrainType
  <2>2. Solid(Restore(map, busy.it))
    BY <2>1, RestoreFacts
  <2>. QED
    BY <1>4, <2>2 DEF DropDrain, MapSound
<1>5. ASSUME EndFill PROVE MapSound'
  <2>1. /\ busy.it \in [start : 0 .. Window, filled : 0 .. Window, count : 0 .. Window]
        /\ FillSound(map, busy.it, busy.was)
    BY <1>5, FreeFacts DEF EndFill, FillType
  <2>2. Solid(CloseGap(map, busy.it))
    BY <2>1, CloseGapFacts
  <2>. QED
    BY <1>5, <2>2 DEF EndFill, MapSound
<1>. QED
  BY <1>1, <1>2, <1>3, <1>4, <1>5

(* ... so do those of a drain, ...                                         *)
LEMMA DrainSteps ==
  ASSUME MapSound, (\E n \in 0 .. Window : Drain(n)) \/ DrainNext \/ DrainNextBack
  PROVE  MapSound'
<1>1. ASSUME NEW n \in 0 .. Window, Drain(n) PROVE MapSound'
  <2>. DEFINE it == [next |-> Window - n, end |-> Window, from |-> map.base, to |-> Window - n]
  <2>1. Solid(map) /\ n <= Size(map)
    BY <1>1, FreeFacts DEF Drain
  <2>2. /\ map.base \in 0 .. Window /\ Size(map) = Window - map.base /\ Window \in Nat /\ map \in MapType
        /\ \A i \in Cells : i < map.base => map.cells[i] = Vacant
    BY <2>1, SolidFacts, WindowAssumption DEF Solid
  <2>3. busy' = [op |-> "drain", it |-> it, was |-> map]
    BY <1>1 DEF Drain, StartDrain
  <2>4. it \in [next : 0 .. Window, end : 0 .. Window, from : 0 .. Window, to : 0 .. Window]
    BY <2>1, <2>2
  <2>5. busy' \in DrainType
    BY <2>2, <2>3, <2>4 DEF DrainType
  <2>6. map' = [map EXCEPT !.base = Window]
    BY <1>1 DEF Drain, Disowned
  <2>7. map' \in MapType /\ map'.base = Window /\ map'.cells = map.cells
    BY <2>2, <2>6 DEF MapType
  <2>8. \A i \in Cells : i < Window - n \/ (Window - n <= i /\ i < Window)
    BY <2>2 DEF Cells
  <2>9. DrainSound(map', it, map)
    BY <2>1, <2>2, <2>7, <2>8 DEF DrainSound
  <2>. QED
    BY <2>3, <2>5, <2>9 DEF MapSound
<1>2. ASSUME DrainNext PROVE MapSound'
  <2>. DEFINE d == busy.it
  <2>1. /\ busy \in DrainType /\ DrainSound(map, d, busy.was) /\ d.next # d.end
        /\ map' = [map EXCEPT !.cells[d.next] = Vacant] /\ busy' = [busy EXCEPT !.it.next = @ + 1]
    BY <1>2, FreeFacts DEF DrainNext
  <2>2. /\ d.next \in Nat /\ d.end \in Nat /\ d.next < d.end /\ d.end <= Window /\ Window \in Nat
        /\ d.to \in Nat /\ d.to <= d.next /\ d.next \in Cells /\ d.next + 1 \in 0 .. Window
    BY <2>1, WindowAssumption DEF DrainType, DrainSound, Cells
  <2>3. /\ busy' \in DrainType /\ busy'.was = busy.was
        /\ busy'.it.next = d.next + 1 /\ busy'.it.end = d.end /\ busy'.it.from = d.from /\ busy'.it.to = d.to
    BY <2>1, <2>2 DEF DrainType
  <2>4. map \in MapType /\ map.cells \in [Cells -> Cell \cup {Vacant}] /\ map.base = Window
    BY <2>1 DEF DrainSound, MapType
  <2>5. /\ map' \in MapType /\ map'.base = Window
        /\ \A i \in Cells : map'.cells[i] = IF i = d.next THEN Vacant ELSE map.cells[i]
    BY <2>1, <2>2, <2>4 DEF MapType
  <2>6. \A i \in Cells : (i < d.to \/ (d.next + 1 <= i /\ i < d.end)) <=>
                         (i # d.next /\ (i < d.to \/ (d.next <= i /\ i < d.end)))
    BY <2>2 DEF Cells
  <2>7. DrainSound(map', busy'.it, busy.was)
    BY <2>1, <2>2, <2>3, <2>5, <2>6 DEF DrainSound
  <2>. QED
    BY <2>3, <2>7 DEF MapSound
<1>3. ASSUME DrainNextBack PROVE MapSound'
  <2>. DEFINE d == busy.it
  <2>1. /\ busy \in DrainType /\ DrainSound(map, d, busy.was) /\ d.next # d.end
        /\ map' = [map EXCEPT !.cells[d.end - 1] = Vacant] /\ busy' = [busy EXCEPT !.it.end = @ - 1]
    BY <1>3, FreeFacts DEF DrainNextBack
  <2>2. /\ d.next \in Nat /\ d.end \in Nat /\ d.next < d.end /\ d.end <= Window /\ Window \in Nat
        /\ d.to \in Nat /\ d.to <= d.next /\ d.end - 1 \in Cells /\ d.end - 1 \in 0 .. Window
    BY <2>1, WindowAssumption DEF DrainType, DrainSound, Cells
  <2>3. /\ busy' \in DrainType /\ busy'.was = busy.was
        /\ busy'.it.next = d.next /\ busy'.it.end = d.end - 1 /\ busy'.it.from = d.from /\ busy'.it.to = d.to
    BY <2>1, <2>2 DEF DrainType
  <2>4. map \in MapType /\ map.cells \in [Cells -> Cell \cup {Vacant}] /\ map.base = Window
    BY <2>1 DEF DrainSound, MapType
  <2>5. /\ map' \in MapType /\ map'.base = Window
        /\ \A i \in Cells : map'.cells[i] = IF i = d.end - 1 THEN Vacant ELSE map.cells[i]
    BY <2>1, <2>2, <2>4 DEF MapType
  <2>6. \A i \in Cells : (i < d.to \/ (d.next <= i /\ i < d.end - 1)) <=>
                         (i # d.end - 1 /\ (i < d.to \/ (d.next <= i /\ i < d.end)))
    BY <2>2 DEF Cells
  <2>7. DrainSound(map', busy'.it, busy.was)
    BY <2>1, <2>2, <2>3, <2>5, <2>6 DEF DrainSound
  <2>. QED
    BY <2>3, <2>7 DEF MapSound
<1>. QED
  BY <1>1, <1>2, <1>3

(* A fill begins with the entries moved down, ...                          *)
LEMMA OpenedFacts ==
  ASSUME NEW m, Solid(m), NEW n \in 0 .. m.base
  PROVE  FillSound(Opened(m, n), StartFill(m, n), m)
<1>. DEFINE b == m.base
            c == Copy(m.cells, b, b - n, Size(m))
            r == Opened(m, n)
            f == StartFill(m, n)
<1>1. /\ Window \in Nat /\ b \in Nat /\ n \in Nat /\ n <= b /\ b <= Window /\ Size(m) = Window - b
      /\ m.cells \in [Cells -> Cell \cup {Vacant}]
      /\ \A i \in Cells : i < b => m.cells[i] = Vacant
  <2>1. b \in 0 .. Window /\ Window \in Nat
    BY SolidFacts, WindowAssumption
  <2>. QED
    BY <2>1, SolidFacts
<1>2. /\ c \in [Cells -> Cell \cup {Vacant}]
      /\ \A i \in Cells : c[i] = IF i \in b - n .. b - n + Size(m) - 1 THEN m.cells[i - (b - n) + b]
                                 ELSE IF i \in b .. b + Size(m) - 1 THEN Vacant ELSE m.cells[i]
  <2>1. b \in Nat /\ b - n \in Int /\ Size(m) \in Int /\ b + Size(m) <= Window
    BY <1>1
  <2>. QED
    BY <1>1, <2>1, CopyFacts
<1>3. r = [base |-> Window, cells |-> c]
  BY DEF Opened
<1>4. f.start = b - n /\ f.filled = 0 /\ f.count = n
  BY DEF StartFill
<1>. HIDE DEF c, r, f
<1>5. r \in MapType /\ r.base = Window /\ r.cells = c
  <2>1. Window \in 0 .. Window
    BY <1>1
  <2>. QED
    BY <1>2, <1>3, <2>1 DEF MapType
<1>6. \A i \in Cells : /\ i < b - n => c[i] = Vacant
                       /\ b - n <= i /\ i < Window - n => c[i] = m.cells[i + n]
                       /\ i >= Window - n => c[i] = Vacant
  <2>. SUFFICES ASSUME NEW i \in Cells
                PROVE  /\ i < b - n => c[i] = Vacant
                       /\ b - n <= i /\ i < Window - n => c[i] = m.cells[i + n]
                       /\ i >= Window - n => c[i] = Vacant
    OBVIOUS
  <2>0. i \in Int /\ 0 <= i /\ i < Window
    BY <1>1 DEF Cells
  <2>1. /\ i - (b - n) + b = i + n
        /\ (i \in b - n .. b - n + Size(m) - 1 <=> b - n <= i /\ i < Window - n)
        /\ (i \in b .. b + Size(m) - 1 <=> b <= i)
    BY <1>1, <2>0
  <2>2. CASE b - n <= i /\ i < Window - n
    <3>1. c[i] = m.cells[i + n]
      BY <1>2, <2>1, <2>2
    <3>. QED
      BY <1>1, <2>0, <2>2, <3>1
  <2>3. CASE ~(b - n <= i /\ i < Window - n)
    <3>1. c[i] = IF b <= i THEN Vacant ELSE m.cells[i]
      BY <1>2, <2>1, <2>3
    <3>2. c[i] = Vacant
      BY <1>1, <2>0, <3>1
    <3>. QED
      BY <2>3, <3>2
  <2>. QED
    BY <2>2, <2>3
<1>7. \A i, j \in Cells : b - n <= i /\ i < j /\ j < Window - n => c[i].key < c[j].key
  <2>. SUFFICES ASSUME NEW i \in Cells, NEW j \in Cells, b - n <= i, i < j, j < Window - n
                PROVE  c[i].key < c[j].key
    OBVIOUS
  <2>0. i \in Int /\ 0 <= i /\ j \in Int
    BY <1>1 DEF Cells
  <2>1. i + n \in Nat /\ j + n \in Nat /\ i + n < Window /\ j + n < Window
    BY <1>1, <2>0
  <2>2. i + n \in Cells /\ j + n \in Cells
    BY <1>1, <2>1 DEF Cells
  <2>3. c[i] = m.cells[i + n] /\ c[j] = m.cells[j + n]
    BY <1>1, <1>6, <2>0
  <2>4. b <= i + n /\ i + n < j + n
    BY <1>1, <2>0
  <2>. QED
    BY <2>2, <2>3, <2>4, SolidFacts
<1>8. FillSound(r, f, m)
  <2>1. /\ n <= b /\ 0 <= n /\ Window - n + 0 = Window - n
        /\ \A i \in Cells : ~(Window - n <= i /\ i < Window - n)
    BY <1>1 DEF Cells
  <2>. QED
    BY <1>4, <1>5, <1>6, <1>7, <2>1 DEF FillSound
<1>. QED
  BY <1>8 DEF r, f

(* ... and a write of a key above the last puts it after them.             *)
LEMMA WriteFacts ==
  ASSUME NEW m, NEW f \in [start : 0 .. Window, filled : 0 .. Window, count : 0 .. Window],
         NEW was, FillSound(m, f, was), f.filled < f.count, NEW e \in Cell,
         LET last == Window - f.count + f.filled - 1 IN last >= f.start => m.cells[last].key < e.key
  PROVE  FillSound(Write(m, f, e), [f EXCEPT !.filled = @ + 1], was)
<1>. DEFINE s == f.start
            top == Window - f.count + f.filled
            r == Write(m, f, e)
            g == [f EXCEPT !.filled = @ + 1]
<1>1. /\ Window \in Nat /\ s \in Nat /\ f.count \in Nat /\ f.filled \in Nat /\ f.filled < f.count
      /\ f.count <= was.base /\ s = was.base - f.count /\ was.base \in Nat /\ was.base <= Window
      /\ s <= top /\ top \in Nat /\ top < Window
  <2>1. Window \in Nat /\ s \in Nat /\ f.count \in Nat /\ f.filled \in Nat
    BY WindowAssumption
  <2>2. f.count <= was.base /\ s = was.base - f.count /\ was.base \in 0 .. Window
    BY SolidFacts DEF FillSound
  <2>. QED
    BY <2>1, <2>2
<1>2. /\ Solid(was) /\ m \in MapType /\ m.base = Window
      /\ \A i \in Cells :
           /\ i < s => m.cells[i] = Vacant
           /\ s <= i /\ i < Window - f.count => m.cells[i] = was.cells[i + f.count]
           /\ Window - f.count <= i /\ i < top => m.cells[i] \in Cell
           /\ i >= top => m.cells[i] = Vacant
      /\ \A i, j \in Cells : s <= i /\ i < j /\ j < top => m.cells[i].key < m.cells[j].key
  BY DEF FillSound
<1>3. g.start = s /\ g.count = f.count /\ g.filled = f.filled + 1
  OBVIOUS
<1>4. top \in Cells
  BY <1>1 DEF Cells
<1>5. r = [m EXCEPT !.cells[top] = e]
  BY DEF Write
<1>. HIDE DEF r, g, top
<1>6. /\ r \in MapType /\ r.base = Window
      /\ \A i \in Cells : r.cells[i] = IF i = top THEN e ELSE m.cells[i]
  <2>1. m.cells \in [Cells -> Cell \cup {Vacant}]
    BY <1>2 DEF MapType
  <2>. QED
    BY <1>2, <1>4, <1>5, <2>1 DEF MapType
<1>7. Window - f.count + (f.filled + 1) = top + 1 /\ Window - f.count <= top
  BY <1>1 DEF top
<1>8. \A i \in Cells :
         /\ i < s => r.cells[i] = Vacant
         /\ s <= i /\ i < Window - f.count => r.cells[i] = was.cells[i + f.count]
         /\ Window - f.count <= i /\ i < top + 1 => r.cells[i] \in Cell
         /\ i >= top + 1 => r.cells[i] = Vacant
  <2>. SUFFICES ASSUME NEW i \in Cells
                PROVE  /\ i < s => r.cells[i] = Vacant
                       /\ s <= i /\ i < Window - f.count => r.cells[i] = was.cells[i + f.count]
                       /\ Window - f.count <= i /\ i < top + 1 => r.cells[i] \in Cell
                       /\ i >= top + 1 => r.cells[i] = Vacant
    OBVIOUS
  <2>0. i \in Int
    BY <1>1 DEF Cells
  <2>1. CASE i = top
    <3>1. r.cells[i] = e /\ ~(i < s) /\ ~(i < Window - f.count) /\ ~(i >= top + 1)
      BY <1>1, <1>6, <1>7, <2>0, <2>1
    <3>. QED
      BY <3>1
  <2>2. CASE i # top
    <3>1. r.cells[i] = m.cells[i] /\ (i < top + 1 => i < top) /\ (i >= top + 1 => i >= top)
      BY <1>1, <1>6, <2>0, <2>2
    <3>. QED
      BY <1>2, <3>1
  <2>. QED
    BY <2>1, <2>2
<1>9. \A i \in Cells : s <= i /\ i < top => m.cells[i].key < e.key
  <2>. SUFFICES ASSUME NEW i \in Cells, s <= i, i < top PROVE m.cells[i].key < e.key
    OBVIOUS
  <2>0. i \in Nat
    BY <1>1 DEF Cells
  <2>1. top - 1 \in Nat /\ top - 1 < Window /\ s <= top - 1 /\ i <= top - 1 /\ top - 1 < top
    BY <1>1, <2>0
  <2>2. top - 1 \in Cells
    BY <1>1, <2>1 DEF Cells
  <2>3. m.cells[top - 1].key < e.key
    BY <1>1, <2>1 DEF top
  <2>4. \A j \in Cells : s <= j /\ j < top => m.cells[j] \in Cell
    <3>. SUFFICES ASSUME NEW j \in Cells, s <= j, j < top PROVE m.cells[j] \in Cell
      OBVIOUS
    <3>0. j \in Int
      BY <1>1 DEF Cells
    <3>1. CASE j < Window - f.count
      <4>1. j + f.count \in Nat /\ j + f.count < Window /\ j + f.count >= was.base
        BY <1>1, <3>0, <3>1
      <4>2. j + f.count \in Cells
        BY <1>1, <4>1 DEF Cells
      <4>. QED
        BY <1>2, <3>1, <4>1, <4>2, SolidFacts
    <3>2. CASE j >= Window - f.count
      BY <1>1, <1>2, <3>0, <3>2
    <3>. QED
      BY <1>1, <3>0, <3>1, <3>2
  <2>5. m.cells[i].key \in Int /\ m.cells[top - 1].key \in Int /\ e.key \in Int
    BY <2>1, <2>2, <2>4, CellFacts
  <2>6. i = top - 1 \/ i < top - 1
    BY <1>1, <2>0, <2>1
  <2>. QED
    BY <1>2, <2>1, <2>2, <2>3, <2>5, <2>6
<1>10. \A i, j \in Cells : s <= i /\ i < j /\ j < top + 1 => r.cells[i].key < r.cells[j].key
  <2>. SUFFICES ASSUME NEW i \in Cells, NEW j \in Cells, s <= i, i < j, j < top + 1
                PROVE  r.cells[i].key < r.cells[j].key
    OBVIOUS
  <2>0. i \in Int /\ j \in Int
    BY <1>1 DEF Cells
  <2>1. i < top /\ i # top /\ (j = top \/ j < top)
    BY <1>1, <2>0
  <2>. QED
    BY <1>2, <1>6, <1>9, <2>1
<1>11. FillSound(r, g, was)
  <2>1. f.filled + 1 <= f.count
    BY <1>1
  <2>. QED
    BY <1>1, <1>2, <1>3, <1>6, <1>7, <1>8, <1>10, <2>1 DEF FillSound
<1>. QED
  BY <1>11 DEF r, g

(* ... and those of a fill.                                                *)
LEMMA FillSteps ==
  ASSUME MapSound,
         \/ \E n \in 0 .. Window : Fill(n)
         \/ \E k \in Keys, v \in Values : FillNext(k, v)
  PROVE  MapSound'
<1>1. ASSUME NEW n \in 0 .. Window, Fill(n) PROVE MapSound'
  <2>1. Solid(map) /\ n <= map.base /\ n \in Nat
    BY <1>1, FreeFacts DEF Fill
  <2>2. map.base \in 0 .. Window /\ Window \in Nat /\ map \in MapType
    BY <2>1, SolidFacts, WindowAssumption DEF Solid
  <2>3. n \in 0 .. map.base
    BY <2>1, <2>2
  <2>4. busy' = [op |-> "fill", it |-> StartFill(map, n), was |-> map] /\ map' = Opened(map, n)
    BY <1>1 DEF Fill
  <2>5. StartFill(map, n) \in [start : 0 .. Window, filled : 0 .. Window, count : 0 .. Window]
    BY <2>1, <2>2 DEF StartFill
  <2>6. busy' \in FillType
    BY <2>2, <2>4, <2>5 DEF FillType
  <2>7. FillSound(map', StartFill(map, n), map)
    BY <2>1, <2>3, <2>4, OpenedFacts
  <2>. QED
    BY <2>4, <2>6, <2>7 DEF MapSound
<1>2. ASSUME NEW k \in Keys, NEW v \in Values, FillNext(k, v) PROVE MapSound'
  <2>. DEFINE f == busy.it
              e == Entry(k, v)
              g == [f EXCEPT !.filled = @ + 1]
  <2>1. /\ busy \in FillType /\ FillSound(map, f, busy.was) /\ f.filled < f.count
        /\ map' = Write(map, f, e) /\ busy' = [busy EXCEPT !.it.filled = @ + 1]
    BY <1>2, FreeFacts DEF FillNext
  <2>2. /\ f \in [start : 0 .. Window, filled : 0 .. Window, count : 0 .. Window]
        /\ Window \in Nat /\ f.filled \in Nat /\ f.count <= Window /\ f.filled + 1 \in 0 .. Window
    BY <2>1, WindowAssumption DEF FillType
  <2>3. busy' \in FillType /\ busy'.was = busy.was /\ busy'.it = g
    BY <2>1, <2>2 DEF FillType
  <2>4. e \in Cell /\ e.key = k
    BY CellFacts, KeysAssumption DEF Entry
  <2>5. LET last == Window - f.count + f.filled - 1 IN last >= f.start => map.cells[last].key < e.key
    BY <1>2, <2>4 DEF FillNext
  <2>6. FillSound(map', g, busy.was)
    BY <2>1, <2>2, <2>4, <2>5, WriteFacts
  <2>. QED
    BY <2>3, <2>6 DEF MapSound
<1>. QED
  BY <1>1, <1>2

(* The map begins empty ...                                                *)
LEMMA MapBegins == MapInit => MapSound
BY EmptyIsSolid DEF MapInit, MapSound

(* ... and every step keeps the invariant.                                 *)
LEMMA MapKeeps == MapSound /\ [MapNext]_mapVars => MapSound'
<1>. SUFFICES ASSUME MapSound, [MapNext]_mapVars PROVE MapSound'
  OBVIOUS
<1>1. CASE UNCHANGED mapVars
  BY <1>1 DEF mapVars, MapSound
<1>2. CASE MapNext
  BY <1>2, PlainSteps, DrainSteps, FillSteps DEF MapNext
<1>. QED
  BY <1>1, <1>2

-----------------------------------------------------------------------------
(* clone_from *)

(* Where f goes on from n - 1 as p does, ...                               *)
Follows(a, b, f, p) == \A n \in a .. b : (n = a \/ f[n - 1] = p[n - 1]) => f[n] = p[n]

(* ... f is p, by the least n where they would differ: how the recursive   *)
(* functions of the map are shown to be closed forms.                      *)
LEMMA Followed ==
  ASSUME NEW a \in Nat, NEW b \in Nat, NEW f, NEW p, Follows(a, b, f, p)
  PROVE  \A n \in a .. b : f[n] = p[n]
<1>. USE DEF Follows
<1>. DEFINE T == {n \in a .. b : f[n] # p[n]}
<1>. SUFFICES ASSUME T # {} PROVE FALSE
  OBVIOUS
<1>1. T \subseteq Nat
  OBVIOUS
<1>2. PICK m \in T : \A n \in T : m <= n
  BY <1>1, LeastNatural
<1>3. m \in a .. b /\ f[m] # p[m] /\ m # a
  BY <1>2
<1>4. m - 1 \in a .. b /\ ~(m <= m - 1)
  BY <1>3
<1>5. f[m - 1] = p[m - 1]
  BY <1>2, <1>4
<1>. QED
  BY <1>3, <1>5

(* clone_from overwrites the positions both maps have ...                  *)
Common(m, source) == IF Size(m) < Size(source) THEN Size(m) ELSE Size(source)

(* ... like this, ...                                                      *)
Over(m, source) ==
  [m EXCEPT !.cells = [i \in Cells |-> IF i \in m.base .. m.base + Common(m, source) - 1
                                       THEN At(source, i - m.base) ELSE m.cells[i]]]

(* ... and appends what the source has beyond, one at a time, ...          *)
ClonedUp(m, source) ==
  CHOOSE grown : grown = [n \in Common(m, source) .. Window |->
    IF n = Common(m, source) THEN Over(m, source) ELSE InsertLast(grown[n - 1], At(source, n - 1))]

(* ... or evicts what the map has beyond, one at a time.                   *)
ClonedDown(m, source) ==
  CHOOSE shrunk : shrunk = [n \in 0 .. Window |->
    IF n = 0 THEN Over(m, source) ELSE EvictLast(shrunk[n - 1])]

(* These are the functions of CloneFrom.                                   *)
LEMMA CloneSteps ==
  ASSUME NEW m, NEW source
  PROVE  CloneFrom(m, source) =
           IF Size(m) < Size(source) THEN ClonedUp(m, source)[Size(source)]
           ELSE ClonedDown(m, source)[Size(m) - Common(m, source)]
BY DEF CloneFrom, ClonedUp, ClonedDown, Over, Common

(* The map of the first n entries of the source, ...                       *)
FirstOf(source, n) ==
  [base |-> Window - n,
   cells |-> [i \in Cells |-> IF i < Window - n THEN Vacant ELSE At(source, i - (Window - n))]]

(* ... to which an append adds the next.                                   *)
LEMMA FirstOfWidens ==
  ASSUME NEW source, NEW n \in 1 .. Window
  PROVE  InsertLast(FirstOf(source, n - 1), At(source, n - 1)) = FirstOf(source, n)
<1>. DEFINE m == FirstOf(source, n - 1)
            c == Copy(m.cells, m.base, m.base - 1, Size(m))
            r == FirstOf(source, n)
<1>1. n \in Nat /\ Window \in Nat /\ 0 < n /\ n <= Window
  BY WindowAssumption
<1>2. /\ m.base = Window - (n - 1) /\ r.base = Window - n /\ Size(m) = n - 1
      /\ m.base - 1 = Window - n /\ m.base - 1 + Size(m) = Window - 1
  BY <1>1 DEF FirstOf, Size
<1>3. /\ m.cells = [i \in Cells |-> IF i < Window - (n - 1) THEN Vacant
                                    ELSE At(source, i - (Window - (n - 1)))]
      /\ r.cells = [i \in Cells |-> IF i < Window - n THEN Vacant ELSE At(source, i - (Window - n))]
  BY DEF FirstOf
<1>4. InsertLast(m, At(source, n - 1)) =
        [base |-> Window - n, cells |-> [c EXCEPT ![Window - 1] = At(source, n - 1)]]
  BY <1>2 DEF InsertLast, InsertAt
<1>5. r = [base |-> Window - n, cells |-> r.cells]
  BY DEF FirstOf
<1>. HIDE DEF m, r
<1>6. c = [i \in Cells |-> IF i \in Window - n .. Window - n + (n - 1) - 1
                           THEN m.cells[i - (Window - n) + (Window - (n - 1))]
                           ELSE IF i \in Window - (n - 1) .. Window - (n - 1) + (n - 1) - 1
                             THEN Vacant ELSE m.cells[i]]
  BY <1>2 DEF Copy
<1>. HIDE DEF c
<1>7. \A i \in Cells : r.cells[i] = IF i = Window - 1 THEN At(source, n - 1) ELSE c[i]
  <2>. SUFFICES ASSUME NEW i \in Cells
                PROVE  r.cells[i] = IF i = Window - 1 THEN At(source, n - 1) ELSE c[i]
    OBVIOUS
  <2>0. i \in Int /\ 0 <= i /\ i <= Window - 1
    BY <1>1 DEF Cells
  <2>1. CASE i = Window - 1
    <3>1. ~(i < Window - n) /\ i - (Window - n) = n - 1
      BY <1>1, <2>1
    <3>. QED
      BY <1>3, <2>1, <3>1
  <2>2. CASE i # Window - 1 /\ i >= Window - n
    <3>1. /\ i \in Window - n .. Window - n + (n - 1) - 1
          /\ i - (Window - n) + (Window - (n - 1)) = i + 1 /\ ~(i < Window - n)
          /\ ~(i + 1 < Window - (n - 1)) /\ i + 1 - (Window - (n - 1)) = i - (Window - n)
      BY <1>1, <2>0, <2>2
    <3>2. i + 1 \in Cells
      BY <1>1, <2>0, <2>2 DEF Cells
    <3>3. c[i] = m.cells[i + 1]
      BY <1>6, <3>1
    <3>4. m.cells[i + 1] = At(source, i - (Window - n))
      BY <1>1, <1>3, <2>0, <3>1, <3>2
    <3>. QED
      BY <1>3, <2>2, <3>1, <3>3, <3>4
  <2>3. CASE i < Window - n
    <3>1. /\ i # Window - 1 /\ ~(i \in Window - n .. Window - n + (n - 1) - 1)
          /\ ~(i \in Window - (n - 1) .. Window - (n - 1) + (n - 1) - 1) /\ i < Window - (n - 1)
      BY <1>1, <2>0, <2>3
    <3>. QED
      BY <1>3, <1>6, <2>3, <3>1
  <2>. QED
    BY <1>1, <2>0, <2>1, <2>2, <2>3
<1>8. r.cells = [c EXCEPT ![Window - 1] = At(source, n - 1)]
  <2>1. Window - 1 \in Cells
    BY <1>1 DEF Cells
  <2>2. c = [i \in Cells |-> c[i]] /\ r.cells = [i \in Cells |-> r.cells[i]]
    BY <1>3, <1>6
  <2>3. [c EXCEPT ![Window - 1] = At(source, n - 1)]
           = [i \in Cells |-> IF i = Window - 1 THEN At(source, n - 1) ELSE c[i]]
    BY <2>1, <2>2
  <2>. QED
    BY <1>7, <2>2, <2>3
<1>. QED
  BY <1>4, <1>5, <1>8 DEF m, r

(* After the appends the map is the source.                                *)
LEMMA ClonedUpIsSource ==
  ASSUME NEW m, Solid(m), NEW source, Solid(source), Size(m) < Size(source)
  PROVE  ClonedUp(m, source)[Size(source)] = source
<1>. DEFINE g == ClonedUp(m, source)
            p == [n \in Size(m) .. Window |-> FirstOf(source, n)]
<1>1. /\ Common(m, source) = Size(m) /\ Size(m) \in Nat /\ Size(source) \in Nat /\ Window \in Nat
      /\ Size(source) <= Window /\ m.base = Window - Size(m) /\ source.base = Window - Size(source)
      /\ m.base \in Nat /\ source.base \in Nat
  <2>1. Window \in Nat /\ m.base \in 0 .. Window /\ source.base \in 0 .. Window
    BY SolidFacts, WindowAssumption
  <2>2. Size(m) = Window - m.base /\ Size(source) = Window - source.base
    BY SolidFacts
  <2>. QED
    BY <2>1, <2>2 DEF Common
<1>2. FirstOf(source, Size(m)) = Over(m, source)
  <2>1. m \in MapType /\ \A i \in Cells : i < m.base => m.cells[i] = Vacant
    BY SolidFacts DEF Solid
  <2>2. \A i \in Cells : /\ (i < Window - Size(m) <=> ~(i \in m.base .. m.base + Size(m) - 1))
                         /\ (i < Window - Size(m) <=> i < m.base) /\ i - (Window - Size(m)) = i - m.base
    BY <1>1 DEF Cells
  <2>3. [i \in Cells |-> IF i \in m.base .. m.base + Size(m) - 1 THEN At(source, i - m.base) ELSE m.cells[i]]
          = [i \in Cells |-> IF i < Window - Size(m) THEN Vacant ELSE At(source, i - (Window - Size(m)))]
    BY <2>1, <2>2
  <2>. DEFINE x == [i \in Cells |-> IF i < Window - Size(m) THEN Vacant
                                     ELSE At(source, i - (Window - Size(m)))]
  <2>4. Over(m, source) = [m EXCEPT !.cells = x]
    BY <1>1, <2>3 DEF Over
  <2>5. FirstOf(source, Size(m)) = [base |-> m.base, cells |-> x]
    BY <1>1 DEF FirstOf
  <2>. HIDE DEF x
  <2>6. [m EXCEPT !.cells = x] = [base |-> m.base, cells |-> x]
    BY <2>1 DEF MapType
  <2>. QED
    BY <2>4, <2>5, <2>6
<1>3. p = [n \in Size(m) .. Window |->
             IF n = Size(m) THEN Over(m, source) ELSE InsertLast(p[n - 1], At(source, n - 1))]
  <2>. SUFFICES ASSUME NEW n \in Size(m) .. Window
                PROVE  FirstOf(source, n) =
                         IF n = Size(m) THEN Over(m, source) ELSE InsertLast(p[n - 1], At(source, n - 1))
    BY Zenon
  <2>1. CASE n = Size(m)
    BY <1>2, <2>1
  <2>2. CASE n # Size(m)
    <3>1. n - 1 \in Size(m) .. Window /\ n \in 1 .. Window
      BY <1>1, <2>2
    <3>2. p[n - 1] = FirstOf(source, n - 1)
      BY <3>1
    <3>. QED
      BY <2>2, <3>1, <3>2, FirstOfWidens
  <2>. QED
    BY <2>1, <2>2
<1>4. g = [n \in Size(m) .. Window |->
             IF n = Size(m) THEN Over(m, source) ELSE InsertLast(g[n - 1], At(source, n - 1))]
  <2>. HIDE DEF p
  <2>1. \E h : h = [n \in Size(m) .. Window |->
                      IF n = Size(m) THEN Over(m, source) ELSE InsertLast(h[n - 1], At(source, n - 1))]
    BY <1>3
  <2>2. \E h : h = [n \in Common(m, source) .. Window |->
                      IF n = Common(m, source) THEN Over(m, source) ELSE InsertLast(h[n - 1], At(source, n - 1))]
    BY <1>1, <2>1
  <2>3. g = [n \in Common(m, source) .. Window |->
               IF n = Common(m, source) THEN Over(m, source) ELSE InsertLast(g[n - 1], At(source, n - 1))]
    BY <2>2, Zenon DEF ClonedUp
  <2>. QED
    BY <1>1, <2>3
<1>. HIDE DEF g
<1>5. \A n \in Size(m) .. Window : g[n] = p[n]
  <2>. HIDE DEF p
  <2>1. Follows(Size(m), Window, g, p)
    BY <1>3, <1>4, Zenon DEF Follows
  <2>2. Size(m) \in Nat /\ Window \in Nat
    BY <1>1
  <2>. QED
    BY <2>1, <2>2, Followed, SMTT(60)
<1>6. g[Size(source)] = FirstOf(source, Size(source))
  <2>1. Size(source) \in Size(m) .. Window
    BY <1>1
  <2>. QED
    BY <1>5, <2>1
<1>7. FirstOf(source, Size(source)) = source
  <2>1. source \in MapType /\ \A i \in Cells : i < source.base => source.cells[i] = Vacant
    BY SolidFacts DEF Solid
  <2>2. Window - Size(source) = source.base
    BY <1>1
  <2>3. \A i \in Cells : source.base + (i - source.base) = i
    BY <1>1 DEF Cells
  <2>4. \A i \in Cells : source.cells[i] = IF i < source.base THEN Vacant ELSE At(source, i - source.base)
    BY <2>1, <2>3 DEF At
  <2>5. source.cells = [i \in Cells |-> IF i < source.base THEN Vacant ELSE At(source, i - source.base)]
    BY <2>1, <2>4 DEF MapType
  <2>6. FirstOf(source, Size(source)) = [base |-> source.base, cells |-> source.cells]
    BY <2>2, <2>5 DEF FirstOf
  <2>. QED
    BY <2>1, <2>6 DEF MapType
<1>. QED
  BY <1>6, <1>7 DEF g

(* The first entries of x, n cells up, ...                                 *)
Slid(x, n) ==
  [base |-> x.base + n, cells |-> [i \in Cells |-> IF i < x.base + n THEN Vacant ELSE x.cells[i - n]]]

(* ... of which an eviction moves them one more.                           *)
LEMMA SlidEvicts ==
  ASSUME NEW x, x.base \in Nat, NEW n \in 1 .. Window
  PROVE  EvictLast(Slid(x, n - 1)) = Slid(x, n)
<1>. DEFINE m == Slid(x, n - 1)
            b == x.base + n - 1
            d == [m.cells EXCEPT ![Window - 1] = Vacant]
            c == Copy(d, b, b + 1, Window - b - 1)
            r == Slid(x, n)
<1>1. n \in Nat /\ Window \in Nat /\ 0 < n /\ n <= Window /\ b \in Nat
  BY WindowAssumption
<1>2. m.base = b /\ r.base = b + 1 /\ Size(m) = Window - b /\ b + (Window - b - 1) = Window - 1
      /\ Size(m) - 1 = Window - b - 1
  BY <1>1 DEF Slid, Size
<1>3. /\ m.cells = [i \in Cells |-> IF i < x.base + (n - 1) THEN Vacant ELSE x.cells[i - (n - 1)]]
      /\ r.cells = [i \in Cells |-> IF i < x.base + n THEN Vacant ELSE x.cells[i - n]]
  BY DEF Slid
<1>4. EvictLast(m) = [base |-> b + 1, cells |-> c]
  BY <1>2 DEF EvictLast, RemoveAt
<1>5. r = [base |-> b + 1, cells |-> r.cells]
  BY <1>1, <1>2 DEF Slid
<1>. HIDE DEF m, r
<1>6. d = [i \in Cells |-> IF i = Window - 1 THEN Vacant ELSE m.cells[i]]
  BY <1>3
<1>. HIDE DEF d
<1>7. c = [i \in Cells |-> IF i \in b + 1 .. b + 1 + (Window - b - 1) - 1 THEN d[i - (b + 1) + b]
                           ELSE IF i \in b .. b + (Window - b - 1) - 1 THEN Vacant ELSE d[i]]
  BY DEF Copy
<1>. HIDE DEF c
<1>8. \A i \in Cells : r.cells[i] = c[i]
  <2>. SUFFICES ASSUME NEW i \in Cells PROVE r.cells[i] = c[i]
    OBVIOUS
  <2>0. i \in Int /\ 0 <= i /\ i <= Window - 1 /\ x.base + n = b + 1 /\ x.base + (n - 1) = b
    BY <1>1 DEF Cells
  <2>1. CASE i >= b + 1
    <3>1. /\ i \in b + 1 .. b + 1 + (Window - b - 1) - 1 /\ i - (b + 1) + b = i - 1
          /\ ~(i < x.base + n) /\ ~(i - 1 < x.base + (n - 1)) /\ i - 1 - (n - 1) = i - n /\ i - 1 # Window - 1
      BY <1>1, <2>0, <2>1
    <3>2. i - 1 \in Cells
      BY <1>1, <2>0, <2>1 DEF Cells
    <3>3. c[i] = d[i - 1] /\ d[i - 1] = m.cells[i - 1]
      BY <1>6, <1>7, <3>1, <3>2
    <3>4. m.cells[i - 1] = x.cells[i - n]
      BY <1>1, <1>3, <2>0, <3>1, <3>2
    <3>. QED
      BY <1>3, <3>1, <3>3, <3>4
  <2>2. CASE i <= b
    <3>1. i < x.base + n /\ ~(i \in b + 1 .. b + 1 + (Window - b - 1) - 1)
      BY <1>1, <2>0, <2>2
    <3>2. ~(i \in b .. b + (Window - b - 1) - 1) => i = Window - 1 \/ i < x.base + (n - 1)
      BY <1>1, <2>0, <2>2
    <3>3. i = Window - 1 \/ i < x.base + (n - 1) => d[i] = Vacant
      BY <1>3, <1>6
    <3>. QED
      BY <1>3, <1>7, <3>1, <3>2, <3>3
  <2>. QED
    BY <1>1, <2>0, <2>1, <2>2
<1>9. r.cells = c
  BY <1>3, <1>7, <1>8
<1>. QED
  BY <1>4, <1>5, <1>9 DEF m, r

(* After the evictions the map is the source.                              *)
LEMMA ClonedDownIsSource ==
  ASSUME NEW m, Solid(m), NEW source, Solid(source), ~(Size(m) < Size(source))
  PROVE  ClonedDown(m, source)[Size(m) - Common(m, source)] = source
<1>. DEFINE g == ClonedDown(m, source)
            x == Over(m, source)
            p == [n \in 0 .. Window |-> Slid(x, n)]
            j == Size(m) - Size(source)
<1>1. /\ Common(m, source) = Size(source) /\ Size(m) \in Nat /\ Size(source) \in Nat /\ Window \in Nat
      /\ Size(m) <= Window /\ m.base = Window - Size(m) /\ source.base = Window - Size(source)
      /\ m.base \in Nat /\ source.base \in Nat /\ j \in 0 .. Window /\ m.base + j = source.base
  <2>1. Window \in Nat /\ m.base \in 0 .. Window /\ source.base \in 0 .. Window
    BY SolidFacts, WindowAssumption
  <2>2. Size(m) = Window - m.base /\ Size(source) = Window - source.base
    BY SolidFacts
  <2>. QED
    BY <2>1, <2>2 DEF Common
<1>2. /\ m \in MapType /\ source \in MapType
      /\ \A i \in Cells : i < m.base => m.cells[i] = Vacant
      /\ \A i \in Cells : i < source.base => source.cells[i] = Vacant
  BY SolidFacts DEF Solid
<1>3. /\ x = [base |-> m.base, cells |-> x.cells]
      /\ x.base = m.base
      /\ x.cells = [i \in Cells |-> IF i \in m.base .. m.base + Size(source) - 1
                                    THEN At(source, i - m.base) ELSE m.cells[i]]
  BY <1>1, <1>2 DEF Over, MapType
<1>. HIDE DEF x
<1>4. Slid(x, 0) = x
  <2>1. \A i \in Cells : i - 0 = i /\ (i < x.base + 0 <=> i < m.base)
                         /\ (i < m.base => ~(i \in m.base .. m.base + Size(source) - 1))
    BY <1>1, <1>3 DEF Cells
  <2>2. \A i \in Cells : x.cells[i] = IF i < x.base + 0 THEN Vacant ELSE x.cells[i - 0]
    BY <1>2, <1>3, <2>1
  <2>3. x.cells = [i \in Cells |-> IF i < x.base + 0 THEN Vacant ELSE x.cells[i - 0]]
    BY <1>3, <2>2
  <2>4. x.base + 0 = x.base
    BY <1>1, <1>3
  <2>. QED
    BY <1>3, <2>3, <2>4 DEF Slid
<1>5. p = [n \in 0 .. Window |-> IF n = 0 THEN x ELSE EvictLast(p[n - 1])]
  <2>. SUFFICES ASSUME NEW n \in 0 .. Window
                PROVE  Slid(x, n) = IF n = 0 THEN x ELSE EvictLast(p[n - 1])
    BY Zenon
  <2>1. CASE n = 0
    BY <1>4, <2>1
  <2>2. CASE n # 0
    <3>1. n - 1 \in 0 .. Window /\ n \in 1 .. Window
      BY <1>1, <2>2
    <3>2. p[n - 1] = Slid(x, n - 1)
      BY <3>1
    <3>3. x.base \in Nat
      BY <1>1, <1>3
    <3>. QED
      BY <2>2, <3>1, <3>2, <3>3, SlidEvicts
  <2>. QED
    BY <2>1, <2>2
<1>6. g = [n \in 0 .. Window |-> IF n = 0 THEN x ELSE EvictLast(g[n - 1])]
  <2>. HIDE DEF p
  <2>1. \E h : h = [n \in 0 .. Window |-> IF n = 0 THEN Over(m, source) ELSE EvictLast(h[n - 1])]
    BY <1>5 DEF x
  <2>. QED
    BY <2>1 DEF ClonedDown, x
<1>. HIDE DEF g
<1>7. \A n \in 0 .. Window : g[n] = p[n]
  <2>. HIDE DEF p
  <2>1. Follows(0, Window, g, p)
    BY <1>5, <1>6, Zenon DEF Follows
  <2>2. 0 \in Nat /\ Window \in Nat
    BY <1>1
  <2>. QED
    BY <2>1, <2>2, Followed
<1>8. g[j] = Slid(x, j)
  BY <1>1, <1>7
<1>9. Slid(x, j) = source
  <2>1. x.base + j = source.base
    BY <1>1, <1>3
  <2>2. \A i \in Cells : source.cells[i] = IF i < x.base + j THEN Vacant ELSE x.cells[i - j]
    <3>. SUFFICES ASSUME NEW i \in Cells, ~(i < source.base) PROVE source.cells[i] = x.cells[i - j]
      BY <1>2, <2>1
    <3>1. i \in Int /\ 0 <= i /\ i < Window /\ i >= source.base
      BY <1>1 DEF Cells
    <3>2. /\ i - j \in Nat /\ i - j < Window /\ i - j \in m.base .. m.base + Size(source) - 1
          /\ source.base + (i - j - m.base) = i
      BY <1>1, <3>1
    <3>3. i - j \in Cells
      BY <1>1, <3>2 DEF Cells
    <3>4. x.cells[i - j] = At(source, i - j - m.base)
      BY <1>3, <3>2, <3>3
    <3>. QED
      BY <3>2, <3>4 DEF At
  <2>3. source.cells = [i \in Cells |-> IF i < x.base + j THEN Vacant ELSE x.cells[i - j]]
    BY <1>2, <2>2 DEF MapType
  <2>4. Slid(x, j) = [base |-> source.base, cells |-> source.cells]
    BY <2>1, <2>3 DEF Slid
  <2>. QED
    BY <1>2, <2>4 DEF MapType
<1>. QED
  BY <1>1, <1>8, <1>9 DEF g

(* clone_from makes a map its source, down to the cells.                   *)
LEMMA CloneFacts ==
  ASSUME NEW m, Solid(m), NEW source, Solid(source)
  PROVE  CloneFrom(m, source) = source
BY CloneSteps, ClonedUpIsSource, ClonedDownIsSource

-----------------------------------------------------------------------------
(* extend_worst *)

(* extend_worst writes the entries, one at a time.                         *)
Extended(m, entries) ==
  CHOOSE written : written = [i \in 0 .. Len(entries) |->
    IF i = 0 THEN Opened(m, Len(entries))
    ELSE Write(written[i - 1], [StartFill(m, Len(entries)) EXCEPT !.filled = i - 1], entries[i])]

(* This is the function of ExtendWorst.                                    *)
LEMMA ExtendSteps ==
  ASSUME NEW m, NEW entries
  PROVE  ExtendWorst(m, entries) =
           CloseGap(Extended(m, entries)[Len(entries)],
                    [StartFill(m, Len(entries)) EXCEPT !.filled = Len(entries)])
BY DEF ExtendWorst, Extended

(* A map that was opened for a, after n writes.                            *)
HoldsFirst(m, a, n) ==
  [base |-> Window,
   cells |-> [x \in Cells |-> IF Window - Len(a) <= x /\ x < Window - Len(a) + n
                              THEN a[x - (Window - Len(a)) + 1] ELSE Opened(m, Len(a)).cells[x]]]

(* extend_worst with sorted entries that are worse than any of the map's   *)
(* puts them behind those.                                                 *)
LEMMA ExtendFacts ==
  ASSUME NEW m, Solid(m), NEW a \in Seq(Cell), Len(a) <= m.base,
         \A i, j \in 1 .. Len(a) : i < j => a[i].key < a[j].key,
         \A p \in 0 .. Size(m) - 1, i \in 1 .. Len(a) : At(m, p).key < a[i].key
  PROVE  LET r == ExtendWorst(m, a)
         IN  /\ Solid(r) /\ Size(r) = Size(m) + Len(a)
             /\ \A p \in 0 .. Size(m) - 1 : At(r, p) = At(m, p)
             /\ \A i \in 1 .. Len(a) : At(r, Size(m) + i - 1) = a[i]
<1>. DEFINE w == Len(a)
            b == m.base
            o == Opened(m, w)
            f(i) == [StartFill(m, w) EXCEPT !.filled = i]
            g == Extended(m, a)
            p == [i \in 0 .. w |-> HoldsFirst(m, a, i)]
            r == ExtendWorst(m, a)
<1>1. /\ w \in Nat /\ Window \in Nat /\ w <= Window /\ a \in [1 .. w -> Cell]
      /\ b \in Nat /\ b <= Window /\ w <= b /\ Size(m) = Window - b /\ w \in 0 .. b
  BY WindowAssumption, SolidFacts
<1>2. /\ o.base = Window /\ o \in MapType
      /\ \A x \in Cells : /\ x < b - w => o.cells[x] = Vacant
                          /\ b - w <= x /\ x < Window - w => o.cells[x] = m.cells[x + w]
                          /\ x >= Window - w => o.cells[x] = Vacant
  <2>1. FillSound(o, StartFill(m, w), m)
    BY <1>1, OpenedFacts
  <2>2. StartFill(m, w).start = b - w /\ StartFill(m, w).count = w /\ StartFill(m, w).filled = 0
    BY DEF StartFill
  <2>3. Window - w + 0 = Window - w
    BY <1>1
  <2>. QED
    BY <2>1, <2>2, <2>3 DEF FillSound
<1>3. \A i : f(i).start = b - w /\ f(i).filled = i /\ f(i).count = w
  BY DEF StartFill
<1>. HIDE DEF f, o
<1>4. o = HoldsFirst(m, a, 0)
  <2>1. \A x \in Cells : ~(Window - w <= x /\ x < Window - w + 0)
    BY <1>1 DEF Cells
  <2>2. HoldsFirst(m, a, 0) = [base |-> Window, cells |-> [x \in Cells |-> o.cells[x]]]
    BY <2>1 DEF HoldsFirst, o
  <2>3. o = [base |-> Window, cells |-> o.cells] /\ o.cells = [x \in Cells |-> o.cells[x]]
    BY <1>2 DEF MapType
  <2>. QED
    BY <2>2, <2>3
<1>5. ASSUME NEW i \in 1 .. w PROVE Write(HoldsFirst(m, a, i - 1), f(i - 1), a[i]) = HoldsFirst(m, a, i)
  <2>. DEFINE n == HoldsFirst(m, a, i - 1)
              at == Window - w + (i - 1)
              s == HoldsFirst(m, a, i)
  <2>1. at \in Cells /\ i \in Nat /\ i <= w /\ 0 < i /\ at \in Nat
    BY <1>1 DEF Cells
  <2>2. Write(n, f(i - 1), a[i]) = [n EXCEPT !.cells[at] = a[i]]
    BY <1>3 DEF Write
  <2>3. /\ n = [base |-> Window, cells |-> n.cells] /\ s = [base |-> Window, cells |-> s.cells]
        /\ n.cells = [x \in Cells |-> IF Window - w <= x /\ x < Window - w + (i - 1)
                                      THEN a[x - (Window - w) + 1] ELSE o.cells[x]]
        /\ s.cells = [x \in Cells |-> IF Window - w <= x /\ x < Window - w + i
                                      THEN a[x - (Window - w) + 1] ELSE o.cells[x]]
    BY DEF HoldsFirst, o
  <2>. HIDE DEF n, s
  <2>4. \A x \in Cells : s.cells[x] = IF x = at THEN a[i] ELSE n.cells[x]
    <3>. SUFFICES ASSUME NEW x \in Cells PROVE s.cells[x] = IF x = at THEN a[i] ELSE n.cells[x]
      OBVIOUS
    <3>0. x \in Int
      BY <1>1 DEF Cells
    <3>1. CASE x = at
      <4>1. Window - w <= x /\ x < Window - w + i /\ x - (Window - w) + 1 = i
        BY <1>1, <2>1, <3>1
      <4>. QED
        BY <2>3, <3>1, <4>1
    <3>2. CASE x # at
      <4>1. x < Window - w + i <=> x < Window - w + (i - 1)
        BY <1>1, <2>1, <3>0, <3>2
      <4>. QED
        BY <2>3, <3>2, <4>1
    <3>. QED
      BY <3>1, <3>2
  <2>5. s.cells = [n.cells EXCEPT ![at] = a[i]]
    BY <2>1, <2>3, <2>4
  <2>6. [n EXCEPT !.cells[at] = a[i]] = [base |-> Window, cells |-> [n.cells EXCEPT ![at] = a[i]]]
    BY <2>3
  <2>. QED
    BY <2>2, <2>3, <2>5, <2>6 DEF n, s
<1>6. p = [i \in 0 .. w |-> IF i = 0 THEN Opened(m, w) ELSE Write(p[i - 1], f(i - 1), a[i])]
  <2>. SUFFICES ASSUME NEW i \in 0 .. w
                PROVE  HoldsFirst(m, a, i) = IF i = 0 THEN Opened(m, w) ELSE Write(p[i - 1], f(i - 1), a[i])
    BY Zenon
  <2>1. CASE i = 0
    BY <1>4, <2>1 DEF o
  <2>2. CASE i # 0
    <3>1. i - 1 \in 0 .. w /\ i \in 1 .. w
      BY <1>1, <2>2
    <3>2. p[i - 1] = HoldsFirst(m, a, i - 1)
      BY <3>1
    <3>. QED
      BY <1>5, <2>2, <3>1, <3>2
  <2>. QED
    BY <2>1, <2>2
<1>7. g = [i \in 0 .. w |-> IF i = 0 THEN Opened(m, w) ELSE Write(g[i - 1], f(i - 1), a[i])]
  <2>. HIDE DEF p
  <2>1. \E h : h = [i \in 0 .. w |-> IF i = 0 THEN Opened(m, w) ELSE Write(h[i - 1], f(i - 1), a[i])]
    BY <1>6
  <2>. QED
    BY <2>1 DEF Extended, f
<1>. HIDE DEF g
<1>8. \A i \in 0 .. w : g[i] = p[i]
  <2>. HIDE DEF p, w
  <2>1. Follows(0, w, g, p)
    BY <1>6, <1>7, Zenon DEF Follows
  <2>2. 0 \in Nat /\ w \in Nat
    BY <1>1
  <2>. QED
    BY <2>1, <2>2, Followed
<1>9. r = CloseGap(HoldsFirst(m, a, w), f(w))
  <2>1. g[w] = HoldsFirst(m, a, w)
    BY <1>1, <1>8
  <2>. QED
    BY <2>1, ExtendSteps DEF f, g
<1>. DEFINE h == HoldsFirst(m, a, w)
<1>10. /\ h.base = Window /\ h \in MapType
       /\ \A x \in Cells : h.cells[x] = IF x < Window - w THEN o.cells[x] ELSE a[x - (Window - w) + 1]
       /\ \A x \in Cells : x >= Window - w => x - (Window - w) + 1 \in 1 .. w
  <2>1. \A x \in Cells : /\ x >= Window - w => x - (Window - w) + 1 \in 1 .. w
                         /\ (Window - w <= x /\ x < Window - w + w) <=> ~(x < Window - w)
    BY <1>1 DEF Cells
  <2>2. \A x \in Cells : ~(x < Window - w) => x >= Window - w
    BY <1>1 DEF Cells
  <2>3. \A x \in Cells : h.cells[x] = IF x < Window - w THEN o.cells[x] ELSE a[x - (Window - w) + 1]
    BY <2>1 DEF HoldsFirst, o
  <2>4. h.cells \in [Cells -> Cell \cup {Vacant}]
    <3>1. \A x \in Cells : h.cells[x] \in Cell \cup {Vacant}
      BY <1>1, <1>2, <2>1, <2>2, <2>3 DEF MapType
    <3>2. h.cells = [x \in Cells |-> h.cells[x]]
      BY DEF HoldsFirst
    <3>. HIDE DEF h
    <3>. QED
      BY <3>1, <3>2
  <2>5. h = [base |-> Window, cells |-> h.cells] /\ Window \in 0 .. Window
    BY <1>1 DEF HoldsFirst
  <2>6. h \in MapType
    BY <2>4, <2>5 DEF MapType
  <2>. HIDE DEF h
  <2>. QED
    BY <2>1, <2>3, <2>5, <2>6
<1>. HIDE DEF h
<1>11. FillSound(h, f(w), m)
  <2>1. w <= b /\ Window - w + w = Window
    BY <1>1
  <2>2. \A x \in Cells : x \in Int /\ ~(x >= Window)
    BY <1>1 DEF Cells
  <2>3. \A x \in Cells : x >= Window - w => h.cells[x] = a[x - (Window - w) + 1] /\ h.cells[x] \in Cell
    BY <1>1, <1>10, <2>2
  <2>4. \A x \in Cells : x < Window - w => h.cells[x] = o.cells[x]
    BY <1>10
  <2>5. \A x \in Cells : b - w <= x /\ x < Window - w =>
           /\ x + w - b \in 0 .. Size(m) - 1 /\ h.cells[x] = At(m, x + w - b) /\ x + w \in Cells
    <3>. SUFFICES ASSUME NEW x \in Cells, b - w <= x, x < Window - w
                  PROVE  x + w - b \in 0 .. Size(m) - 1 /\ h.cells[x] = At(m, x + w - b) /\ x + w \in Cells
      OBVIOUS
    <3>1. x + w - b \in 0 .. Size(m) - 1 /\ b + (x + w - b) = x + w /\ x + w \in Cells
      BY <1>1, <2>2 DEF Cells
    <3>2. h.cells[x] = m.cells[x + w]
      BY <1>2, <2>4
    <3>. QED
      BY <3>1, <3>2 DEF At
  <2>6. ASSUME NEW x \in Cells, NEW y \in Cells, b - w <= x, x < y
        PROVE  h.cells[x].key < h.cells[y].key
    <3>1. CASE y < Window - w
      <4>1. /\ x + w - b \in 0 .. Size(m) - 1 /\ h.cells[x] = At(m, x + w - b)
            /\ y + w - b \in 0 .. Size(m) - 1 /\ h.cells[y] = At(m, y + w - b)
            /\ x + w - b < y + w - b
        <5>1. x < Window - w /\ b - w <= y /\ x + w - b < y + w - b
          BY <1>1, <2>2, <2>6, <3>1
        <5>. QED
          BY <2>5, <2>6, <3>1, <5>1
      <4>. QED
        BY <4>1, SolidFacts
    <3>2. CASE x < Window - w /\ ~(y < Window - w)
      <4>1. /\ x + w - b \in 0 .. Size(m) - 1 /\ h.cells[x] = At(m, x + w - b)
            /\ y - (Window - w) + 1 \in 1 .. w /\ h.cells[y] = a[y - (Window - w) + 1]
        BY <1>1, <1>10, <2>2, <2>5, <2>6, <3>2
      <4>. QED
        BY <4>1
    <3>3. CASE ~(x < Window - w)
      <4>1. y >= Window - w /\ x - (Window - w) + 1 < y - (Window - w) + 1 /\ x >= Window - w
        BY <1>1, <2>2, <2>6, <3>3
      <4>. QED
        BY <1>10, <2>3, <4>1
    <3>. QED
      BY <3>1, <3>2, <3>3
  <2>7. f(w).start = b - w /\ f(w).filled = w /\ f(w).count = w
    BY <1>3
  <2>8. \A x \in Cells : x < b - w => x < Window - w
    BY <1>1, <2>2
  <2>. QED
    BY <1>1, <1>2, <1>10, <2>1, <2>2, <2>3, <2>4, <2>6, <2>7, <2>8 DEF FillSound
<1>12. f(w) \in [start : 0 .. Window, filled : 0 .. Window, count : 0 .. Window]
  <2>1. f(w) = [start |-> b - w, filled |-> w, count |-> w]
    BY DEF f, StartFill
  <2>2. b - w \in 0 .. Window
    BY <1>1
  <2>. QED
    BY <1>1, <2>1, <2>2
<1>13. /\ Solid(r) /\ Size(r) = Size(m) + w
       /\ \A q \in 0 .. Size(m) - 1 : At(r, q) = At(m, q)
       /\ \A q \in 0 .. Size(r) - 1 : b - w + q \in Cells /\ At(r, q) = h.cells[b - w + q]
  BY <1>3, <1>9, <1>11, <1>12, CloseGapFacts DEF h
<1>14. ASSUME NEW i \in 1 .. w PROVE At(r, Size(m) + i - 1) = a[i]
  <2>1. /\ Size(m) + i - 1 \in 0 .. Size(r) - 1 /\ b - w + (Size(m) + i - 1) = Window - w + i - 1
        /\ ~(Window - w + i - 1 < Window - w) /\ Window - w + i - 1 - (Window - w) + 1 = i
    BY <1>1, <1>13
  <2>. DEFINE q == Size(m) + i - 1
              x == Window - w + i - 1
  <2>2. b - w + q \in Cells /\ At(r, q) = h.cells[b - w + q]
    BY <1>13, <2>1
  <2>3. x \in Cells /\ b - w + q = x /\ ~(x < Window - w) /\ x - (Window - w) + 1 = i
    BY <1>1, <2>1, <2>2
  <2>. HIDE DEF x, q
  <2>4. h.cells[x] = a[i]
    BY <1>10, <2>3
  <2>. QED
    BY <2>2, <2>3, <2>4 DEF q
<1>. QED
  BY <1>13, <1>14

(* Of entries with different keys, one has each rank: ranks differ, there  *)
(* are as many as entries, so none is missing.                             *)
LEMMA RankFacts ==
  ASSUME NEW S \in SUBSET Cell, IsFiniteSet(S), \A e, o \in S : e.key = o.key => e = o
  PROVE  \A i \in 1 .. Cardinality(S) : \E e \in S : Cardinality(Below(S, e.key)) = i - 1
<1>. DEFINE n == Cardinality(S)
            f == [e \in S |-> Cardinality(Below(S, e.key))]
            T == 0 .. n - 1
<1>1. n \in Nat
  BY FS_CardinalityType
<1>2. ASSUME NEW k PROVE IsFiniteSet(Below(S, k)) /\ Cardinality(Below(S, k)) \in Nat
  <2>1. Below(S, k) \in SUBSET S
    BY DEF Below
  <2>. QED
    BY <2>1, FS_Subset, FS_CardinalityType
<1>3. ASSUME NEW e \in S PROVE Cardinality(Below(S, e.key)) \in T
  <2>1. Below(S, e.key) \in SUBSET S
    BY DEF Below
  <2>2. e \notin Below(S, e.key)
    <3>1. e.key \in Int
      BY CellFacts
    <3>. QED
      BY <3>1 DEF Below
  <2>3. Cardinality(Below(S, e.key)) <= n /\ Cardinality(Below(S, e.key)) # n
    BY <2>1, <2>2, FS_Subset
  <2>4. Cardinality(Below(S, e.key)) \in Nat
    BY <1>2
  <2>. QED
    BY <1>1, <2>3, <2>4
<1>4. ASSUME NEW e \in S, NEW o \in S, e.key < o.key
      PROVE  Cardinality(Below(S, e.key)) < Cardinality(Below(S, o.key))
  <2>1. Below(S, e.key) \in SUBSET Below(S, o.key)
    <3>1. \A x \in S : x.key \in Int
      BY CellFacts
    <3>. QED
      BY <1>4, <3>1 DEF Below
  <2>2. e \in Below(S, o.key) /\ e \notin Below(S, e.key)
    <3>1. e.key \in Int
      BY CellFacts
    <3>. QED
      BY <1>4, <3>1 DEF Below
  <2>3. IsFiniteSet(Below(S, o.key))
    BY <1>2
  <2>4. /\ Cardinality(Below(S, e.key)) <= Cardinality(Below(S, o.key))
        /\ Cardinality(Below(S, e.key)) # Cardinality(Below(S, o.key))
    BY <2>1, <2>2, <2>3, FS_Subset
  <2>5. Cardinality(Below(S, e.key)) \in Nat /\ Cardinality(Below(S, o.key)) \in Nat
    BY <1>2
  <2>. QED
    BY <2>4, <2>5
<1>5. f \in Injection(S, T)
  <2>1. f \in [S -> T]
    BY <1>3
  <2>2. \A e, o \in S : f[e] = f[o] => e = o
    <3>. SUFFICES ASSUME NEW e \in S, NEW o \in S,
                         Cardinality(Below(S, e.key)) = Cardinality(Below(S, o.key)), e # o
                  PROVE  FALSE
      OBVIOUS
    <3>1. e.key \in Int /\ o.key \in Int /\ e.key # o.key
      BY CellFacts
    <3>2. e.key < o.key \/ o.key < e.key
      BY <3>1
    <3>3. Cardinality(Below(S, e.key)) \in Nat
      BY <1>2
    <3>4. e.key < o.key => Cardinality(Below(S, e.key)) < Cardinality(Below(S, o.key))
      BY <1>4
    <3>5. o.key < e.key => Cardinality(Below(S, o.key)) < Cardinality(Below(S, e.key))
      BY <1>4
    <3>. QED
      BY <3>2, <3>3, <3>4, <3>5
  <2>. HIDE DEF f, T
  <2>. QED
    BY <2>1, <2>2, Zenon DEF Injection, IsInjective
<1>6. IsFiniteSet(T) /\ Cardinality(T) = n
  <2>1. n - 1 \in Int /\ 0 \in Int /\ (IF 0 > n - 1 THEN 0 ELSE n - 1 - 0 + 1) = n
    BY <1>1
  <2>. HIDE DEF n
  <2>. QED
    BY <2>1, FS_Interval
<1>7. f \in Surjection(S, T)
  <2>. HIDE DEF f, T
  <2>. QED
    BY <1>5, <1>6, FS_Injection
<1>8. \A t \in T : \E e \in S : f[e] = t
  <2>. HIDE DEF f, T
  <2>. QED
    BY <1>7, Zenon DEF Surjection
<1>9. \A i \in 1 .. n : i - 1 \in T
  BY <1>1
<1>. QED
  BY <1>8, <1>9

(* So there is a sorted sequence of them.                                  *)
LEMMA AscendingFacts ==
  ASSUME NEW S \in SUBSET Cell, IsFiniteSet(S), \A e, o \in S : e.key = o.key => e = o
  PROVE  LET a == Ascending(S)
         IN  /\ a \in Seq(Cell) /\ Len(a) = Cardinality(S)
             /\ \A i, j \in 1 .. Len(a) : i < j => a[i].key < a[j].key
<1>. DEFINE n == Cardinality(S)
            a == Ascending(S)
<1>1. n \in Nat
  BY FS_CardinalityType
<1>2. \A i \in 1 .. n : a[i] \in S /\ Cardinality(Below(S, a[i].key)) = i - 1
  BY RankFacts DEF Ascending
<1>3. a = [i \in 1 .. n |-> a[i]]
  BY DEF Ascending
<1>. HIDE DEF a
<1>4. a \in Seq(Cell) /\ Len(a) = n
  <2>1. a \in [1 .. n -> Cell]
    BY <1>2, <1>3
  <2>. QED
    BY <1>1, <2>1
<1>5. ASSUME NEW i \in 1 .. n, NEW j \in 1 .. n, i < j PROVE a[i].key < a[j].key
  <2>1. a[i].key \in Int /\ a[j].key \in Int
    BY <1>2, CellFacts
  <2>2. ASSUME a[j].key <= a[i].key PROVE FALSE
    <3>1. Below(S, a[j].key) \in SUBSET Below(S, a[i].key)
      <4>1. \A x \in S : x.key \in Int
        BY CellFacts
      <4>. QED
        BY <2>1, <2>2, <4>1 DEF Below
    <3>2. IsFiniteSet(Below(S, a[i].key))
      <4>1. Below(S, a[i].key) \in SUBSET S
        BY DEF Below
      <4>. QED
        BY <4>1, FS_Subset
    <3>3. Cardinality(Below(S, a[j].key)) <= Cardinality(Below(S, a[i].key))
      BY <3>1, <3>2, FS_Subset
    <3>4. j - 1 <= i - 1
      BY <1>2, <3>3
    <3>. QED
      BY <1>1, <1>5, <3>4
  <2>. QED
    BY <2>1, <2>2
<1>. QED
  BY <1>4, <1>5 DEF a

(* The maps clone_from is tried with are solid.                            *)
LEMMA SourceFacts ==
  ASSUME NEW K \in SUBSET Keys, NEW v \in Values, Cardinality(K) <= Window
  PROVE  Solid(ExtendWorst(Empty, Ascending({Entry(k, v) : k \in K})))
<1>. DEFINE S == {Entry(k, v) : k \in K}
            f == [k \in K |-> Entry(k, v)]
<1>1. IsFiniteSet(K)
  BY KeysAssumption, FS_Subset
<1>2. \A k \in K : Entry(k, v) \in Cell /\ Entry(k, v).key = k
  BY CellFacts, KeysAssumption DEF Entry
<1>3. f \in Bijection(K, S)
  <2>1. f \in [K -> S]
    OBVIOUS
  <2>2. \A k, l \in K : f[k] = f[l] => k = l
    BY <1>2
  <2>3. \A e \in S : \E k \in K : f[k] = e
    OBVIOUS
  <2>. HIDE DEF f, S
  <2>. QED
    BY <2>1, <2>2, <2>3, Zenon DEF Bijection, Injection, Surjection, IsInjective
<1>4. ExistsBijection(K, S)
  BY <1>3 DEF ExistsBijection
<1>5. S \in SUBSET Cell /\ \A e, o \in S : e.key = o.key => e = o
  BY <1>2
<1>. HIDE DEF S
<1>6. IsFiniteSet(S) /\ Cardinality(S) = Cardinality(K)
  BY <1>1, <1>4, FS_Bijection
<1>7. /\ Ascending(S) \in Seq(Cell) /\ Len(Ascending(S)) <= Window
      /\ \A i, j \in 1 .. Len(Ascending(S)) : i < j => Ascending(S)[i].key < Ascending(S)[j].key
  BY <1>5, <1>6, AscendingFacts
<1>8. Solid(ExtendWorst(Empty, Ascending(S)))
  <2>1. \A p \in 0 .. Size(Empty) - 1 : FALSE
    BY EmptyIsSolid
  <2>. QED
    BY <1>7, <2>1, EmptyIsSolid, ExtendFacts
<1>. QED
  BY <1>8 DEF S

-----------------------------------------------------------------------------
(* The plain map *)

(* What the invariant is for: whatever was done to a map before, at rest   *)
(* it does what the plain map does.                                        *)
LEMMA SoundMapIsPlain ==
  MapSound => MapIsPlainMap
<1>. SUFFICES ASSUME MapSound PROVE MapIsPlainMap
  OBVIOUS
<1>1. BatchIsExact
  BY BatchFacts
<1>2. ASSUME busy = Free PROVE Solid(map) /\ Whole(map)
  BY <1>2, FreeFacts DEF Solid
<1>3. ASSUME busy = Free, NEW k \in Keys, NEW v \in Values
      PROVE  LET S == Live(map)
                 r == Insert(map, Entry(k, v))
                 plain == {e \in S : e.key # k} \cup {Entry(k, v)}
                 kept == IF Cardinality(plain) > Window THEN plain \ {TheWorst(plain)} ELSE plain
                 removed == Remove(map, k)
             IN  /\ Whole(r.map) /\ Live(r.map) = kept
                 /\ r.out = IF kept = plain THEN Vacant ELSE TheWorst(plain)
                 /\ r.ok <=> Entry(k, v) \in kept
                 /\ r.pos = Cardinality(Below(S, k))
                 /\ Whole(removed) /\ Live(removed) = {e \in S : e.key # k}
  <2>. DEFINE e == Entry(k, v)
              r == Insert(map, e)
              plain == {x \in Live(map) : x.key # k} \cup {e}
              kept == IF Cardinality(plain) > Window THEN plain \ {TheWorst(plain)} ELSE plain
  <2>1. e \in Cell /\ e.key = k
    BY <1>3, CellFacts, KeysAssumption DEF Entry
  <2>2. InsertIsPlain(map, e)
    BY <1>2, <1>3, <2>1, InsertFacts
  <2>3. PutIn(map, e) = plain
    BY <2>1 DEF PutIn, OneLess
  <2>. HIDE DEF e
  <2>4. Fits(PutIn(map, e)) = kept
    BY <2>3 DEF Fits
  <2>5. r.pos = Cardinality(Below(Live(map), k))
    BY <1>2, <1>3, <2>1, <2>2, BelowFacts, KeysAssumption DEF InsertIsPlain
  <2>6. Solid(Remove(map, k)) /\ Live(Remove(map, k)) = {x \in Live(map) : x.key # k}
    BY <1>2, <1>3, RemoveFacts, KeysAssumption DEF OneLess
  <2>. HIDE DEF plain, kept, r
  <2>7. /\ Solid(r.map) /\ Live(r.map) = kept
        /\ r.out = IF kept = plain THEN Vacant ELSE TheWorst(plain)
        /\ r.ok <=> e \in kept
    BY <2>2, <2>3, <2>4 DEF InsertIsPlain, r
  <2>8. Whole(r.map) /\ Whole(Remove(map, k))
    BY <2>6, <2>7 DEF Solid
  <2>. QED
    BY <2>5, <2>6, <2>7, <2>8 DEF plain, kept, r, e
<1>4. ASSUME busy = Free, NEW K \in SUBSET Keys, NEW v \in Values
      PROVE  LET source == ExtendWorst(Empty, Ascending({Entry(k, v) : k \in K}))
             IN  Cardinality(K) <= Window => CloneFrom(map, source) = source
  BY <1>2, <1>4, SourceFacts, CloneFacts
<1>. QED
  BY <1>1, <1>2, <1>3, <1>4 DEF MapIsPlainMap

-----------------------------------------------------------------------------
(* The book *)


(* A part of a sequence.                                                   *)
LEMMA SliceFacts ==
  ASSUME NEW S, NEW s \in Seq(S), NEW m \in 1 .. Len(s) + 1, NEW n \in m - 1 .. Len(s)
  PROVE  /\ SubSeq(s, m, n) \in Seq(S) /\ Len(SubSeq(s, m, n)) = n - m + 1
         /\ \A i \in 1 .. n - m + 1 : SubSeq(s, m, n)[i] = s[m + i - 1]
<1>1. /\ Len(s) \in Nat /\ m \in Int /\ n \in Int /\ \A i \in 1 .. Len(s) : s[i] \in S
      /\ 1 <= m /\ m <= n + 1 /\ n <= Len(s)
  OBVIOUS
<1>. DEFINE l == Len(s)
            t == SubSeq(s, m, n)
<1>. HIDE DEF l
<1>2. \A i \in m .. n : s[i] \in S
  BY <1>1 DEF l
<1>3. /\ t \in Seq(S) /\ Len(t) = (IF m <= n THEN n - m + 1 ELSE 0)
      /\ \A i \in 1 .. n - m + 1 : t[i] = s[m + i - 1]
  BY <1>1, <1>2, SubSeqProperties
<1>4. (IF m <= n THEN n - m + 1 ELSE 0) = n - m + 1
  BY <1>1
<1>. HIDE DEF t
<1>5. t \in Seq(S) /\ Len(t) = n - m + 1 /\ \A i \in 1 .. n - m + 1 : t[i] = s[m + i - 1]
  BY <1>3, <1>4
<1>. QED
  BY <1>5 DEF t

(* A sequence without its kth element: those before it, then the others.   *)
WithoutAt(q, k) == SubSeq(q, 1, k - 1) \o SubSeq(q, k + 1, Len(q))

(* It is one shorter.                                                      *)
LEMMA WithoutOne ==
  ASSUME NEW S, NEW q \in Seq(S), NEW k \in 1 .. Len(q)
  PROVE  /\ WithoutAt(q, k) \in Seq(S) /\ Len(WithoutAt(q, k)) = Len(q) - 1
         /\ \A i \in 1 .. Len(q) - 1 : WithoutAt(q, k)[i] = IF i < k THEN q[i] ELSE q[i + 1]
<1>. DEFINE t == WithoutAt(q, k)
<1>. DEFINE a == SubSeq(q, 1, k - 1)
            b == SubSeq(q, k + 1, Len(q))
            n == Len(q)
<1>0. n \in Nat /\ k \in Int /\ 1 <= k /\ k <= n /\ \A i \in 1 .. n : q[i] \in S
  OBVIOUS
<1>. HIDE DEF n
<1>1. a \in Seq(S) /\ Len(a) = k - 1 /\ \A i \in 1 .. k - 1 : a[i] = q[i]
  <2>1. \A i \in 1 .. k - 1 : q[i] \in S /\ 1 + i - 1 = i
    BY <1>0
  <2>2. 1 \in Int /\ k - 1 \in Int /\ (IF 1 <= k - 1 THEN k - 1 - 1 + 1 ELSE 0) = k - 1
        /\ k - 1 - 1 + 1 = k - 1
    BY <1>0
  <2>3. /\ a \in Seq(S) /\ Len(a) = (IF 1 <= k - 1 THEN k - 1 - 1 + 1 ELSE 0)
        /\ \A i \in 1 .. k - 1 - 1 + 1 : a[i] = q[1 + i - 1]
    BY <2>1, <2>2, SubSeqProperties
  <2>. HIDE DEF a
  <2>. QED
    BY <2>1, <2>2, <2>3
<1>2. b \in Seq(S) /\ Len(b) = n - k /\ \A i \in 1 .. n - k : b[i] = q[k + i]
  <2>. DEFINE m == k + 1
  <2>1. /\ \A i \in m .. n : q[i] \in S
        /\ \A i \in 1 .. n - k : m + i - 1 = k + i
        /\ m \in Int /\ n \in Int /\ (IF m <= n THEN n - m + 1 ELSE 0) = n - k /\ n - m + 1 = n - k
    BY <1>0
  <2>. HIDE DEF m
  <2>2. /\ SubSeq(q, m, n) \in Seq(S) /\ Len(SubSeq(q, m, n)) = (IF m <= n THEN n - m + 1 ELSE 0)
        /\ \A i \in 1 .. n - m + 1 : SubSeq(q, m, n)[i] = q[m + i - 1]
    BY <2>1, SubSeqProperties
  <2>3. b = SubSeq(q, m, n)
    BY DEF m, n
  <2>. HIDE DEF b
  <2>. QED
    BY <2>1, <2>2, <2>3
<1>. HIDE DEF a, b
<1>3. t \in Seq(S) /\ Len(t) = Len(a) + Len(b)
      /\ \A i \in 1 .. Len(a) + Len(b) : t[i] = IF i <= Len(a) THEN a[i] ELSE b[i - Len(a)]
  BY <1>1, <1>2, ConcatProperties DEF a, b, WithoutAt
<1>. HIDE DEF t
<1>4. Len(a) + Len(b) = n - 1
  BY <1>0, <1>1, <1>2
<1>5. \A i \in 1 .. n - 1 : t[i] = IF i < k THEN q[i] ELSE q[i + 1]
  <2>. SUFFICES ASSUME NEW i \in 1 .. n - 1 PROVE t[i] = IF i < k THEN q[i] ELSE q[i + 1]
    OBVIOUS
  <2>1. t[i] = IF i <= k - 1 THEN a[i] ELSE b[i - (k - 1)]
    BY <1>1, <1>3, <1>4
  <2>2. CASE i < k
    <3>1. i \in 1 .. k - 1 /\ i <= k - 1
      BY <1>0, <2>2
    <3>. QED
      BY <1>1, <2>1, <2>2, <3>1
  <2>3. CASE ~(i < k)
    <3>1. i - (k - 1) \in 1 .. n - k /\ k + (i - (k - 1)) = i + 1 /\ ~(i <= k - 1)
      BY <1>0, <2>3
    <3>. QED
      BY <1>2, <2>1, <2>3, <3>1
  <2>. QED
    BY <2>2, <2>3
<1>. QED
  BY <1>3, <1>4, <1>5 DEF n, t

(* Entries in the order of their keys.                                     *)
Ordered(s) == s \in Seq(Cell) /\ \A i, j \in 1 .. Len(s) : i < j => s[i].key < s[j].key

(* The entries there are.                                                  *)
Elements(s) == {s[i] : i \in 1 .. Len(s)}

(* Where a key is, or would be.                                            *)
Divides(s, n, k) ==
  /\ n \in 1 .. Len(s) + 1
  /\ \A i \in 1 .. n - 1 : s[i].key < k
  /\ \A i \in n .. Len(s) : s[i].key >= k

(* What is there can be replaced, ...                                      *)
PutOver(s, n, e, r) ==
  /\ n \in 1 .. Len(s) /\ s[n].key = e.key
  /\ r \in Seq(Cell) /\ Len(r) = Len(s)
  /\ \A i \in 1 .. Len(s) : r[i] = IF i = n THEN e ELSE s[i]

(* ... taken away, ...                                                     *)
TakenOut(s, n, k, r) ==
  /\ n \in 1 .. Len(s) /\ s[n].key = k
  /\ r \in Seq(Cell) /\ Len(r) = Len(s) - 1
  /\ \A i \in 1 .. Len(s) - 1 : r[i] = IF i < n THEN s[i] ELSE s[i + 1]

(* ... or put in where it was not.                                         *)
PutBetween(s, n, e, r) ==
  /\ Divides(s, n, e.key) /\ (n <= Len(s) => s[n].key # e.key)
  /\ r \in Seq(Cell) /\ Len(r) = Len(s) + 1
  /\ \A i \in 1 .. Len(s) + 1 : r[i] = IF i < n THEN s[i] ELSE IF i = n THEN e ELSE s[i - 1]

(* What one level does to the entries in their order: those of another key *)
(* stay, and E is what is now under the key.                               *)
Changes(s, k, E, r) == Ordered(r) /\ Elements(r) = {x \in Elements(s) : x.key # k} \cup E

(* The types of an ordered sequence, and its keys one by one.              *)
LEMMA OrderedFacts ==
  ASSUME NEW s, Ordered(s)
  PROVE  /\ Len(s) \in Nat /\ s \in Seq(Cell)
         /\ \A i \in 1 .. Len(s) : s[i] \in Cell /\ s[i].key \in Int
         /\ \A i, j \in 1 .. Len(s) : i < j => s[i].key < s[j].key
         /\ \A i, j \in 1 .. Len(s) : s[i].key = s[j].key => i = j
<1>1. Len(s) \in Nat /\ \A i \in 1 .. Len(s) : s[i] \in Cell /\ s[i].key \in Int
  BY CellFacts DEF Ordered
<1>2. \A i, j \in 1 .. Len(s) : s[i].key = s[j].key => i = j
  <2>. SUFFICES ASSUME NEW i \in 1 .. Len(s), NEW j \in 1 .. Len(s), s[i].key = s[j].key, i # j PROVE FALSE
    OBVIOUS
  <2>1. i < j \/ j < i
    BY <1>1
  <2>2. s[i].key < s[j].key \/ s[j].key < s[i].key
    BY <2>1 DEF Ordered
  <2>. QED
    BY <1>1, <2>2
<1>. QED
  BY <1>1, <1>2 DEF Ordered

(* Each of the three does that.                                            *)
LEMMA PutOverChanges ==
  ASSUME NEW s, Ordered(s), NEW n, NEW e \in Cell, NEW r, PutOver(s, n, e, r)
  PROVE  Changes(s, e.key, {e}, r)
<1>. USE DEF PutOver
<1>1. Ordered(r)
  <2>1. \A i \in 1 .. Len(s) : r[i].key = s[i].key
    OBVIOUS
  <2>. QED
    BY <2>1 DEF Ordered
<1>2. Elements(r) = {x \in Elements(s) : x.key # e.key} \cup {e}
  <2>1. \A i \in 1 .. Len(s) : s[i].key = e.key <=> i = n
    BY OrderedFacts
  <2>. QED
    BY <2>1 DEF Elements
<1>. QED
  BY <1>1, <1>2 DEF Changes

(* Taking an entry out changes just its key.                               *)
LEMMA TakenOutChanges ==
  ASSUME NEW s, Ordered(s), NEW n, NEW k, NEW r, TakenOut(s, n, k, r)
  PROVE  Changes(s, k, {}, r)
<1>. USE DEF TakenOut
<1>. DEFINE l == Len(s)
<1>0. l \in Nat /\ n \in 1 .. l /\ Len(r) = l - 1
  BY OrderedFacts
<1>1. Ordered(r)
  <2>. SUFFICES ASSUME NEW i \in 1 .. l - 1, NEW j \in 1 .. l - 1, i < j PROVE r[i].key < r[j].key
    BY <1>0 DEF Ordered
  <2>. DEFINE a == IF i < n THEN i ELSE i + 1
              b == IF j < n THEN j ELSE j + 1
  <2>1. a \in 1 .. l /\ b \in 1 .. l /\ a < b
    BY <1>0
  <2>2. r[i] = s[a] /\ r[j] = s[b]
    OBVIOUS
  <2>. HIDE DEF a, b, l
  <2>. QED
    BY <2>1, <2>2 DEF Ordered, l
<1>2. Elements(r) = {x \in Elements(s) : x.key # k}
  <2>1. \A i \in 1 .. l : s[i].key = k <=> i = n
    BY OrderedFacts
  <2>2. ASSUME NEW i \in 1 .. l - 1 PROVE r[i] \in Elements(s) /\ r[i].key # k
    <3>. DEFINE a == IF i < n THEN i ELSE i + 1
    <3>1. a \in 1 .. l /\ a # n /\ r[i] = s[a]
      BY <1>0
    <3>. HIDE DEF a
    <3>. QED
      BY <2>1, <3>1 DEF Elements
  <2>3. ASSUME NEW i \in 1 .. l, s[i].key # k PROVE s[i] \in Elements(r)
    <3>. DEFINE a == IF i < n THEN i ELSE i - 1
    <3>1. i # n
      BY <2>1, <2>3
    <3>2. a \in 1 .. l - 1 /\ (IF a < n THEN a ELSE a + 1) = i
      BY <1>0, <3>1
    <3>. HIDE DEF a
    <3>3. r[a] = s[i]
      BY <3>2
    <3>. QED
      BY <1>0, <3>2, <3>3 DEF Elements
  <2>. QED
    BY <1>0, <2>2, <2>3 DEF Elements
<1>. QED
  BY <1>1, <1>2 DEF Changes

(* Putting one in between changes just its key.                            *)
LEMMA PutBetweenChanges ==
  ASSUME NEW s, Ordered(s), NEW n, NEW e \in Cell, NEW r, PutBetween(s, n, e, r)
  PROVE  Changes(s, e.key, {e}, r)
<1>. DEFINE l == Len(s)
            k == e.key
<1>0. l \in Nat /\ n \in 1 .. l + 1 /\ Len(r) = l + 1 /\ k \in Int /\ r \in Seq(Cell)
  BY OrderedFacts, CellFacts DEF PutBetween, Divides
<1>1. \A i \in 1 .. l + 1 : r[i] = IF i < n THEN s[i] ELSE IF i = n THEN e ELSE s[i - 1]
  BY DEF PutBetween
<1>2. \A i \in 1 .. l : /\ s[i].key \in Int /\ (i < n => s[i].key < k) /\ (i >= n => s[i].key > k)
  <2>1. \A i \in 1 .. l : s[i].key \in Int /\ (i < n => s[i].key < k) /\ (i >= n => s[i].key >= k)
    BY <1>0, OrderedFacts DEF PutBetween, Divides
  <2>2. n <= l => s[n].key > k
    <3>1. n <= l => n \in 1 .. l /\ n >= n /\ s[n].key # k
      BY <1>0 DEF PutBetween
    <3>. QED
      BY <1>0, <2>1, <3>1
  <2>3. ASSUME NEW i \in 1 .. l, i > n PROVE s[i].key > k
    <3>1. n \in 1 .. l /\ n <= l /\ n < i
      BY <1>0, <2>3
    <3>2. s[n].key < s[i].key
      BY <3>1 DEF Ordered
    <3>. QED
      BY <1>0, <2>1, <2>2, <3>1, <3>2
  <2>4. \A i \in 1 .. l : i < n \/ i = n \/ i > n
    BY <1>0
  <2>. QED
    BY <1>0, <2>1, <2>2, <2>3, <2>4
<1>3. Ordered(r)
  <2>. SUFFICES ASSUME NEW i \in 1 .. l + 1, NEW j \in 1 .. l + 1, i < j PROVE r[i].key < r[j].key
    BY <1>0 DEF Ordered
  <2>. DEFINE a == IF i < n THEN i ELSE i - 1
              b == IF j < n THEN j ELSE j - 1
  <2>1. CASE i = n
    <3>1. r[i] = e /\ b \in 1 .. l /\ b >= n /\ r[j] = s[b]
      BY <1>0, <1>1, <2>1
    <3>. HIDE DEF b, l
    <3>. QED
      BY <1>0, <1>2, <3>1
  <2>2. CASE j = n
    <3>1. r[j] = e /\ a \in 1 .. l /\ a < n /\ r[i] = s[a]
      BY <1>0, <1>1, <2>2
    <3>. HIDE DEF a, l
    <3>. QED
      BY <1>0, <1>2, <3>1
  <2>3. CASE i # n /\ j # n
    <3>1. a \in 1 .. l /\ b \in 1 .. l /\ a < b /\ r[i] = s[a] /\ r[j] = s[b]
      BY <1>0, <1>1, <2>3
    <3>. HIDE DEF a, b
    <3>. QED
      BY <3>1 DEF Ordered
  <2>. QED
    BY <2>1, <2>2, <2>3
<1>4. Elements(r) = {x \in Elements(s) : x.key # k} \cup {e}
  <2>1. ASSUME NEW i \in 1 .. l + 1, i # n PROVE r[i] \in Elements(s) /\ r[i].key # k
    <3>. DEFINE a == IF i < n THEN i ELSE i - 1
    <3>1. a \in 1 .. l /\ r[i] = s[a] /\ (a < n \/ a >= n)
      BY <1>0, <1>1, <2>1
    <3>. HIDE DEF a
    <3>. QED
      BY <1>0, <1>2, <3>1 DEF Elements
  <2>2. ASSUME NEW i \in 1 .. l PROVE s[i] \in Elements(r)
    <3>. DEFINE a == IF i < n THEN i ELSE i + 1
    <3>1. a \in 1 .. l + 1 /\ (IF a < n THEN s[a] ELSE IF a = n THEN e ELSE s[a - 1]) = s[i]
      BY <1>0
    <3>. HIDE DEF a
    <3>2. r[a] = s[i]
      BY <1>1, <3>1
    <3>. QED
      BY <1>0, <3>1, <3>2 DEF Elements
  <2>3. r[n] = e /\ e \in Elements(r)
    BY <1>0, <1>1 DEF Elements
  <2>4. \A x \in Elements(r) : x = e \/ (x \in Elements(s) /\ x.key # k)
    BY <1>0, <2>1, <2>3 DEF Elements
  <2>5. \A x \in Elements(s) : x \in Elements(r)
    BY <2>2 DEF Elements
  <2>. QED
    BY <2>3, <2>4, <2>5
<1>. QED
  BY <1>3, <1>4 DEF Changes

-----------------------------------------------------------------------------
(* The two tiers of a book's side *)

(* The window, then the deque.                                             *)
Chain(w, d) == InOrder(w) \o d

(* A side that is whole: the tiers together are in order, and the window   *)
(* has what is published while there is a deque.                           *)
BookOk(w, d) ==
  /\ Solid(w) /\ d \in Seq(Cell) /\ Ordered(Chain(w, d))
  /\ d # <<>> => Size(w) >= PUBLISHED

(* How the marks of a window lie.                                          *)
LEMMA TargetFacts ==
  /\ Window \in Nat /\ PUBLISHED \in Nat /\ TARGET \in Nat /\ BAND = Window - TARGET
  /\ 1 <= PUBLISHED /\ PUBLISHED <= TARGET /\ TARGET < Window
<1>. DEFINE t == (Window + PUBLISHED) \div 2
<1>1. Window \in Nat /\ PUBLISHED \in Nat /\ 1 <= PUBLISHED /\ PUBLISHED < Window
  BY WindowAssumption, PublishedAssumption
<1>2. t \in Int /\ 2 * t <= Window + PUBLISHED /\ Window + PUBLISHED < 2 * t + 2
  BY <1>1
<1>. HIDE DEF t
<1>3. TARGET = t /\ BAND = Window - t
  BY DEF TARGET, BAND, t
<1>. QED
  BY <1>1, <1>2, <1>3

(* Where in the chain what is.                                             *)
LEMMA ChainFacts ==
  ASSUME NEW w, Solid(w), NEW d \in Seq(Cell)
  PROVE  /\ Chain(w, d) \in Seq(Cell) /\ Len(Chain(w, d)) = Size(w) + Len(d)
         /\ Size(w) \in 0 .. Window /\ Len(d) \in Nat /\ Window \in Nat
         /\ \A i \in 1 .. Size(w) : Chain(w, d)[i] = At(w, i - 1)
         /\ \A i \in 1 .. Len(d) : Chain(w, d)[Size(w) + i] = d[i]
         /\ \A i \in Size(w) + 1 .. Size(w) + Len(d) : Chain(w, d)[i] = d[i - Size(w)]
<1>. DEFINE n == Size(w)
            o == InOrder(w)
            c == Chain(w, d)
<1>1. n \in 0 .. Window /\ Len(d) \in Nat /\ Window \in Nat
  BY SolidFacts, WindowAssumption
<1>2. \A i \in 1 .. n : i - 1 \in 0 .. n - 1
  BY <1>1
<1>3. o = [i \in 1 .. n |-> At(w, i - 1)] /\ \A i \in 1 .. n : At(w, i - 1) \in Cell
  BY <1>2, SolidFacts DEF InOrder
<1>. HIDE DEF n
<1>4. o \in Seq(Cell) /\ Len(o) = n /\ \A i \in 1 .. n : o[i] = At(w, i - 1)
  <2>. HIDE DEF o
  <2>. QED
    BY <1>1, <1>3
<1>. HIDE DEF o
<1>5. c \in Seq(Cell) /\ Len(c) = n + Len(d)
      /\ \A i \in 1 .. n + Len(d) : c[i] = IF i <= n THEN o[i] ELSE d[i - n]
  BY <1>4, ConcatProperties DEF Chain, o
<1>. HIDE DEF c
<1>. DEFINE l == Len(d)
<1>. HIDE DEF l
<1>6. n \in Nat /\ l \in Nat /\ \A i \in 1 .. n + l : c[i] = IF i <= n THEN o[i] ELSE d[i - n]
  BY <1>1, <1>5 DEF l
<1>7. \A i \in 1 .. n : c[i] = At(w, i - 1)
  BY <1>4, <1>6
<1>8. \A i \in n + 1 .. n + l : c[i] = d[i - n]
  BY <1>6
<1>9. \A i \in 1 .. l : c[n + i] = d[i]
  <2>. SUFFICES ASSUME NEW i \in 1 .. l PROVE c[n + i] = d[i]
    OBVIOUS
  <2>. DEFINE m == n + i
  <2>1. m \in n + 1 .. n + l /\ m - n = i
    BY <1>6
  <2>. HIDE DEF m
  <2>2. c[m] = d[i]
    BY <1>8, <2>1
  <2>. QED
    BY <2>2 DEF m
<1>. QED
  BY <1>1, <1>5, <1>7, <1>8, <1>9 DEF n, c, l

(* Each tier of an ordered chain is in order, and the window is better     *)
(* than the deque.                                                         *)
LEMMA TierFacts ==
  ASSUME NEW w, NEW d, BookOk(w, d)
  PROVE  /\ Solid(w) /\ Ordered(d) /\ Ordered(Chain(w, d))
         /\ \A p \in 0 .. Size(w) - 1, i \in 1 .. Len(d) : At(w, p).key < d[i].key
<1>. DEFINE n == Size(w)
            l == Len(d)
            c == Chain(w, d)
<1>1. Solid(w) /\ d \in Seq(Cell) /\ Ordered(c)
  BY DEF BookOk
<1>2. /\ n \in Nat /\ l \in Nat /\ Len(c) = n + l
      /\ \A i \in 1 .. n : c[i] = At(w, i - 1)
      /\ \A i \in 1 .. l : c[n + i] = d[i]
  <2>1. n \in 0 .. Window /\ l \in Nat /\ Window \in Nat
    BY <1>1, ChainFacts
  <2>2. n \in Nat
    BY <2>1
  <2>. QED
    BY <1>1, <2>1, <2>2, ChainFacts, Zenon
<1>. HIDE DEF n, l, c
<1>3. ASSUME NEW i \in 1 .. l, NEW j \in 1 .. l, i < j PROVE d[i].key < d[j].key
  <2>1. n + i \in 1 .. n + l /\ n + j \in 1 .. n + l /\ n + i < n + j
    BY <1>2, <1>3
  <2>. QED
    BY <1>1, <1>2, <2>1 DEF Ordered
<1>4. ASSUME NEW p \in 0 .. n - 1, NEW i \in 1 .. l PROVE At(w, p).key < d[i].key
  <2>1. /\ p + 1 \in 1 .. n + l /\ n + i \in 1 .. n + l /\ p + 1 < n + i
        /\ p + 1 \in 1 .. n /\ p + 1 - 1 = p
    BY <1>2
  <2>2. c[p + 1].key < c[n + i].key
    BY <1>1, <1>2, <2>1 DEF Ordered
  <2>3. c[n + i] = d[i]
    BY <1>2
  <2>4. c[p + 1] = At(w, p)
    BY <1>2, <2>1
  <2>. QED
    BY <2>2, <2>3, <2>4, Zenon
<1>. QED
  BY <1>1, <1>3, <1>4 DEF n, l, c, Ordered

(* The published top, by position; it is the same where the best are.      *)
LEMMA TopFacts ==
  ASSUME NEW w, Solid(w)
  PROVE  Top(w) = [i \in 1 .. Shallower(PUBLISHED, Size(w)) |-> At(w, i - 1)]
<1>. DEFINE n == Size(w)
            o == InOrder(w)
            k == Shallower(PUBLISHED, n)
<1>1. n \in Nat /\ PUBLISHED \in Nat /\ k \in 0 .. n
  BY SolidFacts, TargetFacts DEF Shallower
<1>2. \A i \in 1 .. n : i - 1 \in 0 .. n - 1
  BY <1>1
<1>3. o = [i \in 1 .. n |-> At(w, i - 1)] /\ \A i \in 1 .. n : At(w, i - 1) \in Cell
  BY <1>2, SolidFacts DEF InOrder
<1>. HIDE DEF n, k
<1>4. o \in Seq(Cell) /\ Len(o) = n /\ \A i \in 1 .. n : o[i] = At(w, i - 1)
  <2>. HIDE DEF o
  <2>. QED
    BY <1>1, <1>3
<1>. HIDE DEF o
<1>5. SubSeq(o, 1, k) \in Seq(Cell) /\ Len(SubSeq(o, 1, k)) = k
      /\ \A i \in 1 .. k : SubSeq(o, 1, k)[i] = At(w, i - 1)
  <2>. DEFINE t == SubSeq(o, 1, k)
  <2>1. 1 \in 1 .. Len(o) + 1 /\ k \in 1 - 1 .. Len(o) /\ k - 1 + 1 = k
        /\ \A i \in 1 .. k : 1 + i - 1 = i /\ i \in 1 .. n
    BY <1>1, <1>4
  <2>2. t \in Seq(Cell) /\ Len(t) = k - 1 + 1 /\ \A i \in 1 .. k - 1 + 1 : t[i] = o[1 + i - 1]
    BY <1>4, <2>1, SliceFacts
  <2>. HIDE DEF t
  <2>3. t \in Seq(Cell) /\ Len(t) = k /\ \A i \in 1 .. k : t[i] = At(w, i - 1)
    BY <1>4, <2>1, <2>2
  <2>. QED
    BY <2>3 DEF t
<1>6. SubSeq(o, 1, k) = [i \in 1 .. k |-> At(w, i - 1)]
  <2>. DEFINE t == SubSeq(o, 1, k)
  <2>. HIDE DEF t
  <2>1. t \in Seq(Cell) /\ Len(t) = k /\ \A i \in 1 .. k : t[i] = At(w, i - 1)
    BY <1>5 DEF t
  <2>2. t = [i \in 1 .. k |-> At(w, i - 1)]
    BY <1>1, <2>1
  <2>. QED
    BY <2>2 DEF t
<1>. QED
  BY <1>6 DEF Top, o, k, n

(* Maps that agree on their best have the same top.                        *)
LEMMA SameTop ==
  ASSUME NEW w, Solid(w), NEW r, Solid(r),
         Shallower(PUBLISHED, Size(w)) = Shallower(PUBLISHED, Size(r)),
         \A p \in 0 .. Shallower(PUBLISHED, Size(w)) - 1 : At(r, p) = At(w, p)
  PROVE  Top(r) = Top(w)
<1>. DEFINE k == Shallower(PUBLISHED, Size(w))
<1>1. k \in Nat /\ \A p \in 0 .. k - 1 : At(r, p) = At(w, p)
  BY SolidFacts, TargetFacts DEF Shallower
<1>. HIDE DEF k
<1>2. \A i \in 1 .. k : At(r, i - 1) = At(w, i - 1)
  <2>1. \A i \in 1 .. k : i - 1 \in 0 .. k - 1
    BY <1>1
  <2>. QED
    BY <1>1, <2>1
<1>3. Top(w) = [i \in 1 .. k |-> At(w, i - 1)] /\ Top(r) = [i \in 1 .. k |-> At(r, i - 1)]
  BY TopFacts DEF k
<1>. QED
  BY <1>2, <1>3

(* Where a binary search puts a key.                                       *)
LEMMA DeepPositionFacts ==
  ASSUME NEW d, Ordered(d), NEW k \in Int
  PROVE  /\ Divides(d, DeepPosition(d, k), k)
         /\ InDeep(d, k) <=> DeepPosition(d, k) <= Len(d) /\ d[DeepPosition(d, k)].key = k
<1>. DEFINE l == Len(d)
            T == {n \in 1 .. l + 1 : n = l + 1 \/ d[n].key >= k}
            B == {i \in DOMAIN d : d[i].key < k}
<1>1. /\ l \in Nat /\ DOMAIN d = 1 .. l /\ d \in Seq(Cell)
      /\ \A i \in 1 .. l : d[i].key \in Int
      /\ \A i, j \in 1 .. l : i < j => d[i].key < d[j].key
  BY OrderedFacts
<1>. HIDE DEF l
<1>2. T \subseteq Nat /\ l + 1 \in T
  BY <1>1
<1>3. PICK x \in T : \A y \in T : x <= y
  BY <1>2, LeastNatural
<1>4. x \in 1 .. l + 1
  BY <1>3
<1>5. \A i \in 1 .. x - 1 : d[i].key < k
  <2>. SUFFICES ASSUME NEW i \in 1 .. x - 1 PROVE d[i].key < k
    OBVIOUS
  <2>1. i \in 1 .. l /\ i \in 1 .. l + 1 /\ ~(x <= i)
    BY <1>1, <1>4
  <2>2. ~(d[i].key >= k)
    BY <1>3, <2>1
  <2>. QED
    BY <1>1, <2>1, <2>2
<1>6. \A i \in x .. l : d[i].key >= k
  <2>. SUFFICES ASSUME NEW i \in x .. l PROVE d[i].key >= k
    OBVIOUS
  <2>1. x \in 1 .. l /\ i \in 1 .. l /\ (x = i \/ x < i) /\ x # l + 1
    BY <1>1, <1>4
  <2>2. d[x].key >= k
    BY <1>3, <2>1
  <2>. QED
    BY <1>1, <2>1, <2>2
<1>7. B = 1 .. x - 1
  <2>1. \A i \in 1 .. l : (i \in 1 .. x - 1) \/ i \in x .. l
    BY <1>1, <1>4
  <2>2. \A i \in 1 .. x - 1 : i \in 1 .. l
    BY <1>1, <1>4
  <2>3. \A i \in x .. l : i \in 1 .. l /\ ~(d[i].key < k)
    <3>1. \A i \in x .. l : i \in 1 .. l
      BY <1>1, <1>4
    <3>. QED
      BY <1>1, <1>6, <3>1
  <2>. QED
    BY <1>1, <1>5, <2>1, <2>2, <2>3
<1>8. Cardinality(1 .. x - 1) = x - 1
  <2>1. 1 \in Int /\ x - 1 \in Int /\ (IF 1 > x - 1 THEN 0 ELSE x - 1 - 1 + 1) = x - 1
    BY <1>1, <1>4
  <2>. QED
    BY <2>1, FS_Interval
<1>9. DeepPosition(d, k) = x
  <2>1. DeepPosition(d, k) = Cardinality(B) + 1
    BY DEF DeepPosition
  <2>. HIDE DEF B
  <2>. QED
    BY <1>1, <1>4, <1>7, <1>8, <2>1
<1>10. Divides(d, x, k)
  BY <1>4, <1>5, <1>6 DEF Divides, l
<1>11. InDeep(d, k) <=> x <= l /\ d[x].key = k
  <2>1. InDeep(d, k) <=> \E i \in 1 .. l : d[i].key = k
    BY <1>1 DEF InDeep
  <2>2. ASSUME NEW i \in 1 .. l, d[i].key = k PROVE x <= l /\ d[x].key = k
    <3>1. i \in x .. l
      <4>1. ~(i \in 1 .. x - 1)
        BY <1>1, <1>5, <2>2
      <4>. QED
        BY <1>1, <1>4, <4>1
    <3>2. x \in 1 .. l /\ x \in x .. l /\ (x = i \/ x < i)
      BY <1>1, <1>4, <3>1
    <3>3. d[x].key >= k
      BY <1>6, <3>2
    <3>. QED
      BY <1>1, <2>2, <3>2, <3>3
  <2>3. x <= l => x \in 1 .. l
    BY <1>1, <1>4
  <2>. QED
    BY <2>1, <2>2, <2>3
<1>. QED
  BY <1>9, <1>10, <1>11 DEF l

-----------------------------------------------------------------------------
(* What changes a side *)

(* The deque with one entry more, and with one less.                       *)
WithEntry(d, n, e) == SubSeq(d, 1, n - 1) \o <<e>> \o SubSeq(d, n, Len(d))

(* The one has one cell more, and the others in their order ...            *)
LEMMA WithEntryFacts ==
  ASSUME NEW d, Ordered(d), NEW n \in 1 .. Len(d) + 1, NEW e \in Cell
  PROVE  /\ WithEntry(d, n, e) \in Seq(Cell) /\ Len(WithEntry(d, n, e)) = Len(d) + 1
         /\ \A i \in 1 .. Len(d) + 1 :
              WithEntry(d, n, e)[i] = IF i < n THEN d[i] ELSE IF i = n THEN e ELSE d[i - 1]
<1>. DEFINE l == Len(d)
            a == SubSeq(d, 1, n - 1)
            b == SubSeq(d, n, Len(d))
            ae == a \o <<e>>
            put == WithEntry(d, n, e)
<1>1. l \in Nat /\ n \in 1 .. l + 1 /\ d \in Seq(Cell)
  BY OrderedFacts
<1>2. a \in Seq(Cell) /\ Len(a) = n - 1 /\ \A i \in 1 .. n - 1 : a[i] = d[i]
  <2>1. 1 \in 1 .. Len(d) + 1 /\ n - 1 \in 1 - 1 .. Len(d) /\ n - 1 - 1 + 1 = n - 1
        /\ \A i \in 1 .. n - 1 : 1 + i - 1 = i
    BY <1>1
  <2>2. a \in Seq(Cell) /\ Len(a) = n - 1 - 1 + 1 /\ \A i \in 1 .. n - 1 - 1 + 1 : a[i] = d[1 + i - 1]
    BY <1>1, <2>1, SliceFacts
  <2>. HIDE DEF a
  <2>. QED
    BY <2>1, <2>2
<1>3. b \in Seq(Cell) /\ Len(b) = l - n + 1 /\ \A i \in 1 .. l - n + 1 : b[i] = d[n + i - 1]
  <2>1. n \in 1 .. Len(d) + 1 /\ Len(d) \in n - 1 .. Len(d)
    BY <1>1
  <2>. QED
    BY <1>1, <2>1, SliceFacts
<1>. HIDE DEF a, b
<1>5. ae \in Seq(Cell) /\ Len(ae) = n /\ \A i \in 1 .. n : ae[i] = IF i < n THEN d[i] ELSE e
  <2>. DEFINE o == <<e>>
  <2>1. o \in Seq(Cell) /\ Len(o) = 1 /\ o[1] = e
    OBVIOUS
  <2>. HIDE DEF o
  <2>2. ae \in Seq(Cell) /\ Len(ae) = Len(a) + Len(o)
        /\ \A i \in 1 .. Len(a) + Len(o) : ae[i] = IF i <= Len(a) THEN a[i] ELSE o[i - Len(a)]
    BY <1>2, <2>1, ConcatProperties DEF o
  <2>. HIDE DEF ae
  <2>3. Len(a) + Len(o) = n /\ \A i \in 1 .. n : (i <= Len(a) <=> i < n) /\ (~(i < n) => i - Len(a) = 1)
    BY <1>1, <1>2, <2>1
  <2>. QED
    BY <1>1, <1>2, <2>1, <2>2, <2>3
<1>. HIDE DEF ae
<1>6. put \in Seq(Cell) /\ Len(put) = l + 1
      /\ \A i \in 1 .. l + 1 : put[i] = IF i < n THEN d[i] ELSE IF i = n THEN e ELSE d[i - 1]
  <2>1. put \in Seq(Cell) /\ Len(put) = Len(ae) + Len(b)
        /\ \A i \in 1 .. Len(ae) + Len(b) : put[i] = IF i <= Len(ae) THEN ae[i] ELSE b[i - Len(ae)]
    <3>1. put = ae \o b
      BY DEF ae, a, b, WithEntry
    <3>. HIDE DEF put
    <3>. QED
      BY <1>3, <1>5, <3>1, ConcatProperties
  <2>. HIDE DEF put
  <2>2. Len(ae) + Len(b) = l + 1
    BY <1>1, <1>3, <1>5
  <2>3. ASSUME NEW i \in 1 .. l + 1 PROVE put[i] = IF i < n THEN d[i] ELSE IF i = n THEN e ELSE d[i - 1]
    <3>. DEFINE j == i - n
    <3>1. put[i] = IF i <= n THEN ae[i] ELSE b[j]
      BY <1>5, <2>1, <2>2
    <3>2. CASE i <= n
      <4>1. i \in 1 .. n /\ (~(i < n) => i = n)
        BY <1>1, <3>2
      <4>. QED
        BY <1>5, <3>1, <3>2, <4>1
    <3>3. CASE ~(i <= n)
      <4>1. j \in 1 .. l - n + 1 /\ n + j - 1 = i - 1 /\ ~(i < n) /\ i # n
        BY <1>1, <3>3
      <4>. HIDE DEF j
      <4>. QED
        BY <1>3, <3>1, <3>3, <4>1
    <3>. QED
      BY <3>2, <3>3
  <2>. QED
    BY <2>1, <2>2, <2>3
<1>. QED
  BY <1>6 DEF put, l

(* ... and the other has one less.                                         *)
LEMMA DeepRemoveFacts ==
  ASSUME NEW d, Ordered(d), NEW n \in 1 .. Len(d)
  PROVE  /\ DeepRemove(d, n) \in Seq(Cell) /\ Len(DeepRemove(d, n)) = Len(d) - 1
         /\ \A i \in 1 .. Len(d) - 1 : DeepRemove(d, n)[i] = IF i < n THEN d[i] ELSE d[i + 1]
<1>1. Ordered(d) /\ d \in Seq(Cell) /\ WithoutAt(d, n) = DeepRemove(d, n)
  BY DEF Ordered, WithoutAt, DeepRemove
<1>. QED
  BY <1>1, WithoutOne

(* The two tiers together are whole, as the chain is.                      *)
LEMMA BookFromChain ==
  ASSUME NEW w, Solid(w), NEW d \in Seq(Cell), NEW k, NEW E, NEW s, Changes(s, k, E, Chain(w, d)),
         d # <<>> => Size(w) >= PUBLISHED
  PROVE  BookOk(w, d)
BY DEF BookOk, Changes

(* A level deeper than the window is put into the deque.                   *)
LEMMA DeepPut ==
  ASSUME NEW w, NEW d, BookOk(w, d), NEW e \in Cell, Size(w) >= PUBLISHED,
         \A p \in 0 .. Size(w) - 1 : At(w, p).key < e.key
  PROVE  LET r == DeepUpdate(d, e)
         IN  BookOk(w, r) /\ Changes(Chain(w, d), e.key, {e}, Chain(w, r))
<1>. DEFINE k == e.key
            n == DeepPosition(d, k)
            r == DeepUpdate(d, e)
            s == Size(w)
            l == Len(d)
            c == Chain(w, d)
            q == Chain(w, r)
<1>1. Solid(w) /\ Ordered(d) /\ Ordered(c) /\ k \in Int /\ d \in Seq(Cell)
  BY TierFacts, CellFacts DEF Ordered
<1>2. /\ s \in Nat /\ l \in Nat /\ Len(c) = s + l
      /\ \A i \in 1 .. s : c[i] = At(w, i - 1)
      /\ \A i \in 1 .. l : c[s + i] = d[i]
      /\ \A i \in s + 1 .. s + l : c[i] = d[i - s]
  <2>1. s \in 0 .. Window /\ l \in Nat /\ Window \in Nat
    BY <1>1, ChainFacts
  <2>2. s \in Nat
    BY <2>1
  <2>. QED
    BY <1>1, <2>1, <2>2, ChainFacts, Zenon
<1>3. Divides(d, n, k) /\ (InDeep(d, k) <=> n <= l /\ d[n].key = k)
  BY <1>1, DeepPositionFacts
<1>4. n \in 1 .. l + 1 /\ (\A i \in 1 .. n - 1 : d[i].key < k) /\ (\A i \in n .. l : d[i].key >= k)
  BY <1>3 DEF Divides
<1>5. /\ InDeep(d, k) => r = [d EXCEPT ![n] = e]
      /\ ~InDeep(d, k) => r = WithEntry(d, n, e)
  BY DEF DeepUpdate, WithEntry
<1>6. /\ InDeep(d, k) => /\ n <= l /\ r \in Seq(Cell) /\ Len(r) = l
                         /\ \A i \in 1 .. l : r[i] = IF i = n THEN e ELSE d[i]
      /\ ~InDeep(d, k) => /\ r \in Seq(Cell) /\ Len(r) = l + 1
                          /\ \A i \in 1 .. l + 1 : r[i] = IF i < n THEN d[i] ELSE IF i = n THEN e ELSE d[i - 1]
  <2>1. CASE InDeep(d, k)
    <3>1. n \in 1 .. l /\ n <= l
      BY <1>2, <1>3, <1>4, <2>1
    <3>. HIDE DEF r, n
    <3>. QED
      BY <1>1, <1>5, <2>1, <3>1
  <2>2. CASE ~InDeep(d, k)
    <3>. DEFINE g == WithEntry(d, n, e)
    <3>. HIDE DEF r, n
    <3>1. /\ g \in Seq(Cell) /\ Len(g) = l + 1
          /\ \A i \in 1 .. l + 1 : g[i] = IF i < n THEN d[i] ELSE IF i = n THEN e ELSE d[i - 1]
      BY <1>1, <1>4, WithEntryFacts
    <3>2. r = g
      BY <1>5, <2>2
    <3>. HIDE DEF g
    <3>. QED
      BY <2>2, <3>1, <3>2
  <2>. QED
    BY <2>1, <2>2
<1>7. r \in Seq(Cell)
  BY <1>6
<1>8. /\ Len(q) = s + Len(r) /\ q \in Seq(Cell)
      /\ \A i \in 1 .. s : q[i] = At(w, i - 1)
      /\ \A i \in s + 1 .. s + Len(r) : q[i] = r[i - s]
  BY <1>1, <1>7, ChainFacts, Zenon
<1>. HIDE DEF r, s, l, c, q, n
<1>9. Changes(c, k, {e}, q)
  <2>1. CASE InDeep(d, k)
    <3>1. s + n \in 1 .. s + l /\ c[s + n].key = k
      BY <1>2, <1>3, <1>4, <1>6, <2>1
    <3>2. ASSUME NEW i \in 1 .. s + l PROVE q[i] = IF i = s + n THEN e ELSE c[i]
      <4>. DEFINE j == i - s
      <4>1. CASE i <= s
        <5>1. i \in 1 .. s /\ i # s + n
          BY <1>2, <1>4, <4>1
        <5>. QED
          BY <1>2, <1>8, <5>1
      <4>2. CASE ~(i <= s)
        <5>1. j \in 1 .. l /\ i \in s + 1 .. s + l /\ (i = s + n <=> j = n)
          BY <1>2, <1>4, <4>2
        <5>2. q[i] = r[j] /\ c[i] = d[j]
          BY <1>2, <1>6, <1>8, <2>1, <5>1
        <5>. HIDE DEF j
        <5>. QED
          BY <1>6, <2>1, <5>1, <5>2
      <4>. QED
        BY <4>1, <4>2
    <3>3. PutOver(c, s + n, e, q)
      BY <1>2, <1>6, <1>8, <2>1, <3>1, <3>2 DEF PutOver
    <3>. QED
      BY <1>1, <3>3, PutOverChanges
  <2>2. CASE ~InDeep(d, k)
    <3>. DEFINE m == s + n
    <3>0. Len(r) = l + 1 /\ Len(q) = s + l + 1 /\ m \in 1 .. s + l + 1 /\ m = s + n
          /\ \A i \in 1 .. l + 1 : r[i] = IF i < n THEN d[i] ELSE IF i = n THEN e ELSE d[i - 1]
      BY <1>2, <1>4, <1>6, <1>8, <2>2
    <3>. HIDE DEF m
    <3>1. ASSUME NEW i \in 1 .. s + l + 1
          PROVE  q[i] = IF i < m THEN c[i] ELSE IF i = m THEN e ELSE c[i - 1]
      <4>. DEFINE j == i - s
                  h == i - 1
      <4>1. CASE i <= s
        <5>1. i \in 1 .. s /\ i < m
          BY <1>2, <1>4, <3>0, <4>1
        <5>. QED
          BY <1>2, <1>8, <5>1
      <4>2. CASE ~(i <= s)
        <5>1. j \in 1 .. l + 1 /\ i \in s + 1 .. s + Len(r)
              /\ (i < m <=> j < n) /\ (i = m <=> j = n)
          BY <1>2, <1>4, <3>0, <4>2
        <5>2. q[i] = r[j] /\ r[j] = IF j < n THEN d[j] ELSE IF j = n THEN e ELSE d[j - 1]
          BY <1>8, <3>0, <5>1
        <5>3. j < n => c[i] = d[j]
          <6>1. j < n => i \in s + 1 .. s + l
            BY <1>2, <1>4, <3>0, <4>2
          <6>. QED
            BY <1>2, <6>1
        <5>4. j > n => c[h] = d[j - 1]
          <6>1. j > n => h \in s + 1 .. s + l /\ h - s = j - 1
            BY <1>2, <1>4, <3>0, <4>2
          <6>. HIDE DEF h
          <6>. QED
            BY <1>2, <6>1
        <5>5. j < n \/ j = n \/ j > n
          BY <1>2, <1>4, <3>0
        <5>. QED
          BY <1>4, <5>1, <5>2, <5>3, <5>4, <5>5
      <4>. QED
        BY <4>1, <4>2
    <3>2. \A i \in 1 .. m - 1 : c[i].key < k
      <4>. SUFFICES ASSUME NEW i \in 1 .. m - 1 PROVE c[i].key < k
        OBVIOUS
      <4>. DEFINE j == i - s
                  h == i - 1
      <4>1. (i \in 1 .. s /\ h \in 0 .. s - 1) \/ (i \in s + 1 .. s + l /\ j \in 1 .. n - 1)
        BY <1>2, <1>4, <3>0
      <4>2. (i \in 1 .. s => c[i] = At(w, h)) /\ (i \in s + 1 .. s + l => c[i] = d[j])
        BY <1>2
      <4>. HIDE DEF j, h
      <4>. QED
        BY <1>4, <4>1, <4>2 DEF s
    <3>3. \A i \in m .. s + l : c[i].key >= k
      <4>. SUFFICES ASSUME NEW i \in m .. s + l PROVE c[i].key >= k
        OBVIOUS
      <4>. DEFINE j == i - s
      <4>1. i \in s + 1 .. s + l /\ j \in n .. l
        BY <1>2, <1>4, <3>0
      <4>2. c[i] = d[j]
        BY <1>2, <4>1
      <4>. HIDE DEF j
      <4>. QED
        BY <1>4, <4>1, <4>2
    <3>4. m <= s + l => c[m].key # k
      <4>1. m <= s + l => n \in 1 .. l /\ n <= l
        BY <1>2, <1>4, <3>0
      <4>. QED
        BY <1>2, <1>3, <2>2, <3>0, <4>1
    <3>5. PutBetween(c, m, e, q)
      <4>1. Len(c) = s + l /\ Len(c) + 1 = s + l + 1 /\ Len(q) = Len(c) + 1 /\ m \in 1 .. Len(c) + 1
        BY <1>2, <3>0
      <4>2. Divides(c, m, e.key)
        <5>1. (\A i \in 1 .. m - 1 : c[i].key < e.key) /\ (\A i \in m .. Len(c) : c[i].key >= e.key)
          BY <3>2, <3>3, <4>1 DEF k
        <5>. QED
          BY <4>1, <5>1, Zenon DEF Divides
      <4>. QED
        BY <1>8, <3>1, <3>4, <4>1, <4>2 DEF PutBetween, k
    <3>. QED
      BY <1>1, <3>5, PutBetweenChanges
  <2>. QED
    BY <2>1, <2>2
<1>10. BookOk(w, r)
  BY <1>1, <1>7, <1>9, BookFromChain DEF q
<1>. QED
  BY <1>9, <1>10 DEF r, q, c, k

(* A level of the deque is taken away.                                     *)
LEMMA DeepTake ==
  ASSUME NEW w, NEW d, BookOk(w, d), NEW n \in 1 .. Len(d)
  PROVE  LET r == DeepRemove(d, n)
         IN  BookOk(w, r) /\ Changes(Chain(w, d), d[n].key, {}, Chain(w, r))
<1>. DEFINE k == d[n].key
            r == DeepRemove(d, n)
            s == Size(w)
            l == Len(d)
            c == Chain(w, d)
            q == Chain(w, r)
            m == s + n
<1>1. Solid(w) /\ Ordered(d) /\ Ordered(c) /\ d \in Seq(Cell)
  BY TierFacts DEF Ordered
<1>2. /\ s \in Nat /\ l \in Nat /\ Len(c) = s + l /\ n \in 1 .. l
      /\ \A i \in 1 .. s : c[i] = At(w, i - 1)
      /\ \A i \in 1 .. l : c[s + i] = d[i]
      /\ \A i \in s + 1 .. s + l : c[i] = d[i - s]
  <2>1. s \in 0 .. Window /\ l \in Nat /\ Window \in Nat
    BY <1>1, ChainFacts
  <2>2. s \in Nat
    BY <2>1
  <2>. QED
    BY <1>1, <2>1, <2>2, ChainFacts, Zenon
<1>3. r \in Seq(Cell) /\ Len(r) = l - 1 /\ \A i \in 1 .. l - 1 : r[i] = IF i < n THEN d[i] ELSE d[i + 1]
  BY <1>1, DeepRemoveFacts
<1>4. /\ Len(q) = s + Len(r) /\ q \in Seq(Cell)
      /\ \A i \in 1 .. s : q[i] = At(w, i - 1)
      /\ \A i \in s + 1 .. s + Len(r) : q[i] = r[i - s]
  BY <1>1, <1>3, ChainFacts, Zenon
<1>. HIDE DEF r, s, l, c, q, k
<1>5. Len(q) = s + l - 1 /\ m \in 1 .. s + l /\ m = s + n /\ n \in 1 .. l
  BY <1>2, <1>3, <1>4
<1>6. c[m].key = k
  BY <1>2, <1>5 DEF k
<1>. HIDE DEF m
<1>7. ASSUME NEW i \in 1 .. s + l - 1 PROVE q[i] = IF i < m THEN c[i] ELSE c[i + 1]
  <2>. DEFINE j == i - s
              h == i + 1
  <2>1. CASE i <= s
    <3>1. i \in 1 .. s /\ i < m
      BY <1>2, <1>5, <2>1
    <3>. QED
      BY <1>2, <1>4, <3>1
  <2>2. CASE ~(i <= s)
    <3>1. /\ j \in 1 .. l - 1 /\ i \in s + 1 .. s + Len(r) /\ (i < m <=> j < n)
          /\ i \in s + 1 .. s + l /\ h \in s + 1 .. s + l /\ h - s = j + 1
      BY <1>2, <1>3, <1>5, <2>2
    <3>2. q[i] = r[j] /\ c[i] = d[j]
      BY <1>2, <1>4, <3>1
    <3>3. r[j] = IF j < n THEN d[j] ELSE d[j + 1]
      BY <1>3, <3>1
    <3>. HIDE DEF h
    <3>4. c[h] = d[j + 1]
      BY <1>2, <3>1
    <3>. QED
      BY <3>1, <3>2, <3>3, <3>4 DEF h
  <2>. QED
    BY <2>1, <2>2
<1>8. TakenOut(c, m, k, q)
  BY <1>2, <1>4, <1>5, <1>6, <1>7 DEF TakenOut
<1>9. Changes(c, k, {}, q)
  BY <1>1, <1>8, TakenOutChanges
<1>10. d # <<>>
  BY <1>2 DEF l
<1>11. BookOk(w, r)
  BY <1>1, <1>3, <1>9, <1>10, BookFromChain DEF q, BookOk
<1>. QED
  BY <1>9, <1>11 DEF r, q, c, k

(* A level of the window is given another quantity, ...                    *)
LEMMA WindowOver ==
  ASSUME NEW w, NEW d, BookOk(w, d), NEW pos \in 0 .. Size(w) - 1, NEW e \in Cell, At(w, pos).key = e.key
  PROVE  LET r == Overwrite(w, pos, e.val)
         IN  /\ BookOk(r, d) /\ Changes(Chain(w, d), e.key, {e}, Chain(r, d))
             /\ pos >= PUBLISHED => Top(r) = Top(w)
<1>. DEFINE r == Overwrite(w, pos, e.val)
            s == Size(w)
            l == Len(d)
            c == Chain(w, d)
            q == Chain(r, d)
            m == pos + 1
<1>1. Solid(w) /\ Ordered(c) /\ d \in Seq(Cell)
  BY TierFacts DEF Ordered
<1>2. Solid(r) /\ Size(r) = s /\ \A p \in 0 .. s - 1 : At(r, p) = IF p = pos THEN e ELSE At(w, p)
  BY <1>1, OverwriteFacts
<1>3. /\ s \in Nat /\ l \in Nat /\ Len(c) = s + l /\ c \in Seq(Cell)
      /\ \A i \in 1 .. s : c[i] = At(w, i - 1)
      /\ \A i \in s + 1 .. s + l : c[i] = d[i - s]
  <2>1. s \in 0 .. Window /\ l \in Nat /\ Window \in Nat
    BY <1>1, ChainFacts
  <2>2. s \in Nat
    BY <2>1
  <2>. QED
    BY <1>1, <2>1, <2>2, ChainFacts, Zenon
<1>4. /\ Len(q) = Size(r) + l /\ q \in Seq(Cell)
      /\ \A i \in 1 .. Size(r) : q[i] = At(r, i - 1)
      /\ \A i \in Size(r) + 1 .. Size(r) + l : q[i] = d[i - Size(r)]
  BY <1>1, <1>2, ChainFacts, Zenon
<1>. HIDE DEF r, s, l, c, q
<1>5. m \in 1 .. s /\ m \in 1 .. s + l /\ m - 1 = pos /\ pos \in 0 .. s - 1
  BY <1>3 DEF s
<1>6. c[m].key = e.key
  BY <1>3, <1>5
<1>7. ASSUME NEW i \in 1 .. s + l PROVE q[i] = IF i = m THEN e ELSE c[i]
  <2>. DEFINE j == i - 1
  <2>1. CASE i <= s
    <3>1. i \in 1 .. s /\ j \in 0 .. s - 1 /\ (i = m <=> j = pos)
      BY <1>3, <1>5, <2>1
    <3>2. q[i] = At(r, j) /\ c[i] = At(w, j)
      BY <1>2, <1>3, <1>4, <3>1
    <3>. HIDE DEF j, m
    <3>. QED
      BY <1>2, <3>1, <3>2
  <2>2. CASE ~(i <= s)
    <3>1. i \in s + 1 .. s + l /\ i # m
      BY <1>3, <1>5, <2>2
    <3>. QED
      BY <1>2, <1>3, <1>4, <3>1
  <2>. QED
    BY <2>1, <2>2
<1>. HIDE DEF m
<1>8. PutOver(c, m, e, q)
  BY <1>2, <1>3, <1>4, <1>5, <1>6, <1>7 DEF PutOver
<1>9. Changes(c, e.key, {e}, q)
  BY <1>1, <1>8, PutOverChanges
<1>10. BookOk(r, d)
  BY <1>1, <1>2, <1>9, BookFromChain DEF q, BookOk, s
<1>11. ASSUME pos >= PUBLISHED PROVE Top(r) = Top(w)
  <2>1. /\ Shallower(PUBLISHED, Size(w)) = Shallower(PUBLISHED, Size(r))
        /\ \A p \in 0 .. Shallower(PUBLISHED, Size(w)) - 1 : p \in 0 .. s - 1 /\ p # pos
    BY <1>2, <1>3, <1>5, <1>11, TargetFacts DEF Shallower, s
  <2>. QED
    BY <1>1, <1>2, <2>1, SameTop
<1>. QED
  BY <1>9, <1>10, <1>11 DEF r, q, c

(* ... a level is put into it, ...                                         *)
LEMMA WindowPut ==
  ASSUME NEW w, NEW d, BookOk(w, d), ~IsFull(w), NEW pos \in 0 .. Size(w), NEW e \in Cell,
         \A p \in 0 .. pos - 1 : At(w, p).key < e.key,
         \A p \in pos .. Size(w) - 1 : e.key < At(w, p).key,
         \A i \in 1 .. Len(d) : e.key < d[i].key
  PROVE  LET r == InsertAt(w, pos, e)
         IN  /\ BookOk(r, d) /\ Changes(Chain(w, d), e.key, {e}, Chain(r, d))
             /\ pos >= PUBLISHED => Top(r) = Top(w)
<1>. DEFINE r == InsertAt(w, pos, e)
            k == e.key
            s == Size(w)
            l == Len(d)
            c == Chain(w, d)
            q == Chain(r, d)
            m == pos + 1
<1>1. Solid(w) /\ Ordered(c) /\ d \in Seq(Cell) /\ Ordered(d) /\ k \in Int
  BY TierFacts, CellFacts DEF Ordered
<1>2. /\ Solid(r) /\ Size(r) = s + 1
      /\ \A p \in 0 .. s : At(r, p) = IF p < pos THEN At(w, p) ELSE IF p = pos THEN e ELSE At(w, p - 1)
  BY <1>1, InsertAtFacts
<1>3. /\ s \in Nat /\ l \in Nat /\ Len(c) = s + l /\ c \in Seq(Cell)
      /\ \A i \in 1 .. s : c[i] = At(w, i - 1)
      /\ \A i \in s + 1 .. s + l : c[i] = d[i - s]
  <2>1. s \in 0 .. Window /\ l \in Nat /\ Window \in Nat
    BY <1>1, ChainFacts
  <2>2. s \in Nat
    BY <2>1
  <2>. QED
    BY <1>1, <2>1, <2>2, ChainFacts, Zenon
<1>4. /\ Len(q) = s + 1 + l /\ q \in Seq(Cell)
      /\ \A i \in 1 .. s + 1 : q[i] = At(r, i - 1)
      /\ \A i \in s + 1 + 1 .. s + 1 + l : q[i] = d[i - (s + 1)]
  <2>. HIDE DEF r, l, q, s
  <2>1. /\ Len(q) = Size(r) + l /\ q \in Seq(Cell)
        /\ \A i \in 1 .. Size(r) : q[i] = At(r, i - 1)
        /\ \A i \in Size(r) + 1 .. Size(r) + l : q[i] = d[i - Size(r)]
    BY <1>1, <1>2, ChainFacts, Zenon DEF q, l
  <2>. QED
    BY <1>2, <2>1, Zenon
<1>5. /\ pos \in 0 .. s /\ (\A p \in 0 .. pos - 1 : At(w, p).key < k)
      /\ (\A p \in pos .. s - 1 : k < At(w, p).key) /\ \A i \in 1 .. l : k < d[i].key
  OBVIOUS
<1>. HIDE DEF r, s, l, c, q, k
<1>6. m \in 1 .. s + l + 1 /\ m - 1 = pos /\ m \in 1 .. s + 1
  BY <1>3, <1>5
<1>7. ASSUME NEW i \in 1 .. s + l + 1
      PROVE  q[i] = IF i < m THEN c[i] ELSE IF i = m THEN e ELSE c[i - 1]
  <2>. DEFINE j == i - 1
              h == i - s - 1
  <2>1. CASE i <= s + 1
    <3>1. i \in 1 .. s + 1 /\ j \in 0 .. s /\ (i < m <=> j < pos) /\ (i = m <=> j = pos)
          /\ (j < pos => i \in 1 .. s) /\ (j > pos => j \in 1 .. s)
      BY <1>3, <1>5, <1>6, <2>1
    <3>2. q[i] = At(r, j) /\ At(r, j) = IF j < pos THEN At(w, j) ELSE IF j = pos THEN e ELSE At(w, j - 1)
      BY <1>2, <1>4, <3>1
    <3>3. j < pos => c[i] = At(w, j)
      BY <1>3, <3>1
    <3>. HIDE DEF j
    <3>4. j > pos => c[j] = At(w, j - 1)
      BY <1>3, <3>1
    <3>5. j < pos \/ j = pos \/ j > pos
      BY <1>3, <1>5, <3>1
    <3>6. c[i - 1] = c[j]
      BY DEF j
    <3>. HIDE DEF m
    <3>. QED
      BY <1>5, <3>1, <3>2, <3>3, <3>4, <3>5, <3>6
  <2>2. CASE ~(i <= s + 1)
    <3>1. i \in s + 1 + 1 .. s + 1 + l /\ i - (s + 1) = h /\ ~(i < m) /\ i # m
          /\ j \in s + 1 .. s + l /\ j - s = h
      BY <1>3, <1>5, <1>6, <2>2
    <3>2. q[i] = d[h]
      BY <1>4, <3>1
    <3>. HIDE DEF j
    <3>3. c[j] = d[h]
      BY <1>3, <3>1
    <3>. QED
      BY <3>1, <3>2, <3>3 DEF j
  <2>. QED
    BY <2>1, <2>2
<1>8. Len(c) = s + l /\ Len(c) + 1 = s + l + 1 /\ Len(q) = s + l + 1
  BY <1>3, <1>4
<1>9. \A i \in 1 .. m - 1 : c[i].key < k
  <2>. SUFFICES ASSUME NEW i \in 1 .. m - 1 PROVE c[i].key < k
    OBVIOUS
  <2>. DEFINE j == i - 1
  <2>1. i \in 1 .. s /\ j \in 0 .. pos - 1
    BY <1>3, <1>5, <1>6
  <2>2. c[i] = At(w, j)
    BY <1>3, <2>1
  <2>. QED
    BY <1>5, <2>1, <2>2
<1>10. \A i \in m .. s + l : k < c[i].key
  <2>. SUFFICES ASSUME NEW i \in m .. s + l PROVE k < c[i].key
    OBVIOUS
  <2>. DEFINE j == i - 1
              h == i - s
  <2>1. CASE i <= s
    <3>1. i \in 1 .. s /\ j \in pos .. s - 1
      BY <1>3, <1>5, <1>6, <2>1
    <3>2. c[i] = At(w, j)
      BY <1>3, <3>1
    <3>. QED
      BY <1>5, <3>1, <3>2
  <2>2. CASE ~(i <= s)
    <3>1. i \in s + 1 .. s + l /\ h \in 1 .. l
      BY <1>3, <1>5, <1>6, <2>2
    <3>2. c[i] = d[h]
      BY <1>3, <3>1
    <3>. QED
      BY <1>5, <3>1, <3>2
  <2>. QED
    BY <2>1, <2>2
<1>. HIDE DEF m
<1>11. PutBetween(c, m, e, q)
  <2>1. ASSUME NEW i \in m .. s + l PROVE c[i].key >= k /\ c[i].key # k
    <3>1. i \in 1 .. Len(c)
      BY <1>3, <1>6, <1>8
    <3>2. c[i].key \in Int
      BY <1>1, <3>1, OrderedFacts
    <3>. QED
      BY <1>1, <1>10, <3>2
  <2>2. Divides(c, m, k)
    BY <1>6, <1>8, <1>9, <2>1 DEF Divides
  <2>3. m <= Len(c) => m \in m .. s + l
    BY <1>3, <1>6, <1>8
  <2>. QED
    BY <1>4, <1>7, <1>8, <2>1, <2>2, <2>3 DEF PutBetween, k
<1>12. Changes(c, k, {e}, q)
  BY <1>1, <1>11, PutBetweenChanges DEF k
<1>13. BookOk(r, d)
  <2>1. d # <<>> => Size(r) >= PUBLISHED
    BY <1>2, <1>3, TargetFacts DEF BookOk, s
  <2>. QED
    BY <1>1, <1>2, <1>12, <2>1, BookFromChain DEF q
<1>14. ASSUME pos >= PUBLISHED PROVE Top(r) = Top(w)
  <2>1. /\ Shallower(PUBLISHED, Size(w)) = Shallower(PUBLISHED, Size(r))
        /\ \A p \in 0 .. Shallower(PUBLISHED, Size(w)) - 1 : p \in 0 .. s /\ p < pos
    BY <1>2, <1>3, <1>5, <1>14, TargetFacts DEF Shallower, s
  <2>. QED
    BY <1>1, <1>2, <2>1, SameTop
<1>. QED
  BY <1>12, <1>13, <1>14 DEF r, q, c, k

(* ... or one is taken away: the top is the same if it is beyond it, and   *)
(* there are enough left.                                                  *)
LEMMA WindowTake ==
  ASSUME NEW w, NEW d, BookOk(w, d), NEW pos \in 0 .. Size(w) - 1
  PROVE  LET r == RemoveAt(w, pos)
         IN  /\ Solid(r) /\ Size(r) = Size(w) - 1
             /\ Changes(Chain(w, d), At(w, pos).key, {}, Chain(r, d))
             /\ pos >= PUBLISHED /\ Size(r) >= PUBLISHED => Top(r) = Top(w)
<1>. DEFINE r == RemoveAt(w, pos)
            k == At(w, pos).key
            s == Size(w)
            l == Len(d)
            c == Chain(w, d)
            q == Chain(r, d)
            m == pos + 1
<1>1. Solid(w) /\ Ordered(c) /\ d \in Seq(Cell)
  BY TierFacts DEF Ordered
<1>2. /\ Solid(r) /\ Size(r) = s - 1
      /\ \A p \in 0 .. s - 2 : At(r, p) = IF p < pos THEN At(w, p) ELSE At(w, p + 1)
  BY <1>1, RemoveAtFacts
<1>3. /\ s \in Nat /\ l \in Nat /\ Len(c) = s + l /\ c \in Seq(Cell)
      /\ \A i \in 1 .. s : c[i] = At(w, i - 1)
      /\ \A i \in s + 1 .. s + l : c[i] = d[i - s]
  <2>1. s \in 0 .. Window /\ l \in Nat /\ Window \in Nat
    BY <1>1, ChainFacts
  <2>2. s \in Nat
    BY <2>1
  <2>. QED
    BY <1>1, <2>1, <2>2, ChainFacts, Zenon
<1>4. /\ Len(q) = s - 1 + l /\ q \in Seq(Cell)
      /\ \A i \in 1 .. s - 1 : q[i] = At(r, i - 1)
      /\ \A i \in s - 1 + 1 .. s - 1 + l : q[i] = d[i - (s - 1)]
  <2>. HIDE DEF r, l, q, s
  <2>1. /\ Len(q) = Size(r) + l /\ q \in Seq(Cell)
        /\ \A i \in 1 .. Size(r) : q[i] = At(r, i - 1)
        /\ \A i \in Size(r) + 1 .. Size(r) + l : q[i] = d[i - Size(r)]
    BY <1>1, <1>2, ChainFacts, Zenon DEF q, l
  <2>. QED
    BY <1>2, <2>1, Zenon
<1>5. pos \in 0 .. s - 1
  OBVIOUS
<1>. HIDE DEF r, s, l, c, q, k
<1>6. m \in 1 .. s /\ m \in 1 .. s + l /\ m - 1 = pos
  BY <1>3, <1>5
<1>7. ASSUME NEW i \in 1 .. s + l - 1 PROVE q[i] = IF i < m THEN c[i] ELSE c[i + 1]
  <2>. DEFINE j == i - 1
              h == i + 1
              g == i - s + 1
  <2>1. CASE i <= s - 1
    <3>1. i \in 1 .. s - 1 /\ j \in 0 .. s - 2 /\ (i < m <=> j < pos) /\ i \in 1 .. s /\ h \in 1 .. s
          /\ h - 1 = i /\ j + 1 = i
      BY <1>3, <1>5, <1>6, <2>1
    <3>2. q[i] = At(r, j) /\ c[i] = At(w, j)
      BY <1>3, <1>4, <3>1
    <3>3. At(r, j) = IF j < pos THEN At(w, j) ELSE At(w, j + 1)
      BY <1>2, <3>1
    <3>. HIDE DEF h, j
    <3>4. c[h] = At(w, i)
      BY <1>3, <3>1
    <3>. QED
      BY <3>1, <3>2, <3>3, <3>4 DEF h
  <2>2. CASE ~(i <= s - 1)
    <3>1. i \in s - 1 + 1 .. s - 1 + l /\ i - (s - 1) = g /\ ~(i < m) /\ h \in s + 1 .. s + l /\ h - s = g
      BY <1>3, <1>5, <1>6, <2>2
    <3>2. q[i] = d[g]
      BY <1>4, <3>1
    <3>. HIDE DEF h
    <3>3. c[h] = d[g]
      BY <1>3, <3>1
    <3>. QED
      BY <3>1, <3>2, <3>3 DEF h
  <2>. QED
    BY <2>1, <2>2
<1>8. c[m].key = k
  BY <1>3, <1>6 DEF k
<1>. HIDE DEF m
<1>9. TakenOut(c, m, k, q)
  <2>1. Len(c) = s + l /\ Len(q) = s + l - 1 /\ Len(q) = Len(c) - 1 /\ Len(c) - 1 = s + l - 1
    BY <1>3, <1>4
  <2>. QED
    BY <1>4, <1>6, <1>7, <1>8, <2>1 DEF TakenOut
<1>10. Changes(c, k, {}, q)
  BY <1>1, <1>9, TakenOutChanges
<1>11. ASSUME pos >= PUBLISHED, Size(r) >= PUBLISHED PROVE Top(r) = Top(w)
  <2>1. /\ Shallower(PUBLISHED, Size(w)) = Shallower(PUBLISHED, Size(r))
        /\ \A p \in 0 .. Shallower(PUBLISHED, Size(w)) - 1 : p \in 0 .. s - 2 /\ p < pos
    BY <1>2, <1>3, <1>5, <1>11, TargetFacts DEF Shallower, s
  <2>. QED
    BY <1>1, <1>2, <2>1, SameTop
<1>. QED
  BY <1>2, <1>10, <1>11 DEF r, q, c, k, s

(* Two chains alike by position are one.                                   *)
LEMMA SameSeq ==
  ASSUME NEW a \in Seq(Cell), NEW b \in Seq(Cell), Len(a) = Len(b), \A i \in 1 .. Len(a) : a[i] = b[i]
  PROVE  a = b
BY SeqEqual

(* push_front, one by one, is a recursive function: the last ends at the   *)
(* front.                                                                  *)
Pushed(d, a) ==
  CHOOSE after : after = [i \in 0 .. Len(a) |-> IF i = 0 THEN d ELSE <<a[i]>> \o after[i - 1]]

(* That is what PushedFront folds.                                         *)
LEMMA PushedFrontSteps ==
  ASSUME NEW d, NEW a
  PROVE  PushedFront(d, a) = Pushed(d, a)[Len(a)]
BY DEF PushedFront, Pushed

(* What the first n pushes make of it.                                     *)
FrontOf(d, a, n) == [j \in 1 .. n + Len(d) |-> IF j <= n THEN a[n + 1 - j] ELSE d[j - n]]

(* The fold is that closed form.                                           *)
LEMMA PushedFrontFacts ==
  ASSUME NEW d \in Seq(Cell), NEW a \in Seq(Cell)
  PROVE  PushedFront(d, a) = FrontOf(d, a, Len(a)) /\ PushedFront(d, a) \in Seq(Cell)
<1>. DEFINE n == Len(a)
            l == Len(d)
            g == Pushed(d, a)
            p == [i \in 0 .. n |-> FrontOf(d, a, i)]
<1>1. n \in Nat /\ l \in Nat /\ (\A i \in 1 .. n : a[i] \in Cell) /\ (\A i \in 1 .. l : d[i] \in Cell)
  OBVIOUS
<1>2. ASSUME NEW i \in 0 .. n
      PROVE  FrontOf(d, a, i) \in Seq(Cell) /\ Len(FrontOf(d, a, i)) = i + l
  <2>1. ASSUME NEW j \in 1 .. i + l PROVE (IF j <= i THEN a[i + 1 - j] ELSE d[j - i]) \in Cell
    <3>. DEFINE x == i + 1 - j
                y == j - i
    <3>1. (j <= i => x \in 1 .. n) /\ (~(j <= i) => y \in 1 .. l)
      BY <1>1, <1>2
    <3>. HIDE DEF x, y
    <3>2. (j <= i => a[x] \in Cell) /\ (~(j <= i) => d[y] \in Cell)
      BY <1>1, <3>1
    <3>. QED
      BY <3>2 DEF x, y
  <2>2. i + l \in Nat
    BY <1>1
  <2>. DEFINE f == FrontOf(d, a, i)
  <2>3. f = [j \in 1 .. i + l |-> IF j <= i THEN a[i + 1 - j] ELSE d[j - i]]
    BY DEF FrontOf
  <2>4. f \in [1 .. i + l -> Cell]
    BY <2>1, <2>3
  <2>. HIDE DEF f, l
  <2>. QED
    BY <2>2, <2>4 DEF f
<1>3. FrontOf(d, a, 0) = d
  <2>. DEFINE f == FrontOf(d, a, 0)
  <2>1. f \in Seq(Cell) /\ Len(f) = l
    BY <1>1, <1>2
  <2>2. \A j \in 1 .. l : f[j] = d[j]
    BY <1>1 DEF FrontOf
  <2>. HIDE DEF f
  <2>. QED
    BY <2>1, <2>2, SameSeq DEF f
<1>4. ASSUME NEW i \in 1 .. n PROVE <<a[i]>> \o FrontOf(d, a, i - 1) = FrontOf(d, a, i)
  <2>. DEFINE h == i - 1
              o == <<a[i]>>
              u == FrontOf(d, a, h)
              v == FrontOf(d, a, i)
              t == o \o u
  <2>1. h \in 0 .. n /\ i \in 0 .. n /\ i \in Int /\ 1 + (h + l) = i + l /\ h + 1 = i
    BY <1>1
  <2>2. o \in Seq(Cell) /\ Len(o) = 1 /\ o[1] = a[i]
    BY <1>1
  <2>. HIDE DEF o
  <2>3. u \in Seq(Cell) /\ Len(u) = h + l /\ v \in Seq(Cell) /\ Len(v) = i + l
    BY <1>2, <2>1
  <2>4. /\ \A j \in 1 .. h + l : u[j] = IF j <= h THEN a[h + 1 - j] ELSE d[j - h]
        /\ \A j \in 1 .. i + l : v[j] = IF j <= i THEN a[i + 1 - j] ELSE d[j - i]
    BY DEF FrontOf
  <2>. HIDE DEF u, v, l, n
  <2>5. t \in Seq(Cell) /\ Len(t) = 1 + Len(u)
        /\ \A j \in 1 .. 1 + Len(u) : t[j] = IF j <= 1 THEN o[j] ELSE u[j - 1]
    <3>1. t \in Seq(Cell) /\ Len(t) = Len(o) + Len(u)
          /\ \A j \in 1 .. Len(o) + Len(u) : t[j] = IF j <= Len(o) THEN o[j] ELSE u[j - Len(o)]
      BY <2>2, <2>3, ConcatProperties
    <3>. HIDE DEF t
    <3>. QED
      BY <2>2, <3>1
  <2>. HIDE DEF t
  <2>6. ASSUME NEW j \in 1 .. i + l PROVE t[j] = v[j]
    <3>. DEFINE x == j - 1
    <3>1. t[j] = IF j <= 1 THEN o[j] ELSE u[x]
      BY <2>1, <2>3, <2>5
    <3>2. CASE j = 1
      <4>1. j <= 1 /\ j <= i /\ i + 1 - j = i
        BY <1>1, <2>1, <3>2
      <4>. QED
        BY <2>2, <2>4, <3>1, <3>2, <4>1
    <3>3. CASE j # 1
      <4>1. ~(j <= 1) /\ x \in 1 .. h + l /\ (x <= h <=> j <= i) /\ h + 1 - x = i + 1 - j /\ x - h = j - i
        BY <1>1, <2>1, <3>3
      <4>. HIDE DEF x, h
      <4>2. u[x] = IF x <= h THEN a[h + 1 - x] ELSE d[x - h]
        BY <2>4, <4>1
      <4>. QED
        BY <2>4, <3>1, <4>1, <4>2
    <3>. QED
      BY <3>2, <3>3
  <2>7. Len(t) = Len(v) /\ \A j \in 1 .. Len(t) : t[j] = v[j]
    BY <2>1, <2>3, <2>5, <2>6
  <2>8. t = v
    BY <2>3, <2>5, <2>7, SameSeq
  <2>. QED
    BY <2>8 DEF t, o, u, v
<1>5. p = [i \in 0 .. n |-> IF i = 0 THEN d ELSE <<a[i]>> \o p[i - 1]]
  <2>. SUFFICES ASSUME NEW i \in 0 .. n
                PROVE  FrontOf(d, a, i) = IF i = 0 THEN d ELSE <<a[i]>> \o p[i - 1]
    BY Zenon
  <2>1. CASE i = 0
    BY <1>3, <2>1
  <2>2. CASE i # 0
    <3>1. i - 1 \in 0 .. n /\ i \in 1 .. n
      BY <1>1, <2>2
    <3>2. p[i - 1] = FrontOf(d, a, i - 1)
      BY <3>1
    <3>. QED
      BY <1>4, <2>2, <3>1, <3>2
  <2>. QED
    BY <2>1, <2>2
<1>6. g = [i \in 0 .. n |-> IF i = 0 THEN d ELSE <<a[i]>> \o g[i - 1]]
  <2>. HIDE DEF p
  <2>1. \E h : h = [i \in 0 .. n |-> IF i = 0 THEN d ELSE <<a[i]>> \o h[i - 1]]
    BY <1>5
  <2>. QED
    BY <2>1 DEF Pushed
<1>. HIDE DEF g
<1>7. \A i \in 0 .. n : g[i] = p[i]
  <2>. HIDE DEF p, n
  <2>1. Follows(0, n, g, p)
    BY <1>5, <1>6, Zenon DEF Follows
  <2>2. 0 \in Nat /\ n \in Nat
    BY <1>1
  <2>. QED
    BY <2>1, <2>2, Followed
<1>8. n \in 0 .. n
  BY <1>1
<1>9. PushedFront(d, a) = FrontOf(d, a, n)
  BY <1>7, <1>8, PushedFrontSteps DEF g
<1>. QED
  BY <1>2, <1>8, <1>9

(* A drain that is dropped at once leaves the best entries.                *)
LEMMA DrainFacts ==
  ASSUME NEW w, Solid(w), NEW n \in 0 .. Size(w)
  PROVE  LET r == DrainWorst(w, n)
         IN  /\ Solid(r) /\ Size(r) = Size(w) - n
             /\ \A p \in 0 .. Size(w) - n - 1 : At(r, p) = At(w, p)
<1>. DEFINE it == [next |-> Window - n, end |-> Window, from |-> w.base, to |-> Window - n]
            m == Disowned(w)
<1>1. /\ w.base \in 0 .. Window /\ Size(w) = Window - w.base /\ Window \in Nat /\ w \in MapType
      /\ \A i \in Cells : i < w.base => w.cells[i] = Vacant
  BY SolidFacts, WindowAssumption DEF Solid
<1>2. n \in Nat /\ n <= Size(w)
  BY <1>1
<1>3. it \in [next : 0 .. Window, end : 0 .. Window, from : 0 .. Window, to : 0 .. Window]
  BY <1>1, <1>2
<1>4. m \in MapType /\ m.base = Window /\ m.cells = w.cells
  BY <1>1 DEF Disowned, MapType
<1>5. \A i \in Cells : i < Window - n \/ (Window - n <= i /\ i < Window)
  BY <1>1, <1>2 DEF Cells
<1>6. DrainSound(m, it, w)
  <2>. HIDE DEF m
  <2>. QED
    BY <1>1, <1>2, <1>4, <1>5 DEF DrainSound
<1>7. DrainWorst(w, n) = Restore(m, it)
  BY DEF DrainWorst, StartDrain
<1>8. it.to - it.from = Size(w) - n
  BY <1>1, <1>2
<1>. DEFINE r == Restore(m, it)
<1>. HIDE DEF it, m
<1>9. Solid(r) /\ Size(r) = it.to - it.from /\ \A p \in 0 .. Size(r) - 1 : At(r, p) = At(w, p)
  BY <1>3, <1>6, RestoreFacts
<1>. HIDE DEF r
<1>. QED
  BY <1>7, <1>8, <1>9 DEF r

(* A spill moves the worst half of a full window, in its order: the chain  *)
(* is the same.                                                            *)
LEMMA SpillFacts ==
  ASSUME NEW w, NEW d, BookOk(w, d), IsFull(w)
  PROVE  LET b == Spill(w, d)
         IN  /\ BookOk(b.window, b.deep) /\ Size(b.window) = TARGET
             /\ Chain(b.window, b.deep) = Chain(w, d)
             /\ \A p \in 0 .. TARGET - 1 : At(b.window, p) = At(w, p)
             /\ Top(b.window) = Top(w)
<1>. DEFINE t == TARGET
            o == InOrder(w)
            x == SubSeq(o, t + 1, Window)
            a == [i \in 1 .. BAND |-> x[BAND + 1 - i]]
            r == DrainWorst(w, BAND)
            f == PushedFront(d, a)
            l == Len(d)
            c == Chain(w, d)
            q == Chain(r, f)
<1>1. Solid(w) /\ Ordered(c) /\ d \in Seq(Cell) /\ Size(w) = Window
  <2>1. Solid(w) /\ Ordered(c) /\ d \in Seq(Cell)
    BY TierFacts DEF Ordered
  <2>. QED
    BY <2>1, SolidFacts, WindowAssumption DEF IsFull
<1>2. /\ Window \in Nat /\ t \in Nat /\ BAND \in Nat /\ BAND = Window - t /\ t < Window /\ l \in Nat
      /\ PUBLISHED \in Nat /\ PUBLISHED <= t
  BY <1>1, TargetFacts
<1>. HIDE DEF t, l
<1>3. Solid(r) /\ Size(r) = t /\ \A p \in 0 .. t - 1 : At(r, p) = At(w, p)
  <2>1. BAND \in 0 .. Size(w) /\ Size(w) - BAND = t
    BY <1>1, <1>2
  <2>. QED
    BY <1>1, <2>1, DrainFacts
<1>4. o \in Seq(Cell) /\ Len(o) = Window /\ \A i \in 1 .. Window : o[i] = At(w, i - 1)
  <2>1. \A i \in 1 .. Window : i - 1 \in 0 .. Window - 1
    BY <1>2
  <2>2. o = [i \in 1 .. Window |-> At(w, i - 1)] /\ \A i \in 1 .. Window : At(w, i - 1) \in Cell
    BY <1>1, <2>1, SolidFacts DEF InOrder
  <2>. HIDE DEF o
  <2>. QED
    BY <1>2, <2>2
<1>. HIDE DEF o
<1>5. x \in Seq(Cell) /\ Len(x) = BAND /\ \A i \in 1 .. BAND : x[i] = o[t + i]
  <2>. DEFINE m == t + 1
              y == SubSeq(o, m, Window)
  <2>1. m \in 1 .. Len(o) + 1 /\ Window \in m - 1 .. Len(o) /\ Window - m + 1 = BAND
        /\ \A i \in 1 .. BAND : m + i - 1 = t + i
    BY <1>2, <1>4
  <2>2. x = y
    OBVIOUS
  <2>. HIDE DEF m, x
  <2>3. y \in Seq(Cell) /\ Len(y) = Window - m + 1 /\ \A i \in 1 .. Window - m + 1 : y[i] = o[m + i - 1]
    BY <1>4, <2>1, SliceFacts
  <2>. HIDE DEF y
  <2>. QED
    BY <2>1, <2>2, <2>3
<1>. HIDE DEF x
<1>6. a \in Seq(Cell) /\ Len(a) = BAND /\ \A i \in 1 .. BAND : a[i] = x[BAND + 1 - i]
  <2>1. \A i \in 1 .. BAND : BAND + 1 - i \in 1 .. BAND
    BY <1>2
  <2>2. \A i \in 1 .. BAND : x[BAND + 1 - i] \in Cell
    BY <1>5, <2>1
  <2>. QED
    BY <1>2, <2>2
<1>7. f = FrontOf(d, a, BAND) /\ f \in Seq(Cell)
  BY <1>1, <1>6, PushedFrontFacts
<1>. HIDE DEF a
<1>8. \A j \in 1 .. BAND + l : f[j] = IF j <= BAND THEN a[BAND + 1 - j] ELSE d[j - BAND]
  BY <1>7 DEF FrontOf, l
<1>9. Len(f) = BAND + l
  <2>1. DOMAIN f = 1 .. BAND + l
    BY <1>7 DEF FrontOf, l
  <2>. HIDE DEF f
  <2>. QED
    BY <1>2, <1>7, <2>1
<1>10. /\ Len(c) = Window + l /\ c \in Seq(Cell)
       /\ \A i \in 1 .. Window : c[i] = At(w, i - 1)
       /\ \A i \in Window + 1 .. Window + l : c[i] = d[i - Window]
  BY <1>1, ChainFacts, Zenon DEF l
<1>. HIDE DEF f, r
<1>11. /\ Len(q) = t + Len(f) /\ q \in Seq(Cell)
       /\ \A i \in 1 .. t : q[i] = At(r, i - 1)
       /\ \A i \in t + 1 .. t + Len(f) : q[i] = f[i - t]
  <2>1. /\ Len(q) = Size(r) + Len(f) /\ q \in Seq(Cell)
        /\ \A i \in 1 .. Size(r) : q[i] = At(r, i - 1)
        /\ \A i \in Size(r) + 1 .. Size(r) + Len(f) : q[i] = f[i - Size(r)]
    BY <1>3, <1>7, ChainFacts, Zenon
  <2>. HIDE DEF q
  <2>. QED
    BY <1>3, <2>1, Zenon
<1>. HIDE DEF q, c
<1>12. Len(q) = Window + l /\ Len(c) = Window + l
  BY <1>2, <1>9, <1>10, <1>11
<1>13. ASSUME NEW i \in 1 .. Window + l PROVE q[i] = c[i]
  <2>. DEFINE j == i - t
              h == i - 1
              g == BAND + 1 - j
  <2>1. CASE i <= t
    <3>1. i \in 1 .. t /\ h \in 0 .. t - 1 /\ i \in 1 .. Window
      BY <1>2, <2>1
    <3>2. q[i] = At(r, h) /\ c[i] = At(w, h)
      BY <1>10, <1>11, <3>1
    <3>. HIDE DEF h
    <3>. QED
      BY <1>3, <3>1, <3>2
  <2>2. CASE ~(i <= t) /\ i <= Window
    <3>1. i \in t + 1 .. t + Len(f) /\ j \in 1 .. BAND + l /\ j <= BAND /\ j \in 1 .. BAND
          /\ g \in 1 .. BAND /\ BAND + 1 - g = j /\ t + j = i /\ i \in 1 .. Window
      BY <1>2, <1>9, <2>2
    <3>2. q[i] = f[j]
      BY <1>11, <3>1
    <3>. HIDE DEF j
    <3>3. f[j] = a[g]
      BY <1>8, <3>1
    <3>. HIDE DEF g
    <3>4. a[g] = x[j] /\ x[j] = o[i]
      BY <1>5, <1>6, <3>1
    <3>. QED
      BY <1>4, <1>10, <3>1, <3>2, <3>3, <3>4
  <2>3. CASE ~(i <= Window)
    <3>1. i \in t + 1 .. t + Len(f) /\ j \in 1 .. BAND + l /\ ~(j <= BAND)
          /\ j - BAND = i - Window /\ i \in Window + 1 .. Window + l
      BY <1>2, <1>9, <2>3
    <3>2. q[i] = f[j]
      BY <1>11, <3>1
    <3>. HIDE DEF j
    <3>. QED
      BY <1>8, <1>10, <3>1, <3>2
  <2>. QED
    BY <2>1, <2>2, <2>3
<1>14. q = c
  BY <1>10, <1>11, <1>12, <1>13, SameSeq
<1>15. BookOk(r, f)
  <2>1. Size(r) >= PUBLISHED
    BY <1>2, <1>3
  <2>. QED
    BY <1>1, <1>3, <1>7, <1>14, <2>1 DEF BookOk, q
<1>16. Top(r) = Top(w)
  <2>1. /\ Shallower(PUBLISHED, Size(w)) = Shallower(PUBLISHED, Size(r))
        /\ \A p \in 0 .. Shallower(PUBLISHED, Size(w)) - 1 : p \in 0 .. t - 1
    BY <1>1, <1>2, <1>3 DEF Shallower
  <2>. QED
    BY <1>1, <1>3, <2>1, SameTop
<1>17. Spill(w, d).window = r /\ Spill(w, d).deep = f
  BY DEF Spill, Book, r, f, a, x, o, t
<1>. QED
  BY <1>3, <1>14, <1>15, <1>16, <1>17 DEF q, c, t

(* A refill moves the best of the deque up, in its order: the chain is the *)
(* same, and the window has what is published again.                       *)
LEMMA RefillFacts ==
  ASSUME NEW w, Solid(w), NEW d \in Seq(Cell), Ordered(Chain(w, d)), Size(w) < PUBLISHED, NEW at
  PROVE  LET b == Refill(w, d, at)
         IN  BookOk(b.window, b.deep) /\ Chain(b.window, b.deep) = Chain(w, d) /\ b.at = at
<1>. DEFINE t == TARGET
            s == Size(w)
            l == Len(d)
            n == Shallower(TARGET - Size(w), Len(d))
            a == SubSeq(d, 1, n)
            m == n + 1
            f == SubSeq(d, n + 1, Len(d))
            r == ExtendWorst(w, a)
            c == Chain(w, d)
            q == Chain(r, f)
            b == w.base
<1>1. /\ Window \in Nat /\ t \in Nat /\ t < Window /\ l \in Nat /\ PUBLISHED \in Nat /\ PUBLISHED <= t
      /\ s \in Nat /\ s < PUBLISHED /\ s = Window - b /\ b \in Nat
  BY SolidFacts, TargetFacts
<1>. HIDE DEF b, s, l, t
<1>2. n \in Nat /\ n <= l /\ n <= t - s /\ (n = l \/ s + n = t) /\ n <= b
  <2>1. n = IF t - s < l THEN t - s ELSE l
    BY DEF Shallower, t, s, l
  <2>. HIDE DEF n
  <2>. QED
    BY <1>1, <2>1
<1>3. /\ Len(c) = s + l /\ c \in Seq(Cell)
      /\ \A i \in 1 .. s : c[i] = At(w, i - 1)
      /\ \A i \in s + 1 .. s + l : c[i] = d[i - s]
      /\ \A i \in 1 .. l : c[s + i] = d[i]
  BY ChainFacts, Zenon DEF s, l
<1>. HIDE DEF n
<1>4. a \in Seq(Cell) /\ Len(a) = n /\ \A i \in 1 .. n : a[i] = d[i]
  <2>1. 1 \in 1 .. Len(d) + 1 /\ n \in 1 - 1 .. Len(d) /\ n - 1 + 1 = n /\ \A i \in 1 .. n : 1 + i - 1 = i
    BY <1>1, <1>2 DEF l
  <2>2. a \in Seq(Cell) /\ Len(a) = n - 1 + 1 /\ \A i \in 1 .. n - 1 + 1 : a[i] = d[1 + i - 1]
    BY <2>1, SliceFacts
  <2>. HIDE DEF a
  <2>. QED
    BY <2>1, <2>2
<1>5. f \in Seq(Cell) /\ Len(f) = l - n /\ \A i \in 1 .. l - n : f[i] = d[n + i]
  <2>. DEFINE y == SubSeq(d, m, Len(d))
  <2>1. m \in 1 .. Len(d) + 1 /\ Len(d) \in m - 1 .. Len(d) /\ Len(d) - m + 1 = l - n
        /\ \A i \in 1 .. l - n : m + i - 1 = n + i
    BY <1>1, <1>2 DEF l
  <2>2. f = y
    OBVIOUS
  <2>. HIDE DEF m, f
  <2>3. y \in Seq(Cell) /\ Len(y) = Len(d) - m + 1 /\ \A i \in 1 .. Len(d) - m + 1 : y[i] = d[m + i - 1]
    BY <2>1, SliceFacts
  <2>. HIDE DEF y
  <2>. QED
    BY <2>1, <2>2, <2>3
<1>. HIDE DEF a, f, c
<1>6. \A i, j \in 1 .. n : i < j => a[i].key < a[j].key
  <2>. SUFFICES ASSUME NEW i \in 1 .. n, NEW j \in 1 .. n, i < j PROVE a[i].key < a[j].key
    OBVIOUS
  <2>1. s + i \in 1 .. Len(c) /\ s + j \in 1 .. Len(c) /\ s + i < s + j /\ i \in 1 .. l /\ j \in 1 .. l
    BY <1>1, <1>2, <1>3
  <2>2. c[s + i].key < c[s + j].key
    BY <2>1 DEF Ordered, c
  <2>3. c[s + i] = d[i] /\ c[s + j] = d[j]
    BY <1>3, <2>1
  <2>. QED
    BY <1>4, <2>2, <2>3
<1>7. \A p \in 0 .. s - 1, i \in 1 .. n : At(w, p).key < a[i].key
  <2>. SUFFICES ASSUME NEW p \in 0 .. s - 1, NEW i \in 1 .. n PROVE At(w, p).key < a[i].key
    OBVIOUS
  <2>1. p + 1 \in 1 .. Len(c) /\ s + i \in 1 .. Len(c) /\ p + 1 < s + i /\ i \in 1 .. l
        /\ p + 1 \in 1 .. s /\ p + 1 - 1 = p
    BY <1>1, <1>2, <1>3
  <2>2. c[p + 1].key < c[s + i].key
    BY <2>1 DEF Ordered, c
  <2>3. c[s + i] = d[i] /\ c[p + 1] = At(w, p)
    BY <1>3, <2>1
  <2>. QED
    BY <1>4, <2>2, <2>3
<1>8. /\ Solid(r) /\ Size(r) = s + n
      /\ \A p \in 0 .. s - 1 : At(r, p) = At(w, p)
      /\ \A i \in 1 .. n : At(r, s + i - 1) = a[i]
  <2>1. Len(a) <= w.base
    BY <1>2, <1>4 DEF b
  <2>. QED
    BY <1>4, <1>6, <1>7, <2>1, ExtendFacts DEF s
<1>. HIDE DEF r
<1>9. /\ Len(q) = s + n + Len(f) /\ q \in Seq(Cell)
      /\ \A i \in 1 .. s + n : q[i] = At(r, i - 1)
      /\ \A i \in s + n + 1 .. s + n + Len(f) : q[i] = f[i - (s + n)]
  <2>1. /\ Len(q) = Size(r) + Len(f) /\ q \in Seq(Cell)
        /\ \A i \in 1 .. Size(r) : q[i] = At(r, i - 1)
        /\ \A i \in Size(r) + 1 .. Size(r) + Len(f) : q[i] = f[i - Size(r)]
    BY <1>5, <1>8, ChainFacts, Zenon
  <2>. HIDE DEF q
  <2>. QED
    BY <1>8, <2>1, Zenon
<1>. HIDE DEF q
<1>10. Len(q) = s + l
  BY <1>1, <1>2, <1>5, <1>9
<1>11. ASSUME NEW i \in 1 .. s + l PROVE q[i] = c[i]
  <2>. DEFINE h == i - 1
              j == i - s
              g == i - (s + n)
  <2>1. CASE i <= s
    <3>1. i \in 1 .. s /\ h \in 0 .. s - 1 /\ i \in 1 .. s + n
      BY <1>1, <1>2, <2>1
    <3>2. q[i] = At(r, h) /\ c[i] = At(w, h)
      BY <1>3, <1>9, <3>1
    <3>. HIDE DEF h
    <3>. QED
      BY <1>8, <3>1, <3>2
  <2>2. CASE ~(i <= s) /\ i <= s + n
    <3>1. j \in 1 .. n /\ s + j - 1 = h /\ i \in 1 .. s + n /\ i \in s + 1 .. s + l
      BY <1>1, <1>2, <2>2
    <3>2. q[i] = At(r, h) /\ c[i] = d[j]
      BY <1>3, <1>9, <3>1
    <3>. HIDE DEF h, j
    <3>. QED
      BY <1>4, <1>8, <3>1, <3>2
  <2>3. CASE ~(i <= s + n)
    <3>1. g \in 1 .. l - n /\ n + g = j /\ i \in s + n + 1 .. s + n + Len(f) /\ i \in s + 1 .. s + l
      BY <1>1, <1>2, <1>5, <2>3
    <3>2. q[i] = f[g] /\ c[i] = d[j]
      BY <1>3, <1>9, <3>1
    <3>. HIDE DEF g, j
    <3>. QED
      BY <1>5, <3>1, <3>2
  <2>. QED
    BY <2>1, <2>2, <2>3
<1>12. q = c
  BY <1>3, <1>9, <1>10, <1>11, SameSeq
<1>13. f # <<>> => Size(r) >= PUBLISHED
  <2>1. f # <<>> => Len(f) # 0
    BY <1>5
  <2>2. Len(f) # 0 => s + n = t
    BY <1>1, <1>2, <1>5
  <2>. QED
    BY <1>1, <1>8, <2>1, <2>2
<1>14. Refill(w, d, at).window = r /\ Refill(w, d, at).deep = f /\ Refill(w, d, at).at = at
  BY DEF Refill, Book, r, f, a, n
<1>. QED
  BY <1>5, <1>8, <1>12, <1>13, <1>14 DEF q, c, BookOk

(* What one level does to a side, whichever tier it is in: the side stays  *)
(* whole, its chain changes under the level's key and nowhere else, and    *)
(* the top is as it was if the position it reports is not worth            *)
(* publishing.                                                             *)
SideStep(w, d, k, E, b) ==
  /\ BookOk(b.window, b.deep) /\ Changes(Chain(w, d), k, E, Chain(b.window, b.deep))
  /\ b.at \in 0 .. Window
  /\ b.at >= PUBLISHED => Top(b.window) = Top(w)

(* A book that comes of a change is a step of its side.                    *)
LEMMA StepOf ==
  ASSUME NEW w, NEW d, NEW k, NEW E, NEW nw, NEW nd, NEW at \in 0 .. Window, BookOk(nw, nd),
         Changes(Chain(w, d), k, E, Chain(nw, nd)), at >= PUBLISHED => Top(nw) = Top(w),
         NEW b, b = Book(nw, nd, at)
  PROVE  SideStep(w, d, k, E, b)
BY DEF SideStep, Book

(* The worst of a window that is not empty bounds the others.              *)
LEMMA WorstBounds ==
  ASSUME NEW w, Solid(w), Size(w) # 0
  PROVE  /\ Worst(w).key \in Int /\ Size(w) - 1 \in 0 .. Size(w) - 1 /\ At(w, Size(w) - 1) = Worst(w)
         /\ \A p \in 0 .. Size(w) - 1 : At(w, p).key \in Int /\ At(w, p).key <= Worst(w).key
<1>. DEFINE s == Size(w)
            h == s - 1
<1>1. s \in Nat /\ s # 0 /\ s = Window - w.base /\ w.base \in 0 .. Window /\ Window \in Nat
  BY SolidFacts, WindowAssumption
<1>2. h \in 0 .. s - 1 /\ w.base + h = Window - 1
  BY <1>1
<1>3. At(w, h) = Worst(w)
  BY <1>2 DEF At, Worst
<1>4. \A p \in 0 .. s - 1 : At(w, p).key \in Int
  BY SolidFacts, CellFacts
<1>5. \A p \in 0 .. s - 1 : p = h \/ p < h
  BY <1>1
<1>. HIDE DEF h
<1>6. \A p \in 0 .. s - 1 : p < h => At(w, p).key < At(w, h).key
  BY <1>2, SolidFacts
<1>. HIDE DEF s
<1>7. \A p \in 0 .. s - 1 : At(w, p).key <= Worst(w).key
  <2>. SUFFICES ASSUME NEW p \in 0 .. s - 1 PROVE At(w, p).key <= Worst(w).key
    OBVIOUS
  <2>1. At(w, p).key \in Int /\ At(w, h).key \in Int
    BY <1>2, <1>4
  <2>2. p = h \/ At(w, p).key < At(w, h).key
    BY <1>5, <1>6
  <2>. QED
    BY <1>3, <2>1, <2>2
<1>. QED
  BY <1>2, <1>3, <1>4, <1>7 DEF s, h

(* BookSide::update                                                        *)
LEMMA UpdateSideFacts ==
  ASSUME NEW w, NEW d, BookOk(w, d), NEW e \in Cell
  PROVE  SideStep(w, d, e.key, {e}, UpdateSide(w, d, e))
<1>. DEFINE k == e.key
            s == Size(w)
            l == Len(d)
            pos == Locate(w, k)
            spilt == Spill(w, d)
            inside == BelongsInWindow(w, d, k)
            b == UpdateSide(w, d, e)
<1>1. /\ Solid(w) /\ Ordered(d) /\ d \in Seq(Cell) /\ k \in Int
      /\ \A p \in 0 .. s - 1, i \in 1 .. l : At(w, p).key < d[i].key
      /\ \A i \in 1 .. l : d[i].key \in Int
      /\ \A p \in 0 .. s - 1 : At(w, p).key \in Int
  BY TierFacts, CellFacts, OrderedFacts, SolidFacts DEF Ordered
<1>2. s \in Nat /\ s <= Window /\ l \in Nat /\ Window \in Nat /\ (IsFull(w) <=> s = Window)
      /\ PUBLISHED \in Nat /\ PUBLISHED < Window /\ 1 <= PUBLISHED
  BY <1>1, SolidFacts, TargetFacts DEF IsFull
<1>3. pos \in 0 .. s /\ \A p \in 0 .. pos - 1 : At(w, p).key < k
  BY <1>1, LocateFacts
<1>4. d # <<>> => s >= PUBLISHED
  BY DEF BookOk
<1>5. CASE ~inside
  <2>1. s # 0 /\ ~(k <= Worst(w).key) /\ (IsFull(w) \/ d # <<>>)
    BY <1>5 DEF BelongsInWindow
  <2>2. s >= PUBLISHED
    BY <1>2, <1>4, <2>1
  <2>3. \A p \in 0 .. s - 1 : At(w, p).key < k
    <3>1. Worst(w).key \in Int /\ \A p \in 0 .. s - 1 : At(w, p).key <= Worst(w).key
      BY <1>1, <2>1, WorstBounds
    <3>. QED
      BY <1>1, <2>1, <3>1
  <2>4. b = Book(w, DeepUpdate(d, e), DeepOnly)
    BY <1>5 DEF UpdateSide
  <2>5. BookOk(w, DeepUpdate(d, e)) /\ Changes(Chain(w, d), k, {e}, Chain(w, DeepUpdate(d, e)))
    BY <2>2, <2>3, DeepPut
  <2>6. DeepOnly \in 0 .. Window
    BY <1>2 DEF DeepOnly
  <2>. HIDE DEF b
  <2>7. SideStep(w, d, k, {e}, b)
    BY <2>4, <2>5, <2>6, StepOf
  <2>. QED
    BY <2>7 DEF b
<1>6. CASE inside /\ Occupied(w, k)
  <2>1. pos \in 0 .. s - 1 /\ At(w, pos).key = k
    BY <1>1, <1>6, OccupiedFacts
  <2>2. b = Book(Overwrite(w, pos, e.val), d, pos)
    BY <1>6 DEF UpdateSide
  <2>3. pos \in 0 .. Window
    BY <1>2, <2>1
  <2>. HIDE DEF b
  <2>4. LET r == Overwrite(w, pos, e.val)
        IN  /\ BookOk(r, d) /\ Changes(Chain(w, d), e.key, {e}, Chain(r, d))
            /\ pos >= PUBLISHED => Top(r) = Top(w)
    BY <2>1, WindowOver
  <2>5. SideStep(w, d, k, {e}, b)
    BY <2>2, <2>3, <2>4, StepOf
  <2>. QED
    BY <2>5 DEF b
<1>7. CASE inside /\ ~Occupied(w, k)
  <2>1. \A p \in pos .. s - 1 : k < At(w, p).key
    BY <1>1, <1>7, OccupiedFacts, LocateFacts
  <2>2. \A i \in 1 .. l : k < d[i].key
    <3>. SUFFICES ASSUME NEW i \in 1 .. l PROVE k < d[i].key
      OBVIOUS
    <3>1. d # <<>> /\ 1 \in 1 .. l /\ (1 = i \/ 1 < i) /\ Head(d) = d[1]
      BY <1>1, <1>2
    <3>2. s # 0
      BY <1>2, <1>4, <3>1
    <3>3. Worst(w).key \in Int /\ Worst(w).key < d[i].key
      <4>1. Worst(w).key \in Int /\ s - 1 \in 0 .. s - 1 /\ At(w, s - 1) = Worst(w)
        BY <1>1, <3>2, WorstBounds
      <4>. QED
        BY <1>1, <4>1
    <3>4. d[1].key <= d[i].key /\ d[1].key \in Int /\ d[i].key \in Int
      <4>1. d[1].key \in Int /\ d[i].key \in Int
        BY <1>1, <3>1
      <4>2. 1 = i \/ d[1].key < d[i].key
        BY <1>1, <3>1 DEF Ordered
      <4>. QED
        BY <4>1, <4>2
    <3>5. k <= Worst(w).key \/ k < d[1].key
      BY <1>7, <3>1, <3>2 DEF BelongsInWindow
    <3>. QED
      BY <1>1, <3>3, <3>4, <3>5
  <2>3. CASE ~IsFull(w)
    <3>1. b = Book(InsertAt(w, pos, e), d, pos)
      BY <1>7, <2>3 DEF UpdateSide
    <3>2. pos \in 0 .. Window
      BY <1>2, <1>3
    <3>. HIDE DEF b, pos
    <3>3. LET r == InsertAt(w, pos, e)
          IN  /\ BookOk(r, d) /\ Changes(Chain(w, d), e.key, {e}, Chain(r, d))
              /\ pos >= PUBLISHED => Top(r) = Top(w)
      BY <1>3, <2>1, <2>2, <2>3, WindowPut
    <3>4. SideStep(w, d, k, {e}, b)
      BY <3>1, <3>2, <3>3, StepOf
    <3>. QED
      BY <3>4 DEF b
  <2>4. CASE IsFull(w)
    <3>. DEFINE sw == spilt.window
                sd == spilt.deep
    <3>1. /\ BookOk(sw, sd) /\ Size(sw) = TARGET /\ Chain(sw, sd) = Chain(w, d)
          /\ \A p \in 0 .. TARGET - 1 : At(sw, p) = At(w, p)
          /\ Top(sw) = Top(w)
      BY <2>4, SpillFacts
    <3>2. s = Window /\ TARGET \in Nat /\ PUBLISHED <= TARGET /\ TARGET < Window /\ pos \in Nat /\ pos <= Window
      BY <1>2, <1>3, <2>4, TargetFacts
    <3>. HIDE DEF spilt
    <3>3. CASE pos >= TARGET
      <4>1. b = Book(sw, DeepUpdate(sd, e), DeepOnly)
        BY <1>7, <2>4, <3>3 DEF UpdateSide, spilt
      <4>2. \A p \in 0 .. Size(sw) - 1 : At(sw, p).key < k
        <5>1. \A p \in 0 .. TARGET - 1 : p \in 0 .. pos - 1
          BY <3>2, <3>3
        <5>. QED
          BY <1>3, <3>1, <5>1
      <4>. HIDE DEF b
      <4>3. BookOk(sw, DeepUpdate(sd, e)) /\ Changes(Chain(sw, sd), k, {e}, Chain(sw, DeepUpdate(sd, e)))
        <5>1. Size(sw) >= PUBLISHED
          BY <3>1, <3>2
        <5>. QED
          BY <3>1, <4>2, <5>1, DeepPut
      <4>4. DeepOnly \in 0 .. Window
        BY <1>2 DEF DeepOnly
      <4>. HIDE DEF sw, sd
      <4>5. SideStep(w, d, k, {e}, b)
        BY <3>1, <4>1, <4>3, <4>4, StepOf
      <4>. QED
        BY <4>5 DEF b
    <3>4. CASE ~(pos >= TARGET)
      <4>1. b = Book(InsertAt(sw, pos, e), sd, pos)
        BY <1>7, <2>4, <3>4 DEF UpdateSide, spilt
      <4>2. ~IsFull(sw) /\ Solid(sw)
        <5>1. Solid(sw)
          BY <3>1, TierFacts
        <5>2. Size(sw) # Window /\ Size(sw) = Window - sw.base
          <6>. HIDE DEF sw
          <6>. QED
            BY <3>1, <3>2, <5>1, SolidFacts
        <5>3. sw.base # 0
          BY <1>2, <5>2
        <5>. QED
          BY <5>1, <5>3 DEF IsFull
      <4>3. pos \in 0 .. Size(sw) /\ pos \in 0 .. Window
        BY <3>1, <3>2, <3>4
      <4>4. \A p \in 0 .. pos - 1 : At(sw, p).key < k
        <5>1. \A p \in 0 .. pos - 1 : p \in 0 .. TARGET - 1
          BY <3>2, <3>4
        <5>. QED
          BY <1>3, <3>1, <5>1
      <4>5. \A p \in pos .. Size(sw) - 1 : k < At(sw, p).key
        <5>. HIDE DEF pos, s
        <5>1. \A p \in pos .. TARGET - 1 : p \in 0 .. TARGET - 1 /\ p \in pos .. s - 1
          BY <1>2, <3>2, <3>4
        <5>. QED
          BY <2>1, <3>1, <5>1
      <4>6. \A i \in 1 .. Len(sd) : k < sd[i].key
        <5>. DEFINE c == Chain(w, d)
        <5>. HIDE DEF c, sw, sd, pos
        <5>1. /\ Len(c) = s + l /\ \A i \in 1 .. s : c[i] = At(w, i - 1)
              /\ \A i \in s + 1 .. s + l : c[i] = d[i - s]
          BY <1>1, ChainFacts, Zenon DEF c
        <5>2. sd \in Seq(Cell) /\ Len(c) = TARGET + Len(sd) /\ Len(sd) \in Nat
              /\ \A i \in 1 .. Len(sd) : c[TARGET + i] = sd[i]
          <6>1. sd \in Seq(Cell)
            BY <3>1 DEF BookOk
          <6>2. c = Chain(sw, sd)
            BY <3>1 DEF c
          <6>. QED
            BY <3>1, <4>2, <6>1, <6>2, ChainFacts
        <5>. SUFFICES ASSUME NEW i \in 1 .. Len(sd) PROVE k < sd[i].key
          OBVIOUS
        <5>. DEFINE j == TARGET + i
                    h == j - 1
                    g == j - s
        <5>3. /\ j \in 1 .. s + l
              /\ (j <= s => j \in 1 .. s /\ h \in pos .. s - 1)
              /\ (~(j <= s) => j \in s + 1 .. s + l /\ g \in 1 .. l)
          BY <1>2, <3>2, <3>4, <5>1, <5>2
        <5>4. c[j] = sd[i]
          BY <5>2
        <5>. HIDE DEF j
        <5>. QED
          BY <2>1, <2>2, <5>1, <5>3, <5>4
      <4>. HIDE DEF b, pos
      <4>7. LET r == InsertAt(sw, pos, e)
            IN  /\ BookOk(r, sd) /\ Changes(Chain(sw, sd), e.key, {e}, Chain(r, sd))
                /\ pos >= PUBLISHED => Top(r) = Top(sw)
        <5>. HIDE DEF sw, sd
        <5>. QED
          BY <3>1, <4>2, <4>3, <4>4, <4>5, <4>6, WindowPut
      <4>. HIDE DEF sw, sd
      <4>8. SideStep(w, d, k, {e}, b)
        BY <3>1, <4>1, <4>3, <4>7, StepOf
      <4>. QED
        BY <4>8 DEF b
    <3>. QED
      BY <3>3, <3>4
  <2>. QED
    BY <2>3, <2>4
<1>. QED
  BY <1>5, <1>6, <1>7

(* BookSide::remove                                                        *)
LEMMA RemoveSideFacts ==
  ASSUME NEW w, NEW d, BookOk(w, d), NEW k \in Int
  PROVE  SideStep(w, d, k, {}, RemoveSide(w, d, k))
<1>. DEFINE s == Size(w)
            l == Len(d)
            pos == Locate(w, k)
            inside == Size(w) > 0 /\ k <= Worst(w).key
            shorter == RemoveAt(w, pos)
            b == RemoveSide(w, d, k)
            c == Chain(w, d)
<1>1. /\ Solid(w) /\ Ordered(d) /\ d \in Seq(Cell) /\ Ordered(c)
      /\ \A p \in 0 .. s - 1, i \in 1 .. l : At(w, p).key < d[i].key
      /\ \A i \in 1 .. l : d[i].key \in Int
      /\ \A p \in 0 .. s - 1 : At(w, p).key \in Int
  BY TierFacts, CellFacts, OrderedFacts, SolidFacts DEF Ordered
<1>2. s \in Nat /\ s <= Window /\ l \in Nat /\ Window \in Nat
      /\ PUBLISHED \in Nat /\ PUBLISHED < Window /\ 1 <= PUBLISHED
  BY <1>1, SolidFacts, TargetFacts
<1>3. CASE Size(w) > 0 /\ ~inside /\ InDeep(d, k)
  <2>. DEFINE n == DeepPosition(d, k)
  <2>1. n \in 1 .. l /\ d[n].key = k
    <3>. HIDE DEF n
    <3>1. Divides(d, n, k) /\ n <= l /\ d[n].key = k
      BY <1>1, <1>3, DeepPositionFacts DEF n
    <3>. QED
      BY <1>2, <3>1 DEF Divides
  <2>2. b = Book(w, DeepRemove(d, n), DeepOnly)
    BY <1>3 DEF RemoveSide
  <2>. HIDE DEF b, n
  <2>3. BookOk(w, DeepRemove(d, n)) /\ Changes(c, k, {}, Chain(w, DeepRemove(d, n)))
    BY <2>1, DeepTake
  <2>4. DeepOnly \in 0 .. Window
    BY <1>2 DEF DeepOnly
  <2>5. SideStep(w, d, k, {}, b)
    BY <2>2, <2>3, <2>4, StepOf
  <2>. QED
    BY <2>5 DEF b
<1>4. CASE inside /\ Occupied(w, k)
  <2>1. pos \in 0 .. s - 1 /\ At(w, pos).key = k
    BY <1>1, <1>4, OccupiedFacts
  <2>2. b = IF Size(shorter) < PUBLISHED THEN Refill(shorter, d, pos) ELSE Book(shorter, d, pos)
    BY <1>4 DEF RemoveSide
  <2>. HIDE DEF b, pos
  <2>3. /\ Solid(shorter) /\ Size(shorter) = s - 1 /\ Changes(c, k, {}, Chain(shorter, d))
        /\ pos >= PUBLISHED /\ Size(shorter) >= PUBLISHED => Top(shorter) = Top(w)
    BY <2>1, WindowTake
  <2>4. pos \in 0 .. Window /\ pos <= s - 1
    BY <1>2, <2>1
  <2>. HIDE DEF shorter
  <2>5. CASE Size(shorter) < PUBLISHED
    <3>. DEFINE f == Refill(shorter, d, pos)
    <3>1. b = f
      BY <2>2, <2>5
    <3>2. BookOk(f.window, f.deep) /\ Chain(f.window, f.deep) = Chain(shorter, d) /\ f.at = pos
      BY <1>1, <2>3, <2>5, RefillFacts DEF Changes
    <3>. HIDE DEF f
    <3>3. ~(pos >= PUBLISHED)
      BY <1>2, <2>3, <2>4, <2>5
    <3>4. SideStep(w, d, k, {}, f)
      BY <2>3, <2>4, <3>2, <3>3 DEF SideStep
    <3>. QED
      BY <3>1, <3>4 DEF b
  <2>6. CASE ~(Size(shorter) < PUBLISHED)
    <3>1. b = Book(shorter, d, pos) /\ Size(shorter) >= PUBLISHED
      BY <1>2, <2>2, <2>3, <2>6
    <3>2. BookOk(shorter, d)
      BY <1>1, <2>3, <3>1, BookFromChain
    <3>3. SideStep(w, d, k, {}, b)
      BY <2>3, <2>4, <3>1, <3>2, StepOf
    <3>. QED
      BY <3>3 DEF b
  <2>. QED
    BY <2>5, <2>6
<1>5. CASE /\ ~(Size(w) > 0 /\ ~inside /\ InDeep(d, k))
           /\ ~(inside /\ Occupied(w, k))
  <2>1. b = Book(w, d, DeepOnly)
    BY <1>5, Zenon DEF RemoveSide
  <2>2. \A p \in 0 .. s - 1 : At(w, p).key # k
    <3>1. CASE s = 0
      BY <3>1
    <3>2. CASE s # 0 /\ inside
      <4>1. ~Occupied(w, k)
        BY <1>5, <3>2
      <4>2. \A x \in Live(w) : x.key # k
        BY <1>1, <4>1, OccupiedFacts
      <4>. QED
        BY <4>2 DEF Live
    <3>3. CASE s # 0 /\ ~inside
      <4>1. Worst(w).key \in Int /\ \A p \in 0 .. s - 1 : At(w, p).key <= Worst(w).key
        BY <1>1, <3>3, WorstBounds
      <4>2. ~(k <= Worst(w).key)
        BY <1>2, <3>3
      <4>. QED
        BY <1>1, <4>1, <4>2
    <3>. QED
      BY <3>1, <3>2, <3>3
  <2>3. \A i \in 1 .. l : d[i].key # k
    <3>. SUFFICES ASSUME NEW i \in 1 .. l, d[i].key = k PROVE FALSE
      OBVIOUS
    <3>1. s > 0
      <4>1. d # <<>>
        OBVIOUS
      <4>. QED
        BY <1>2, <4>1 DEF BookOk
    <3>2. InDeep(d, k)
      BY <1>1 DEF InDeep
    <3>3. k <= Worst(w).key
      BY <1>5, <3>1, <3>2
    <3>4. Worst(w).key \in Int /\ Worst(w).key < d[i].key
      <4>0. s # 0
        BY <3>1, <1>2
      <4>1. Worst(w).key \in Int /\ s - 1 \in 0 .. s - 1 /\ At(w, s - 1) = Worst(w)
        BY <1>1, <4>0, WorstBounds
      <4>. QED
        BY <1>1, <4>1
    <3>. QED
      BY <3>3, <3>4
  <2>4. /\ Len(c) = s + l /\ \A i \in 1 .. s : c[i] = At(w, i - 1)
        /\ \A i \in s + 1 .. s + l : c[i] = d[i - s]
    BY <1>1, ChainFacts, Zenon
  <2>. HIDE DEF b, c
  <2>5. \A i \in 1 .. Len(c) : c[i].key # k
    <3>. SUFFICES ASSUME NEW i \in 1 .. s + l PROVE c[i].key # k
      BY <2>4
    <3>. DEFINE h == i - 1
                g == i - s
    <3>1. (i \in 1 .. s /\ h \in 0 .. s - 1) \/ (i \in s + 1 .. s + l /\ g \in 1 .. l)
      BY <1>2
    <3>. QED
      BY <2>2, <2>3, <2>4, <3>1
  <2>6. Changes(c, k, {}, c)
    BY <1>1, <2>5 DEF Changes, Elements
  <2>7. DeepOnly \in 0 .. Window
    BY <1>2 DEF DeepOnly
  <2>8. SideStep(w, d, k, {}, b)
    BY <2>1, <2>6, <2>7, StepOf DEF c
  <2>. QED
    BY <2>8 DEF b
<1>. QED
  BY <1>3, <1>4, <1>5

-----------------------------------------------------------------------------
(* The plain map of a chain *)

(* The view of a chain as a map of sizes by key.                           *)
LevelMap(s) == [k \in KeysOf(s) |-> SizeOf(s, k)]

(* It has each entry's value under its key, ...                            *)
LEMMA LevelsFacts ==
  ASSUME NEW s, Ordered(s)
  PROVE  /\ KeysOf(s) = {e.key : e \in Elements(s)}
         /\ \A i \in 1 .. Len(s) : s[i].key \in KeysOf(s) /\ SizeOf(s, s[i].key) = s[i].val
         /\ \A e \in Elements(s) : SizeOf(s, e.key) = e.val
<1>1. DOMAIN s = 1 .. Len(s)
  BY OrderedFacts
<1>2. ASSUME NEW i \in 1 .. Len(s) PROVE SizeOf(s, s[i].key) = s[i].val
  <2>1. \A j \in DOMAIN s : s[j].key = s[i].key => j = i
    BY <1>1, OrderedFacts
  <2>2. (CHOOSE j \in DOMAIN s : s[j].key = s[i].key) = i
    BY <1>1, <2>1
  <2>. QED
    BY <2>2 DEF SizeOf
<1>. QED
  BY <1>1, <1>2 DEF KeysOf, Elements

(* ... and is the chain with one level set ...                             *)
LEMMA LevelSet ==
  ASSUME NEW s, Ordered(s), NEW k, NEW e, e.key = k, NEW r, Changes(s, k, {e}, r)
  PROVE  LevelMap(r) = [q \in KeysOf(s) \cup {k} |-> IF q = k THEN e.val ELSE LevelMap(s)[q]]
<1>1. Ordered(r) /\ Elements(r) = {x \in Elements(s) : x.key # k} \cup {e}
  BY DEF Changes
<1>2. KeysOf(r) = KeysOf(s) \cup {k}
  BY <1>1, LevelsFacts
<1>3. ASSUME NEW q \in KeysOf(r) PROVE SizeOf(r, q) = IF q = k THEN e.val ELSE LevelMap(s)[q]
  <2>1. PICK x \in Elements(r) : x.key = q
    BY <1>1, LevelsFacts
  <2>2. SizeOf(r, q) = x.val
    BY <1>1, <2>1, LevelsFacts
  <2>3. CASE q = k
    BY <1>1, <2>1, <2>2, <2>3
  <2>4. CASE q # k
    <3>1. x \in Elements(s)
      BY <1>1, <2>1, <2>4
    <3>2. q \in KeysOf(s) /\ SizeOf(s, q) = x.val
      BY <2>1, <3>1, LevelsFacts
    <3>. QED
      BY <2>2, <2>4, <3>2 DEF LevelMap
  <2>. QED
    BY <2>3, <2>4
<1>. QED
  BY <1>2, <1>3 DEF LevelMap

(* ... or gone.                                                            *)
LEMMA LevelGone ==
  ASSUME NEW s, Ordered(s), NEW k, NEW r, Changes(s, k, {}, r)
  PROVE  LevelMap(r) = [q \in KeysOf(s) \ {k} |-> LevelMap(s)[q]]
<1>1. Ordered(r) /\ Elements(r) = {x \in Elements(s) : x.key # k}
  BY DEF Changes
<1>2. KeysOf(r) = KeysOf(s) \ {k}
  BY <1>1, LevelsFacts
<1>3. ASSUME NEW q \in KeysOf(r) PROVE SizeOf(r, q) = LevelMap(s)[q]
  <2>1. PICK x \in Elements(r) : x.key = q
    BY <1>1, LevelsFacts
  <2>2. SizeOf(r, q) = x.val /\ x \in Elements(s)
    BY <1>1, <2>1, LevelsFacts
  <2>3. q \in KeysOf(s) /\ SizeOf(s, q) = x.val
    BY <2>1, <2>2, LevelsFacts
  <2>. QED
    BY <2>2, <2>3 DEF LevelMap
<1>. QED
  BY <1>2, <1>3 DEF LevelMap

(* Ascending keys are as many as their positions.                          *)
LEMMA KeyCount ==
  ASSUME NEW s, Ordered(s), NEW n \in 0 .. Len(s)
  PROVE  LET S == {s[i].key : i \in 1 .. n} IN IsFiniteSet(S) /\ Cardinality(S) = n
<1>. DEFINE S == {s[i].key : i \in 1 .. n}
            f == [i \in 1 .. n |-> s[i].key]
<1>1. n \in Nat /\ \A i \in 1 .. n : i \in 1 .. Len(s)
  BY OrderedFacts
<1>2. IsFiniteSet(1 .. n) /\ Cardinality(1 .. n) = n
  <2>1. 1 \in Int /\ n \in Int /\ (IF 1 > n THEN 0 ELSE n - 1 + 1) = n
    BY <1>1
  <2>. QED
    BY <2>1, FS_Interval
<1>3. \A i, j \in 1 .. n : s[i].key = s[j].key => i = j
  BY <1>1, OrderedFacts
<1>4. f \in Bijection(1 .. n, S)
  <2>1. f \in [1 .. n -> S]
    OBVIOUS
  <2>2. \A i, j \in 1 .. n : f[i] = f[j] => i = j
    BY <1>3
  <2>3. \A e \in S : \E i \in 1 .. n : f[i] = e
    OBVIOUS
  <2>. HIDE DEF f, S
  <2>. QED
    BY <2>1, <2>2, <2>3, Zenon DEF Bijection, Injection, Surjection, IsInjective
<1>5. ExistsBijection(1 .. n, S)
  BY <1>4 DEF ExistsBijection
<1>. HIDE DEF S
<1>6. IsFiniteSet(S) /\ Cardinality(S) = n
  BY <1>2, <1>5, FS_Bijection
<1>. QED
  BY <1>6 DEF S

(* A key's rank among the keys is its position.                            *)
LEMMA KeyRank ==
  ASSUME NEW s, Ordered(s), NEW n \in 1 .. Len(s)
  PROVE  /\ Cardinality({q \in KeysOf(s) : q < s[n].key}) = n - 1
         /\ s[n].key \in KeysOf(s)
         /\ \A p \in KeysOf(s) : Cardinality({q \in KeysOf(s) : q < p}) = n - 1 => p = s[n].key
<1>1. /\ Len(s) \in Nat /\ KeysOf(s) = {s[i].key : i \in 1 .. Len(s)}
      /\ \A i \in 1 .. Len(s) : s[i].key \in Int
      /\ \A i, j \in 1 .. Len(s) : i < j => s[i].key < s[j].key
  <2>1. DOMAIN s = 1 .. Len(s)
    BY OrderedFacts
  <2>. QED
    BY <2>1, OrderedFacts DEF KeysOf
<1>2. ASSUME NEW m \in 1 .. Len(s) PROVE Cardinality({q \in KeysOf(s) : q < s[m].key}) = m - 1
  <2>1. m - 1 \in 0 .. Len(s) /\ \A i \in 1 .. m - 1 : i \in 1 .. Len(s) /\ i < m
    BY <1>1
  <2>2. \A i \in 1 .. Len(s) : s[i].key < s[m].key => i \in 1 .. m - 1
    <3>. SUFFICES ASSUME NEW i \in 1 .. Len(s), s[i].key < s[m].key PROVE i \in 1 .. m - 1
      OBVIOUS
    <3>1. ~(m = i) /\ ~(m < i)
      BY <1>1
    <3>. QED
      BY <1>1, <3>1
  <2>3. {q \in KeysOf(s) : q < s[m].key} = {s[i].key : i \in 1 .. m - 1}
    BY <1>1, <2>1, <2>2
  <2>4. Cardinality({s[i].key : i \in 1 .. m - 1}) = m - 1
    BY <2>1, KeyCount
  <2>. QED
    BY <2>3, <2>4
<1>3. ASSUME NEW p \in KeysOf(s), Cardinality({q \in KeysOf(s) : q < p}) = n - 1 PROVE p = s[n].key
  <2>1. PICK m \in 1 .. Len(s) : p = s[m].key
    BY <1>1
  <2>2. m - 1 = n - 1
    BY <1>2, <1>3, <2>1
  <2>3. m = n
    BY <2>2
  <2>. QED
    BY <2>1, <2>3
<1>4. s[n].key \in KeysOf(s) /\ Cardinality({q \in KeysOf(s) : q < s[n].key}) = n - 1
  BY <1>1, <1>2
<1>. QED
  BY <1>3, <1>4

(* The plain book counts as this one does.                                 *)
LEMMA SameCount == \A S : Plain!Cardinality(S) = Cardinality(S)
BY DEF Plain!Cardinality, Cardinality

(* The best levels of the plain map are the top of the window.             *)
LEMMA BestIsTop ==
  ASSUME BookOk(window, deep)
  PROVE  Plain!Best = Top(window)
<1>. DEFINE c == Carried
            s == Size(window)
            l == Len(deep)
            n == Shallower(PUBLISHED, Size(window))
<1>1. /\ Solid(window) /\ deep \in Seq(Cell) /\ Ordered(c) /\ c = Chain(window, deep)
      /\ (deep # <<>> => s >= PUBLISHED)
  BY DEF BookOk, Carried, Chain
<1>2. /\ s \in 0 .. Window /\ l \in Nat /\ Len(c) = s + l /\ Window \in Nat
      /\ \A i \in 1 .. s : c[i] = At(window, i - 1)
  BY <1>1, ChainFacts
<1>3. PUBLISHED \in Nat /\ s \in Nat
  BY <1>2, TargetFacts
<1>. HIDE DEF c, s, l, n
<1>4. l # 0 => s >= PUBLISHED
  <2>1. deep = <<>> => l = 0
    BY DEF l
  <2>. QED
    BY <1>1, <2>1
<1>5. n \in Nat /\ n <= s /\ n = (IF s + l < PUBLISHED THEN s + l ELSE PUBLISHED)
  BY <1>2, <1>3, <1>4 DEF n, Shallower, s
<1>6. Cardinality(KeysOf(c)) = s + l
  <2>1. DOMAIN c = 1 .. s + l
    BY <1>1, <1>2, OrderedFacts
  <2>2. KeysOf(c) = {c[i].key : i \in 1 .. s + l}
    BY <2>1, Zenon DEF KeysOf
  <2>. DEFINE m == s + l
  <2>3. m \in 0 .. Len(c)
    BY <1>2, <1>3
  <2>. HIDE DEF m
  <2>4. Cardinality({c[i].key : i \in 1 .. m}) = m
    <3>1. Ordered(c)
      BY <1>1
    <3>2. LET S == {c[i].key : i \in 1 .. m} IN IsFiniteSet(S) /\ Cardinality(S) = m
      BY <2>3, <3>1, KeyCount, Zenon
    <3>. QED
      BY <3>2
  <2>. QED
    BY <2>2, <2>4 DEF m
<1>. DEFINE lv == [k \in KeysOf(c) |-> SizeOf(c, k)]
<1>7. DOMAIN lv = KeysOf(c)
  OBVIOUS
<1>8. Plain!Shown = n
  <2>1. Cardinality(DOMAIN lv) = s + l
    BY <1>6, <1>7
  <2>2. Plain!Shown = IF Cardinality(DOMAIN lv) < PUBLISHED THEN Cardinality(DOMAIN lv) ELSE PUBLISHED
    BY SameCount, Zenon DEF Plain!Shown, c, lv
  <2>. QED
    BY <1>5, <2>1, <2>2
<1>9. ASSUME NEW i \in 1 .. n PROVE [key |-> Plain!AtRank(i), val |-> lv[Plain!AtRank(i)]] = At(window, i - 1)
  <2>1. i \in 1 .. Len(c) /\ i \in 1 .. s
    BY <1>2, <1>3, <1>5
  <2>2. Plain!AtRank(i) = c[i].key
    <3>1. KeysOf(c) = DOMAIN [k \in KeysOf(Carried) |-> SizeOf(Carried, k)]
      BY DEF c
    <3>2. \A p : Plain!Better(p) = {q \in KeysOf(c) : q < p}
      BY <3>1, Zenon DEF Plain!Better
    <3>3. \A p : Plain!Cardinality(Plain!Better(p)) = Cardinality({q \in KeysOf(c) : q < p})
      BY <3>2, SameCount, Zenon
    <3>4. c[i].key \in KeysOf(c) /\ Plain!Cardinality(Plain!Better(c[i].key)) = i - 1
      BY <1>1, <2>1, <3>3, KeyRank
    <3>5. \A p \in KeysOf(c) : Plain!Cardinality(Plain!Better(p)) = i - 1 => p = c[i].key
      BY <1>1, <2>1, <3>3, KeyRank
    <3>6. Plain!AtRank(i) = CHOOSE p \in KeysOf(c) : Plain!Cardinality(Plain!Better(p)) = i - 1
      BY <3>1, Zenon DEF Plain!AtRank
    <3>. QED
      BY <3>4, <3>5, <3>6
  <2>3. lv[c[i].key] = c[i].val
    BY <1>1, <2>1, LevelsFacts
  <2>4. c[i] \in Cell
    BY <1>1, <2>1, OrderedFacts
  <2>5. [key |-> c[i].key, val |-> c[i].val] = c[i]
    BY <2>4 DEF Cell
  <2>. HIDE DEF lv
  <2>. QED
    BY <1>2, <2>1, <2>2, <2>3, <2>5
<1>10. Plain!Best = [i \in 1 .. n |-> At(window, i - 1)]
  BY <1>8, <1>9 DEF Plain!Best, c
<1>. QED
  BY <1>1, <1>10, TopFacts DEF n

-----------------------------------------------------------------------------
(* A side in use *)

(* The invariant: the side is whole, and readers have its top unless what  *)
(* was merged so far is worth publishing.                                  *)
BookSound ==
  /\ side \in {"bid", "ask"} /\ open \in BOOLEAN /\ merged \in 0 .. Window
  /\ BookOk(window, deep)
  /\ ~open => merged = DeepOnly
  /\ merged >= PUBLISHED => shown = Top(window)

(* What a level is to the plain map: its price's rank, set or deleted.     *)
LEMMA LevelStep ==
  ASSUME BookSound, NEW price \in Prices, NEW qty \in Quantities
  PROVE  LET k == LevelPrice(price)
         IN  /\ k \in Prices \cup {0 - p : p \in Prices} /\ k \in Int
             /\ SideStep(window, deep, k, IF qty = 0 THEN {} ELSE {Entry(k, qty)},
                         ApplyLevel(window, deep, price, qty))
<1>. DEFINE k == LevelPrice(price)
<1>1. price \in Int /\ 0 - price \in Int
  BY PricesAssumption
<1>2. k \in Prices \cup {0 - p : p \in Prices} /\ k \in Int
  BY <1>1 DEF LevelPrice
<1>3. BookOk(window, deep)
  BY DEF BookSound
<1>. HIDE DEF k
<1>4. CASE qty = 0
  BY <1>2, <1>3, <1>4, RemoveSideFacts DEF ApplyLevel, k
<1>5. CASE qty # 0
  <2>. DEFINE e == Entry(k, qty)
  <2>1. e \in Cell /\ e.key = k
    BY <1>2, CellFacts DEF Entry
  <2>2. ApplyLevel(window, deep, price, qty) = UpdateSide(window, deep, e)
    BY <1>5 DEF ApplyLevel, k
  <2>. HIDE DEF e
  <2>3. SideStep(window, deep, k, {e}, UpdateSide(window, deep, e))
    BY <1>3, <2>1, UpdateSideFacts
  <2>. QED
    BY <1>2, <1>5, <2>2, <2>3 DEF k, e
<1>. QED
  BY <1>4, <1>5

(* The view of the chain, as the plain book has it.                        *)
LEMMA PlainLevels ==
  [k \in KeysOf(Carried) |-> SizeOf(Carried, k)] = LevelMap(Chain(window, deep))
BY DEF LevelMap, Carried, Chain

(* An empty chain has no levels, and no top.                               *)
LEMMA EmptyChain ==
  /\ BookOk(Empty, <<>>) /\ Chain(Empty, <<>>) = <<>>
  /\ LevelMap(<<>>) = <<>> /\ Top(Empty) = <<>>
<1>1. Solid(Empty) /\ Size(Empty) = 0
  BY EmptyIsSolid
<1>2. <<>> \in Seq(Cell) /\ Len(<<>>) = 0
  OBVIOUS
<1>. DEFINE c == Chain(Empty, <<>>)
<1>3. c \in Seq(Cell) /\ Len(c) = 0
  <2>. DEFINE d == <<>>
  <2>1. d \in Seq(Cell) /\ Len(d) = 0
    BY <1>2
  <2>. HIDE DEF d
  <2>2. Chain(Empty, d) \in Seq(Cell) /\ Len(Chain(Empty, d)) = Size(Empty) + Len(d)
    BY <1>1, <2>1, ChainFacts
  <2>. QED
    BY <1>1, <2>1, <2>2 DEF d
<1>. HIDE DEF c
<1>4. c = <<>>
  BY <1>3
<1>5. Ordered(c)
  BY <1>3 DEF Ordered
<1>6. BookOk(Empty, <<>>)
  BY <1>1, <1>2, <1>5 DEF BookOk, c
<1>7. LevelMap(<<>>) = <<>>
  <2>1. KeysOf(<<>>) = {}
    BY DEF KeysOf
  <2>. QED
    BY <2>1 DEF LevelMap
<1>8. Top(Empty) = <<>>
  <2>1. Shallower(PUBLISHED, 0) = 0
    BY TargetFacts DEF Shallower
  <2>2. Top(Empty) = [i \in 1 .. 0 |-> At(Empty, i - 1)]
    BY <1>1, <2>1, TopFacts
  <2>. QED
    BY <2>2
<1>. QED
  BY <1>4, <1>6, <1>7, <1>8 DEF c

(* An empty book is sound, and a plain book that is empty.                 *)
LEMMA BookBegins == BookInit => BookSound /\ Plain!PlainInit
<1>. SUFFICES ASSUME BookInit PROVE BookSound /\ Plain!PlainInit
  OBVIOUS
<1>1. window = Empty /\ deep = <<>> /\ merged = Window /\ open = FALSE /\ shown = <<>>
      /\ side \in {"bid", "ask"}
  BY DEF BookInit, DeepOnly
<1>2. Window \in 0 .. Window
  BY TargetFacts
<1>3. BookSound
  BY <1>1, <1>2, EmptyChain DEF BookSound, DeepOnly
<1>4. [k \in KeysOf(Carried) |-> SizeOf(Carried, k)] = <<>>
  BY <1>1, PlainLevels, EmptyChain
<1>. QED
  BY <1>1, <1>3, <1>4, Zenon DEF Plain!PlainInit

(* A level pushed is one of the plain map, which readers do not see.       *)
LEMMA PushStep ==
  ASSUME BookSound, NEW price \in Prices, NEW qty \in Quantities, PushLevel(price, qty)
  PROVE  BookSound' /\ Plain!PlainNext
<1>. DEFINE k == LevelPrice(price)
            E == IF qty = 0 THEN {} ELSE {Entry(k, qty)}
            b == ApplyLevel(window, deep, price, qty)
            c == Chain(window, deep)
            r == Chain(window', deep')
<1>1. /\ window' = b.window /\ deep' = b.deep /\ merged' = Shallower(merged, b.at)
      /\ open' = TRUE /\ side' = side /\ shown' = shown
  BY DEF PushLevel
<1>2. k \in Prices \cup {0 - p : p \in Prices} /\ k \in Int /\ SideStep(window, deep, k, E, b)
  BY LevelStep
<1>. HIDE DEF b
<1>3. /\ BookOk(window', deep') /\ Changes(c, k, E, r)
      /\ b.at \in 0 .. Window /\ (b.at >= PUBLISHED => Top(window') = Top(window))
  BY <1>1, <1>2 DEF SideStep
<1>4. BookSound'
  <2>1. merged \in 0 .. Window /\ side \in {"bid", "ask"} /\ (merged >= PUBLISHED => shown = Top(window))
        /\ Window \in Nat /\ PUBLISHED \in Nat
    BY TargetFacts DEF BookSound
  <2>2. merged' \in 0 .. Window /\ (merged' >= PUBLISHED => merged >= PUBLISHED /\ b.at >= PUBLISHED)
    BY <1>1, <1>3, <2>1 DEF Shallower
  <2>3. merged' >= PUBLISHED => shown' = Top(window')
    BY <1>1, <1>3, <2>1, <2>2
  <2>. QED
    BY <1>1, <1>3, <2>1, <2>2, <2>3 DEF BookSound
<1>5. Ordered(c)
  BY TierFacts DEF BookSound
<1>6. LevelMap(r) = [q \in (KeysOf(c) \cup {k}) \ {x \in {k} : qty = 0} |->
                       IF q = k THEN qty ELSE LevelMap(c)[q]]
  <2>1. CASE qty = 0
    <3>1. LevelMap(r) = [q \in KeysOf(c) \ {k} |-> LevelMap(c)[q]]
      BY <1>3, <1>5, <2>1, LevelGone
    <3>2. (KeysOf(c) \cup {k}) \ {x \in {k} : qty = 0} = KeysOf(c) \ {k}
      BY <2>1
    <3>. HIDE DEF c, r, k
    <3>. QED
      BY <3>1, <3>2
  <2>2. CASE qty # 0
    <3>. DEFINE e == Entry(k, qty)
    <3>1. e.key = k /\ e.val = qty
      BY DEF Entry
    <3>2. Changes(c, k, {e}, r)
      BY <1>3, <2>2
    <3>. HIDE DEF e, c, r, k
    <3>3. LevelMap(r) = [q \in KeysOf(c) \cup {k} |-> IF q = k THEN e.val ELSE LevelMap(c)[q]]
      BY <1>5, <3>1, <3>2, LevelSet
    <3>4. (KeysOf(c) \cup {k}) \ {x \in {k} : qty = 0} = KeysOf(c) \cup {k}
      BY <2>2
    <3>. QED
      BY <3>1, <3>3, <3>4
  <2>. QED
    BY <2>1, <2>2
<1>7. DOMAIN LevelMap(c) = KeysOf(c)
  BY DEF LevelMap
<1>8. /\ [q \in KeysOf(Carried) |-> SizeOf(Carried, q)] = LevelMap(c)
      /\ [q \in KeysOf(Carried) |-> SizeOf(Carried, q)]' = LevelMap(r)
  <2>1. [q \in KeysOf(Carried) |-> SizeOf(Carried, q)]' = LevelMap(r)
    BY DEF LevelMap, Carried, Chain
  <2>. QED
    BY PlainLevels, <2>1
<1>. HIDE DEF c, r, k
<1>9. Plain!Level(k, qty)
  BY <1>1, <1>6, <1>7, <1>8 DEF Plain!Level
<1>. QED
  BY <1>2, <1>4, <1>9 DEF Plain!PlainNext

(* The end of a diff shows readers the best of it, even if that is what    *)
(* they had.                                                               *)
LEMMA EndStep ==
  ASSUME BookSound, EndOfDiff
  PROVE  BookSound' /\ Plain!PlainNext
<1>1. /\ open /\ open' = FALSE /\ merged' = Window
      /\ shown' = (IF merged < PUBLISHED THEN Top(window) ELSE shown)
      /\ side' = side /\ window' = window /\ deep' = deep
  BY DEF EndOfDiff, DeepOnly, WorthPublishing
<1>2. /\ merged \in 0 .. Window /\ side \in {"bid", "ask"} /\ (merged >= PUBLISHED => shown = Top(window))
      /\ Window \in Nat /\ PUBLISHED \in Nat /\ BookOk(window, deep)
  BY TargetFacts DEF BookSound
<1>3. shown' = Top(window)
  BY <1>1, <1>2
<1>4. BookSound'
  <2>1. merged' \in 0 .. Window /\ open' \in BOOLEAN /\ shown' = Top(window')
    <3>1. merged' \in 0 .. Window
      BY <1>1, <1>2
    <3>2. shown' = Top(window')
      BY <1>1, <1>3, Zenon
    <3>. QED
      BY <1>1, <3>1, <3>2
  <2>2. BookOk(window', deep')
    BY <1>1, <1>2
  <2>. QED
    BY <1>1, <1>2, <2>1, <2>2 DEF BookSound, DeepOnly
<1>5. [q \in KeysOf(Carried) |-> SizeOf(Carried, q)]' = [q \in KeysOf(Carried) |-> SizeOf(Carried, q)]
  BY <1>1 DEF Carried
<1>6. Plain!Applied
  BY <1>1, <1>2, <1>3, <1>5, BestIsTop DEF Plain!Applied
<1>. QED
  BY <1>4, <1>6 DEF Plain!PlainNext

(* A resync is the plain book's.                                           *)
LEMMA ResyncStep ==
  ASSUME BookSound, Resync
  PROVE  BookSound' /\ Plain!PlainNext
<1>1. /\ open' = FALSE /\ merged' = Window /\ shown' = <<>>
      /\ side' = side /\ window' = Empty /\ deep' = <<>>
  BY DEF Resync, DeepOnly
<1>2. side \in {"bid", "ask"} /\ Window \in 0 .. Window
  BY TargetFacts DEF BookSound
<1>3. BookSound'
  BY <1>1, <1>2, EmptyChain DEF BookSound, DeepOnly
<1>4. [q \in KeysOf(Carried) |-> SizeOf(Carried, q)]' = <<>>
  <2>1. [q \in KeysOf(Carried) |-> SizeOf(Carried, q)]' = LevelMap(Chain(window', deep'))
    BY DEF LevelMap, Carried, Chain
  <2>. QED
    BY <1>1, <2>1, EmptyChain
<1>5. Plain!Cleared
  BY <1>1, <1>4 DEF Plain!Cleared
<1>. QED
  BY <1>3, <1>5 DEF Plain!PlainNext

(* Every step keeps the book sound, and is one of the plain book or none.  *)
LEMMA BookKeeps ==
  BookSound /\ [BookNext]_bookVars => BookSound' /\ [Plain!PlainNext]_(Plain!plainVars)
<1>. SUFFICES ASSUME BookSound, [BookNext]_bookVars
              PROVE  BookSound' /\ [Plain!PlainNext]_(Plain!plainVars)
  OBVIOUS
<1>1. CASE UNCHANGED bookVars
  <2>1. /\ side' = side /\ window' = window /\ deep' = deep /\ merged' = merged /\ open' = open
        /\ shown' = shown
    BY <1>1 DEF bookVars
  <2>2. BookSound'
    BY <2>1 DEF BookSound
  <2>3. UNCHANGED Plain!plainVars
    BY <2>1 DEF Plain!plainVars, Carried
  <2>. QED
    BY <2>2, <2>3
<1>2. CASE BookNext
  BY <1>2, PushStep, EndStep, ResyncStep DEF BookNext
<1>. QED
  BY <1>1, <1>2

(* The invariant has the window hold the top.                              *)
LEMMA SoundBookHolds == BookSound => WindowHoldsTheTop
<1>. SUFFICES ASSUME BookSound PROVE WindowHoldsTheTop
  OBVIOUS
<1>1. Solid(window) /\ Ordered(Carried) /\ (deep # <<>> => Size(window) >= PUBLISHED)
  BY DEF BookSound, BookOk, Carried, Chain
<1>2. DOMAIN Carried = 1 .. Len(Carried)
  BY <1>1, OrderedFacts
<1>. QED
  BY <1>1, <1>2 DEF WindowHoldsTheTop, Solid, Ordered
=============================================================================

-------------------------- MODULE IncrementalBook --------------------------
(***************************************************************************)
(* One side of IncrementalBook (core_lib/src/incremental_book.rs): the     *)
(* best levels in a window, which is module LinearMap's map, and the rest  *)
(* in a sorted deque; and what apply_level, worth_publishing and SmallBook *)
(* (venue/levels.rs, small_book.rs) do with it.  A price is an integer: a  *)
(* PositiveF64 compares by its bits, which ascend as its value does.       *)
(***************************************************************************)
EXTENDS LinearMap

CONSTANTS PUBLISHED,  \* PUBLISHED_DEPTH, and SmallBook::LEVELS
          Prices,     \* bound: the prices a venue names
          Quantities  \* bound: the quantities it names, 0 among them

ASSUME PublishedAssumption == PUBLISHED \in Nat \ {0} /\ PUBLISHED < Window
ASSUME PricesAssumption == Prices \subseteq Nat \ {0} /\ Quantities \subseteq Nat

VARIABLES
  side,    \* which side this is; it never changes
  window,  \* first_levels
  deep,    \* deap_levels
  merged,  \* where the diff being applied first disturbed the window
  open,    \* a diff is being applied
  shown    \* the side of the SmallBook that was published last

bookVars == <<side, window, deep, merged, open, shown>>

TARGET == (Window + PUBLISHED) \div 2
BAND == Window - TARGET

LevelPrice(p) == IF side = "ask" THEN p ELSE 0 - p

(* UpdateResult: a position in the window, or deeper than any.  A change   *)
(* of nothing at all merges as one that is too deep.                       *)
DeepOnly == Window
Shallower(a, b) == IF a < b THEN a ELSE b

BookInit ==
  /\ side \in {"bid", "ask"}
  /\ window = Empty /\ deep = <<>>
  /\ merged = DeepOnly /\ open = FALSE
  /\ shown = <<>>

-----------------------------------------------------------------------------
(* BookSide.  A book is [window, deep]; what changes it returns the book   *)
(* and the UpdateResult.                                                   *)

Book(w, d, at) == [window |-> w, deep |-> d, at |-> at]

BelongsInWindow(w, d, k) ==
  \/ Size(w) = 0
  \/ k <= Worst(w).key
  \/ ~IsFull(w) /\ (d = <<>> \/ k < Head(d).key)

DeepPosition(d, k) == Cardinality({i \in DOMAIN d : d[i].key < k}) + 1
InDeep(d, k) == \E i \in DOMAIN d : d[i].key = k

DeepRemove(d, i) == SubSeq(d, 1, i - 1) \o SubSeq(d, i + 1, Len(d))
DeepUpdate(d, e) ==
  LET i == DeepPosition(d, e.key)
  IN  IF InDeep(d, e.key) THEN [d EXCEPT ![i] = e]
      ELSE SubSeq(d, 1, i - 1) \o <<e>> \o SubSeq(d, i, Len(d))

PushedFront(d, drained) ==
  LET after[i \in 0 .. Len(drained)] == IF i = 0 THEN d ELSE <<drained[i]>> \o after[i - 1]
  IN  after[Len(drained)]

(* What a drain hands out worst first ends at the front, best foremost.    *)
Spill(w, d) ==
  LET drained == SubSeq(InOrder(w), TARGET + 1, Window)
  IN  Book(DrainWorst(w, BAND),
           PushedFront(d, [i \in 1 .. BAND |-> drained[BAND + 1 - i]]), DeepOnly)

Refill(w, d, at) ==
  LET count == Shallower(TARGET - Size(w), Len(d))
  IN  Book(ExtendWorst(w, SubSeq(d, 1, count)), SubSeq(d, count + 1, Len(d)), at)

(* A full window is spilled first; the level goes with the half it was in. *)
UpdateSide(w, d, e) ==
  LET pos == Locate(w, e.key)
      spilt == Spill(w, d)
      inWindow == BelongsInWindow(w, d, e.key)
  IN  CASE ~inWindow -> Book(w, DeepUpdate(d, e), DeepOnly)
        [] inWindow /\ Occupied(w, e.key) -> Book(Overwrite(w, pos, e.val), d, pos)
        [] inWindow /\ ~Occupied(w, e.key) /\ ~IsFull(w) -> Book(InsertAt(w, pos, e), d, pos)
        [] OTHER -> IF pos >= TARGET
                    THEN Book(spilt.window, DeepUpdate(spilt.deep, e), DeepOnly)
                    ELSE Book(InsertAt(spilt.window, pos, e), spilt.deep, pos)

(* Removing what is not there is routine.                                  *)
RemoveSide(w, d, k) ==
  LET pos == Locate(w, k)
      shorter == RemoveAt(w, pos)
      inWindow == Size(w) > 0 /\ k <= Worst(w).key
  IN  CASE Size(w) > 0 /\ ~inWindow /\ InDeep(d, k) ->
             Book(w, DeepRemove(d, DeepPosition(d, k)), DeepOnly)
        [] inWindow /\ Occupied(w, k) ->
             IF Size(shorter) < PUBLISHED THEN Refill(shorter, d, pos)
             ELSE Book(shorter, d, pos)
        [] OTHER -> Book(w, d, DeepOnly)

ApplyLevel(w, d, price, qty) ==
  IF qty = 0 THEN RemoveSide(w, d, LevelPrice(price))
  ELSE UpdateSide(w, d, Entry(LevelPrice(price), qty))

WorthPublishing(at) == at < PUBLISHED

(* SmallBook::refill *)
Top(w) == SubSeq(InOrder(w), 1, Shallower(PUBLISHED, Size(w)))

-----------------------------------------------------------------------------
(* A venue's diffs, one level at a time, and its resyncs *)

(* Slip: Option::min, with which nothing at all is shallowest.             *)
PushLevelMin(price, qty) ==
  /\ LET b == ApplyLevel(window, deep, price, qty)
     IN  /\ window' = b.window /\ deep' = b.deep
         /\ merged' = IF open /\ (merged = DeepOnly \/ b.at = DeepOnly) THEN DeepOnly
                      ELSE Shallower(b.at, merged)
  /\ open' = TRUE
  /\ UNCHANGED <<side, shown>>

(* BookSink::push_level *)
PushLevel(price, qty) ==
  /\ LET b == ApplyLevel(window, deep, price, qty)
     IN  /\ window' = b.window /\ deep' = b.deep
         /\ merged' = Shallower(merged, b.at)
  /\ open' = TRUE
  /\ UNCHANGED <<side, shown>>

(* The diff is over: readers get the new top, unless they could not tell.  *)
EndOfDiff ==
  /\ open /\ open' = FALSE
  /\ shown' = IF WorthPublishing(merged) THEN Top(window) ELSE shown
  /\ merged' = DeepOnly
  /\ UNCHANGED <<side, window, deep>>

(* Slot::reset: the book is cleared in place, and an empty one published.  *)
Resync ==
  /\ window' = Empty /\ deep' = <<>>
  /\ merged' = DeepOnly /\ open' = FALSE
  /\ shown' = <<>>
  /\ UNCHANGED side

BookNext ==
  \/ \E p \in Prices, q \in Quantities : PushLevel(p, q)
  \/ EndOfDiff \/ Resync

-----------------------------------------------------------------------------
(* Properties *)

Carried == InOrder(window) \o deep

(* Window and deque together ascend without a gap between them, and the    *)
(* window never holds fewer levels than are published while the deque has  *)
(* some to offer, so that a reader never waits for a refill                *)
(* (BookSide::first_levels).                                               *)
WindowHoldsTheTop ==
  /\ Whole(window)
  /\ \A i, j \in DOMAIN Carried : i < j => Carried[i].key < Carried[j].key
  /\ deep # <<>> => Size(window) >= PUBLISHED

KeysOf(s) == {s[i].key : i \in DOMAIN s}
SizeOf(s, k) == s[CHOOSE i \in DOMAIN s : s[i].key = k].val

(* The two tiers are one map, and what readers are shown is its best       *)
(* levels whenever no diff is half applied: where a spill or a refill puts *)
(* a level, and the diffs not worth publishing, are beyond their sight     *)
(* (BookSide::update, worth_publishing).                                   *)
Plain == INSTANCE PlainBook
  WITH Depth <- PUBLISHED,
       Ranks <- Prices \cup {0 - p : p \in Prices},
       Sizes <- Quantities,
       levels <- [k \in KeysOf(Carried) |-> SizeOf(Carried, k)],
       top <- shown

ImplementsPlainBook == Plain!PlainSpec /\ []WindowHoldsTheTop

=============================================================================

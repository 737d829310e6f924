----------------------------- MODULE PlainBook -----------------------------
(***************************************************************************)
(* What one side of a book promises, whatever it is built out of: a map    *)
(* from prices to sizes, changed level by level while a diff is applied,   *)
(* and a published top that is the best Depth of it whenever no diff is    *)
(* half applied.  Prices are integers in the side's own order, best first. *)
(***************************************************************************)
EXTENDS Integers, Sequences, FiniteSets

CONSTANTS Depth,   \* SmallBook::LEVELS
          Ranks,   \* the prices
          Sizes    \* the sizes a level may have; 0 deletes it

VARIABLES levels, \* price -> size
          open,   \* a diff is being applied
          top     \* what readers are shown

plainVars == <<levels, open, top>>

Better(p) == {q \in DOMAIN levels : q < p}
AtRank(n) == CHOOSE p \in DOMAIN levels : Cardinality(Better(p)) = n - 1
Shown == IF Cardinality(DOMAIN levels) < Depth THEN Cardinality(DOMAIN levels) ELSE Depth
Best == [n \in 1 .. Shown |-> [key |-> AtRank(n), val |-> levels[AtRank(n)]]]

PlainInit == levels = <<>> /\ ~open /\ top = <<>>

Level(p, size) ==
  /\ open' /\ top' = top
  /\ levels' = [q \in (DOMAIN levels \cup {p}) \ {x \in {p} : size = 0} |->
                  IF q = p THEN size ELSE levels[q]]

Applied ==
  /\ open /\ ~open'
  /\ top' = Best
  /\ UNCHANGED levels

(* A resync: the book is emptied, and the readers are told.                *)
Cleared == levels' = <<>> /\ ~open' /\ top' = <<>>

PlainNext == Applied \/ Cleared \/ \E p \in Ranks, size \in Sizes : Level(p, size)

PlainSpec == PlainInit /\ [][PlainNext]_plainVars

=============================================================================

----------------------------- MODULE VenueFeed -----------------------------
(***************************************************************************)
(* The market data the decoders are fed.  A venue numbers its updates;     *)
(* update k sets the one bid level, the one ask level, or both, and a book *)
(* is, side by side, the update that set it last.  A level on the wire is  *)
(* the update it comes from.  What a level does to a book with many of     *)
(* them is module IncrementalBook's.                                       *)
(***************************************************************************)
EXTENDS Integers, Sequences, FiniteSets

CONSTANTS MaxUpdates,  \* bound: updates of the venue
          MaxPending   \* max_pending_frames

ASSUME FeedAssumption == MaxUpdates \in Nat /\ MaxPending \in Nat \ {0}

Sides == {"bid", "ask"}
Touched(k) == IF k % 3 = 0 THEN Sides ELSE IF k % 2 = 0 THEN {"ask"} ELSE {"bid"}

Latest(S) == CHOOSE k \in S : \A j \in S : j <= k

(* The book after update n, to one who never saw the updates in missed.    *)
BookWithout(n, missed) ==
  [s \in Sides |-> Latest({0} \cup {k \in (1 .. n) \ missed : s \in Touched(k)})]
VenueBook(n) == BookWithout(n, {})
NoBook == VenueBook(0)

(* The array of side s in an event, or in a snapshot of update n.          *)
LevelsOf(first, last, s) ==
  LET upTo[k \in first - 1 .. last] ==
        IF k < first THEN <<>>
        ELSE IF s \in Touched(k) THEN Append(upTo[k - 1], k) ELSE upTo[k - 1]
  IN  upTo[last]
SnapshotOf(n, s) == IF VenueBook(n)[s] = 0 THEN <<>> ELSE <<VenueBook(n)[s]>>

(* What levels, in turn, make of the level there was.                      *)
Settled(level, levels) == IF levels = <<>> THEN level ELSE levels[Len(levels)]
ApplyLevels(book, s, levels) == [book EXCEPT ![s] = Settled(@, levels)]
=============================================================================

----------------------------- MODULE BookFrame -----------------------------
(***************************************************************************)
(* One book update on its way to the wire: the books of an instrument's    *)
(* venues merged side by side, best level first                            *)
(* (md_server/src/broadcast/book_merger.rs), and written level by level    *)
(* into one gRPC message as the merge yields them (book_encoder.rs).       *)
(* Nothing is written twice and no merged side exists as a value, so what  *)
(* the frame says of itself, its length and its spread, is put together    *)
(* from what went by.                                                      *)
(***************************************************************************)
EXTENDS Integers, Sequences, FiniteSets

CONSTANTS LEVELS, \* SmallBook::LEVELS, 10
          Ticks   \* bound: the prices, zero among them

ASSUME LevelsAssumption == LEVELS \in Nat \ {0} /\ Ticks \subseteq Nat

VARIABLES pairs,     \* the instrument's venues, in the order of the catalogue
          small,     \* venue, side -> the levels of its SmallBook, best first
          heads,     \* MergedSide.heads: what is left of each, in the order of pairs
          remaining, \* MergedSide.remaining
          writing,   \* the side that is being written, or "done"
          fields,    \* the frame's body so far
          announced  \* the length in the message's prefix

frameVars == <<pairs, small, heads, remaining, writing, fields, announced>>

BookSides == {"asks", "bids"}
VenueIdx == [binance_spot |-> 1, bitstamp |-> 2]
SPREAD_LEN == 9
LEVEL_SCALARS == 18
MAX_VENUE_IDX_ENCODED_LEN == 2
LEVEL_BODY == LEVEL_SCALARS + MAX_VENUE_IDX_ENCODED_LEN

-----------------------------------------------------------------------------
(* The merge *)

Beats(side, p, q) == IF side = "asks" THEN p < q ELSE p > q

Fewest(m, n) == IF m < n THEN m ELSE n

Together(levels) == Cardinality(UNION {{i} \X DOMAIN levels[i] : i \in DOMAIN levels})

(* Slip: the last of the venues that quote the best price goes first.    *)
BestHeadLast(side) ==
  CHOOSE i \in DOMAIN heads :
    /\ heads[i] # <<>>
    /\ \A j \in DOMAIN heads : heads[j] # <<>> =>
         /\ ~Beats(side, heads[j][1].price, heads[i][1].price)
         /\ j > i => heads[j][1].price # heads[i][1].price

(* best_head: only a price that is better takes the place of an earlier    *)
(* venue's.                                                                *)
BestHead(side) ==
  CHOOSE i \in DOMAIN heads :
    /\ heads[i] # <<>>
    /\ \A j \in DOMAIN heads : heads[j] # <<>> =>
         /\ ~Beats(side, heads[j][1].price, heads[i][1].price)
         /\ j < i => heads[j][1].price # heads[i][1].price

(* What a side has to yield; the walk of a single venue, tagged, has no    *)
(* bound but its length.                                                   *)
Bound(levels) ==
  IF Len(levels) = 1 THEN Len(levels[1]) ELSE Fewest(LEVELS, Together(levels))

StartSide(side, levels) == writing' = side /\ heads' = levels /\ remaining' = Bound(levels)

(* MergedSide::next: the best head, and its run without it.                *)
NextLevel(side) ==
  LET i == BestHead(side)
  IN [level |-> heads[i][1], venue |-> pairs[i], rest |-> [heads EXCEPT ![i] = Tail(@)]]

OfSide(side) == [i \in DOMAIN pairs |-> small[pairs[i]][side]]

-----------------------------------------------------------------------------
(* The encoder *)

(* One Level field: what next() yields, and the length it is given before  *)
(* it is written.                                                          *)
PutLevel ==
  /\ writing \in BookSides
  /\ remaining > 0
  /\ LET next == NextLevel(writing)
     IN /\ fields' = Append(fields, [key |-> writing, len |-> LEVEL_BODY, price |-> next.level.price,
                                     size |-> next.level.size, venue_idx |-> VenueIdx[next.venue]])
        /\ heads' = next.rest
  /\ remaining' = remaining - 1
  /\ UNCHANGED <<pairs, small, writing, announced>>

AsksDone ==
  /\ writing = "asks" /\ remaining = 0
  /\ StartSide("bids", OfSide("bids"))
  /\ UNCHANGED <<pairs, small, fields, announced>>

(* The levels of a side in a body, in the order in which they are there.   *)
Written(body, side) ==
  LET upTo[n \in 0 .. Len(body)] ==
        IF n = 0 THEN <<>>
        ELSE IF body[n].key = side THEN Append(upTo[n - 1], body[n]) ELSE upTo[n - 1]
  IN  upTo[Len(body)]

Width(field) == IF field.key = "spread" THEN SPREAD_LEN ELSE 2 + field.len

Bytes(body) ==
  LET upTo[n \in 0 .. Len(body)] == IF n = 0 THEN 0 ELSE upTo[n - 1] + Width(body[n])
  IN  upTo[Len(body)]

(* The spread of the first ask and the first bid that went by; none to     *)
(* speak of is NaN, and zero is elided.                                    *)
Spread ==
  IF Written(fields, "asks") = <<>> \/ Written(fields, "bids") = <<>> THEN <<[key |-> "spread", nan |-> TRUE]>>
  ELSE LET wide == Written(fields, "asks")[1].price - Written(fields, "bids")[1].price
       IN IF wide = 0 THEN <<>> ELSE <<[key |-> "spread", nan |-> FALSE, wide |-> wide]>>

Finish ==
  /\ writing = "bids" /\ remaining = 0
  /\ fields' = fields \o Spread
  /\ announced' = Bytes(fields')
  /\ writing' = "done"
  /\ UNCHANGED <<pairs, small, heads, remaining>>

-----------------------------------------------------------------------------
(* Bound: the size of a level follows from its venue and its price.        *)
LevelAt(venue, p) == [price |-> p, size |-> 10 * VenueIdx[venue] + p]

(* What refill leaves in a SmallBook: distinct prices, best first.         *)
Sorted(side, levels) ==
  \A m, n \in DOMAIN levels : m < n => Beats(side, levels[m].price, levels[n].price)
Ladders(side, venue) ==
  {levels \in UNION {[1 .. depth -> {LevelAt(venue, p) : p \in Ticks}] : depth \in 0 .. LEVELS} :
     Sorted(side, levels)}

FrameInit ==
  /\ pairs \in {<<"binance_spot">>, <<"binance_spot", "bitstamp">>, <<"bitstamp", "binance_spot">>}
  /\ \E asks1 \in Ladders("asks", "binance_spot"), bids1 \in Ladders("bids", "binance_spot"),
        asks2 \in Ladders("asks", "bitstamp"), bids2 \in Ladders("bids", "bitstamp") :
       /\ Len(pairs) = 1 => asks2 = <<>> /\ bids2 = <<>>
       /\ small = [binance_spot |-> [asks |-> asks1, bids |-> bids1],
                   bitstamp |-> [asks |-> asks2, bids |-> bids2]]
  /\ writing = "asks" /\ heads = OfSide("asks")
  /\ remaining = Bound(heads)
  /\ fields = <<>> /\ announced = 0

FrameNext == PutLevel \/ AsksDone \/ Finish

-----------------------------------------------------------------------------
(* Properties *)

(* Every level of the instrument on a side, in the order of the merge:     *)
(* by price, and at one price by the order of the venues.                  *)
Quote(i, l) == [venue_idx |-> VenueIdx[pairs[i]], price |-> l.price, size |-> l.size, at |-> i]
Quotes(levels) == UNION {{Quote(i, levels[i][n]) : n \in DOMAIN levels[i]} : i \in DOMAIN levels}
Quoted(side) == Quotes(OfSide(side))
Before(side, l, m) == Beats(side, l.price, m.price) \/ (l.price = m.price /\ l.at < m.at)

(* What is read off the wire is the best LEVELS levels that the venues     *)
(* quote between them, each with its own venue, best first, and the first  *)
(* venue of the catalogue first where they agree; the spread is that of    *)
(* the best two, NaN without two and elided at zero; the message is as     *)
(* long as it says; and no levels at all are sent exactly when every venue *)
(* is resyncing.                                                           *)
FrameIsMergedBook ==
  writing = "done" =>
    /\ \A side \in BookSides :
         LET read == Written(fields, side)
             rank(l) == Cardinality({m \in Quoted(side) : Before(side, m, l)}) + 1
         IN /\ Len(read) = Fewest(LEVELS, Cardinality(Quoted(side)))
            /\ \A l \in Quoted(side) : rank(l) <= Len(read) =>
                 /\ read[rank(l)].price = l.price /\ read[rank(l)].size = l.size
                 /\ read[rank(l)].venue_idx = l.venue_idx
    /\ announced = Bytes(fields)
    /\ LET best(side) == CHOOSE l \in Quoted(side) : \A m \in Quoted(side) : ~Before(side, m, l)
           tail == fields[Len(fields)]
       IN IF Quoted("asks") = {} \/ Quoted("bids") = {} THEN tail.key = "spread" /\ tail.nan
          ELSE IF best("asks").price = best("bids").price THEN tail.key # "spread"
          ELSE tail.key = "spread" /\ ~tail.nan /\ tail.wide = best("asks").price - best("bids").price
    /\ (Written(fields, "asks") \o Written(fields, "bids") = <<>>)
         <=> \A i \in DOMAIN pairs : \A side \in BookSides : small[pairs[i]][side] = <<>>
=============================================================================

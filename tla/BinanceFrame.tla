---------------------------- MODULE BinanceFrame ----------------------------
(***************************************************************************)
(* Binance's decoder (venues/binance_spot/src/decode.rs), key by key.  It  *)
(* applies a live diff to the book while it parses it, and stages one for  *)
(* a symbol that has no book, so that a frame may fail with half of it     *)
(* done.  Frames arrive in order, but a frame may be lost, its keys may    *)
(* come in any order, and any key or value may turn out not to be what it  *)
(* should.  The session around it is module Connection's; of that only     *)
(* what it does with a decoder's answer is here.                           *)
(***************************************************************************)
EXTENDS VenueFeed

VARIABLES
  bnNow,     \* the venue's last update
  bnSlot,    \* the symbol's slot
  bnShown,   \* the book readers see
  bnParse,   \* the frame or snapshot being decoded, and how far it is
  bnReply    \* the last control reply: what it said, and what was made of it

bnVars == <<bnNow, bnSlot, bnShown, bnParse, bnReply>>

Fresh == [phase |-> "bootstrapping", cursor |-> 0, book |-> NoBook,
          levels |-> <<>>, meta |-> <<>>, first |-> 0]
BnIdle == [at |-> "idle"]
NoReply == [said |-> {}, id |-> FALSE, code |-> FALSE, rejected |-> FALSE, failed |-> FALSE]

BnReady == bnSlot.phase \in {"seeded", "live"}

BnInit ==
  /\ bnNow = 0
  /\ bnSlot = Fresh /\ bnShown = NoBook
  /\ bnParse = BnIdle
  /\ bnReply = NoReply

BnReset == bnSlot' = Fresh /\ bnShown' = NoBook
BnKeep == UNCHANGED <<bnSlot, bnShown>>

-----------------------------------------------------------------------------
(* The envelope *)

(* Lost, not JSON at all, or of a stream nobody carries: no slot hears of  *)
(* it.  (FrameAction::Ignored, or Undecodable without a slot)              *)
BnMiss(n) ==
  /\ bnParse = BnIdle /\ bnNow + n <= MaxUpdates
  /\ bnNow' = bnNow + n
  /\ BnKeep /\ UNCHANGED <<bnParse, bnReply>>

(* `stream` names the slot.  The wire's event covers n updates.            *)
BnFrame(n) ==
  /\ bnParse = BnIdle /\ bnNow + n <= MaxUpdates
  /\ bnNow' = bnNow + n
  /\ bnParse' = [at |-> "envelope", first |-> bnNow + 1, last |-> bnNow + n]
  /\ BnKeep /\ UNCHANGED bnReply

(* An envelope that fails before its body, or has none, blames nobody.     *)
EnvelopeFails ==
  /\ bnParse.at = "envelope"
  /\ bnParse' = BnIdle
  /\ BnKeep /\ UNCHANGED <<bnNow, bnReply>>

(* A diff none of whose keys is read yet, and what it will have done: was  *)
(* it applied, and did it move the top (DiffOutcome).                      *)
Body(first, last) ==
  [at |-> "body", first |-> first, last |-> last, applied |-> FALSE, moved |-> FALSE,
   todo |-> {"U", "u", "bid", "ask"}, side |-> "none", left |-> <<>>,
   start |-> Len(bnSlot.levels), bidEnd |-> Len(bnSlot.levels)]

(* `data`: had_processing is set, and SlotSeed picks what to do with it.   *)
EnterBody ==
  /\ bnParse.at = "envelope"
  /\ bnParse' = Body(bnParse.first, bnParse.last)
  /\ BnKeep /\ UNCHANGED <<bnNow, bnReply>>

InBody == bnParse.at = "body"
BetweenKeys == InBody /\ bnParse.side = "none"
Goes(f) == bnParse' = f /\ BnKeep

(* Slip: a frame whose body was read to its end is not blamed.             *)
BodyFailsInside ==
  /\ InBody \/ bnParse.at = "tail"
  /\ bnParse' = BnIdle
  /\ IF InBody THEN BnReset ELSE BnKeep
  /\ UNCHANGED <<bnNow, bnReply>>

(* From the body on, whatever fails costs the slot its book (processed_slot *)
(* and Connection::on_frame), the rest of the envelope included.           *)
BodyFails ==
  /\ InBody \/ bnParse.at = "tail"
  /\ bnParse' = BnIdle
  /\ BnReset
  /\ UNCHANGED <<bnNow, bnReply>>

-----------------------------------------------------------------------------
(* DiffSeed and BufferSeed *)

(* A gap is seen here, if `U` comes before the levels as it should; what   *)
(* fails is BodyFails.                                                     *)
ReadFirst ==
  /\ BetweenKeys /\ "U" \in bnParse.todo
  /\ bnSlot.phase = "live" => bnParse.first = bnSlot.cursor + 1
  /\ Goes([bnParse EXCEPT !.todo = @ \ {"U"}])
  /\ UNCHANGED <<bnNow, bnReply>>

ReadLast ==
  /\ BetweenKeys /\ "u" \in bnParse.todo
  /\ Goes([bnParse EXCEPT !.todo = @ \ {"u"}])
  /\ UNCHANGED <<bnNow, bnReply>>

MinId == IF bnSlot.phase = "seeded" THEN bnSlot.cursor ELSE 0

(* An array of levels.  A diff needs to know `u` by now and is skipped if  *)
(* the snapshot covers it; the arena needs the bids first.                 *)
ReadArray(s) ==
  /\ BetweenKeys /\ s \in bnParse.todo
  /\ \/ /\ BnReady /\ "u" \notin bnParse.todo
        /\ Goes(IF bnParse.last > MinId
                THEN [bnParse EXCEPT !.todo = @ \ {s}, !.side = s, !.applied = TRUE,
                                     !.left = LevelsOf(bnParse.first, bnParse.last, s)]
                ELSE [bnParse EXCEPT !.todo = @ \ {s}])
     \/ /\ ~BnReady /\ (s = "bid" \/ "bid" \notin bnParse.todo)
        /\ Goes([bnParse EXCEPT !.todo = @ \ {s}, !.side = s,
                                !.left = LevelsOf(bnParse.first, bnParse.last, s)])
  /\ UNCHANGED <<bnNow, bnReply>>

(* One pair goes into the book, or into the slot's arena.                  *)
ReadLevel ==
  /\ InBody /\ bnParse.left # <<>>
  /\ bnParse' = [bnParse EXCEPT !.left = Tail(@), !.moved = TRUE]
  /\ bnSlot' = IF BnReady THEN [bnSlot EXCEPT !.book[bnParse.side] = Head(bnParse.left)]
               ELSE [bnSlot EXCEPT !.levels = Append(@, Head(bnParse.left))]
  /\ UNCHANGED <<bnNow, bnShown, bnReply>>

CloseArray ==
  /\ InBody /\ bnParse.side # "none" /\ bnParse.left = <<>>
  /\ Goes([bnParse EXCEPT !.side = "none",
                          !.bidEnd = IF bnParse.side = "bid" THEN Len(bnSlot.levels) ELSE @])
  /\ UNCHANGED <<bnNow, bnReply>>

(* An event has both arrays; without `U` or `u` it is BodyFails.           *)
EndBody ==
  /\ BetweenKeys /\ bnParse.todo = {}
  /\ bnParse' = [bnParse EXCEPT !.at = "tail"]
  /\ bnSlot' = IF BnReady THEN bnSlot
               ELSE [bnSlot EXCEPT !.meta = Append(@,
                      [first |-> bnParse.first, last |-> bnParse.last, start |-> bnParse.start,
                       bidEnd |-> bnParse.bidEnd, end |-> Len(bnSlot.levels)])]
  /\ UNCHANGED <<bnNow, bnShown, bnReply>>

-----------------------------------------------------------------------------
(* on_frame, and what the session does with its answer *)

GoesLive == bnSlot' = [bnSlot EXCEPT !.phase = "live", !.cursor = bnParse.last]
SpansBoundary(first, last, id) == first <= id + 1 /\ id + 1 <= last

EndFrame ==
  /\ bnParse.at = "tail"
  /\ bnParse' = BnIdle
  /\ \/ /\ bnSlot.phase = "live"
        /\ GoesLive
        /\ bnShown' = IF bnParse.moved THEN bnSlot.book ELSE bnShown
     \/ /\ bnSlot.phase = "seeded" /\ ~bnParse.applied
        /\ BnKeep
     \/ /\ bnSlot.phase = "seeded" /\ bnParse.applied
        /\ IF SpansBoundary(bnParse.first, bnParse.last, bnSlot.cursor)
           THEN GoesLive /\ bnShown' = bnSlot.book ELSE BnReset
     \/ /\ ~BnReady
        /\ IF Len(bnSlot.meta) >= MaxPending THEN BnReset
           ELSE /\ bnSlot' = IF bnSlot.first = 0 THEN [bnSlot EXCEPT !.first = bnParse.first]
                             ELSE bnSlot
                /\ UNCHANGED bnShown
  /\ UNCHANGED <<bnNow, bnReply>>

(* The symbol was idle, or its socket went.                                *)
BnResync ==
  /\ bnParse = BnIdle /\ bnSlot # Fresh
  /\ BnReset
  /\ UNCHANGED <<bnNow, bnParse, bnReply>>

-----------------------------------------------------------------------------
(* seed_and_replay: the snapshot of update `at` *)

BnSnapshot(at) ==
  /\ bnParse = BnIdle /\ ~BnReady /\ bnSlot.first # 0 /\ at <= bnNow
  /\ bnParse' = [at |-> "snapshot", id |-> at, todo |-> {"id", "bid", "ask"}]
  /\ bnSlot' = [bnSlot EXCEPT !.book = NoBook]
  /\ UNCHANGED <<bnNow, bnShown, bnReply>>

SnapshotKey(k) ==
  /\ bnParse.at = "snapshot" /\ k \in bnParse.todo
  /\ bnParse' = [bnParse EXCEPT !.todo = @ \ {k}]
  /\ bnSlot' = IF k = "id" THEN bnSlot
               ELSE [bnSlot EXCEPT !.book = ApplyLevels(@, k, SnapshotOf(bnParse.id, k))]
  /\ UNCHANGED <<bnNow, bnShown, bnReply>>

(* recover_bootstrap: the diffs stay for another snapshot, or all goes.    *)
Refetched == bnParse' = BnIdle /\ (BnKeep \/ BnReset)

SnapshotFails ==
  /\ bnParse.at = "snapshot"
  /\ Refetched
  /\ UNCHANGED <<bnNow, bnReply>>

BidsOf(m) == SubSeq(bnSlot.levels, m.start + 1, m.bidEnd)
AsksOf(m) == SubSeq(bnSlot.levels, m.bidEnd + 1, m.end)

(* One buffered diff after the other; a hole among them ends it.           *)
Replayed(r, m, at) ==
  IF r.err # "none" \/ m.last <= at THEN r
  ELSE IF r.fresh /\ ~SpansBoundary(m.first, m.last, at) THEN [r EXCEPT !.err = "SnapshotGap"]
  ELSE IF ~r.fresh /\ m.first # r.prev + 1 THEN [r EXCEPT !.err = "Gap"]
  ELSE [book |-> ApplyLevels(ApplyLevels(r.book, "bid", BidsOf(m)), "ask", AsksOf(m)),
        prev |-> m.last, fresh |-> FALSE, err |-> "none"]
Replay(at) ==
  LET after[i \in 0 .. Len(bnSlot.meta)] ==
        IF i = 0 THEN [book |-> bnSlot.book, prev |-> at, fresh |-> TRUE,
                       err |-> IF bnSlot.first > at + 1 THEN "SnapshotGap" ELSE "none"]
        ELSE Replayed(after[i - 1], bnSlot.meta[i], at)
  IN  after[Len(bnSlot.meta)]

(* The diffs are wanted for another snapshot unless they have a hole.      *)
Retry(err) == IF err = "Gap" THEN "Resync" ELSE "Refetch"

SnapshotEnds ==
  /\ bnParse.at = "snapshot" /\ bnParse.todo = {}
  /\ LET r == Replay(bnParse.id)
     IN  \/ /\ r.err # "none" /\ Retry(r.err) = "Refetch"
            /\ bnSlot' = [bnSlot EXCEPT !.book = r.book] /\ UNCHANGED bnShown
         \/ r.err # "none" /\ BnReset
         \/ /\ r.err = "none"
            /\ bnSlot' = [Fresh EXCEPT !.phase = IF r.fresh THEN "seeded" ELSE "live",
                                       !.cursor = r.prev, !.book = r.book]
            /\ bnShown' = r.book
  /\ bnParse' = BnIdle
  /\ UNCHANGED <<bnNow, bnReply>>

-----------------------------------------------------------------------------
(* Control replies: a frame whose first key is anything but `stream` *)

(* ErrorValue: what `error` or `code` held.  Null is no rejection; what is *)
(* a number, or reads as one, or a map of which one is, has a code.        *)
Found == {"null", "number", "numeral", "map of number", "bool", "prose", "list", "map"}
HasCode(v) == v \in {"number", "numeral", "map of number"}

ReplyKeys == {"id", "code", "error", "data", "result"}

(* Slip: the last key with a code has the say.                             *)
AfterKeyLast(r, key, v) ==
  CASE key = "id" /\ v \in {"null", "number"} -> [r EXCEPT !.id = (v = "number")]
    [] key \in {"code", "error"} /\ v # "null" ->
         [r EXCEPT !.rejected = TRUE, !.code = HasCode(v)]
    [] key = "data" \/ (key = "id" /\ v \notin {"null", "number"}) -> [r EXCEPT !.failed = TRUE]
    [] OTHER -> r

AfterKey(r, key, v) ==
  CASE key = "id" /\ v \in {"null", "number"} -> [r EXCEPT !.id = (v = "number")]
    [] key \in {"code", "error"} /\ v # "null" ->
         [r EXCEPT !.rejected = TRUE, !.code = @ \/ HasCode(v)]
    [] key = "data" \/ (key = "id" /\ v \notin {"null", "number"}) -> [r EXCEPT !.failed = TRUE]
    [] OTHER -> r

(* One key of a reply, each key once.  No slot hears of a reply, so it     *)
(* does not matter when it comes.                                          *)
Say(key, v) ==
  /\ bnParse \in {BnIdle, [at |-> "control"]} /\ bnNow = 0
  /\ ~bnReply.failed /\ \A said \in bnReply.said : said[1] # key
  /\ bnParse' = [at |-> "control"]
  /\ bnReply' = [AfterKey(bnReply, key, v) EXCEPT !.said = @ \cup {<<key, v>>}]
  /\ BnKeep /\ UNCHANGED bnNow

EndReply ==
  /\ bnParse.at = "control"
  /\ bnParse' = BnIdle /\ bnReply' = NoReply
  /\ BnKeep /\ UNCHANGED bnNow

BnNext ==
  \/ \E n \in 1 .. 2 : BnMiss(n) \/ BnFrame(n)
  \/ EnvelopeFails \/ EnterBody \/ BodyFails
  \/ ReadFirst \/ ReadLast \/ ReadLevel \/ CloseArray \/ EndBody \/ EndFrame
  \/ \E s \in Sides : ReadArray(s)
  \/ BnResync
  \/ \E at \in 0 .. MaxUpdates : BnSnapshot(at)
  \/ \E k \in {"id", "bid", "ask"} : SnapshotKey(k)
  \/ SnapshotFails \/ SnapshotEnds
  \/ \E v \in Found, key \in ReplyKeys : Say(key, v)
  \/ EndReply

-----------------------------------------------------------------------------
(* Properties *)

(* Where the levels of the first i buffered diffs end.                     *)
EndOf(i) == IF i = 0 THEN 0 ELSE bnSlot.meta[i].end

(* Between frames a book is the venue's as of its cursor, to the reader as *)
(* well, whatever was lost, garbled or out of order before: "the book is   *)
(* never left half-updated" (DiffSeed, MuxSeed::processed_slot).  A symbol *)
(* without a book shows none, and its arena holds, diff after diff, the     *)
(* levels that arrived (Buffered::diffs).                                  *)
BinanceBookIsVenues ==
  bnParse.at \in {"idle", "control"} =>
    /\ BnReady => bnSlot.book = VenueBook(bnSlot.cursor) /\ bnShown = bnSlot.book
    /\ ~BnReady =>
         /\ bnShown = NoBook
         /\ Len(bnSlot.levels) = EndOf(Len(bnSlot.meta))
         /\ \A i \in DOMAIN bnSlot.meta :
              LET m == bnSlot.meta[i]
              IN  m.start = EndOf(i - 1) /\ BidsOf(m) = LevelsOf(m.first, m.last, "bid") /\ AsksOf(m) = LevelsOf(m.first, m.last, "ask")

(* A reply means the same whatever order its keys come in: it is rejected  *)
(* if any key says so, though no code could be read, and a code or an id   *)
(* that was read is not lost to a later key (control, ErrorValue).         *)
RepliesAreHeard ==
  ~bnReply.failed =>
    /\ bnReply.rejected = \E k \in {"code", "error"}, v \in Found \ {"null"} : <<k, v>> \in bnReply.said
    /\ bnReply.code = \E k \in {"code", "error"}, v \in Found : <<k, v>> \in bnReply.said /\ HasCode(v)
    /\ bnReply.id = (<<"id", "number">> \in bnReply.said)

=============================================================================

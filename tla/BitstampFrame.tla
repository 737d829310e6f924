--------------------------- MODULE BitstampFrame ---------------------------
(***************************************************************************)
(* Bitstamp's decoder (venues/bitstamp/src/decode.rs), key by key.  The    *)
(* channel may come after the data, so the levels of a frame are staged in *)
(* a buffer that all the symbols of a connection share, and go from there  *)
(* into the book or the arena of the symbol.  There are no sequence        *)
(* numbers: a frame that is lost or fails is simply missed, and the book   *)
(* goes on without it.  The session around the decoder is module           *)
(* Connection's; of that only what it does with an answer is here.         *)
(***************************************************************************)
EXTENDS VenueFeed

VARIABLES
  bsNow,     \* the venue's last update, its microtimestamp
  bsSlot,    \* the symbol's slot
  bsShown,   \* the book readers see
  bsStage,   \* LevelStage
  bsParse,   \* the frame or snapshot being decoded, and how far it is
  bsMissed   \* history: updates no frame brought since the attempt began

bsVars == <<bsNow, bsSlot, bsShown, bsStage, bsParse, bsMissed>>

EmptyStage == [levels |-> <<>>, split |-> 0]
Blank == [phase |-> "bootstrapping", micro |-> 0, book |-> NoBook,
          levels |-> <<>>, meta |-> <<>>, first |-> 0]
BsIdle == [at |-> "idle"]

BsReady == bsSlot.phase = "ready"
StagedBids == SubSeq(bsStage.levels, 1, bsStage.split)
StagedAsks == SubSeq(bsStage.levels, bsStage.split + 1, Len(bsStage.levels))

BsInit ==
  /\ bsNow = 0
  /\ bsSlot = Blank /\ bsShown = NoBook
  /\ bsStage = EmptyStage
  /\ bsParse = BsIdle
  /\ bsMissed = {}

BsReset == bsSlot' = Blank /\ bsShown' = NoBook /\ bsMissed' = {}
BsKeep == UNCHANGED <<bsSlot, bsShown, bsMissed>>

-----------------------------------------------------------------------------
(* FrameSeed and DataSeed: nothing but the stage is touched                *)

FrameKeys == {"event", "channel", "data"}

(* A diff of the symbol, or one delivered again; a diff of a channel that  *)
(* shares the stage; a control reply; or a request to reconnect.           *)
FrameKinds == {"diff", "again", "another", "reply", "reconnect"}
Stamp(kind) == CASE kind = "diff" -> bsNow + 1 [] kind = "again" -> bsNow [] OTHER -> MaxUpdates
Diffs == {"diff", "again", "another"}

(* Slip: what the last frame left behind stays.                            *)
BsFrameUncleared(kind) ==
  /\ bsParse = BsIdle /\ Stamp(kind) \in 1 .. MaxUpdates
  /\ bsNow' = IF kind = "diff" THEN bsNow + 1 ELSE bsNow
  /\ bsParse' = [at |-> "top", kind |-> kind, micro |-> Stamp(kind), todo |-> FrameKeys,
                 body |-> IF kind \in Diffs THEN {"micro", "bid", "ask"} ELSE {},
                 side |-> "none", left |-> <<>>]
  /\ BsKeep /\ UNCHANGED bsStage

BsFrame(kind) ==
  /\ bsParse = BsIdle /\ Stamp(kind) \in 1 .. MaxUpdates
  /\ bsNow' = IF kind = "diff" THEN bsNow + 1 ELSE bsNow
  /\ bsParse' = [at |-> "top", kind |-> kind, micro |-> Stamp(kind), todo |-> FrameKeys,
                 body |-> IF kind \in Diffs THEN {"micro", "bid", "ask"} ELSE {},
                 side |-> "none", left |-> <<>>]
  /\ bsStage' = EmptyStage
  /\ BsKeep

TopKey(k) ==
  /\ bsParse.at = "top" /\ k \in bsParse.todo
  /\ bsParse' = [bsParse EXCEPT !.todo = @ \ {k}, !.at = IF k = "data" THEN "data" ELSE @]
  /\ BsKeep /\ UNCHANGED <<bsNow, bsStage>>

BetweenDataKeys == bsParse.at = "data" /\ bsParse.side = "none"

ReadMicro ==
  /\ BetweenDataKeys /\ "micro" \in bsParse.body
  /\ bsParse' = [bsParse EXCEPT !.body = @ \ {"micro"}]
  /\ BsKeep /\ UNCHANGED <<bsNow, bsStage>>

(* The asks before the bids are FrameFails.                                *)
StageArray(s) ==
  /\ BetweenDataKeys /\ s \in bsParse.body
  /\ s = "ask" => "bid" \notin bsParse.body
  /\ bsParse' = [bsParse EXCEPT !.body = @ \ {s}, !.side = s,
                                !.left = LevelsOf(bsParse.micro, bsParse.micro, s)]
  /\ BsKeep /\ UNCHANGED <<bsNow, bsStage>>

StageLevel ==
  /\ bsParse.at = "data" /\ bsParse.left # <<>>
  /\ bsStage' = [bsStage EXCEPT !.levels = Append(@, Head(bsParse.left))]
  /\ bsParse' = [bsParse EXCEPT !.left = Tail(@)]
  /\ BsKeep /\ UNCHANGED bsNow

StageClosed ==
  /\ bsParse.at = "data" /\ bsParse.side # "none" /\ bsParse.left = <<>>
  /\ bsParse' = [bsParse EXCEPT !.side = "none"]
  /\ bsStage' = IF bsParse.side = "bid" THEN [bsStage EXCEPT !.split = Len(bsStage.levels)] ELSE bsStage
  /\ BsKeep /\ UNCHANGED bsNow

EndData ==
  /\ BetweenDataKeys /\ bsParse.body = {}
  /\ bsParse' = [bsParse EXCEPT !.at = "top"]
  /\ BsKeep /\ UNCHANGED <<bsNow, bsStage>>

(* Undecodable, and nobody to blame: the frame is missed.                  *)
FrameFails ==
  /\ bsParse.at \in {"top", "data"}
  /\ bsParse' = BsIdle
  /\ bsMissed' = IF bsParse.kind = "diff" THEN bsMissed \cup {bsParse.micro} ELSE bsMissed
  /\ UNCHANGED <<bsNow, bsSlot, bsShown, bsStage>>

-----------------------------------------------------------------------------
(* on_frame, and what the session does with its answer *)

FrameRead == bsParse.at = "top" /\ bsParse.todo = {}
Ours == bsParse.kind \in {"diff", "again"}

(* A channel nobody carries, or a control reply.                           *)
Ignore ==
  /\ FrameRead /\ bsParse.kind \in {"another", "reply"}
  /\ bsParse' = BsIdle
  /\ BsKeep /\ UNCHANGED <<bsNow, bsStage>>

(* FrameAction::Reconnect: the session ends, and its slots start over.     *)
RequestReconnect ==
  /\ FrameRead /\ bsParse.kind = "reconnect"
  /\ bsParse' = BsIdle
  /\ BsReset
  /\ UNCHANGED <<bsNow, bsStage>>

Staged(book) == ApplyLevels(ApplyLevels(book, "bid", StagedBids), "ask", StagedAsks)

ApplyStage ==
  /\ FrameRead /\ Ours /\ BsReady
  /\ bsParse' = BsIdle
  /\ IF bsParse.micro <= bsSlot.micro THEN BsKeep
     ELSE LET book == Staged(bsSlot.book)
          IN  /\ bsSlot' = [bsSlot EXCEPT !.book = book, !.micro = bsParse.micro]
              /\ bsShown' = IF bsStage.levels = <<>> THEN bsShown ELSE book
              /\ bsMissed' = bsMissed \ {bsParse.micro}
  /\ UNCHANGED <<bsNow, bsStage>>

(* push_staged, and on_buffered.                                           *)
BufferStage ==
  /\ FrameRead /\ Ours /\ ~BsReady
  /\ bsParse' = BsIdle
  /\ LET from == Len(bsSlot.levels)
         m == [micro |-> bsParse.micro, start |-> from, bidEnd |-> from + Len(StagedBids),
               end |-> from + Len(bsStage.levels)]
         s == [bsSlot EXCEPT !.levels = @ \o StagedBids \o StagedAsks, !.meta = Append(@, m)]
     IN  IF Len(s.meta) >= MaxPending THEN BsReset
         ELSE /\ bsSlot' = IF s.first = 0 THEN [s EXCEPT !.first = bsParse.micro] ELSE s
              /\ bsMissed' = bsMissed \ {bsParse.micro}
              /\ UNCHANGED bsShown
  /\ UNCHANGED <<bsNow, bsStage>>

BsResync ==
  /\ bsParse = BsIdle /\ bsSlot # Blank
  /\ BsReset
  /\ UNCHANGED <<bsNow, bsStage, bsParse>>

-----------------------------------------------------------------------------
(* seed_and_replay: the snapshot of update `at` *)

BsSnapshot(at) ==
  /\ bsParse = BsIdle /\ ~BsReady /\ bsSlot.first # 0 /\ at <= bsNow
  /\ bsParse' = [at |-> "snapshot", id |-> at, todo |-> {"micro", "bid", "ask"}]
  /\ bsSlot' = [bsSlot EXCEPT !.book = NoBook]
  /\ UNCHANGED <<bsNow, bsShown, bsStage, bsMissed>>

BsSnapshotKey(k) ==
  /\ bsParse.at = "snapshot" /\ k \in bsParse.todo
  /\ bsParse' = [bsParse EXCEPT !.todo = @ \ {k}]
  /\ bsSlot' = IF k = "micro" THEN bsSlot
               ELSE [bsSlot EXCEPT !.book = ApplyLevels(@, k, SnapshotOf(bsParse.id, k))]
  /\ UNCHANGED <<bsNow, bsShown, bsStage, bsMissed>>

(* The diffs stay for another snapshot, or all goes.                       *)
BsSnapshotFails ==
  /\ bsParse.at = "snapshot"
  /\ bsParse' = BsIdle
  /\ BsKeep \/ BsReset
  /\ UNCHANGED <<bsNow, bsStage>>

BsBidsOf(m) == SubSeq(bsSlot.levels, m.start + 1, m.bidEnd)
BsAsksOf(m) == SubSeq(bsSlot.levels, m.bidEnd + 1, m.end)

(* The diffs the snapshot has are skipped; the rest apply in order.         *)
BsReplayed(r, m) ==
  IF m.micro <= bsParse.id THEN r
  ELSE [book |-> ApplyLevels(ApplyLevels(r.book, "bid", BsBidsOf(m)), "ask", BsAsksOf(m)),
        micro |-> m.micro]
BsReplay ==
  LET after[i \in 0 .. Len(bsSlot.meta)] ==
        IF i = 0 THEN [book |-> bsSlot.book, micro |-> bsParse.id]
        ELSE BsReplayed(after[i - 1], bsSlot.meta[i])
  IN  after[Len(bsSlot.meta)]

(* A snapshot that does not reach the first diff is one that failed.       *)
BsSnapshotEnds ==
  /\ bsParse.at = "snapshot" /\ bsParse.todo = {} /\ bsParse.id >= bsSlot.first
  /\ bsSlot' = [Blank EXCEPT !.phase = "ready", !.book = BsReplay.book, !.micro = BsReplay.micro]
  /\ bsShown' = BsReplay.book
  /\ bsMissed' = {k \in bsMissed : k > bsParse.id}
  /\ bsParse' = BsIdle
  /\ UNCHANGED <<bsNow, bsStage>>

BsNext ==
  \/ \E kind \in FrameKinds : BsFrame(kind)
  \/ \E k \in FrameKeys : TopKey(k)
  \/ \E s \in Sides : StageArray(s)
  \/ ReadMicro \/ StageLevel \/ StageClosed \/ EndData \/ FrameFails
  \/ Ignore \/ RequestReconnect \/ ApplyStage \/ BufferStage \/ BsResync
  \/ \E at \in 0 .. MaxUpdates : BsSnapshot(at)
  \/ \E k \in {"micro", "bid", "ask"} : BsSnapshotKey(k)
  \/ BsSnapshotFails \/ BsSnapshotEnds

-----------------------------------------------------------------------------
(* Properties *)

(* A book is what the frames that were decoded make it, to the reader as   *)
(* well: one that failed, was another symbol's or came twice leaves no     *)
(* trace in it, by way of the shared stage or the arena ("a mid-frame      *)
(* decode failure here can never leave a book half-updated").              *)
BitstampBookIsWhole ==
  bsParse = BsIdle =>
    /\ BsReady => bsSlot.book = BookWithout(bsSlot.micro, bsMissed) /\ bsShown = bsSlot.book
    /\ ~BsReady =>
         /\ bsShown = NoBook
         /\ \A i \in DOMAIN bsSlot.meta :
              LET m == bsSlot.meta[i]
              IN  /\ BsBidsOf(m) = LevelsOf(m.micro, m.micro, "bid")
                  /\ BsAsksOf(m) = LevelsOf(m.micro, m.micro, "ask")
=============================================================================

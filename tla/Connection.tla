----------------------------- MODULE Connection -----------------------------
(***************************************************************************)
(* One symbol on one websocket connection of a venue connector: the        *)
(* session loop and the symbol's slot (core_lib/src/venue/connection.rs,   *)
(* table.rs, spec.rs), the venue's decoder and pacer (venues/*/src), the   *)
(* REST fetch of snapshots, and the venue at the other end.                *)
(*                                                                         *)
(* The venue numbers its updates; update k sets price level k % NumLevels *)
(* and a book is, level by level, the update that set it last.  Level 0    *)
(* stands for the levels that are published, the others for deeper ones.   *)
(* A Binance event carries one or more updates [first, last], a Bitstamp   *)
(* diff one, its microtimestamp.                                           *)
(*                                                                         *)
(* The connection is one task and each handler an action.  Which of the    *)
(* venues' rules apply is the variable kind, chosen once.                  *)
(***************************************************************************)
EXTENDS Naturals, SequencesExt

CONSTANTS Kinds,         \* the decoders to consider: "binance", "bitstamp"
          NumLevels,     \* price levels
          MaxPending,    \* max_pending_frames
          RefetchLimit,  \* SNAPSHOT_REFETCH_LIMIT
          MaxUpdates,    \* bound: updates of the venue
          MaxCommands,   \* bound: commands of the supervisor
          MaxSessions    \* bound: times the socket is opened

ASSUME KindsAssumption == Kinds \subseteq {"binance", "bitstamp"} /\ Kinds # {}
ASSUME SizesAssumption == NumLevels \in Nat \ {0} /\ MaxPending \in Nat /\ RefetchLimit \in Nat
ASSUME BoundsAssumption == MaxUpdates \in Nat /\ MaxCommands \in Nat /\ MaxSessions \in Nat

VARIABLES
  kind,
  now,        \* the venue's last update
  streaming,  \* does the venue stream the symbol on this socket?
  wire,       \* events on their way to the connection
  orders,     \* control frames on their way to the venue
  fetches,    \* fetch tasks that run, named by generation and ordinal
  answers,    \* the snapshot channel
  session,    \* "connecting", "up", "down" (backing off) or "over"
  sessions,   \* bound: sessions so far
  commands,   \* bound: commands so far
  control,    \* the pacer's queue
  slot,       \* the symbol's slot, or NoSlot
  generation, \* Generations::next
  asked,      \* history: fetches this attempt has spawned
  published,  \* the top of the book readers see, <<>> when the book is empty
  dropped     \* history: was the symbol unsubscribed on this socket?

venueVars == <<now, streaming, wire, orders>>
fetchVars == <<fetches, answers>>
bounds == <<sessions, commands>>
slotVars == <<slot, generation, asked, published>>
vars == <<kind, venueVars, fetchVars, session, bounds, control, slotVars, dropped>>

Levels == 0 .. NumLevels - 1
Touched(e) == {k % NumLevels : k \in e.first .. e.last}

(* The venue's book after its update n, and a book after an event: the     *)
(* levels it names have the quantities they had after its last update.     *)
VenueBook(n) == [l \in Levels |-> Max({0} \cup {k \in 1 .. n : k % NumLevels = l})]
Apply(book, e) == [l \in Levels |-> IF l \in Touched(e) THEN VenueBook(e.last)[l] ELSE book[l]]

(* The same, one event of K after the other: what a level is left with is  *)
(* what the last to touch it gave it.                                      *)
Replay(book, events, K) ==
  [l \in Levels |->
     LET touching == {i \in K : l \in Touched(events[i])}
     IN  IF touching = {} THEN book[l] ELSE VenueBook(events[Max(touching)].last)[l]]

NoSlot == [phase |-> "none"]
Bootstrapping(g) ==
  [phase |-> "bootstrapping", pending |-> <<>>, first |-> 0, fetching |-> FALSE,
   refetches |-> 0, gen |-> g, book |-> VenueBook(0), cursor |-> 0]
Ready == slot.phase \in {"seeded", "live"}

Init ==
  /\ kind \in Kinds
  /\ now = 0
  /\ streaming = FALSE
  /\ wire = <<>>
  /\ orders = <<>>
  /\ fetches = {}
  /\ answers = <<>>
  /\ session = "connecting"
  /\ sessions = 1
  /\ commands = 0
  /\ control = <<>>
  /\ slot = NoSlot
  /\ generation = 0
  /\ asked = 0
  /\ published = <<>>
  /\ dropped = FALSE

-----------------------------------------------------------------------------
(* The venue and the REST fetches *)

Trade(n) ==
  /\ now + n <= MaxUpdates
  /\ kind = "bitstamp" => n = 1
  /\ now' = now + n
  /\ wire' = IF streaming THEN Append(wire, [first |-> now + 1, last |-> now + n]) ELSE wire
  /\ UNCHANGED <<kind, streaming, orders, fetchVars, session, bounds, control, slotVars, dropped>>

Obey ==
  /\ orders # <<>>
  /\ streaming' = (Head(orders) = "Subscribe")
  /\ orders' = Tail(orders)
  /\ UNCHANGED <<kind, now, wire, fetchVars, session, bounds, control, slotVars, dropped>>

(* A fetch ends with a snapshot, which may come from a cache that lags, or *)
(* with an error.                                                          *)
Answer(f, ok, at) ==
  /\ f \in fetches
  /\ at <= now
  /\ fetches' = fetches \ {f}
  /\ answers' = Append(answers, [gen |-> f.gen, ok |-> ok, at |-> at])
  /\ UNCHANGED <<kind, venueVars, session, bounds, control, slotVars, dropped>>
Asking(f) == slot # NoSlot /\ f.gen = slot.gen

(* A superseded fetch has been told to abort, and may outrun it.           *)
AbortLands(f) ==
  /\ session # "over"
  /\ f \in fetches /\ ~Asking(f)
  /\ fetches' = fetches \ {f}
  /\ UNCHANGED <<kind, venueVars, answers, session, bounds, control, slotVars, dropped>>

-----------------------------------------------------------------------------
(* The slot *)

(* Slip: the new attempt goes by the old one's generation.                 *)
ResetInPlace ==
  /\ slot' = Bootstrapping(slot.gen)
  /\ asked' = 0
  /\ published' = <<>>
  /\ UNCHANGED <<fetches, generation>>

(* Slot::reset: readers are told, and the attempt starts over.             *)
Reset ==
  /\ slot' = Bootstrapping(generation)
  /\ generation' = generation + 1
  /\ asked' = 0
  /\ published' = <<>>
  /\ UNCHANGED fetches

(* The slot goes on as s, with a fetch armed.                              *)
ArmFetch(s) ==
  /\ slot' = [s EXCEPT !.fetching = TRUE]
  /\ fetches' = fetches \cup {[gen |-> s.gen, nth |-> asked]}
  /\ asked' = asked + 1
  /\ UNCHANGED <<generation, published>>

Becomes(s, top) ==
  /\ slot' = s
  /\ published' = top
  /\ UNCHANGED <<fetches, generation, asked>>

Top(book) == <<book[0]>>

(* Slip: when it may not refetch, the attempt waits for a snapshot.        *)
RecoverHalf(refetch) ==
  IF refetch /\ slot.phase = "bootstrapping" /\ slot.refetches < RefetchLimit
  THEN ArmFetch([slot EXCEPT !.refetches = @ + 1])
  ELSE Becomes([slot EXCEPT !.fetching = FALSE], published)

(* Recover: another snapshot for the same diffs, or a fresh start.         *)
Recover(refetch) ==
  IF refetch /\ slot.phase = "bootstrapping" /\ slot.refetches < RefetchLimit
  THEN ArmFetch([slot EXCEPT !.refetches = @ + 1])
  ELSE Reset

(* A diff for a symbol without a book.                                     *)
Buffer(e) ==
  LET s == [slot EXCEPT !.pending = Append(@, e)]
  IN  IF Len(s.pending) >= MaxPending THEN Reset
      ELSE IF s.first = 0 THEN ArmFetch([s EXCEPT !.first = e.first])
      ELSE Becomes(s, published)

(* An event applied to a live book is published if it touches the top.     *)
Advance(e) ==
  LET book == Apply(slot.book, e)
  IN  Becomes([slot EXCEPT !.phase = "live", !.book = book, !.cursor = e.last],
              IF slot.phase = "seeded" \/ 0 \in Touched(e) THEN Top(book) ELSE published)

Skip == UNCHANGED <<slotVars, fetches>>

(* Binance: the first event must straddle the snapshot, the others follow  *)
(* one another.                                                            *)
Straddles(e, id) == e.first <= id + 1 /\ id + 1 <= e.last

OnBinanceFrame(e) ==
  IF slot.phase = "seeded" /\ e.last <= slot.cursor THEN Skip
  ELSE IF IF slot.phase = "seeded" THEN Straddles(e, slot.cursor) ELSE e.first = slot.cursor + 1
  THEN Advance(e)
  ELSE Reset

(* Bitstamp: anything newer applies.                                       *)
OnBitstampFrame(e) == IF e.last <= slot.cursor THEN Skip ELSE Advance(e)

(* seed_and_replay: the snapshot at update `at`, and the diffs it misses.  *)
Kept(at) == {i \in DOMAIN slot.pending : slot.pending[i].last > at}

(* One diff kept does not go on where the one kept before it ended.        *)
Gapped(at) ==
  \E i, j \in Kept(at) :
    /\ i < j /\ \A k \in Kept(at) : ~(i < k /\ k < j)
    /\ slot.pending[j].first # slot.pending[i].last + 1

Seeded(at, phase) ==
  LET book == Replay(VenueBook(at), slot.pending, Kept(at))
  IN  Becomes([slot EXCEPT !.phase = phase, !.fetching = FALSE, !.pending = <<>>, !.first = 0,
                           !.refetches = 0, !.book = book,
                           !.cursor = IF Kept(at) = {} THEN at ELSE slot.pending[Max(Kept(at))].last],
              Top(book))

(* Slip: only the first of the buffered events is checked.                 *)
SeedBinanceUnchecked(at) ==
  IF slot.first > at + 1 THEN Recover(TRUE)
  ELSE IF Kept(at) = {} THEN Seeded(at, "seeded")
  ELSE IF ~Straddles(slot.pending[Min(Kept(at))], at) THEN Recover(TRUE)
  ELSE Seeded(at, "live")

SeedBinance(at) ==
  IF slot.first > at + 1 THEN Recover(TRUE)
  ELSE IF Kept(at) = {} THEN Seeded(at, "seeded")
  ELSE IF ~Straddles(slot.pending[Min(Kept(at))], at) THEN Recover(TRUE)
  ELSE IF Gapped(at) THEN Recover(FALSE)
  ELSE Seeded(at, "live")

SeedBitstamp(at) == IF at < slot.first THEN Recover(TRUE) ELSE Seeded(at, "live")

-----------------------------------------------------------------------------
(* The session *)

(* Its handlers run when the socket is up, and Binance's pacer sends all   *)
(* it has before it gives the session back.                                *)
Turn == session = "up" /\ (kind = "binance" => control = <<>>)

(* What the supervisor may send at once: it subscribes what it has bound   *)
(* nowhere and unsubscribes what it has bound here.                        *)
Bursts ==
  IF slot = NoSlot THEN {<<"Subscribe">>, <<"Subscribe", "Unsubscribe">>}
  ELSE {<<"Unsubscribe">>, <<"Unsubscribe", "Subscribe">>}

(* insert_slot and remove_slot: the slot goes with its publisher, whose    *)
(* last book is empty; every slot made takes a generation.                 *)
Command(burst) ==
  /\ burst \in Bursts
  /\ commands + Len(burst) <= MaxCommands
  /\ commands' = commands + Len(burst)
  /\ generation' = IF \E i \in DOMAIN burst : burst[i] = "Subscribe" THEN generation + 1 ELSE generation
  /\ slot' = IF Last(burst) = "Subscribe" THEN Bootstrapping(generation) ELSE NoSlot
  /\ asked' = 0
  /\ published' = <<>>
  /\ dropped' = (dropped \/ \E i \in DOMAIN burst : burst[i] = "Unsubscribe")
  /\ UNCHANGED <<kind, venueVars, fetchVars, session, sessions>>

Admit(burst) ==
  /\ Turn
  /\ Command(burst)
  /\ control' = control \o burst

(* While it backs off there is no socket to order on.                      *)
AdmitOffline(burst) ==
  /\ session = "down" /\ Len(burst) = 1
  /\ Command(burst)
  /\ UNCHANGED control

(* A control frame leaves: the burst of Binance's on_admitted in order,    *)
(* one per deadline of Bitstamp's pacer.                                   *)
Pace ==
  /\ session = "up" /\ control # <<>>
  /\ orders' = Append(orders, Head(control))
  /\ control' = Tail(control)
  /\ UNCHANGED <<kind, now, streaming, wire, fetchVars, session, bounds, slotVars, dropped>>

OnFrame ==
  /\ Turn /\ wire # <<>>
  /\ wire' = Tail(wire)
  /\ LET e == Head(wire)
     IN  \/ slot = NoSlot /\ Skip
         \/ slot.phase = "bootstrapping" /\ Buffer(e)
         \/ Ready /\ kind = "binance" /\ OnBinanceFrame(e)
         \/ Ready /\ kind = "bitstamp" /\ OnBitstampFrame(e)
  /\ UNCHANGED <<kind, now, streaming, orders, answers, session, bounds, control, dropped>>

(* A frame that does not decode: Binance has half applied it by then.      *)
Undecodable ==
  /\ Turn /\ wire # <<>> /\ slot # NoSlot
  /\ kind = "binance"
  /\ wire' = Tail(wire)
  /\ Reset
  /\ UNCHANGED <<kind, now, streaming, orders, answers, session, bounds, control, dropped>>

OnSnapshot ==
  /\ Turn /\ answers # <<>>
  /\ answers' = Tail(answers)
  /\ LET a == Head(answers)
     IN  IF ~Asking(a) THEN Skip
         ELSE IF ~a.ok THEN Recover(TRUE)
         ELSE IF Ready THEN Skip
         ELSE IF kind = "binance" THEN SeedBinance(a.at)
         ELSE SeedBitstamp(a.at)
  /\ UNCHANGED <<kind, venueVars, session, bounds, control, dropped>>

(* No frame for idle_symbol_timeout: only a book can be stale.             *)
SweepIdle ==
  /\ Turn /\ Ready
  /\ Reset
  /\ UNCHANGED <<kind, venueVars, answers, session, bounds, control, dropped>>

(* A transport error, a stall, a close, a request to reconnect or a panic: *)
(* the venue forgets the socket, and the connection backs off.             *)
SessionEnds ==
  /\ session = "up"
  /\ session' = "down"
  /\ streaming' = FALSE
  /\ wire' = <<>>
  /\ orders' = <<>>
  /\ UNCHANGED <<kind, now, fetchVars, bounds, control, slotVars, dropped>>

(* Slip: the pacer outlives its socket.                                    *)
ReconnectWithQueue ==
  /\ session = "down" /\ sessions < MaxSessions
  /\ session' = "connecting"
  /\ sessions' = sessions + 1
  /\ IF slot = NoSlot THEN Skip ELSE Reset
  /\ UNCHANGED <<kind, venueVars, answers, commands, control, dropped>>

(* The head of the loop: every slot starts over, and so does the pacer,    *)
(* before the next socket.                                                 *)
Reconnect ==
  /\ session = "down" /\ sessions < MaxSessions
  /\ session' = "connecting"
  /\ sessions' = sessions + 1
  /\ control' = <<>>
  /\ IF slot = NoSlot THEN Skip ELSE Reset
  /\ UNCHANGED <<kind, venueVars, answers, commands, dropped>>

(* Every symbol of the table is subscribed again.                          *)
Connected ==
  /\ session = "connecting"
  /\ session' = "up"
  /\ control' = IF slot = NoSlot THEN control ELSE Append(control, "Subscribe")
  /\ dropped' = FALSE
  /\ UNCHANGED <<kind, venueVars, fetchVars, bounds, slotVars>>

ConnectFails ==
  /\ session = "connecting"
  /\ session' = "down"
  /\ UNCHANGED <<kind, venueVars, fetchVars, bounds, control, slotVars, dropped>>

(* The lane's queue was closed: the table goes, and nothing is aborted.    *)
LaneCloses ==
  /\ Turn \/ session = "down"
  /\ session' = "over"
  /\ slot' = NoSlot
  /\ published' = <<>>
  /\ streaming' = FALSE
  /\ wire' = <<>>
  /\ orders' = <<>>
  /\ UNCHANGED <<kind, now, fetchVars, bounds, control, generation, asked, dropped>>

-----------------------------------------------------------------------------
Next ==
  \/ \E n \in 1 .. 2 : Trade(n)
  \/ Obey
  \/ \E f \in fetches : \/ \E ok \in BOOLEAN, at \in 0 .. MaxUpdates : Answer(f, ok, at)
                        \/ AbortLands(f)
  \/ \E burst \in Bursts : Admit(burst) \/ AdmitOffline(burst)
  \/ Pace \/ OnFrame \/ Undecodable \/ OnSnapshot \/ SweepIdle
  \/ SessionEnds \/ Reconnect \/ Connected \/ ConnectFails \/ LaneCloses

Spec == Init /\ [][Next]_vars

(* The session loop runs on, and a request that is not superseded ends.    *)
Fairness ==
  /\ WF_vars(Pace)
  /\ WF_vars(OnFrame \/ Undecodable)
  /\ WF_vars(OnSnapshot)
  /\ WF_vars(\E f \in fetches, ok \in BOOLEAN, at \in 0 .. MaxUpdates : Asking(f) /\ Answer(f, ok, at))

LiveSpec == Spec /\ Fairness

-----------------------------------------------------------------------------
(* Properties *)

BookIsVenues == Ready => slot.book = VenueBook(slot.cursor)

(* A book that is ready is the venue's book as of its cursor: no update is *)
(* missed or applied twice across snapshot, replay, gap, resync and        *)
(* reconnect, and readers see the top of it and of no other, though        *)
(* updates below the top are not published.  Bitstamp's numbers cannot     *)
(* show a gap, and a subscription renewed on the same socket makes one     *)
(* (see CurrentWhateverTheOrders).                                         *)
ReadyBookIsVenues ==
  /\ kind = "binance" \/ ~dropped => BookIsVenues
  /\ published = IF Ready THEN Top(slot.book) ELSE <<>>

(* The same for both venues whatever was ordered on the socket, as         *)
(* bitstamp/README.md has it of `Live`: "Book is current".                 *)
CurrentWhateverTheOrders == BookIsVenues

(* Readers see no book of a socket that is gone: "Every symbol on it       *)
(* returns to `Bootstrapping` and the socket reconnects with exponential   *)
(* backoff plus jitter" (binance_spot/README.md).                          *)
NoBookWithoutSocket == session = "down" => published = <<>>

Outstanding == Cardinality({f \in fetches : Asking(f)})
                 + Cardinality({i \in DOMAIN answers : Asking(answers[i])})

(* A handle is kept exactly while a request of this attempt is outstanding *)
(* (Bootstrap::abort), there is never a second one, and an attempt buffers *)
(* and asks no more than it may, answers or not.                           *)
FetchesAreBounded ==
  slot # NoSlot =>
    /\ Outstanding = IF slot.fetching THEN 1 ELSE 0
    /\ slot.phase = "bootstrapping" =>
         /\ Len(slot.pending) < MaxPending \/ slot.pending = <<>>
         /\ asked <= RefetchLimit + 1

(* Once the control frames are through, the venue streams the symbol if    *)
(* and only if there is a slot for it.                                     *)
WireMatchesTable ==
  session = "up" /\ control = <<>> /\ orders = <<>> => (streaming <=> slot # NoSlot)

Attempting == session = "up" /\ slot.phase = "bootstrapping" /\ slot.first # 0

(* Every attempt ends, with a book or a fresh start, whether fetches fail  *)
(* or snapshots lag, as long as requests end.                              *)
AttemptEnds == Attempting ~> ~Attempting
=============================================================================

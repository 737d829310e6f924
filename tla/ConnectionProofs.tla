-------------------------- MODULE ConnectionProofs --------------------------
(***************************************************************************)
(* Proofs about Connection, for every venue, depth, buffer and number of   *)
(* updates, orders and sessions: a book that is ready is the venue's, the  *)
(* orders end right, and snapshots are asked for one at a time.            *)
(***************************************************************************)
EXTENDS Connection, WellFoundedInduction, FiniteSetTheorems, TLAPS

(* An update: the venue's numbers of the first and last change it holds.   *)
Event == [first : Nat, last : Nat]

(* A control frame.                                                        *)
Order == {"Subscribe", "Unsubscribe"}

(* A fetch task, by its generation and its ordinal.                        *)
Fetch == [gen : Nat, nth : Nat]

(* What a fetch task puts into the snapshot channel.                       *)
Snapshot == [gen : Nat, ok : BOOLEAN, at : Nat]

(* A symbol's slot, when there is one.                                     *)
Slot == [phase : {"bootstrapping", "seeded", "live"}, pending : Seq(Event), first : Nat,
         fetching : BOOLEAN, refetches : Nat, gen : Nat, book : [Levels -> Nat], cursor : Nat]

(* The types of the venue and the socket ...                               *)
VenueTyped ==
  /\ kind \in {"binance", "bitstamp"} /\ now \in Nat /\ streaming \in BOOLEAN
  /\ wire \in Seq(Event) /\ orders \in Seq(Order)

(* ... of the fetch tasks and their channel ...                            *)
FetchTyped == fetches \subseteq Fetch /\ answers \in Seq(Snapshot)

(* ... of the session and its pacer ...                                    *)
SessionTyped ==
  /\ session \in {"connecting", "up", "down", "over"} /\ control \in Seq(Order)
  /\ dropped \in BOOLEAN

(* ... and of the slot.                                                    *)
SlotTyped ==
  /\ slot \in Slot \cup {NoSlot} /\ generation \in Nat /\ asked \in Nat

(* The type invariant.                                                     *)
Typed == VenueTyped /\ FetchTyped /\ SessionTyped /\ SlotTyped

(* The updates of a sequence follow one another without overlap, and the   *)
(* venue has made them.                                                    *)
Numbered(s) ==
  /\ \A i \in DOMAIN s : 1 <= s[i].first /\ s[i].first <= s[i].last /\ s[i].last <= now
  /\ \A i, j \in DOMAIN s : i < j => s[i].last < s[j].first

(* The socket delivers in order; Bitstamp sends an update at a time.       *)
WireInOrder ==
  /\ Numbered(wire)
  /\ kind = "bitstamp" => \A i \in DOMAIN wire : wire[i].first = wire[i].last

(* What the slot has set aside is in order, too, and earlier than what is  *)
(* still on the socket.                                                    *)
PendingInOrder ==
  slot # NoSlot =>
    /\ Numbered(slot.pending)
    /\ kind = "bitstamp" =>
         \A i \in DOMAIN slot.pending : slot.pending[i].first = slot.pending[i].last
    /\ \A i \in DOMAIN slot.pending, j \in DOMAIN wire : slot.pending[i].last < wire[j].first

(* The bootstrap attempt: it never outgrows its buffer or its refetches,   *)
(* it has asked once more than it refetched, and it has nothing set aside  *)
(* and nothing asked until the first update.                               *)
AttemptIsSound ==
  slot # NoSlot =>
    /\ Ready => ~slot.fetching /\ slot.pending = <<>>
    /\ slot.phase = "bootstrapping" =>
         /\ Len(slot.pending) < MaxPending \/ slot.pending = <<>>
         /\ slot.refetches <= RefetchLimit
         /\ IF slot.first = 0
              THEN slot.pending = <<>> /\ ~slot.fetching /\ slot.refetches = 0 /\ asked = 0
              ELSE /\ slot.pending # <<>> /\ slot.first = slot.pending[1].first
                   /\ asked = slot.refetches + 1

(* A generation is given out once: no task or answer is of one to come.    *)
GenerationsAreSpent ==
  /\ slot # NoSlot => slot.gen < generation
  /\ \A f \in fetches : f.gen < generation
  /\ \A i \in DOMAIN answers : answers[i].gen < generation

(* The slot waits for a snapshot exactly when one task or one answer       *)
(* carries its generation.                                                 *)
OneRequest ==
  slot # NoSlot =>
    /\ \A f, g \in fetches : Asking(f) /\ Asking(g) => f = g
    /\ \A i, j \in DOMAIN answers : Asking(answers[i]) /\ Asking(answers[j]) => i = j
    /\ \A f \in fetches, i \in DOMAIN answers : ~(Asking(f) /\ Asking(answers[i]))
    /\ slot.fetching <=> \/ \E f \in fetches : Asking(f)
                         \/ \E i \in DOMAIN answers : Asking(answers[i])

(* Nothing outlives the socket: between sessions no frame is on its way,   *)
(* and a book made ready on the old one is gone before the new one is up.  *)
SocketIsGone ==
  /\ session # "up" => orders = <<>> /\ wire = <<>> /\ ~streaming
  /\ session = "connecting" => control = <<>> /\ ~Ready /\ (slot # NoSlot => slot.pending = <<>>)
  /\ session = "over" => slot = NoSlot

(* The last order decides whether the venue will stream the symbol.        *)
Destined ==
  IF control # <<>> THEN control[Len(control)] = "Subscribe"
  ELSE IF orders # <<>> THEN orders[Len(orders)] = "Subscribe"
  ELSE streaming

(* The orders on their way leave the venue streaming what has a slot.      *)
OrdersEndRight == session = "up" => (Destined <=> slot # NoSlot)

(* The stream may have a hole: the symbol was unsubscribed on this socket. *)
(* (Binance numbers its updates, and shows it.)                            *)
Renewed == kind = "binance" \/ dropped

(* Without one, the socket holds every update to the last, one by one.     *)
StreamIsWhole ==
  session = "up" /\ ~Renewed =>
    /\ \A i \in DOMAIN control : control[i] = "Subscribe"
    /\ \A i \in DOMAIN orders : orders[i] = "Subscribe"
    /\ \A i \in DOMAIN wire : wire[i].last + Len(wire) = now + i
    /\ ~streaming => wire = <<>>

(* Then what the slot set aside runs on to the socket without a gap, and a *)
(* ready book is no further behind than the socket is long.                *)
SlotIsWhole ==
  session = "up" /\ ~Renewed /\ slot # NoSlot =>
    /\ \A i \in DOMAIN slot.pending : slot.pending[i].last + Len(slot.pending) + Len(wire) = now + i
    /\ Ready => slot.cursor + Len(wire) >= now
    /\ ~streaming => slot.pending = <<>> /\ ~Ready

(* A ready book is the venue's, of the update it stands at.                *)
BooksAreVenues == kind = "binance" \/ ~dropped => BookIsVenues

(* What readers see is the top of it.                                      *)
ReadersSeeTheTop == published = IF Ready THEN Top(slot.book) ELSE <<>>

-----------------------------------------------------------------------------
(* Sequences and least elements *)

(* Tail takes the first element away and moves the others up.              *)
LEMMA TailFacts ==
  ASSUME NEW S, NEW s \in Seq(S), s # <<>>
  PROVE  /\ Tail(s) \in Seq(S) /\ Len(Tail(s)) + 1 = Len(s) /\ Head(s) = s[1] /\ Head(s) \in S
         /\ 1 \in DOMAIN s
         /\ \A i \in DOMAIN Tail(s) : i + 1 \in DOMAIN s /\ Tail(s)[i] = s[i + 1] /\ i \in Nat \ {0}
OBVIOUS

(* Append adds an element behind the others.                               *)
LEMMA AppendFacts ==
  ASSUME NEW S, NEW s \in Seq(S), NEW e \in S
  PROVE  /\ Append(s, e) \in Seq(S) /\ Len(Append(s, e)) = Len(s) + 1 /\ Append(s, e) # <<>>
         /\ \A i \in DOMAIN Append(s, e) :
              /\ i \in Nat
              /\ \/ i \in DOMAIN s /\ Append(s, e)[i] = s[i]
                 \/ i = Len(s) + 1 /\ Append(s, e)[i] = e
         /\ \A i \in DOMAIN s : i \in DOMAIN Append(s, e) /\ Append(s, e)[i] = s[i] /\ i < Len(s) + 1
         /\ Append(s, e)[Len(s) + 1] = e
<1>1. Append(s, e) \in Seq(S) /\ Len(Append(s, e)) = Len(s) + 1 /\ Append(s, e)[Len(s) + 1] = e
  OBVIOUS
<1>2. \A i \in 1 .. Len(s) : Append(s, e)[i] = s[i]
  OBVIOUS
<1>3. DOMAIN s = 1 .. Len(s) /\ DOMAIN Append(s, e) = 1 .. Len(s) + 1 /\ Len(s) \in Nat
  BY <1>1
<1>4. Append(s, e) # <<>>
  <2>1. Len(<<>>) = 0 /\ Len(Append(s, e)) # 0
    BY <1>1, <1>3
  <2>. QED
    BY <2>1
<1>. QED
  BY <1>1, <1>2, <1>3, <1>4

(* An element of a sequence of updates is an update.                       *)
LEMMA EventsTyped ==
  ASSUME NEW s \in Seq(Event), NEW i \in DOMAIN s
  PROVE  s[i] \in Event /\ s[i].first \in Nat /\ s[i].last \in Nat /\ i \in Nat /\ i <= Len(s)
<1>1. s[i] \in Event /\ i \in 1 .. Len(s)
  OBVIOUS
<1>. QED
  BY <1>1 DEF Event

(* A set of naturals has a least element: < is well-founded.               *)
LEMMA LeastNatural ==
  ASSUME NEW T, T \subseteq Nat, T # {}
  PROVE  \E x \in T : \A y \in T : x <= y
<1>1. PICK x \in T : \A y \in T : ~(<<y, x>> \in OpToRel(<, Nat))
  BY NatLessThanWellFounded, WFMin
<1>2. \A y \in T : ~(y < x)
  BY <1>1 DEF OpToRel
<1>. QED
  BY <1>2

(* Min finds it ...                                                        *)
LEMMA MinOf ==
  ASSUME NEW S, S \subseteq Nat, S # {}
  PROVE  Min(S) \in S /\ \A x \in S : Min(S) <= x
BY LeastNatural DEF Min

(* ... and Max the greatest, when there is a bound.                        *)
LEMMA MaxOf ==
  ASSUME NEW S, S \subseteq Nat, S # {}, NEW n \in Nat, \A x \in S : x <= n
  PROVE  Max(S) \in S /\ \A x \in S : x <= Max(S)
<1>. DEFINE T == {n - x : x \in S}
<1>1. PICK t \in T : \A u \in T : t <= u
  <2>1. \A x \in S : n - x \in Nat
    OBVIOUS
  <2>2. T \subseteq Nat /\ T # {}
    BY <2>1
  <2>. HIDE DEF T
  <2>. QED
    BY <2>2, LeastNatural
<1>2. PICK m \in S : t = n - m
  OBVIOUS
<1>3. \A x \in S : m >= x
  <2>. SUFFICES ASSUME NEW x \in S PROVE m >= x
    OBVIOUS
  <2>1. n - m <= n - x
    BY <1>1, <1>2
  <2>. QED
    BY <2>1
<1>. HIDE DEF T
<1>. QED
  BY <1>2, <1>3 DEF Max

-----------------------------------------------------------------------------
(* Books *)

(* The updates up to n that touched level l; 0 stands for the empty book.  *)
Before(n, l) == {0} \cup {k \in 1 .. n : k % NumLevels = l}

(* One of them is the last.                                                *)
LEMMA LastUpdate ==
  ASSUME NEW n \in Nat, NEW l
  PROVE  Max(Before(n, l)) \in Nat
<1>1. Before(n, l) \subseteq Nat /\ Before(n, l) # {} /\ \A x \in Before(n, l) : x <= n
  BY DEF Before
<1>. QED
  BY <1>1, MaxOf

(* The venue's book is a book.                                             *)
LEMMA VenueBookTyped ==
  ASSUME NEW n \in Nat
  PROVE  VenueBook(n) \in [Levels -> Nat]
BY LastUpdate DEF VenueBook, Before

(* A level no update touched is what it was.                               *)
LEMMA VenueBookRests ==
  ASSUME NEW m \in Nat, NEW n \in Nat, m <= n, NEW l \in Levels,
         \A k \in m + 1 .. n : k % NumLevels # l
  PROVE  VenueBook(n)[l] = VenueBook(m)[l]
<1>1. \A k \in 1 .. n : k % NumLevels = l => k \in 1 .. m
  OBVIOUS
<1>2. {k \in 1 .. n : k % NumLevels = l} = {k \in 1 .. m : k % NumLevels = l}
  BY <1>1
<1>. QED
  BY <1>2 DEF VenueBook

(* An update that leaves no gap after c, and reaches past it, takes the    *)
(* book of c to the book of its last change: what it repeats does no harm. *)
LEMMA ApplyWhole ==
  ASSUME NEW e \in Event, NEW c \in Nat, e.first <= c + 1, c <= e.last
  PROVE  Apply(VenueBook(c), e) = VenueBook(e.last)
<1>1. e.first \in Nat /\ e.last \in Nat
  BY DEF Event
<1>2. ASSUME NEW l \in Levels, l \notin Touched(e)
      PROVE  VenueBook(c)[l] = VenueBook(e.last)[l]
  <2>1. \A k \in c + 1 .. e.last : k \in e.first .. e.last
    BY <1>1
  <2>2. \A k \in c + 1 .. e.last : k % NumLevels # l
    BY <1>2, <2>1 DEF Touched
  <2>. QED
    BY <1>1, <2>2, VenueBookRests
<1>3. VenueBook(e.last) = [l \in Levels |-> VenueBook(e.last)[l]]
  BY <1>1, VenueBookTyped
<1>. QED
  BY <1>2, <1>3 DEF Apply

(* The updates in K hold every change after `at` up to c.                  *)
Covers(s, K, at, c) == \A k \in at + 1 .. c : \E i \in K : s[i].first <= k /\ k <= s[i].last

(* Updates that hold every change from the snapshot on take its book to    *)
(* the venue's, whatever they overlap: the last to touch a level is the    *)
(* venue's last.                                                           *)
LEMMA ReplayWhole ==
  ASSUME NEW s \in Seq(Event), NEW K, K \subseteq DOMAIN s, NEW at \in Nat, NEW c \in Nat, at <= c,
         \A i, j \in K : i <= j => s[i].last <= s[j].last,
         \A i \in K : at < s[i].last /\ s[i].last <= c,
         Covers(s, K, at, c)
  PROVE  Replay(VenueBook(at), s, K) = VenueBook(c)
<1>1. \A i \in K : i \in Nat /\ i <= Len(s) /\ s[i] \in Event /\ s[i].first \in Nat /\ s[i].last \in Nat
  <2>1. \A i \in K : i \in 1 .. Len(s) /\ s[i] \in Event
    OBVIOUS
  <2>. QED
    BY <2>1 DEF Event
<1>2. ASSUME NEW l \in Levels, NEW n \in Nat, at <= n, n <= c,
             \A i \in K : l \in Touched(s[i]) => s[i].last <= n
      PROVE  VenueBook(n)[l] = VenueBook(c)[l]
  <2>1. ASSUME NEW k \in n + 1 .. c, k % NumLevels = l
        PROVE  FALSE
    <3>1. k \in at + 1 .. c
      BY <1>2
    <3>2. PICK i \in K : s[i].first <= k /\ k <= s[i].last
      BY <3>1 DEF Covers
    <3>3. l \in Touched(s[i])
      BY <1>1, <2>1, <3>2 DEF Touched
    <3>. QED
      BY <1>1, <1>2, <3>2, <3>3
  <2>. QED
    BY <1>2, <2>1, VenueBookRests
<1>3. ASSUME NEW l \in Levels
      PROVE  Replay(VenueBook(at), s, K)[l] = VenueBook(c)[l]
  <2>. DEFINE T == {i \in K : l \in Touched(s[i])}
  <2>1. CASE T = {}
    <3>1. VenueBook(at)[l] = VenueBook(c)[l]
      BY <1>2, <2>1
    <3>. QED
      BY <2>1, <3>1 DEF Replay
  <2>2. CASE T # {}
    <3>1. Max(T) \in T /\ \A x \in T : x <= Max(T)
      <4>1. T \subseteq Nat /\ Len(s) \in Nat /\ \A x \in T : x <= Len(s)
        BY <1>1
      <4>. HIDE DEF T
      <4>. QED
        BY <2>2, <4>1, MaxOf
    <3>2. \A i \in T : s[i].last <= s[Max(T)].last
      BY <3>1
    <3>3. PICK n \in Nat : n = s[Max(T)].last
      BY <1>1, <3>1
    <3>4. at <= n /\ n <= c
      BY <1>1, <3>1, <3>3
    <3>5. \A i \in K : l \in Touched(s[i]) => s[i].last <= n
      BY <3>2, <3>3
    <3>6. VenueBook(n)[l] = VenueBook(c)[l]
      BY <1>2, <3>4, <3>5
    <3>. QED
      BY <2>2, <3>3, <3>6 DEF Replay
  <2>. QED
    BY <2>1, <2>2
<1>4. VenueBook(c) = [l \in Levels |-> VenueBook(c)[l]]
  BY VenueBookTyped
<1>. QED
  BY <1>3, <1>4 DEF Replay

-----------------------------------------------------------------------------
(* What the handlers do *)

(* A slot that bootstraps anew, of generation g.                           *)
IsFresh(s, g) ==
  /\ s \in Slot /\ s.phase = "bootstrapping" /\ s.pending = <<>> /\ s.first = 0
  /\ ~s.fetching /\ s.refetches = 0 /\ s.gen = g

(* The slot starts a new attempt.                                          *)
Restarts ==
  /\ slot \in Slot /\ IsFresh(slot', generation)
  /\ generation' = generation + 1 /\ asked' = 0 /\ published' = <<>>
  /\ UNCHANGED fetches

(* A fetch task is spawned ...                                             *)
Arms ==
  /\ slot'.fetching
  /\ fetches' = fetches \cup {[gen |-> slot.gen, nth |-> asked]} /\ asked' = asked + 1

(* ... or none.                                                            *)
ArmsNot ==
  /\ slot'.fetching = slot.fetching /\ UNCHANGED <<fetches, asked>>

(* The attempt goes on.                                                    *)
Attempts ==
  /\ slot \in Slot /\ slot.phase = "bootstrapping"
  /\ slot' \in Slot /\ slot'.phase = "bootstrapping" /\ slot'.gen = slot.gen
  /\ UNCHANGED <<generation, published>>

(* It sets an update aside; the first one asks for a snapshot.             *)
Buffers(e) ==
  /\ Attempts
  /\ slot'.pending = Append(slot.pending, e) /\ Len(slot.pending) + 1 < MaxPending
  /\ slot'.refetches = slot.refetches
  /\ \/ slot.first = 0 /\ slot'.first = e.first /\ Arms
     \/ slot.first # 0 /\ slot'.first = slot.first /\ ArmsNot

(* It asks again.                                                          *)
Refetches ==
  /\ Attempts
  /\ slot'.pending = slot.pending /\ slot'.first = slot.first
  /\ slot.refetches < RefetchLimit /\ slot'.refetches = slot.refetches + 1
  /\ Arms

(* A ready book takes an update that continues it.                         *)
Advances(e) ==
  /\ slot \in Slot /\ Ready
  /\ slot' \in Slot /\ slot'.phase = "live" /\ slot'.pending = slot.pending /\ slot'.gen = slot.gen
  /\ slot'.book = Apply(slot.book, e) /\ slot'.cursor = e.last
  /\ IF kind = "binance"
       THEN e.first <= slot.cursor + 1 /\ (slot.phase = "live" => e.first = slot.cursor + 1)
            /\ (slot.phase = "seeded" => slot.cursor + 1 <= e.last)
       ELSE slot.cursor < e.last
  /\ published' = IF slot.phase = "seeded" \/ 0 \in Touched(e) THEN Top(slot'.book) ELSE published
  /\ ArmsNot /\ UNCHANGED generation

(* The snapshot is the base, and what was set aside is replayed on it.     *)
Seeds(at) ==
  /\ slot \in Slot /\ slot.phase = "bootstrapping"
  /\ slot' \in Slot /\ slot'.phase \in {"seeded", "live"}
  /\ slot'.pending = <<>> /\ slot'.gen = slot.gen
  /\ ~slot'.fetching
  /\ slot'.book = Replay(VenueBook(at), slot.pending, Kept(at))
  /\ slot'.cursor = IF Kept(at) = {} THEN at ELSE slot.pending[Max(Kept(at))].last
  /\ IF kind = "binance"
       THEN Kept(at) # {} => Straddles(slot.pending[Min(Kept(at))], at) /\ ~Gapped(at)
       ELSE slot.first <= at
  /\ published' = Top(slot'.book)
  /\ UNCHANGED <<fetches, asked, generation>>

(* The update at the head of the socket is handled, on a turn of the       *)
(* select ...                                                              *)
WireTaken ==
  /\ Turn /\ wire # <<>> /\ wire' = Tail(wire)
  /\ UNCHANGED <<kind, now, streaming, orders, answers, session, bounds, control, dropped>>

(* ... or the one at the head of the snapshot channel.                     *)
AnswerTaken ==
  /\ Turn /\ answers # <<>> /\ answers' = Tail(answers)
  /\ UNCHANGED <<kind, venueVars, session, bounds, control, dropped>>

(* A slot is not the absence of one.                                       *)
LEMMA NoSlotIsNone ==
  /\ NoSlot.phase = "none"
  /\ \A s \in Slot : s # NoSlot
BY DEF NoSlot, Slot

(* A slot is there when its phase says so.                                 *)
LEMMA SlotFacts ==
  ASSUME SlotTyped
  PROVE  /\ slot # NoSlot <=> slot \in Slot
         /\ slot.phase # "none" <=> slot \in Slot
         /\ Ready => slot \in Slot
BY NoSlotIsNone DEF SlotTyped, Slot, Ready

(* Bootstrapping makes a fresh slot.                                       *)
LEMMA BootstrappingFacts ==
  ASSUME NEW g \in Nat
  PROVE  IsFresh(Bootstrapping(g), g)
BY VenueBookTyped DEF Bootstrapping, IsFresh, Slot, Event

(* reset starts a new attempt.                                             *)
LEMMA ResetFacts ==
  ASSUME SlotTyped, slot \in Slot, Reset
  PROVE  Restarts
BY BootstrappingFacts DEF Reset, Restarts, SlotTyped

(* recover refetches or starts over.                                       *)
LEMMA RecoverFacts ==
  ASSUME SlotTyped, slot \in Slot, NEW b \in BOOLEAN, Recover(b)
  PROVE  Restarts \/ Refetches
<1>1. CASE b /\ slot.phase = "bootstrapping" /\ slot.refetches < RefetchLimit
  <2>. DEFINE s == [slot EXCEPT !.refetches = slot.refetches + 1]
  <2>1. s \in Slot /\ s.phase = slot.phase /\ s.pending = slot.pending /\ s.gen = slot.gen
        /\ s.first = slot.first /\ s.refetches = slot.refetches + 1
    <3>1. slot.refetches + 1 \in Nat
      BY DEF Slot
    <3>. QED
      BY <3>1 DEF Slot
  <2>2. ArmFetch(s)
    BY <1>1 DEF Recover
  <2>. HIDE DEF s
  <2>3. slot' = [s EXCEPT !.fetching = TRUE] /\ asked' = asked + 1
        /\ fetches' = fetches \cup {[gen |-> s.gen, nth |-> asked]} /\ UNCHANGED <<generation, published>>
    BY <2>2 DEF ArmFetch
  <2>4. slot' \in Slot /\ slot'.phase = s.phase /\ slot'.pending = s.pending /\ slot'.gen = s.gen
        /\ slot'.first = s.first /\ slot'.refetches = s.refetches /\ slot'.fetching
    BY <2>1, <2>3 DEF Slot
  <2>. QED
    BY <1>1, <2>1, <2>3, <2>4 DEF Refetches, Attempts, Arms
<1>2. CASE ~(b /\ slot.phase = "bootstrapping" /\ slot.refetches < RefetchLimit)
  BY <1>2, ResetFacts DEF Recover
<1>. QED
  BY <1>1, <1>2

(* buffer sets the update aside or, when there is no room, starts over.    *)
LEMMA BufferFacts ==
  ASSUME SlotTyped, slot \in Slot, slot.phase = "bootstrapping", NEW e \in Event, Buffer(e)
  PROVE  Restarts \/ Buffers(e)
<1>. DEFINE s == [slot EXCEPT !.pending = Append(@, e)]
<1>1. slot.pending \in Seq(Event) /\ e.first \in Nat
  BY DEF Slot, Event
<1>2. Append(slot.pending, e) \in Seq(Event) /\ Len(Append(slot.pending, e)) = Len(slot.pending) + 1
  BY <1>1
<1>3. s \in Slot /\ s.pending = Append(slot.pending, e) /\ s.first = slot.first /\ s.gen = slot.gen
      /\ s.phase = slot.phase /\ s.refetches = slot.refetches /\ s.fetching = slot.fetching
  BY <1>2 DEF Slot
<1>4. CASE Len(s.pending) >= MaxPending
  BY <1>4, ResetFacts DEF Buffer
<1>5. CASE ~(Len(s.pending) >= MaxPending) /\ s.first = 0
  <2>1. ArmFetch([s EXCEPT !.first = e.first])
    BY <1>5 DEF Buffer
  <2>2. slot' = [s EXCEPT !.first = e.first, !.fetching = TRUE]
    BY <2>1 DEF ArmFetch
  <2>3. slot' \in Slot /\ slot'.phase = s.phase /\ slot'.pending = s.pending /\ slot'.gen = s.gen
        /\ slot'.first = e.first /\ slot'.refetches = s.refetches /\ slot'.fetching
    BY <1>1, <1>3, <2>2 DEF Slot
  <2>4. [s EXCEPT !.first = e.first].gen = s.gen
    BY <1>3 DEF Slot
  <2>5. Arms /\ UNCHANGED <<generation, published>>
    BY <1>3, <2>1, <2>3, <2>4 DEF ArmFetch, Arms
  <2>6. Len(slot.pending) + 1 < MaxPending
    BY <1>1, <1>2, <1>3, <1>5, SizesAssumption
  <2>. HIDE DEF s
  <2>. QED
    BY <1>3, <1>5, <2>3, <2>5, <2>6 DEF Buffers, Attempts
<1>6. CASE ~(Len(s.pending) >= MaxPending) /\ s.first # 0
  <2>1. Becomes(s, published)
    BY <1>6 DEF Buffer
  <2>2. Len(slot.pending) + 1 < MaxPending
    BY <1>1, <1>2, <1>3, <1>6, SizesAssumption
  <2>. HIDE DEF s
  <2>. QED
    BY <1>3, <1>6, <2>1, <2>2 DEF Becomes, Buffers, Attempts, ArmsNot
<1>. QED
  BY <1>4, <1>5, <1>6

(* An update takes a book to a book.                                       *)
LEMMA ApplyTyped ==
  ASSUME NEW b \in [Levels -> Nat], NEW e \in Event
  PROVE  Apply(b, e) \in [Levels -> Nat]
BY VenueBookTyped DEF Apply, Event

(* advance applies the update and publishes the top when it moved.         *)
LEMMA AdvanceFacts ==
  ASSUME SlotTyped, slot \in Slot, Ready, NEW e \in Event, Advance(e),
         IF kind = "binance"
           THEN e.first <= slot.cursor + 1 /\ (slot.phase = "live" => e.first = slot.cursor + 1)
                /\ (slot.phase = "seeded" => slot.cursor + 1 <= e.last)
           ELSE slot.cursor < e.last
  PROVE  Advances(e)
<1>1. Apply(slot.book, e) \in [Levels -> Nat] /\ e.last \in Nat
  BY ApplyTyped DEF Slot, Event
<1>2. slot' = [slot EXCEPT !.phase = "live", !.book = Apply(slot.book, e), !.cursor = e.last]
      /\ published' = (IF slot.phase = "seeded" \/ 0 \in Touched(e)
                       THEN Top(Apply(slot.book, e)) ELSE published)
      /\ UNCHANGED <<fetches, generation, asked>>
  BY DEF Advance, Becomes
<1>3. slot' \in Slot /\ slot'.phase = "live" /\ slot'.pending = slot.pending /\ slot'.gen = slot.gen
      /\ slot'.book = Apply(slot.book, e) /\ slot'.cursor = e.last /\ slot'.fetching = slot.fetching
  BY <1>1, <1>2 DEF Slot
<1>. QED
  BY <1>2, <1>3 DEF Advances, ArmsNot

(* A ready Binance book skips an update it has, applies the next one, and  *)
(* starts over on any other.                                               *)
LEMMA BinanceFrameFacts ==
  ASSUME SlotTyped, kind = "binance", slot \in Slot, Ready, NEW e \in Event, OnBinanceFrame(e)
  PROVE  Skip \/ Restarts \/ Advances(e)
<1>1. e.first \in Nat /\ e.last \in Nat /\ slot.cursor \in Nat /\ slot.phase \in {"seeded", "live"}
  BY DEF Slot, Event, Ready
<1>. QED
  BY <1>1, AdvanceFacts, ResetFacts DEF OnBinanceFrame, Straddles

(* A ready Bitstamp book applies whatever is later than it.                *)
LEMMA BitstampFrameFacts ==
  ASSUME SlotTyped, kind # "binance", slot \in Slot, Ready, NEW e \in Event, OnBitstampFrame(e)
  PROVE  (e.last <= slot.cursor /\ Skip) \/ Advances(e)
<1>1. e.first \in Nat /\ e.last \in Nat /\ slot.cursor \in Nat
  BY DEF Slot, Event
<1>. QED
  BY <1>1, AdvanceFacts DEF OnBitstampFrame

(* What is set aside and later than the snapshot, and its ends.            *)
LEMMA KeptFacts ==
  ASSUME slot \in Slot, NEW at \in Nat
  PROVE  /\ Kept(at) \subseteq DOMAIN slot.pending
         /\ Kept(at) \subseteq Nat
         /\ \A i \in Kept(at) : /\ slot.pending[i] \in Event /\ at < slot.pending[i].last
                                /\ slot.pending[i].first \in Nat /\ slot.pending[i].last \in Nat
         /\ Kept(at) # {} =>
              /\ Min(Kept(at)) \in Kept(at) /\ \A i \in Kept(at) : Min(Kept(at)) <= i
              /\ Max(Kept(at)) \in Kept(at) /\ \A i \in Kept(at) : i <= Max(Kept(at))
<1>1. slot.pending \in Seq(Event)
  BY DEF Slot
<1>2. Kept(at) \subseteq DOMAIN slot.pending
  BY DEF Kept
<1>3. Kept(at) \subseteq Nat /\ Len(slot.pending) \in Nat /\ \A i \in Kept(at) : i <= Len(slot.pending)
  BY <1>1, <1>2
<1>4. \A i \in Kept(at) : slot.pending[i] \in Event /\ at < slot.pending[i].last
  BY <1>1, <1>2 DEF Kept
<1>5. \A i \in Kept(at) : slot.pending[i].first \in Nat /\ slot.pending[i].last \in Nat
  BY <1>4 DEF Event
<1>6. Kept(at) # {} => Max(Kept(at)) \in Kept(at) /\ \A i \in Kept(at) : i <= Max(Kept(at))
  BY <1>3, MaxOf
<1>7. Kept(at) # {} => Min(Kept(at)) \in Kept(at) /\ \A i \in Kept(at) : Min(Kept(at)) <= i
  BY <1>3, MinOf
<1>. QED
  BY <1>2, <1>3, <1>4, <1>5, <1>6, <1>7

(* Replaying it gives a book.                                              *)
LEMMA ReplayTyped ==
  ASSUME slot \in Slot, NEW at \in Nat
  PROVE  Replay(VenueBook(at), slot.pending, Kept(at)) \in [Levels -> Nat]
<1>1. ASSUME NEW l \in Levels
      PROVE  Replay(VenueBook(at), slot.pending, Kept(at))[l] \in Nat
  <2>. DEFINE T == {i \in Kept(at) : l \in Touched(slot.pending[i])}
  <2>1. CASE T = {}
    BY <2>1, VenueBookTyped DEF Replay
  <2>2. CASE T # {}
    <3>1. T \subseteq Nat /\ \A x \in T : x <= Max(Kept(at))
      BY <2>2, KeptFacts
    <3>2. Max(Kept(at)) \in Nat
      BY <2>2, KeptFacts
    <3>3. Max(T) \in T
      <4>. HIDE DEF T
      <4>. QED
        BY <2>2, <3>1, <3>2, MaxOf
    <3>4. slot.pending[Max(T)].last \in Nat
      BY <3>3, KeptFacts
    <3>. QED
      BY <2>2, <3>4, VenueBookTyped DEF Replay
  <2>. QED
    BY <2>1, <2>2
<1>. QED
  BY <1>1 DEF Replay

(* seeded installs the replayed book.                                      *)
LEMMA SeededFacts ==
  ASSUME SlotTyped, slot \in Slot, slot.phase = "bootstrapping", NEW at \in Nat,
         NEW phase \in {"seeded", "live"}, Seeded(at, phase),
         IF kind = "binance"
           THEN Kept(at) # {} => Straddles(slot.pending[Min(Kept(at))], at) /\ ~Gapped(at)
           ELSE slot.first <= at
  PROVE  Seeds(at)
<1>. DEFINE book == Replay(VenueBook(at), slot.pending, Kept(at))
            cursor == IF Kept(at) = {} THEN at ELSE slot.pending[Max(Kept(at))].last
<1>1. book \in [Levels -> Nat] /\ cursor \in Nat
  BY ReplayTyped, KeptFacts
<1>2. slot' = [slot EXCEPT !.phase = phase, !.fetching = FALSE, !.pending = <<>>, !.first = 0,
                           !.refetches = 0, !.book = book, !.cursor = cursor]
      /\ published' = Top(book) /\ UNCHANGED <<fetches, generation, asked>>
  BY DEF Seeded, Becomes
<1>. HIDE DEF book, cursor
<1>3. slot' \in Slot /\ slot'.phase = phase /\ slot'.pending = <<>> /\ slot'.gen = slot.gen
      /\ slot'.fetching = FALSE /\ slot'.book = book /\ slot'.cursor = cursor
  <2>1. slot' = [phase |-> phase, pending |-> <<>>, first |-> 0, fetching |-> FALSE, refetches |-> 0,
                 gen |-> slot.gen, book |-> book, cursor |-> cursor]
    BY <1>2 DEF Slot
  <2>2. slot.gen \in Nat /\ <<>> \in Seq(Event)
    BY DEF Slot
  <2>. QED
    BY <1>1, <2>1, <2>2 DEF Slot
<1>. QED
  BY <1>2, <1>3 DEF Seeds, book, cursor

(* seed, of Binance: start over, refetch, or a book without a gap ...      *)
LEMMA SeedBinanceFacts ==
  ASSUME SlotTyped, slot \in Slot, slot.phase = "bootstrapping", kind = "binance",
         NEW at \in Nat, SeedBinance(at)
  PROVE  Restarts \/ Refetches \/ Seeds(at)
BY RecoverFacts, SeededFacts DEF SeedBinance

(* ... and of Bitstamp, which only sees that the snapshot is late enough.  *)
LEMMA SeedBitstampFacts ==
  ASSUME SlotTyped, slot \in Slot, slot.phase = "bootstrapping", kind # "binance",
         NEW at \in Nat, SeedBitstamp(at)
  PROVE  Restarts \/ Refetches \/ Seeds(at)
<1>1. slot.first \in Nat
  BY DEF Slot
<1>2. CASE at < slot.first
  BY <1>2, RecoverFacts DEF SeedBitstamp
<1>3. CASE slot.first <= at
  <2>0. ~(at < slot.first)
    BY <1>1, <1>3
  <2>1. Seeded(at, "live")
    BY <2>0 DEF SeedBitstamp
  <2>2. ASSUME NEW phase \in {"seeded", "live"}, Seeded(at, phase)
        PROVE  Seeds(at)
    BY <1>3, <2>2, SeededFacts
  <2>. QED
    BY <2>1, <2>2
<1>. QED
  BY <1>1, <1>2, <1>3

(* What the handler of a frame does ...                                    *)
LEMMA FrameCases ==
  ASSUME Typed, OnFrame \/ Undecodable
  PROVE  /\ WireTaken /\ Head(wire) \in Event
         /\ \/ /\ Skip /\ (slot = NoSlot \/ Ready)
               /\ kind # "binance" /\ Ready => Head(wire).last <= slot.cursor
            \/ Restarts \/ Buffers(Head(wire)) \/ Advances(Head(wire))
<1>1. WireTaken
  BY DEF OnFrame, Undecodable, WireTaken
<1>2. Head(wire) \in Event /\ SlotTyped
  BY <1>1 DEF WireTaken, Typed, VenueTyped
<1>3. CASE Undecodable
  <2>1. Reset /\ slot # NoSlot
    BY <1>3 DEF Undecodable
  <2>. QED
    BY <1>1, <1>2, <2>1, SlotFacts, ResetFacts
<1>4. CASE OnFrame
  <2>1. CASE slot = NoSlot /\ Skip
    BY <1>1, <1>2, <2>1, NoSlotIsNone DEF Ready
  <2>2. CASE slot.phase = "bootstrapping" /\ Buffer(Head(wire))
    BY <1>1, <1>2, <2>2, BufferFacts, SlotFacts
  <2>3. CASE Ready /\ kind = "binance" /\ OnBinanceFrame(Head(wire))
    BY <1>1, <1>2, <2>3, BinanceFrameFacts, SlotFacts
  <2>4. CASE Ready /\ kind = "bitstamp" /\ OnBitstampFrame(Head(wire))
    BY <1>1, <1>2, <2>4, BitstampFrameFacts, SlotFacts
  <2>. QED
    BY <1>4, <2>1, <2>2, <2>3, <2>4 DEF OnFrame
<1>. QED
  BY <1>3, <1>4

(* ... and the handler of a snapshot.                                      *)
LEMMA SnapshotCases ==
  ASSUME Typed, OnSnapshot
  PROVE  /\ AnswerTaken /\ Head(answers) \in Snapshot
         /\ \/ Skip /\ (Asking(Head(answers)) => Ready)
            \/ Asking(Head(answers)) /\ (Restarts \/ Refetches \/ Seeds(Head(answers).at))
<1>1. AnswerTaken
  BY DEF OnSnapshot, AnswerTaken
<1>2. Head(answers) \in Snapshot /\ SlotTyped
  BY <1>1 DEF AnswerTaken, Typed, FetchTyped
<1>3. Head(answers).at \in Nat
  BY <1>2 DEF Snapshot
<1>4. CASE Asking(Head(answers))
  <2>1. slot \in Slot
    BY <1>2, <1>4, SlotFacts DEF Asking
  <2>2. CASE ~Head(answers).ok
    <3>1. Recover(TRUE)
      BY <1>4, <2>2 DEF OnSnapshot
    <3>. QED
      BY <1>1, <1>2, <1>4, <2>1, <3>1, RecoverFacts
  <2>3. CASE Head(answers).ok /\ Ready
    <3>1. Skip
      BY <1>4, <2>3 DEF OnSnapshot
    <3>. QED
      BY <1>1, <1>2, <2>3, <3>1
  <2>4. CASE Head(answers).ok /\ ~Ready
    <3>1. slot.phase = "bootstrapping"
      BY <2>1, <2>4 DEF Slot, Ready
    <3>2. IF kind = "binance" THEN SeedBinance(Head(answers).at) ELSE SeedBitstamp(Head(answers).at)
      BY <1>4, <2>4 DEF OnSnapshot
    <3>. QED
      BY <1>1, <1>2, <1>3, <1>4, <2>1, <3>1, <3>2, SeedBinanceFacts, SeedBitstampFacts
  <2>. QED
    BY <2>2, <2>3, <2>4
<1>5. CASE ~Asking(Head(answers))
  BY <1>1, <1>2, <1>5 DEF OnSnapshot
<1>. QED
  BY <1>4, <1>5

-----------------------------------------------------------------------------
(* What the steps do *)

(* The supervisor orders, on a session or between two: the slot is made or *)
(* dropped, and the pacer told.                                            *)
Commands ==
  /\ session \in {"up", "down"}
  /\ \/ IsFresh(slot', generation) /\ generation' = generation + 1
     \/ slot' = NoSlot /\ generation' \in {generation, generation + 1}
  /\ ~dropped' => ~dropped /\ slot = NoSlot /\ slot' \in Slot
  /\ dropped' \in BOOLEAN
  /\ asked' = 0 /\ published' = <<>>
  /\ \/ /\ session = "up" /\ control' \in Seq(Order) /\ control' # <<>>
        /\ control'[Len(control')] = "Subscribe" <=> slot' \in Slot
        /\ ~dropped' => control' = Append(control, "Subscribe")
     \/ session = "down" /\ UNCHANGED control
  /\ UNCHANGED <<kind, venueVars, fetchVars, session>>

(* The ways of a frame.                                                    *)
FrameSkips ==
  /\ WireTaken /\ Skip /\ (slot = NoSlot \/ Ready)
  /\ kind # "binance" /\ Ready => Head(wire).last <= slot.cursor
FrameRestarts == WireTaken /\ Restarts
FrameBuffers == WireTaken /\ Buffers(Head(wire))
FrameAdvances == WireTaken /\ Advances(Head(wire))

(* The ways of a snapshot.                                                 *)
AnswerSkips == AnswerTaken /\ Skip /\ (Asking(Head(answers)) => Ready)
AnswerRestarts == AnswerTaken /\ Restarts
AnswerRefetches == AnswerTaken /\ Asking(Head(answers)) /\ Refetches
AnswerSeeds == AnswerTaken /\ Asking(Head(answers)) /\ Seeds(Head(answers).at)

(* The sweep of late attempts starts the slot over.                        *)
Sweeps ==
  /\ Turn /\ Restarts
  /\ UNCHANGED <<kind, venueVars, answers, session, bounds, control, dropped>>

(* The backoff is over: the slot starts over with the socket.              *)
Reconnects ==
  /\ session = "down" /\ session' = "connecting" /\ control' = <<>>
  /\ (slot = NoSlot /\ Skip) \/ Restarts
  /\ UNCHANGED <<kind, venueVars, answers, dropped>>

(* What a burst of orders comes to.                                        *)
LEMMA CommandFacts ==
  ASSUME Typed, NEW burst \in Bursts, Admit(burst) \/ AdmitOffline(burst)
  PROVE  Commands
<1>. USE DEF Typed, SlotTyped, SessionTyped
<1>1. session \in {"up", "down"} /\ Command(burst)
  BY DEF Admit, AdmitOffline, Turn
<1>2. UNCHANGED <<kind, venueVars, fetchVars, session>> /\ asked' = 0 /\ published' = <<>>
  BY <1>1 DEF Command
<1>3. \/ slot = NoSlot /\ burst \in {<<"Subscribe">>, <<"Subscribe", "Unsubscribe">>}
      \/ slot \in Slot /\ burst \in {<<"Unsubscribe">>, <<"Unsubscribe", "Subscribe">>}
  BY SlotFacts DEF Bursts
<1>4. \/ /\ burst[Len(burst)] = "Subscribe" /\ IsFresh(slot', generation)
         /\ generation' = generation + 1
      \/ /\ burst[Len(burst)] = "Unsubscribe" /\ slot' = NoSlot
         /\ generation' \in {generation, generation + 1}
  <2>1. CASE burst = <<"Subscribe">>
    BY <1>1, <2>1, BootstrappingFacts DEF Command, Last
  <2>2. CASE burst = <<"Subscribe", "Unsubscribe">>
    BY <1>1, <2>2, BootstrappingFacts DEF Command, Last
  <2>3. CASE burst = <<"Unsubscribe">>
    BY <1>1, <2>3, BootstrappingFacts DEF Command, Last
  <2>4. CASE burst = <<"Unsubscribe", "Subscribe">>
    <3>1. generation' = generation + 1
      <4>1. 2 \in DOMAIN burst /\ burst[2] = "Subscribe"
        BY <2>4
      <4>. QED
        BY <1>1, <4>1 DEF Command
    <3>. QED
      BY <1>1, <2>4, <3>1, BootstrappingFacts DEF Command, Last
  <2>. QED
    BY <1>3, <2>1, <2>2, <2>3, <2>4
<1>5. dropped' \in BOOLEAN /\ (~dropped' => ~dropped /\ slot = NoSlot /\ burst = <<"Subscribe">>)
  <2>1. dropped' = (dropped \/ \E i \in DOMAIN burst : burst[i] = "Unsubscribe")
    BY <1>1 DEF Command
  <2>2. CASE burst = <<"Subscribe">>
    BY <1>3, <2>1, <2>2
  <2>3. CASE burst # <<"Subscribe">>
    <3>1. \E i \in DOMAIN burst : burst[i] = "Unsubscribe"
      <4>1. CASE burst = <<"Subscribe", "Unsubscribe">>
        <5>1. 2 \in DOMAIN burst /\ burst[2] = "Unsubscribe"
          BY <4>1
        <5>. QED
          BY <5>1
      <4>2. CASE burst # <<"Subscribe", "Unsubscribe">>
        <5>1. 1 \in DOMAIN burst /\ burst[1] = "Unsubscribe"
          BY <1>3, <2>3, <4>2
        <5>. QED
          BY <5>1
      <4>. QED
        BY <4>1, <4>2
    <3>. QED
      BY <2>1, <3>1
  <2>. QED
    BY <2>2, <2>3
<1>6. burst \in Seq(Order) /\ Len(burst) > 0
  <2>1. "Subscribe" \in Order /\ "Unsubscribe" \in Order
    BY DEF Order
  <2>2. \A a, b \in Order : <<a>> \in Seq(Order) /\ Len(<<a>>) > 0
                            /\ <<a, b>> \in Seq(Order) /\ Len(<<a, b>>) > 0
    OBVIOUS
  <2>. QED
    BY <1>3, <2>1, <2>2
<1>7. CASE Admit(burst)
  <2>1. session = "up" /\ control' = control \o burst
    BY <1>7 DEF Admit, Turn
  <2>2. control' \in Seq(Order) /\ control' # <<>> /\ control'[Len(control')] = burst[Len(burst)]
    BY <1>6, <2>1
  <2>3. burst = <<"Subscribe">> => control' = Append(control, "Subscribe")
    BY <2>1
  <2>4. slot' \in Slot <=> burst[Len(burst)] = "Subscribe"
    BY <1>4, NoSlotIsNone DEF IsFresh
  <2>5. control'[Len(control')] = "Subscribe" <=> slot' \in Slot
    BY <2>2, <2>4
  <2>6. burst = <<"Subscribe">> => slot' \in Slot
    BY <2>4
  <2>. QED
    BY <1>1, <1>2, <1>4, <1>5, <2>1, <2>2, <2>3, <2>5, <2>6 DEF Commands
<1>8. CASE AdmitOffline(burst)
  <2>1. session = "down" /\ UNCHANGED control
    BY <1>8 DEF AdmitOffline
  <2>2. burst = <<"Subscribe">> => slot' \in Slot
    BY <1>4 DEF IsFresh
  <2>. QED
    BY <1>1, <1>2, <1>4, <1>5, <2>1, <2>2 DEF Commands
<1>. QED
  BY <1>7, <1>8

(* Every step is one of these.                                             *)
LEMMA NextCases ==
  ASSUME Typed, [Next]_vars
  PROVE  \/ \E n \in 1 .. 2 : Trade(n)
         \/ Obey
         \/ \E f \in fetches, ok \in BOOLEAN, at \in 0 .. MaxUpdates : Answer(f, ok, at)
         \/ \E f \in fetches : AbortLands(f)
         \/ Commands \/ Pace
         \/ FrameSkips \/ FrameRestarts \/ FrameBuffers \/ FrameAdvances
         \/ AnswerSkips \/ AnswerRestarts \/ AnswerRefetches \/ AnswerSeeds
         \/ Sweeps \/ SessionEnds \/ Reconnects \/ Connected \/ ConnectFails \/ LaneCloses
         \/ UNCHANGED vars
<1>1. OnFrame \/ Undecodable => FrameSkips \/ FrameRestarts \/ FrameBuffers \/ FrameAdvances
  BY FrameCases DEF FrameSkips, FrameRestarts, FrameBuffers, FrameAdvances
<1>2. OnSnapshot => AnswerSkips \/ AnswerRestarts \/ AnswerRefetches \/ AnswerSeeds
  BY SnapshotCases DEF AnswerSkips, AnswerRestarts, AnswerRefetches, AnswerSeeds
<1>3. SweepIdle => Sweeps
  BY SlotFacts, ResetFacts DEF SweepIdle, Sweeps, Typed
<1>4. Reconnect => Reconnects
  BY SlotFacts, ResetFacts DEF Reconnect, Reconnects, Typed
<1>5. \A burst \in Bursts : Admit(burst) \/ AdmitOffline(burst) => Commands
  BY CommandFacts
<1>. QED
  BY <1>1, <1>2, <1>3, <1>4, <1>5 DEF Next

-----------------------------------------------------------------------------
(* The order of updates *)

(* Updates in order stay so as the venue moves on.                         *)
LEMMA NumberedLater ==
  ASSUME NEW s \in Seq(Event), Numbered(s), now \in Nat, now' \in Nat, now <= now'
  PROVE  Numbered(s)'
BY EventsTyped DEF Numbered

(* Taking a frame leaves the others in order.                              *)
LEMMA WireTakenKeepsOrder ==
  ASSUME Typed, WireInOrder, WireTaken
  PROVE  WireInOrder'
<1>1. wire \in Seq(Event) /\ wire # <<>> /\ wire' = Tail(wire) /\ UNCHANGED <<kind, now>>
  BY DEF Typed, VenueTyped, WireTaken
<1>2. \A i \in DOMAIN wire' : i + 1 \in DOMAIN wire /\ wire'[i] = wire[i + 1] /\ i \in Nat
  BY <1>1, TailFacts
<1>. QED
  BY <1>1, <1>2 DEF WireInOrder, Numbered

(* An empty sequence is one of updates and of orders.                      *)
LEMMA EmptyTyped == <<>> \in Seq(Event) /\ <<>> \in Seq(Order)
OBVIOUS

(* The update a trade of n changes sends.                                  *)
Traded(n) == [first |-> now + 1, last |-> now + n]

(* What a trade does.                                                      *)
LEMMA TradeFacts ==
  ASSUME Typed, NEW n \in 1 .. 2, Trade(n)
  PROVE  /\ now \in Nat /\ now' = now + n /\ wire \in Seq(Event) /\ Traded(n) \in Event
         /\ Traded(n).first = now + 1 /\ Traded(n).last = now + n
         /\ kind = "bitstamp" => n = 1
         /\ wire' = IF streaming THEN Append(wire, Traded(n)) ELSE wire
         /\ wire' \in Seq(Event)
<1>1. now \in Nat /\ wire \in Seq(Event) /\ Traded(n) \in Event
  BY DEF Typed, VenueTyped, Event, Traded
<1>. QED
  BY <1>1, AppendFacts DEF Trade, Traded

(* A trade sends the next update.                                          *)
LEMMA TradeKeepsOrder ==
  ASSUME Typed, WireInOrder, NEW n \in 1 .. 2, Trade(n)
  PROVE  WireInOrder'
<1>. DEFINE e == Traded(n)
<1>1. now \in Nat /\ wire \in Seq(Event) /\ e \in Event /\ now' = now + n /\ UNCHANGED kind
      /\ e.first = now + 1 /\ e.last = now + n /\ (kind = "bitstamp" => n = 1)
      /\ wire' \in {wire, Append(wire, e)}
  BY TradeFacts DEF Trade
<1>. HIDE DEF e
<1>2. \A i \in DOMAIN wire : /\ wire[i] \in Event /\ wire[i].last <= now /\ wire[i].first \in Nat
                             /\ wire[i].last \in Nat
  BY <1>1, EventsTyped DEF WireInOrder, Numbered
<1>3. CASE wire' = wire
  BY <1>1, <1>2, <1>3 DEF WireInOrder, Numbered
<1>4. CASE wire' = Append(wire, e)
  <2>1. \A i \in DOMAIN wire' : i \in Nat /\ \/ i \in DOMAIN wire /\ wire'[i] = wire[i] /\ i < Len(wire) + 1
                                             \/ i = Len(wire) + 1 /\ wire'[i] = e
    BY <1>1, <1>4, AppendFacts
  <2>2. Len(wire) \in Nat /\ \A i \in DOMAIN wire : i \in Nat /\ i <= Len(wire)
    BY <1>1
  <2>3. \A i \in DOMAIN wire' : 1 <= wire'[i].first /\ wire'[i].first <= wire'[i].last /\ wire'[i].last <= now'
    BY <1>1, <1>2, <2>1 DEF WireInOrder, Numbered
  <2>4. ASSUME NEW i \in DOMAIN wire', NEW j \in DOMAIN wire', i < j
        PROVE  wire'[i].last < wire'[j].first
    BY <1>1, <1>2, <2>1, <2>2, <2>4 DEF WireInOrder, Numbered
  <2>5. kind = "bitstamp" => \A i \in DOMAIN wire' : wire'[i].first = wire'[i].last
    BY <1>1, <2>1 DEF WireInOrder
  <2>. QED
    BY <1>1, <2>3, <2>4, <2>5 DEF WireInOrder, Numbered
<1>. QED
  BY <1>1, <1>3, <1>4

(* Generations are numbers.                                                *)
LEMMA GensTyped ==
  ASSUME Typed
  PROVE  /\ generation \in Nat /\ asked \in Nat /\ answers \in Seq(Snapshot)
         /\ \A f \in fetches : f \in Fetch /\ f.gen \in Nat /\ f.nth \in Nat
         /\ \A i \in DOMAIN answers : answers[i] \in Snapshot /\ answers[i].gen \in Nat /\ i \in Nat
<1>1. answers \in Seq(Snapshot)
  BY DEF Typed, FetchTyped
<1>2. \A i \in DOMAIN answers : answers[i] \in Snapshot /\ i \in Nat
  BY <1>1
<1>3. \A i \in DOMAIN answers : answers[i].gen \in Nat
  BY <1>2 DEF Snapshot
<1>4. \A f \in fetches : f \in Fetch /\ f.gen \in Nat /\ f.nth \in Nat
  BY DEF Typed, FetchTyped, Fetch
<1>. QED
  BY <1>1, <1>2, <1>3, <1>4 DEF Typed, SlotTyped

(* Taking a snapshot moves the others up ...                               *)
LEMMA AnswerTakenFacts ==
  ASSUME Typed, AnswerTaken
  PROVE  /\ answers' \in Seq(Snapshot) /\ Head(answers) = answers[1] /\ 1 \in DOMAIN answers
         /\ \A i \in DOMAIN answers' : i + 1 \in DOMAIN answers /\ answers'[i] = answers[i + 1]
                                    /\ i \in Nat \ {0}
BY GensTyped, TailFacts DEF AnswerTaken

(* ... and so does taking a frame.                                         *)
LEMMA WireTakenFacts ==
  ASSUME Typed, WireTaken
  PROVE  /\ wire \in Seq(Event) /\ wire' \in Seq(Event) /\ Head(wire) = wire[1] /\ Head(wire) \in Event
         /\ 1 \in DOMAIN wire /\ Len(wire') + 1 = Len(wire)
         /\ \A i \in DOMAIN wire' : i + 1 \in DOMAIN wire /\ wire'[i] = wire[i + 1] /\ i \in Nat \ {0}
BY TailFacts DEF Typed, VenueTyped, WireTaken

(* What is set aside is a sequence of updates.                             *)
LEMMA PendingTyped ==
  ASSUME slot \in Slot
  PROVE  /\ slot.pending \in Seq(Event)
         /\ \A i \in DOMAIN slot.pending : /\ slot.pending[i] \in Event /\ i \in Nat
                                           /\ slot.pending[i].first \in Nat /\ slot.pending[i].last \in Nat
                                           /\ i <= Len(slot.pending)
<1>1. slot.pending \in Seq(Event)
  BY DEF Slot
<1>. QED
  BY <1>1, EventsTyped

(* Taking a frame keeps the order of what is set aside, when that stays    *)
(* ...                                                                     *)
LEMMA PendingStays ==
  ASSUME Typed, PendingInOrder, WireTaken,
         \/ slot' = NoSlot
         \/ slot' \in Slot /\ slot \in Slot /\ slot'.pending = slot.pending
  PROVE  PendingInOrder'
<1>1. CASE slot' = NoSlot
  BY <1>1 DEF PendingInOrder
<1>2. CASE slot' \in Slot /\ slot \in Slot /\ slot'.pending = slot.pending
  <2>1. UNCHANGED <<kind, now>> /\ slot # NoSlot
    BY <1>2, NoSlotIsNone DEF WireTaken
  <2>2. \A i \in DOMAIN wire' : i + 1 \in DOMAIN wire /\ wire'[i] = wire[i + 1]
    BY WireTakenFacts
  <2>. QED
    BY <1>2, <2>1, <2>2 DEF PendingInOrder, Numbered
<1>. QED
  BY <1>1, <1>2

(* ... and when the frame joins it.                                        *)
LEMMA PendingGrows ==
  ASSUME Typed, WireInOrder, PendingInOrder, FrameBuffers
  PROVE  PendingInOrder'
<1>. DEFINE e == Head(wire)
            s == slot.pending
            t == slot'.pending
<1>1. e = wire[1] /\ e \in Event /\ 1 \in DOMAIN wire /\ wire \in Seq(Event)
      /\ \A i \in DOMAIN wire' : i + 1 \in DOMAIN wire /\ wire'[i] = wire[i + 1] /\ i \in Nat \ {0}
  BY WireTakenFacts DEF FrameBuffers
<1>2. slot \in Slot /\ slot # NoSlot /\ t = Append(s, e) /\ UNCHANGED <<kind, now>> /\ now \in Nat
  BY NoSlotIsNone DEF FrameBuffers, Buffers, Attempts, WireTaken, Typed, VenueTyped
<1>3. s \in Seq(Event) /\ \A i \in DOMAIN s : /\ i \in Nat /\ i <= Len(s)
                                              /\ s[i].first \in Nat /\ s[i].last \in Nat
  BY <1>2, PendingTyped
<1>4. /\ 1 <= e.first /\ e.first <= e.last /\ e.last <= now /\ (kind = "bitstamp" => e.first = e.last)
      /\ e.first \in Nat /\ e.last \in Nat
      /\ \A j \in DOMAIN wire' : e.last < wire'[j].first
  BY <1>1, EventsTyped DEF WireInOrder, Numbered
<1>5. \A i \in DOMAIN s : s[i].last < e.first
  BY <1>1, <1>2 DEF PendingInOrder
<1>. HIDE DEF e, s, t
<1>6. \A i \in DOMAIN t : /\ i \in Nat
                          /\ \/ i \in DOMAIN s /\ t[i] = s[i] /\ i <= Len(s)
                             \/ i = Len(s) + 1 /\ t[i] = e
  BY <1>1, <1>2, <1>3, AppendFacts
<1>7. Numbered(s) /\ (kind = "bitstamp" => \A i \in DOMAIN s : s[i].first = s[i].last)
      /\ \A i \in DOMAIN s, j \in DOMAIN wire : s[i].last < wire[j].first
  BY <1>2 DEF PendingInOrder, s
<1>8. \A i \in DOMAIN t : 1 <= t[i].first /\ t[i].first <= t[i].last /\ t[i].last <= now
  BY <1>4, <1>6, <1>7 DEF Numbered
<1>9. ASSUME NEW i \in DOMAIN t, NEW j \in DOMAIN t, i < j
      PROVE  t[i].last < t[j].first
  <2>1. Len(s) \in Nat
    BY <1>3
  <2>2. i \in DOMAIN s /\ t[i] = s[i]
    BY <1>6, <1>9, <2>1
  <2>3. CASE j \in DOMAIN s /\ t[j] = s[j]
    BY <1>7, <1>9, <2>2, <2>3 DEF Numbered
  <2>4. CASE t[j] = e
    BY <1>5, <2>2, <2>4
  <2>. QED
    BY <1>6, <2>3, <2>4
<1>10. kind = "bitstamp" => \A i \in DOMAIN t : t[i].first = t[i].last
  BY <1>4, <1>6, <1>7
<1>11. \A i \in DOMAIN t, j \in DOMAIN wire' : t[i].last < wire'[j].first
  BY <1>1, <1>4, <1>6, <1>7
<1>. QED
  BY <1>2, <1>8, <1>9, <1>10, <1>11 DEF PendingInOrder, Numbered, t

(* A trade is later than what is set aside.                                *)
LEMMA PendingSeesTrades ==
  ASSUME Typed, PendingInOrder, NEW n \in 1 .. 2, Trade(n)
  PROVE  PendingInOrder'
<1>1. CASE slot = NoSlot
  BY <1>1 DEF PendingInOrder, Trade, slotVars
<1>2. CASE slot # NoSlot
  <2>1. slot \in Slot /\ UNCHANGED <<slot, kind>>
    BY <1>2, SlotFacts DEF Typed, Trade, slotVars
  <2>2. now \in Nat /\ now' = now + n /\ wire \in Seq(Event) /\ Traded(n) \in Event
        /\ Traded(n).first = now + 1 /\ wire' \in {wire, Append(wire, Traded(n))}
    BY TradeFacts
  <2>3. \A i \in DOMAIN slot.pending : slot.pending[i].last \in Nat /\ slot.pending[i].last <= now
    BY <1>2, <2>1, PendingTyped DEF PendingInOrder, Numbered
  <2>4. \A j \in DOMAIN wire' : (j \in DOMAIN wire /\ wire'[j] = wire[j]) \/ wire'[j] = Traded(n)
    BY <2>2, AppendFacts
  <2>5. \A i \in DOMAIN slot.pending, j \in DOMAIN wire' : slot.pending[i].last < wire'[j].first
    BY <1>2, <2>2, <2>3, <2>4 DEF PendingInOrder
  <2>6. Numbered(slot.pending)'
    BY <1>2, <2>1, <2>2, <2>3 DEF PendingInOrder, Numbered
  <2>. QED
    BY <1>2, <2>1, <2>5, <2>6 DEF PendingInOrder
<1>. QED
  BY <1>1, <1>2

(* A fresh slot has set nothing aside.                                     *)
LEMMA FreshFacts ==
  ASSUME NEW s, NEW g, IsFresh(s, g)
  PROVE  /\ s \in Slot /\ s # NoSlot /\ s.phase = "bootstrapping" /\ s.pending = <<>> /\ s.gen = g
         /\ DOMAIN s.pending = {}
BY NoSlotIsNone DEF IsFresh

(* Nothing set aside is in order.                                          *)
LEMMA PendingRestarts ==
  ASSUME slot' = NoSlot \/ slot'.pending = <<>>
  PROVE  PendingInOrder'
BY DEF PendingInOrder, Numbered

(* A new attempt takes the next generation ...                             *)
LEMMA SpentRestarts ==
  ASSUME Typed, GenerationsAreSpent, UNCHANGED fetches,
         answers' = answers \/ AnswerTaken,
         \/ slot' = NoSlot /\ generation' \in {generation, generation + 1}
         \/ slot'.gen = generation /\ generation' = generation + 1
  PROVE  GenerationsAreSpent'
<1>1. generation \in Nat /\ generation' \in Nat /\ generation <= generation'
      /\ (slot' # NoSlot => slot'.gen < generation')
  BY GensTyped
<1>2. \A f \in fetches' : f.gen < generation'
  BY <1>1, GensTyped DEF GenerationsAreSpent
<1>3. \A i \in DOMAIN answers' : \E j \in DOMAIN answers : answers'[i] = answers[j]
  BY AnswerTakenFacts
<1>4. \A i \in DOMAIN answers' : answers'[i].gen < generation'
  BY <1>1, <1>3, GensTyped DEF GenerationsAreSpent
<1>. QED
  BY <1>1, <1>2, <1>4 DEF GenerationsAreSpent

(* ... and one that goes on keeps its own.                                 *)
LEMMA SpentGoesOn ==
  ASSUME Typed, GenerationsAreSpent, AnswerTaken, slot \in Slot, slot'.gen = slot.gen,
         UNCHANGED generation, \A f \in fetches' : f \in fetches \/ f.gen = slot.gen
  PROVE  GenerationsAreSpent'
<1>1. slot.gen < generation
  BY NoSlotIsNone DEF GenerationsAreSpent
<1>2. \A f \in fetches' : f.gen < generation'
  BY <1>1 DEF GenerationsAreSpent
<1>3. \A i \in DOMAIN answers' : \E j \in DOMAIN answers : answers'[i] = answers[j]
  BY AnswerTakenFacts
<1>4. \A i \in DOMAIN answers' : answers'[i].gen < generation'
  BY <1>3 DEF GenerationsAreSpent
<1>. QED
  BY <1>1, <1>2, <1>4 DEF GenerationsAreSpent

-----------------------------------------------------------------------------
(* The attempt and its request *)

(* Setting an update aside keeps the attempt sound.                        *)
LEMMA AttemptBuffers ==
  ASSUME Typed, WireInOrder, AttemptIsSound, FrameBuffers
  PROVE  AttemptIsSound'
<1>. DEFINE e == Head(wire)
            s == slot.pending
<1>1. e = wire[1] /\ e \in Event /\ 1 \in DOMAIN wire /\ e.first \in Nat
  BY WireTakenFacts, EventsTyped DEF FrameBuffers
<1>2. e.first >= 1
  BY <1>1 DEF WireInOrder, Numbered
<1>3. /\ slot \in Slot /\ slot # NoSlot /\ slot.phase = "bootstrapping" /\ slot'.phase = "bootstrapping"
      /\ slot'.pending = Append(s, e) /\ Len(s) + 1 < MaxPending /\ slot'.refetches = slot.refetches
      /\ \/ slot.first = 0 /\ slot'.first = e.first /\ asked' = asked + 1
         \/ slot.first # 0 /\ slot'.first = slot.first /\ asked' = asked
  BY NoSlotIsNone DEF FrameBuffers, Buffers, Attempts, Arms, ArmsNot
<1>4. s \in Seq(Event) /\ asked \in Nat /\ slot.refetches \in Nat
  BY <1>3, PendingTyped, GensTyped DEF Slot
<1>. HIDE DEF e
<1>5. /\ Len(slot'.pending) = Len(s) + 1 /\ slot'.pending # <<>>
      /\ \A i \in DOMAIN s : slot'.pending[i] = s[i]
      /\ slot'.pending[Len(s) + 1] = e
  BY <1>1, <1>3, <1>4, AppendFacts
<1>6. CASE slot.first = 0
  <2>1. s = <<>> /\ asked = 0 /\ slot.refetches = 0 /\ Len(s) = 0
    BY <1>3, <1>6 DEF AttemptIsSound
  <2>2. slot'.pending[1] = e
    BY <1>5, <2>1
  <2>3. slot'.first # 0 /\ asked' = slot'.refetches + 1 /\ slot'.refetches <= RefetchLimit
    BY <1>2, <1>3, <1>6, <2>1, SizesAssumption
  <2>4. Len(slot'.pending) < MaxPending
    BY <1>3, <1>5
  <2>5. slot'.first = slot'.pending[1].first
    BY <1>3, <1>6, <2>2
  <2>. QED
    BY <1>3, <1>5, <2>3, <2>4, <2>5 DEF AttemptIsSound, Ready
<1>7. CASE slot.first # 0
  <2>1. s # <<>> /\ slot.first = s[1].first /\ asked = slot.refetches + 1 /\ slot.refetches <= RefetchLimit
    BY <1>3, <1>7 DEF AttemptIsSound
  <2>2. slot'.pending[1] = s[1]
    BY <1>4, <1>5, <2>1
  <2>. QED
    BY <1>3, <1>5, <1>7, <2>1, <2>2 DEF AttemptIsSound, Ready
<1>. QED
  BY <1>6, <1>7

(* An answer of the slot's generation is one it waits for.                 *)
LEMMA AskingMeansFetching ==
  ASSUME Typed, OneRequest, AnswerTaken, Asking(Head(answers))
  PROVE  slot # NoSlot /\ slot \in Slot /\ slot.fetching
BY AnswerTakenFacts, SlotFacts DEF OneRequest, Asking, Typed

(* A refetch keeps the attempt sound.                                      *)
LEMMA AttemptRefetches ==
  ASSUME Typed, AttemptIsSound, OneRequest, AnswerRefetches
  PROVE  AttemptIsSound'
<1>1. slot # NoSlot /\ slot.fetching
  BY AskingMeansFetching DEF AnswerRefetches
<1>2. /\ slot.phase = "bootstrapping" /\ slot'.phase = "bootstrapping"
      /\ slot'.pending = slot.pending /\ slot'.first = slot.first
      /\ slot.refetches < RefetchLimit /\ slot'.refetches = slot.refetches + 1 /\ asked' = asked + 1
      /\ slot.refetches \in Nat
  BY DEF AnswerRefetches, Refetches, Attempts, Arms, Slot
<1>3. slot.first # 0 /\ slot.pending # <<>> /\ slot.first = slot.pending[1].first
      /\ asked = slot.refetches + 1 /\ (Len(slot.pending) < MaxPending \/ slot.pending = <<>>)
  BY <1>1, <1>2 DEF AttemptIsSound
<1>. QED
  BY <1>2, <1>3, SizesAssumption DEF AttemptIsSound, Ready

(* One request, when there is none.                                        *)
LEMMA NoneAsking ==
  ASSUME \A f \in fetches : ~Asking(f), \A i \in DOMAIN answers : ~Asking(answers[i]),
         slot # NoSlot => slot.fetching = FALSE
  PROVE  OneRequest
BY DEF OneRequest

(* What a new attempt finds on its way is of another generation.           *)
LEMMA RequestsRestart ==
  ASSUME Typed, GenerationsAreSpent, UNCHANGED fetches, answers' = answers \/ AnswerTaken,
         slot' = NoSlot \/ IsFresh(slot', generation)
  PROVE  OneRequest'
<1>1. CASE slot' = NoSlot
  BY <1>1 DEF OneRequest
<1>2. CASE IsFresh(slot', generation)
  <2>1. slot'.gen = generation /\ slot'.fetching = FALSE /\ generation \in Nat
    BY <1>2, GensTyped DEF IsFresh, Slot
  <2>2. \A f \in fetches' : f.gen # slot'.gen
    BY <2>1, GensTyped DEF GenerationsAreSpent
  <2>3. \A i \in DOMAIN answers' : \E j \in DOMAIN answers : answers'[i] = answers[j]
    BY AnswerTakenFacts
  <2>4. \A i \in DOMAIN answers' : answers'[i].gen # slot'.gen
    BY <2>1, <2>3, GensTyped DEF GenerationsAreSpent
  <2>. QED
    BY <2>1, <2>2, <2>4 DEF OneRequest, Asking
<1>. QED
  BY <1>1, <1>2

(* A task that answers hands its request to the channel.                   *)
LEMMA RequestAnswered ==
  ASSUME Typed, OneRequest, NEW f \in fetches, NEW ok \in BOOLEAN, NEW at \in 0 .. MaxUpdates,
         Answer(f, ok, at)
  PROVE  OneRequest'
<1>1. CASE slot = NoSlot
  BY <1>1 DEF OneRequest, Answer, slotVars
<1>2. CASE slot # NoSlot
  <2>. DEFINE a == [gen |-> f.gen, ok |-> ok, at |-> at]
  <2>1. fetches' = fetches \ {f} /\ answers' = Append(answers, a) /\ UNCHANGED slot
    BY DEF Answer, slotVars
  <2>2. a \in Snapshot /\ a.gen = f.gen /\ answers \in Seq(Snapshot)
    BY GensTyped, BoundsAssumption DEF Snapshot
  <2>. HIDE DEF a
  <2>3. /\ \A i \in DOMAIN answers' : /\ i \in Nat
                                      /\ \/ i \in DOMAIN answers /\ answers'[i] = answers[i]
                                         \/ i = Len(answers) + 1 /\ answers'[i] = a
        /\ \A i \in DOMAIN answers : i \in DOMAIN answers' /\ answers'[i] = answers[i]
        /\ Len(answers) + 1 \in DOMAIN answers' /\ answers'[Len(answers) + 1] = a
    BY <2>1, <2>2, AppendFacts
  <2>4. Asking(a) <=> Asking(f)
    BY <2>2 DEF Asking
  <2>5. \A x : Asking(x)' <=> Asking(x)
    BY <2>1 DEF Asking
  <2>6. CASE Asking(f)
    <3>1. /\ slot.fetching
          /\ \A g \in fetches : Asking(g) => g = f
          /\ \A i \in DOMAIN answers : ~Asking(answers[i])
      BY <1>2, <2>6 DEF OneRequest
    <3>2. /\ \A g \in fetches' : ~Asking(g)
          /\ \A i \in DOMAIN answers' : Asking(answers'[i]) => i = Len(answers) + 1
          /\ Asking(answers'[Len(answers) + 1])
      BY <2>1, <2>3, <2>4, <2>6, <3>1
    <3>. QED
      BY <1>2, <2>1, <2>3, <2>5, <3>1, <3>2 DEF OneRequest
  <2>7. CASE ~Asking(f)
    <3>1. \A i \in DOMAIN answers' : Asking(answers'[i]) => i \in DOMAIN answers /\ answers'[i] = answers[i]
      BY <2>3, <2>4, <2>7
    <3>2. \A g \in fetches : Asking(g) => g \in fetches'
      BY <2>1, <2>7
    <3>. QED
      BY <1>2, <2>1, <2>3, <2>5, <3>1, <3>2 DEF OneRequest
  <2>. QED
    BY <2>6, <2>7
<1>. QED
  BY <1>1, <1>2

(* A task is spawned when no other asks.                                   *)
LEMMA RequestArmed ==
  ASSUME slot \in Slot, slot' \in Slot, slot'.gen = slot.gen, Arms,
         \A f \in fetches : ~Asking(f), \A i \in DOMAIN answers' : ~Asking(answers'[i])
  PROVE  OneRequest'
<1>1. slot # NoSlot /\ slot' # NoSlot
  BY NoSlotIsNone
<1>2. \A x : Asking(x)' <=> Asking(x)
  BY <1>1 DEF Asking
<1>3. PICK n : fetches' = fetches \cup {n} /\ n.gen = slot.gen /\ slot'.fetching
  BY DEF Arms
<1>4. Asking(n)
  BY <1>1, <1>3 DEF Asking
<1>. QED
  BY <1>1, <1>2, <1>3, <1>4 DEF OneRequest

(* The first update asks, and no later one.                                *)
LEMMA RequestBuffers ==
  ASSUME Typed, AttemptIsSound, OneRequest, FrameBuffers
  PROVE  OneRequest'
<1>1. slot \in Slot /\ slot # NoSlot /\ slot' \in Slot /\ slot' # NoSlot /\ slot'.gen = slot.gen
      /\ UNCHANGED answers /\ slot.phase = "bootstrapping"
  BY NoSlotIsNone DEF FrameBuffers, Buffers, Attempts, WireTaken
<1>2. CASE slot.first = 0 /\ Arms
  <2>1. ~slot.fetching
    BY <1>1, <1>2 DEF AttemptIsSound
  <2>. QED
    BY <1>1, <1>2, <2>1, RequestArmed DEF OneRequest
<1>3. CASE ArmsNot
  BY <1>1, <1>3 DEF ArmsNot, OneRequest, Asking
<1>. QED
  BY <1>2, <1>3 DEF FrameBuffers, Buffers

(* Once its answer is taken nothing else asks for the slot.                *)
LEMMA TheAnswerAsked ==
  ASSUME Typed, OneRequest, AnswerTaken, Asking(Head(answers))
  PROVE  /\ \A f \in fetches : ~Asking(f)
         /\ \A i \in DOMAIN answers' : ~Asking(answers'[i])
<1>1. Head(answers) = answers[1] /\ 1 \in DOMAIN answers /\ slot # NoSlot
  BY AnswerTakenFacts, AskingMeansFetching
<1>2. \A i \in DOMAIN answers' : i + 1 \in DOMAIN answers /\ answers'[i] = answers[i + 1] /\ i + 1 # 1
  BY AnswerTakenFacts
<1>. QED
  BY <1>1, <1>2 DEF OneRequest

(* An answer that is skipped is not the one the slot waits for.            *)
LEMMA RequestSkipped ==
  ASSUME Typed, AttemptIsSound, OneRequest, AnswerSkips
  PROVE  OneRequest'
<1>1. AnswerTaken /\ UNCHANGED <<slot, fetches>>
  BY DEF AnswerSkips, Skip, slotVars
<1>2. ~Asking(Head(answers))
  BY <1>1, AskingMeansFetching DEF AnswerSkips, AttemptIsSound
<1>3. \A x : Asking(x)' <=> Asking(x)
  BY <1>1 DEF Asking
<1>4. \A i \in DOMAIN answers' : i + 1 \in DOMAIN answers /\ answers'[i] = answers[i + 1] /\ i \in Nat
  BY <1>1, AnswerTakenFacts
<1>5. \A j \in DOMAIN answers : Asking(answers[j]) => \E i \in DOMAIN answers' : j = i + 1
  <2>. SUFFICES ASSUME NEW j \in DOMAIN answers, Asking(answers[j])
                PROVE  j - 1 \in DOMAIN answers' /\ j = (j - 1) + 1
    OBVIOUS
  <2>1. j # 1
    BY <1>1, <1>2, AnswerTakenFacts
  <2>2. answers \in Seq(Snapshot) /\ answers # <<>> /\ answers' = Tail(answers)
    BY <1>1, GensTyped DEF AnswerTaken
  <2>. QED
    BY <2>1, <2>2
<1>. QED
  BY <1>1, <1>3, <1>4, <1>5 DEF OneRequest

(* A refetch asks in place of the answer taken.                            *)
LEMMA RequestRetried ==
  ASSUME Typed, OneRequest, AnswerRefetches
  PROVE  OneRequest'
BY TheAnswerAsked, RequestArmed DEF AnswerRefetches, Refetches, Attempts

(* A seeded slot asks no more.                                             *)
LEMMA RequestMet ==
  ASSUME Typed, OneRequest, AnswerSeeds
  PROVE  OneRequest'
<1>1. slot \in Slot /\ slot' \in Slot /\ slot'.gen = slot.gen /\ UNCHANGED fetches /\ slot'.fetching = FALSE
      /\ slot # NoSlot /\ slot' # NoSlot
  BY NoSlotIsNone DEF AnswerSeeds, Seeds, Slot
<1>2. \A x : Asking(x)' <=> Asking(x)
  BY <1>1 DEF Asking
<1>3. (\A f \in fetches : ~Asking(f)) /\ (\A i \in DOMAIN answers' : ~Asking(answers'[i]))
  BY TheAnswerAsked DEF AnswerSeeds
<1>. QED
  BY <1>1, <1>2, <1>3 DEF OneRequest

-----------------------------------------------------------------------------
(* The whole stream *)

(* Sums, for the positions of updates on the socket ...                    *)
LEMMA OneTradeOn ==
  ASSUME NEW x \in Nat, NEW b \in Nat, NEW n \in Nat, NEW i \in Nat, x + b = n + i
  PROVE  x + (b + 1) = (n + 1) + i
OBVIOUS

(* ... when one is taken,                                                  *)
LEMMA OneFrameOff ==
  ASSUME NEW x \in Nat, NEW b \in Nat, NEW n \in Nat, NEW i \in Nat, x + (b + 1) = n + (i + 1)
  PROVE  x + b = n + i
OBVIOUS

(* ... when one is taken and set aside,                                    *)
LEMMA OneFrameOver ==
  ASSUME NEW x \in Nat, NEW a \in Nat, NEW b \in Nat, NEW n \in Nat, NEW i \in Nat,
         x + a + (b + 1) = n + i
  PROVE  x + (a + 1) + b = n + i
OBVIOUS

(* ... when one is sent,                                                   *)
LEMMA OneTradeMore ==
  ASSUME NEW x \in Nat, NEW a \in Nat, NEW b \in Nat, NEW n \in Nat, NEW i \in Nat,
         x + a + b = n + i
  PROVE  x + a + (b + 1) = (n + 1) + i
OBVIOUS

(* ... and of an earlier one beside a later one.                           *)
LEMMA EarlierIsLess ==
  ASSUME NEW x \in Nat, NEW y \in Nat, NEW a \in Nat, NEW b \in Nat, NEW n \in Nat, NEW i \in Nat,
         x + a + b = n + i, y + b = n, i <= a
  PROVE  x <= y
OBVIOUS

(* Tail keeps the last element.                                            *)
LEMMA LastOfTail ==
  ASSUME NEW S, NEW s \in Seq(S), s # <<>>
  PROVE  /\ Tail(s) = <<>> => Len(s) = 1
         /\ Tail(s) # <<>> => Tail(s)[Len(Tail(s))] = s[Len(s)]
<1>1. Tail(s) \in Seq(S) /\ Len(Tail(s)) + 1 = Len(s)
      /\ \A i \in DOMAIN Tail(s) : Tail(s)[i] = s[i + 1]
  BY TailFacts
<1>2. Len(s) \in Nat /\ Len(Tail(s)) \in Nat
  BY <1>1
<1>3. Tail(s) = <<>> => Len(Tail(s)) = 0
  <2>1. Len(<<>>) = 0
    OBVIOUS
  <2>. QED
    BY <2>1
<1>4. Tail(s) # <<>> => Len(Tail(s)) \in DOMAIN Tail(s)
  BY <1>1
<1>. QED
  BY <1>1, <1>2, <1>3, <1>4

(* An order the venue obeys leaves the last one to decide ...              *)
LEMMA ObeyEndsRight ==
  ASSUME Typed, OrdersEndRight, Obey
  PROVE  OrdersEndRight'
<1>1. orders \in Seq(Order) /\ orders # <<>> /\ orders' = Tail(orders) /\ UNCHANGED <<control, session, slot>>
      /\ streaming' = (orders[1] = "Subscribe")
  BY TailFacts DEF Obey, Typed, VenueTyped, slotVars
<1>2. orders' = <<>> => Len(orders) = 1
  BY <1>1, LastOfTail
<1>3. orders' # <<>> => orders'[Len(orders')] = orders[Len(orders)]
  BY <1>1, LastOfTail
<1>. QED
  BY <1>1, <1>2, <1>3 DEF OrdersEndRight, Destined

(* ... and so does one the pacer releases.                                 *)
LEMMA PaceEndsRight ==
  ASSUME Typed, OrdersEndRight, Pace
  PROVE  OrdersEndRight'
<1>1. control \in Seq(Order) /\ control # <<>> /\ control' = Tail(control) /\ orders \in Seq(Order)
      /\ UNCHANGED <<streaming, session, slot>> /\ orders' = Append(orders, control[1])
      /\ control[1] \in Order
  BY TailFacts DEF Pace, Typed, VenueTyped, SessionTyped, slotVars
<1>2. orders' # <<>> /\ orders'[Len(orders')] = control[1]
  BY <1>1, AppendFacts
<1>3. control' = <<>> => Len(control) = 1
  BY <1>1, LastOfTail
<1>4. control' # <<>> => control'[Len(control')] = control[Len(control)]
  BY <1>1, LastOfTail
<1>. QED
  BY <1>1, <1>2, <1>3, <1>4 DEF OrdersEndRight, Destined

(* A trade adds the next update to the socket.                             *)
LEMMA StreamOfTrades ==
  ASSUME Typed, StreamIsWhole, NEW n \in 1 .. 2, Trade(n)
  PROVE  StreamIsWhole'
<1>. SUFFICES ASSUME session = "up", ~Renewed
              PROVE  StreamIsWhole'
  BY DEF StreamIsWhole, Renewed, Trade
<1>1. n = 1 /\ now \in Nat /\ now' = now + 1 /\ wire \in Seq(Event) /\ Traded(n) \in Event
      /\ Traded(n).last = now + 1 /\ wire' = IF streaming THEN Append(wire, Traded(n)) ELSE wire
  BY TradeFacts DEF Renewed, Typed, VenueTyped
<1>2. UNCHANGED <<control, orders, streaming, session, kind, dropped>>
  BY DEF Trade
<1>3. CASE ~streaming
  BY <1>1, <1>2, <1>3 DEF StreamIsWhole, Renewed
<1>4. CASE streaming
  <2>1. /\ Len(wire') = Len(wire) + 1
        /\ \A i \in DOMAIN wire' : /\ i \in Nat
                                   /\ \/ i \in DOMAIN wire /\ wire'[i] = wire[i]
                                      \/ i = Len(wire) + 1 /\ wire'[i] = Traded(n)
    BY <1>1, <1>4, AppendFacts
  <2>2. \A i \in DOMAIN wire' : wire'[i].last + Len(wire') = now' + i
    <3>. SUFFICES ASSUME NEW i \in DOMAIN wire'
                  PROVE  wire'[i].last + Len(wire') = now' + i
      OBVIOUS
    <3>1. Len(wire) \in Nat
      BY <1>1
    <3>2. CASE i \in DOMAIN wire /\ wire'[i] = wire[i]
      <4>1. wire[i].last \in Nat /\ i \in Nat /\ wire[i].last + Len(wire) = now + i
        BY <1>1, <3>2, EventsTyped DEF StreamIsWhole
      <4>2. PICK x \in Nat : x = wire[i].last
        BY <4>1
      <4>3. x + (Len(wire) + 1) = (now + 1) + i
        <5>1. x + Len(wire) = now + i /\ now \in Nat /\ i \in Nat
          BY <1>1, <4>1, <4>2
        <5>. QED
          BY <3>1, <5>1, OneTradeOn
      <4>. QED
        BY <1>1, <2>1, <3>2, <4>2, <4>3
    <3>3. CASE i = Len(wire) + 1 /\ wire'[i] = Traded(n)
      BY <1>1, <2>1, <3>1, <3>3
    <3>. QED
      BY <2>1, <3>2, <3>3
  <2>. QED
    BY <1>2, <1>4, <2>2 DEF StreamIsWhole, Renewed
<1>. QED
  BY <1>3, <1>4

(* Taking a frame leaves no hole behind it.                                *)
LEMMA StreamIsTaken ==
  ASSUME Typed, StreamIsWhole, WireTaken
  PROVE  StreamIsWhole'
<1>. SUFFICES ASSUME session = "up", ~Renewed
              PROVE  StreamIsWhole'
  BY DEF StreamIsWhole, Renewed, WireTaken
<1>1. UNCHANGED <<control, orders, streaming, session, kind, dropped, now>> /\ now \in Nat /\ wire # <<>>
  BY DEF WireTaken, Typed, VenueTyped
<1>2. streaming
  BY <1>1 DEF StreamIsWhole
<1>3. ASSUME NEW i \in DOMAIN wire'
      PROVE  wire'[i].last + Len(wire') = now' + i
  <2>1. i + 1 \in DOMAIN wire /\ wire'[i] = wire[i + 1] /\ i \in Nat /\ Len(wire') + 1 = Len(wire)
        /\ wire \in Seq(Event) /\ wire' \in Seq(Event)
    BY WireTakenFacts
  <2>2. wire[i + 1].last \in Nat /\ wire[i + 1].last + Len(wire) = now + (i + 1)
    BY <2>1, EventsTyped DEF StreamIsWhole
  <2>3. PICK x \in Nat, m \in Nat : x = wire[i + 1].last /\ m = Len(wire')
    BY <2>1, <2>2
  <2>4. x + (m + 1) = now + (i + 1)
    BY <2>1, <2>2, <2>3
  <2>5. x + m = now + i
    <3>1. now \in Nat /\ i \in Nat
      BY <1>1, <2>1
    <3>. QED
      BY <2>4, <3>1, OneFrameOff
  <2>. QED
    BY <1>1, <2>1, <2>3, <2>5
<1>. QED
  BY <1>1, <1>2, <1>3 DEF StreamIsWhole, Renewed

(* A stream that is not renewed is only ever subscribed.                   *)
LEMMA StreamIsCommanded ==
  ASSUME Typed, StreamIsWhole, Commands
  PROVE  StreamIsWhole'
<1>. SUFFICES ASSUME session = "up", ~Renewed, ~dropped'
              PROVE  StreamIsWhole'
  BY DEF StreamIsWhole, Renewed, Commands
<1>1. control' = Append(control, "Subscribe") /\ UNCHANGED <<orders, streaming, session, kind, now, wire>>
      /\ control \in Seq(Order) /\ "Subscribe" \in Order
  BY DEF Commands, venueVars, Typed, SessionTyped, Order
<1>2. \A i \in DOMAIN control' : (i \in DOMAIN control /\ control'[i] = control[i]) \/ control'[i] = "Subscribe"
  BY <1>1, AppendFacts
<1>. QED
  BY <1>1, <1>2 DEF StreamIsWhole, Renewed

(* The frame at the head is the one its distance from the end says.        *)
LEMMA FirstDue ==
  ASSUME Typed, WireInOrder, StreamIsWhole, WireTaken, ~Renewed
  PROVE  /\ session = "up" /\ streaming /\ kind = "bitstamp" /\ now \in Nat
         /\ Head(wire).last \in Nat /\ Head(wire).first = Head(wire).last
         /\ Len(wire) \in Nat /\ Len(wire') \in Nat /\ Len(wire') + 1 = Len(wire)
         /\ Head(wire).last + Len(wire') = now
<1>1. session = "up" /\ streaming /\ kind = "bitstamp" /\ now \in Nat
  BY DEF WireTaken, Turn, Renewed, StreamIsWhole, Typed, VenueTyped
<1>2. wire \in Seq(Event) /\ wire' \in Seq(Event) /\ Head(wire) = wire[1] /\ 1 \in DOMAIN wire
      /\ Len(wire') + 1 = Len(wire)
  BY WireTakenFacts
<1>3. wire[1].last \in Nat /\ wire[1].first = wire[1].last /\ wire[1].last + Len(wire) = now + 1
  BY <1>1, <1>2, EventsTyped DEF WireInOrder, StreamIsWhole
<1>4. Len(wire) \in Nat /\ Len(wire') \in Nat
  BY <1>2
<1>. QED
  BY <1>1, <1>2, <1>3, <1>4

(* A frame that is skipped is one the book has.                            *)
LEMMA WholeSkips ==
  ASSUME Typed, WireInOrder, StreamIsWhole, SlotIsWhole, FrameSkips, AttemptIsSound
  PROVE  SlotIsWhole'
<1>1. UNCHANGED <<session, kind, dropped, slot, streaming, now>> /\ WireTaken
  BY DEF FrameSkips, Skip, slotVars, WireTaken
<1>. SUFFICES ASSUME ~Renewed, slot # NoSlot
              PROVE  SlotIsWhole'
  BY <1>1 DEF SlotIsWhole, Renewed
<1>2. Ready /\ slot.pending = <<>> /\ slot.cursor \in Nat /\ Head(wire).last <= slot.cursor
  BY FirstDue, SlotFacts, <1>1 DEF FrameSkips, AttemptIsSound, Typed, Slot
<1>3. slot.cursor + Len(wire') >= now
  BY <1>1, <1>2, FirstDue
<1>. QED
  BY <1>1, <1>2, <1>3, FirstDue DEF SlotIsWhole, Ready

(* One that is set aside follows what is set aside.                        *)
LEMMA WholeBuffers ==
  ASSUME Typed, WireInOrder, StreamIsWhole, SlotIsWhole, FrameBuffers
  PROVE  SlotIsWhole'
<1>1. UNCHANGED <<session, kind, dropped, streaming, now>> /\ WireTaken
  BY DEF FrameBuffers, WireTaken
<1>. SUFFICES ASSUME ~Renewed
              PROVE  SlotIsWhole'
  BY <1>1 DEF SlotIsWhole, Renewed
<1>. DEFINE s == slot.pending
            t == slot'.pending
            e == Head(wire)
<1>2. slot \in Slot /\ slot # NoSlot /\ t = Append(s, e) /\ slot'.phase = "bootstrapping"
  BY NoSlotIsNone DEF FrameBuffers, Buffers, Attempts
<1>3. s \in Seq(Event) /\ e \in Event /\ wire \in Seq(Event)
  BY <1>1, <1>2, PendingTyped, WireTakenFacts
<1>4. \A i \in DOMAIN s : s[i].last \in Nat /\ i \in Nat /\ s[i].last + Len(s) + Len(wire) = now + i
  BY <1>1, <1>2, <1>3, PendingTyped, FirstDue DEF SlotIsWhole
<1>. HIDE DEF s, t, e
<1>5. Len(t) = Len(s) + 1 /\ \A i \in DOMAIN t : /\ i \in Nat
                                                 /\ \/ i \in DOMAIN s /\ t[i] = s[i]
                                                    \/ i = Len(s) + 1 /\ t[i] = e
  BY <1>2, <1>3, AppendFacts
<1>6. e.last \in Nat /\ Len(wire') + 1 = Len(wire) /\ e.last + Len(wire') = now /\ now \in Nat
      /\ Len(wire') \in Nat /\ Len(wire) \in Nat /\ Len(s) \in Nat /\ session = "up" /\ streaming
  BY <1>1, <1>3, FirstDue DEF e
<1>7. ASSUME NEW i \in DOMAIN t
      PROVE  t[i].last + Len(t) + Len(wire') = now + i
  <2>1. CASE i \in DOMAIN s /\ t[i] = s[i]
    <3>1. PICK x \in Nat, a \in Nat, b \in Nat : x = s[i].last /\ a = Len(s) /\ b = Len(wire')
      BY <1>4, <1>6, <2>1
    <3>2. x + a + (b + 1) = now + i /\ i \in Nat
      BY <1>4, <1>6, <2>1, <3>1
    <3>3. x + (a + 1) + b = now + i
      BY <1>6, <3>2, OneFrameOver
    <3>. QED
      BY <1>5, <2>1, <3>1, <3>3
  <2>2. CASE i = Len(s) + 1 /\ t[i] = e
    <3>1. PICK x \in Nat, a \in Nat, b \in Nat : x = e.last /\ a = Len(s) /\ b = Len(wire')
      BY <1>6
    <3>2. x + (a + 1) + b = now + (a + 1)
      BY <1>6, <3>1
    <3>. QED
      BY <1>5, <2>2, <3>1, <3>2
  <2>. QED
    BY <1>5, <2>1, <2>2
<1>. QED
  BY <1>1, <1>2, <1>6, <1>7 DEF SlotIsWhole, Ready, t

(* One that is applied brings the book up to it.                           *)
LEMMA WholeAdvances ==
  ASSUME Typed, WireInOrder, AttemptIsSound, StreamIsWhole, SlotIsWhole, FrameAdvances
  PROVE  SlotIsWhole'
<1>1. UNCHANGED <<session, kind, dropped, streaming, now>> /\ WireTaken
  BY DEF FrameAdvances, WireTaken
<1>. SUFFICES ASSUME ~Renewed
              PROVE  SlotIsWhole'
  BY <1>1 DEF SlotIsWhole, Renewed
<1>2. slot'.cursor = Head(wire).last /\ slot'.pending = slot.pending /\ slot # NoSlot /\ Ready
  BY NoSlotIsNone DEF FrameAdvances, Advances
<1>3. slot'.pending = <<>>
  BY <1>2 DEF AttemptIsSound
<1>. QED
  BY <1>1, <1>2, <1>3, FirstDue DEF SlotIsWhole

(* What a slot that is seeded has set aside.                               *)
LEMMA SeedsOnPending ==
  ASSUME Typed, AttemptIsSound, OneRequest, AnswerSeeds
  PROVE  LET s == slot.pending
             at == Head(answers).at
         IN  /\ slot \in Slot /\ slot # NoSlot /\ at \in Nat /\ s \in Seq(Event) /\ s # <<>>
             /\ Len(s) \in DOMAIN s /\ 1 \in DOMAIN s /\ slot.first = s[1].first
             /\ session = "up" /\ UNCHANGED <<kind, now, session, dropped, wire, streaming>>
             /\ Seeds(at)
<1>1. slot \in Slot /\ slot # NoSlot /\ slot.phase = "bootstrapping" /\ slot.fetching
      /\ Seeds(Head(answers).at)
  BY AskingMeansFetching DEF AnswerSeeds, Seeds
<1>2. Head(answers).at \in Nat
  BY AnswerTakenFacts, GensTyped DEF AnswerSeeds, Snapshot
<1>3. slot.pending \in Seq(Event) /\ slot.pending # <<>> /\ slot.first = slot.pending[1].first
  BY <1>1, PendingTyped DEF AttemptIsSound
<1>4. Len(slot.pending) \in DOMAIN slot.pending /\ 1 \in DOMAIN slot.pending
  BY <1>3
<1>. QED
  BY <1>1, <1>2, <1>3, <1>4 DEF AnswerSeeds, AnswerTaken, Turn, venueVars

(* The book that is seeded stands where the socket goes on.                *)
LEMMA WholeSeeds ==
  ASSUME Typed, AttemptIsSound, OneRequest, StreamIsWhole, SlotIsWhole, AnswerSeeds
  PROVE  SlotIsWhole'
<1>. DEFINE s == slot.pending
            at == Head(answers).at
<1>1. /\ slot \in Slot /\ slot # NoSlot /\ at \in Nat /\ s \in Seq(Event) /\ s # <<>>
      /\ Len(s) \in DOMAIN s /\ session = "up"
      /\ UNCHANGED <<kind, now, session, dropped, wire, streaming>> /\ Seeds(at)
  BY SeedsOnPending
<1>. SUFFICES ASSUME ~Renewed
              PROVE  SlotIsWhole'
  BY <1>1 DEF SlotIsWhole, Renewed
<1>2. \A i \in DOMAIN s : s[i].last \in Nat /\ i \in Nat /\ i <= Len(s) /\ s[i].last + Len(s) + Len(wire) = now + i
  BY <1>1, PendingTyped DEF SlotIsWhole
<1>3. streaming
  BY <1>1 DEF SlotIsWhole
<1>4. Len(wire) \in Nat /\ now \in Nat /\ Len(s) \in Nat
  BY <1>1 DEF Typed, VenueTyped
<1>5. slot'.pending = <<>>
  BY <1>1 DEF Seeds
<1>6. slot'.cursor + Len(wire) >= now
  <2>1. s[Len(s)].last \in Nat /\ s[Len(s)].last + Len(wire) = now
    <3>1. PICK x \in Nat, a \in Nat, b \in Nat : x = s[Len(s)].last /\ a = Len(s) /\ b = Len(wire)
      BY <1>1, <1>2, <1>4
    <3>2. x + a + b = now + a
      BY <1>1, <1>2, <3>1
    <3>3. x + b = now
      BY <1>4, <3>2
    <3>. QED
      BY <3>1, <3>3
  <2>2. CASE Kept(at) = {}
    <3>1. slot'.cursor = at
      BY <1>1, <2>2 DEF Seeds
    <3>2. PICK x \in Nat : x = s[Len(s)].last /\ x + Len(wire) = now
      BY <2>1
    <3>3. ~(x > at)
      BY <1>1, <2>2, <3>2 DEF Kept
    <3>. QED
      BY <1>1, <1>4, <3>1, <3>2, <3>3
  <2>3. CASE Kept(at) # {}
    <3>1. slot'.cursor = s[Max(Kept(at))].last /\ Max(Kept(at)) \in Kept(at) /\ Kept(at) \subseteq DOMAIN s
      BY <1>1, <2>3, KeptFacts DEF Seeds
    <3>2. PICK m \in DOMAIN s : m = Max(Kept(at)) /\ m \in Kept(at)
      BY <3>1
    <3>3. PICK x \in Nat, y \in Nat, a \in Nat, b \in Nat :
            x = s[m].last /\ y = s[Len(s)].last /\ a = Len(s) /\ b = Len(wire)
      BY <1>2, <1>4, <2>1, <3>2
    <3>4. x + a + b = now + m /\ y + b = now /\ m \in Nat /\ m <= a /\ x > at
      BY <1>2, <2>1, <3>2, <3>3 DEF Kept
    <3>5. y > at
      <4>1. x <= y
        BY <1>4, <3>4, EarlierIsLess
      <4>2. at \in Nat /\ x > at
        BY <1>1, <3>4
      <4>. QED
        BY <4>1, <4>2
    <3>6. Len(s) \in Kept(at)
      BY <1>1, <3>3, <3>5 DEF Kept
    <3>7. Len(s) <= m
      BY <1>1, <2>3, <3>2, <3>6, KeptFacts
    <3>8. m = a
      BY <3>3, <3>4, <3>7
    <3>. QED
      BY <1>4, <3>1, <3>2, <3>3, <3>4, <3>8
  <2>. QED
    BY <2>2, <2>3
<1>. QED
  BY <1>1, <1>3, <1>5, <1>6 DEF SlotIsWhole

(* A trade comes after what the slot holds.                                *)
LEMMA WholeTrades ==
  ASSUME Typed, StreamIsWhole, SlotIsWhole, NEW n \in 1 .. 2, Trade(n)
  PROVE  SlotIsWhole'
<1>1. UNCHANGED <<session, kind, dropped, slot, streaming>>
  BY DEF Trade, slotVars
<1>. SUFFICES ASSUME ~Renewed, session = "up", slot # NoSlot
              PROVE  SlotIsWhole'
  BY <1>1 DEF SlotIsWhole, Renewed
<1>2. n = 1 /\ now \in Nat /\ now' = now + 1 /\ wire \in Seq(Event) /\ Traded(n) \in Event
      /\ wire' = IF streaming THEN Append(wire, Traded(n)) ELSE wire
  BY TradeFacts DEF Renewed, Typed, VenueTyped
<1>3. slot \in Slot
  BY SlotFacts DEF Typed
<1>4. CASE ~streaming
  BY <1>1, <1>4 DEF SlotIsWhole, Ready
<1>5. CASE streaming
  <2>1. Len(wire') = Len(wire) + 1 /\ Len(wire) \in Nat
    BY <1>2, <1>5, AppendFacts
  <2>2. slot.cursor \in Nat /\ Len(slot.pending) \in Nat
    BY <1>3, PendingTyped DEF Slot
  <2>3. ASSUME NEW i \in DOMAIN slot.pending
        PROVE  slot.pending[i].last + Len(slot.pending) + Len(wire') = now' + i
    <3>1. slot.pending[i].last \in Nat /\ i \in Nat
          /\ slot.pending[i].last + Len(slot.pending) + Len(wire) = now + i
      BY <1>3, PendingTyped DEF SlotIsWhole
    <3>2. PICK x \in Nat, a \in Nat, b \in Nat :
            x = slot.pending[i].last /\ a = Len(slot.pending) /\ b = Len(wire)
      BY <2>1, <2>2, <3>1
    <3>3. x + a + b = now + i
      BY <3>1, <3>2
    <3>4. x + a + (b + 1) = (now + 1) + i
      <4>1. now \in Nat /\ i \in Nat
        BY <1>2, <3>1
      <4>. QED
        BY <3>3, <4>1, OneTradeMore
    <3>. QED
      BY <1>2, <2>1, <3>2, <3>4
  <2>4. Ready => slot.cursor + Len(wire') >= now'
    <3>1. PICK c \in Nat, b \in Nat : c = slot.cursor /\ b = Len(wire)
      BY <2>1, <2>2
    <3>2. Ready => c + b >= now
      BY <3>1 DEF SlotIsWhole
    <3>3. Ready => c + (b + 1) >= now + 1
      BY <1>2, <3>2
    <3>. QED
      BY <1>2, <2>1, <3>1, <3>3
  <2>. QED
    BY <1>1, <1>5, <2>3, <2>4 DEF SlotIsWhole, Ready
<1>. QED
  BY <1>4, <1>5

(* Orders leave a whole stream only to a slot that is new.                 *)
LEMMA WholeCommands ==
  ASSUME Typed, SlotIsWhole, Commands
  PROVE  SlotIsWhole'
<1>1. CASE slot' = NoSlot
  BY <1>1 DEF SlotIsWhole
<1>2. CASE IsFresh(slot', generation)
  BY <1>2, FreshFacts DEF SlotIsWhole, Ready
<1>. QED
  BY <1>1, <1>2 DEF Commands

-----------------------------------------------------------------------------
(* The book *)

(* Applying the next update gives the venue's next book: on Binance its    *)
(* number says it is the next, on Bitstamp the whole stream does.          *)
LEMMA BooksAdvance ==
  ASSUME Typed, WireInOrder, StreamIsWhole, SlotIsWhole, BooksAreVenues, FrameAdvances
  PROVE  BooksAreVenues'
<1>1. UNCHANGED <<session, kind, dropped, now>> /\ WireTaken
  BY DEF FrameAdvances, WireTaken
<1>. SUFFICES ASSUME kind = "binance" \/ ~dropped
              PROVE  slot'.book = VenueBook(slot'.cursor)
  BY <1>1 DEF BooksAreVenues, BookIsVenues
<1>. DEFINE e == Head(wire)
<1>2. /\ slot \in Slot /\ slot # NoSlot /\ Ready /\ slot'.cursor = e.last
      /\ slot'.book = Apply(slot.book, e)
  BY NoSlotIsNone DEF FrameAdvances, Advances
<1>3. e \in Event /\ e.first \in Nat /\ e.last \in Nat /\ e.first <= e.last /\ slot.cursor \in Nat
  BY <1>1, <1>2, WireTakenFacts, EventsTyped DEF WireInOrder, Numbered, Slot
<1>4. slot.book = VenueBook(slot.cursor)
  BY <1>2 DEF BooksAreVenues, BookIsVenues
<1>5. e.first <= slot.cursor + 1 /\ slot.cursor <= e.last
  <2>1. CASE kind = "binance"
    <3>1. /\ e.first <= slot.cursor + 1
          /\ slot.phase = "live" => e.first = slot.cursor + 1
          /\ slot.phase = "seeded" => slot.cursor + 1 <= e.last
          /\ slot.phase \in {"seeded", "live"}
      BY <1>2, <2>1 DEF FrameAdvances, Advances, Ready
    <3>. QED
      BY <1>3, <3>1
  <2>2. CASE kind # "binance"
    <3>1. slot.cursor < e.last
      BY <2>2 DEF FrameAdvances, Advances
    <3>2. ~Renewed
      BY <2>2 DEF Renewed
    <3>3. session = "up" /\ e.first = e.last /\ Len(wire') + 1 = Len(wire) /\ e.last + Len(wire') = now
          /\ Len(wire') \in Nat /\ Len(wire) \in Nat /\ now \in Nat
      BY <1>1, <3>2, FirstDue
    <3>4. slot.cursor + Len(wire) >= now
      BY <1>2, <3>2, <3>3 DEF SlotIsWhole
    <3>5. slot.cursor + 1 >= e.last
      <4>. PICK c \in Nat, a \in Nat, x \in Nat : c = slot.cursor /\ a = Len(wire') /\ x = e.last
        BY <1>3, <3>3
      <4>1. c + (a + 1) >= x + a
        BY <3>3, <3>4
      <4>2. c + 1 >= x
        BY <4>1
      <4>. QED
        BY <4>2
    <3>. QED
      BY <1>3, <3>1, <3>3, <3>5
  <2>. QED
    BY <2>1, <2>2
<1>. QED
  BY <1>2, <1>3, <1>4, <1>5, ApplyWhole

(* Binance checks that nothing is missing between snapshot and updates ... *)
LEMMA SeedsInSequence ==
  ASSUME slot \in Slot, NEW at \in Nat, Kept(at) # {}, ~Gapped(at),
         Straddles(slot.pending[Min(Kept(at))], at)
  PROVE  Covers(slot.pending, Kept(at), at, slot.pending[Max(Kept(at))].last)
<1>. DEFINE s == slot.pending
            K == Kept(at)
            c == s[Max(K)].last
<1>1. /\ K \subseteq Nat /\ K # {}
      /\ \A i \in K : s[i].first \in Nat /\ s[i].last \in Nat
      /\ Min(K) \in K /\ \A i \in K : Min(K) <= i
      /\ Max(K) \in K
  BY KeptFacts
<1>2. \A i, j \in K : i < j /\ (\A k \in K : ~(i < k /\ k < j)) => s[j].first = s[i].last + 1
  BY DEF Gapped
<1>3. s[Min(K)].first <= at + 1
  BY DEF Straddles
<1>. HIDE DEF s, K
<1>4. ASSUME NEW k \in at + 1 .. c
      PROVE  \E i \in K : s[i].first <= k /\ k <= s[i].last
  <2>0. PICK m \in K, n \in K, y \in Nat : m = Min(K) /\ n = Max(K) /\ y = s[n].last
    BY <1>1
  <2>. k \in Nat /\ k <= y /\ at + 1 <= k
    BY <2>0
  <2>1. PICK j \in K : k <= s[j].last /\ \A x \in K : k <= s[x].last => j <= x
    <3>. DEFINE T == {x \in K : k <= s[x].last}
    <3>1. T \subseteq Nat /\ n \in T
      BY <1>1, <2>0
    <3>2. PICK j \in T : \A t \in T : j <= t
      <4>. HIDE DEF T
      <4>. QED
        BY <3>1, LeastNatural
    <3>. QED
      BY <3>2
  <2>2. CASE j = Min(K)
    <3>1. s[j].first \in Nat /\ s[j].first <= at + 1
      BY <1>1, <1>3, <2>2
    <3>2. s[j].first <= k
      BY <3>1
    <3>. QED
      BY <2>1, <3>2
  <2>3. CASE j # Min(K)
    <3>. DEFINE P == {x \in K : x < j}
    <3>1. P \subseteq Nat /\ m \in P /\ j \in Nat /\ \A x \in P : x <= j
      <4>1. m \in Nat /\ j \in Nat /\ m <= j /\ m # j
        BY <1>1, <2>0, <2>3
      <4>2. m < j
        BY <4>1
      <4>3. \A x \in P : x \in Nat /\ x <= j
        BY <1>1, <4>1
      <4>. QED
        BY <2>0, <4>1, <4>2, <4>3
    <3>2. Max(P) \in P /\ \A x \in P : x <= Max(P)
      <4>. HIDE DEF P
      <4>. QED
        BY <3>1, MaxOf
    <3>3. PICK i \in K : i < j /\ \A x \in K : x < j => x <= i
      BY <3>2
    <3>4. i \in Nat /\ \A x \in K : ~(i < x /\ x < j)
      BY <1>1, <3>1, <3>3
    <3>5. s[j].first = s[i].last + 1
      BY <1>2, <3>3, <3>4
    <3>6. ~(k <= s[i].last)
      BY <2>1, <3>1, <3>3, <3>4
    <3>7. s[j].first <= k
      <4>1. PICK z \in Nat : z = s[i].last
        BY <1>1
      <4>2. z < k
        BY <3>6, <4>1
      <4>. QED
        BY <3>5, <4>1, <4>2
    <3>. QED
      BY <2>1, <3>7
  <2>. QED
    BY <2>2, <2>3
<1>. QED
  BY <1>4 DEF Covers, s, K

(* ... and on Bitstamp nothing is, when the stream is whole and the        *)
(* snapshot is not older than it.                                          *)
LEMMA SeedsInStep ==
  ASSUME Typed, PendingInOrder, SlotIsWhole, kind # "binance", ~dropped, session = "up",
         slot \in Slot, NEW at \in Nat, Kept(at) # {}, slot.first = slot.pending[1].first,
         slot.first <= at
  PROVE  Covers(slot.pending, Kept(at), at, slot.pending[Max(Kept(at))].last)
<1>. DEFINE s == slot.pending
            m == Max(Kept(at))
<1>1. /\ m \in Kept(at) /\ m \in DOMAIN s /\ s \in Seq(Event)
  BY KeptFacts, PendingTyped
<1>2. slot # NoSlot /\ kind = "bitstamp" /\ ~Renewed /\ now \in Nat /\ Len(wire) \in Nat
  BY NoSlotIsNone DEF Typed, VenueTyped, Renewed
<1>3. \A i \in DOMAIN s : /\ s[i].first = s[i].last /\ s[i].last \in Nat
                          /\ i \in Nat /\ 1 <= i /\ i <= Len(s)
                          /\ s[i].last + Len(s) + Len(wire) = now + i
  BY <1>1, <1>2, PendingTyped DEF PendingInOrder, SlotIsWhole
<1>4. 1 \in DOMAIN s /\ DOMAIN s = 1 .. Len(s) /\ Len(s) \in Nat
  BY <1>1
<1>5. PICK a \in Nat, b \in Nat, x \in Nat, y \in Nat :
        a = Len(s) /\ b = Len(wire) /\ x = s[1].last /\ y = s[m].last
  BY <1>1, <1>2, <1>3, <1>4
<1>6. x + a + b = now + 1 /\ y + a + b = now + m /\ x <= at /\ m \in Nat /\ m <= a
  BY <1>1, <1>3, <1>4, <1>5
<1>. HIDE DEF s, m
<1>7. ASSUME NEW k \in at + 1 .. y
      PROVE  \E i \in Kept(at) : s[i].first <= k /\ k <= s[i].last
  <2>1. k \in Nat /\ x < k /\ k <= y /\ at < k
    BY <1>6
  <2>2. PICK i \in Nat : k + a + b = now + i /\ 1 <= i /\ i <= a
    <3>1. ASSUME NEW n \in Nat, n = now
          PROVE  \E i \in Nat : k + a + b = n + i /\ 1 <= i /\ i <= a
      <4>1. k + a + b - n \in Nat /\ 1 <= k + a + b - n /\ k + a + b - n <= a
        BY <1>6, <2>1, <3>1
      <4>2. k + a + b = n + (k + a + b - n)
        BY <4>1
      <4>. QED
        BY <4>1, <4>2
    <3>. QED
      BY <1>2, <3>1
  <2>3. i \in DOMAIN s
    BY <1>4, <1>5, <2>2
  <2>4. s[i].last = k
    <3>1. PICK z \in Nat : z = s[i].last
      BY <1>3, <2>3
    <3>2. z + a + b = k + a + b
      BY <1>3, <1>5, <2>2, <2>3, <3>1
    <3>3. z = k
      BY <2>1, <3>2
    <3>. QED
      BY <3>1, <3>3
  <2>5. i \in Kept(at) /\ s[i].first = k
    BY <1>3, <2>1, <2>3, <2>4 DEF Kept, s
  <2>. QED
    BY <2>1, <2>4, <2>5
<1>. QED
  BY <1>5, <1>7 DEF Covers, s, m

(* So a book that is seeded is the venue's.                                *)
LEMMA BooksSeed ==
  ASSUME Typed, PendingInOrder, AttemptIsSound, OneRequest, StreamIsWhole, SlotIsWhole, AnswerSeeds
  PROVE  BooksAreVenues'
<1>. DEFINE s == slot.pending
            at == Head(answers).at
            K == Kept(at)
<1>1. /\ slot \in Slot /\ slot # NoSlot /\ at \in Nat /\ s \in Seq(Event) /\ s # <<>>
      /\ 1 \in DOMAIN s /\ slot.first = s[1].first
      /\ session = "up" /\ UNCHANGED <<kind, dropped>> /\ Seeds(at)
  BY SeedsOnPending
<1>. SUFFICES ASSUME kind = "binance" \/ ~dropped
              PROVE  slot'.book = VenueBook(slot'.cursor)
  BY <1>1 DEF BooksAreVenues, BookIsVenues
<1>2. slot'.book = Replay(VenueBook(at), s, K) /\ slot'.cursor = IF K = {} THEN at ELSE s[Max(K)].last
  BY <1>1 DEF Seeds
<1>3. /\ K \subseteq DOMAIN s
      /\ \A i \in K : at < s[i].last /\ s[i].last \in Nat /\ s[i].first \in Nat /\ i \in Nat
      /\ K # {} => Max(K) \in K /\ \A i \in K : i <= Max(K)
  BY <1>1, KeptFacts
<1>4. \A i, j \in K : i <= j => s[i].last <= s[j].last
  <2>. SUFFICES ASSUME NEW i \in K, NEW j \in K, i <= j
                PROVE  s[i].last <= s[j].last
    OBVIOUS
  <2>1. CASE i = j
    BY <1>3, <2>1
  <2>2. CASE i # j
    <3>1. i < j
      BY <1>3, <2>2
    <3>2. s[i].last < s[j].first /\ s[j].first <= s[j].last
      BY <1>1, <1>3, <3>1 DEF PendingInOrder, Numbered
    <3>. QED
      BY <1>3, <3>2
  <2>. QED
    BY <2>1, <2>2
<1>5. CASE K = {}
  <2>1. Covers(s, K, at, at)
    BY <1>1 DEF Covers
  <2>. HIDE DEF K, s, at
  <2>2. Replay(VenueBook(at), s, K) = VenueBook(at)
    BY <1>1, <1>5, <2>1, ReplayWhole
  <2>. QED
    BY <1>2, <1>5, <2>2
<1>6. CASE K # {}
  <2>1. Covers(s, K, at, s[Max(K)].last)
    <3>1. CASE kind = "binance"
      BY <1>1, <1>6, <3>1, SeedsInSequence DEF Seeds
    <3>2. CASE kind # "binance"
      BY <1>1, <1>6, <3>2, SeedsInStep DEF Seeds
    <3>. QED
      BY <3>1, <3>2
  <2>. HIDE DEF K, s, at
  <2>2. PICK c \in Nat : c = s[Max(K)].last /\ at <= c
    BY <1>1, <1>3, <1>6
  <2>3. \A i \in K : at < s[i].last /\ s[i].last <= c
    BY <1>3, <1>4, <1>6, <2>2
  <2>4. Replay(VenueBook(at), s, K) = VenueBook(c)
    BY <1>1, <1>3, <1>4, <2>1, <2>2, <2>3, ReplayWhole
  <2>. QED
    BY <1>2, <1>6, <2>2, <2>4
<1>. QED
  BY <1>5, <1>6

(* An update that leaves the top alone need not be published.              *)
LEMMA TopAdvances ==
  ASSUME Typed, ReadersSeeTheTop, FrameAdvances
  PROVE  ReadersSeeTheTop'
<1>. DEFINE e == Head(wire)
<1>1. /\ slot \in Slot /\ Ready /\ slot'.phase = "live" /\ slot'.book = Apply(slot.book, e)
      /\ published' = IF slot.phase = "seeded" \/ 0 \in Touched(e) THEN Top(slot'.book) ELSE published
  BY DEF FrameAdvances, Advances
<1>2. published = Top(slot.book)
  BY <1>1 DEF ReadersSeeTheTop
<1>3. 0 \notin Touched(e) => slot'.book[0] = slot.book[0]
  <2>1. 0 \in Levels
    BY SizesAssumption DEF Levels
  <2>. QED
    BY <1>1, <2>1 DEF Apply
<1>. QED
  BY <1>1, <1>2, <1>3 DEF ReadersSeeTheTop, Ready, Top

-----------------------------------------------------------------------------
(* The steps, one part of the invariant at a time *)

(* Every step keeps the types of the venue,                                *)
LEMMA VenueTypedStep ==
  ASSUME Typed, [Next]_vars
  PROVE  VenueTyped'
<1>1. ASSUME NEW n \in 1 .. 2, Trade(n)
      PROVE  VenueTyped'
  BY <1>1, TradeFacts DEF Trade, Typed, VenueTyped
<1>2. CASE Obey
  BY <1>2 DEF Obey, Typed, VenueTyped
<1>3. CASE Pace
  BY <1>3, AppendFacts, TailFacts DEF Pace, Typed, VenueTyped, SessionTyped
<1>4. CASE FrameSkips
  BY <1>4 DEF FrameSkips, WireTaken, Typed, VenueTyped
<1>5. CASE FrameRestarts
  BY <1>5 DEF FrameRestarts, WireTaken, Typed, VenueTyped
<1>6. CASE FrameBuffers
  BY <1>6 DEF FrameBuffers, WireTaken, Typed, VenueTyped
<1>7. CASE FrameAdvances
  BY <1>7 DEF FrameAdvances, WireTaken, Typed, VenueTyped
<1>8. CASE SessionEnds
  BY <1>8, EmptyTyped DEF SessionEnds, Typed, VenueTyped
<1>9. CASE LaneCloses
  BY <1>9, EmptyTyped DEF LaneCloses, Typed, VenueTyped
<1>10. CASE
           \/ (\E f \in fetches, ok \in BOOLEAN, at \in 0 .. MaxUpdates : Answer(f, ok, at))
           \/ (\E f \in fetches : AbortLands(f)) \/ Commands \/ AnswerSkips
           \/ AnswerRestarts \/ AnswerRefetches \/ AnswerSeeds \/ Sweeps \/ Reconnects
           \/ Connected \/ ConnectFails \/ UNCHANGED vars
  <2>1. UNCHANGED <<kind, now, streaming, wire, orders>>
    BY <1>10
       DEF Answer, AbortLands, Commands, AnswerSkips, AnswerTaken, Skip, AnswerRestarts,
           Restarts, AnswerRefetches, Refetches, Attempts, AnswerSeeds, Seeds, Sweeps,
           Reconnects, Connected, ConnectFails, vars, venueVars
  <2>. QED
    BY <2>1 DEF Typed, VenueTyped
<1>. QED
  BY <1>1, <1>2, <1>3, <1>4, <1>5, <1>6, <1>7, <1>8, <1>9, <1>10, NextCases

(* ... of the fetch tasks,                                                 *)
LEMMA FetchTypedStep ==
  ASSUME Typed, [Next]_vars
  PROVE  FetchTyped'
<1>1. ASSUME NEW f \in fetches, NEW ok \in BOOLEAN, NEW at \in 0 .. MaxUpdates, Answer(f, ok, at)
      PROVE  FetchTyped'
  BY <1>1 DEF Answer, Typed, FetchTyped, Fetch, Snapshot
<1>2. ASSUME NEW f \in fetches, AbortLands(f)
      PROVE  FetchTyped'
  BY <1>2 DEF AbortLands, Typed, FetchTyped
<1>3. CASE FrameBuffers
  <2>1. UNCHANGED answers /\ (Arms \/ UNCHANGED fetches) /\ slot \in Slot
    BY <1>3 DEF FrameBuffers, WireTaken, Buffers, Attempts, ArmsNot
  <2>2. [gen |-> slot.gen, nth |-> asked] \in Fetch
    BY <2>1 DEF Typed, SlotTyped, Slot, Fetch
  <2>. QED
    BY <2>1, <2>2 DEF Arms, Typed, FetchTyped
<1>4. CASE AnswerSkips
  BY <1>4 DEF AnswerSkips, AnswerTaken, Skip, Typed, FetchTyped
<1>5. CASE AnswerRestarts
  BY <1>5 DEF AnswerRestarts, AnswerTaken, Restarts, Typed, FetchTyped
<1>6. CASE AnswerRefetches
  BY <1>6
     DEF AnswerRefetches, AnswerTaken, Refetches, Attempts, Typed, FetchTyped, Fetch,
         SlotTyped, Slot, Arms
<1>7. CASE AnswerSeeds
  BY <1>7 DEF AnswerSeeds, AnswerTaken, Seeds, Typed, FetchTyped
<1>8. CASE (\E n \in 1 .. 2 : Trade(n)) \/ Obey \/ Commands \/ Pace \/ FrameSkips
           \/ FrameRestarts \/ FrameAdvances \/ Sweeps \/ SessionEnds \/ Reconnects
           \/ Connected \/ ConnectFails \/ LaneCloses \/ UNCHANGED vars
  <2>1. UNCHANGED <<fetches, answers>>
    BY <1>8
       DEF Trade, Obey, Commands, Pace, FrameSkips, WireTaken, Skip, FrameRestarts,
           Restarts, FrameAdvances, Advances, Sweeps, SessionEnds, Reconnects, Connected,
           ConnectFails, LaneCloses, vars, ArmsNot, fetchVars
  <2>. QED
    BY <2>1 DEF Typed, FetchTyped
<1>. QED
  BY <1>1, <1>2, <1>3, <1>4, <1>5, <1>6, <1>7, <1>8, NextCases

(* ... of the session,                                                     *)
LEMMA SessionTypedStep ==
  ASSUME Typed, [Next]_vars
  PROVE  SessionTyped'
<1>1. CASE Commands
  BY <1>1 DEF Commands, Typed, SessionTyped
<1>2. CASE Pace
  BY <1>2 DEF Pace, Typed, SessionTyped
<1>3. CASE SessionEnds
  BY <1>3 DEF SessionEnds, Typed, SessionTyped
<1>4. CASE Reconnects
  BY <1>4 DEF Reconnects, Typed, SessionTyped
<1>5. CASE Connected
  BY <1>5, AppendFacts DEF Connected, Typed, SessionTyped, Order
<1>6. CASE ConnectFails
  BY <1>6 DEF ConnectFails, Typed, SessionTyped
<1>7. CASE LaneCloses
  BY <1>7 DEF LaneCloses, Typed, SessionTyped
<1>8. CASE (\E n \in 1 .. 2 : Trade(n)) \/ Obey
           \/ (\E f \in fetches, ok \in BOOLEAN, at \in 0 .. MaxUpdates : Answer(f, ok, at))
           \/ (\E f \in fetches : AbortLands(f)) \/ FrameSkips \/ FrameRestarts
           \/ FrameBuffers \/ FrameAdvances \/ AnswerSkips \/ AnswerRestarts
           \/ AnswerRefetches \/ AnswerSeeds \/ Sweeps \/ UNCHANGED vars
  <2>1. UNCHANGED <<session, control, dropped>>
    BY <1>8
       DEF Trade, Obey, Answer, AbortLands, FrameSkips, WireTaken, Skip, FrameRestarts,
           Restarts, FrameBuffers, Buffers, Attempts, FrameAdvances, Advances, AnswerSkips,
           AnswerTaken, AnswerRestarts, AnswerRefetches, Refetches, AnswerSeeds, Seeds,
           Sweeps, vars
  <2>. QED
    BY <2>1 DEF Typed, SessionTyped
<1>. QED
  BY <1>1, <1>2, <1>3, <1>4, <1>5, <1>6, <1>7, <1>8, NextCases

(* ... and of the slot,                                                    *)
LEMMA SlotTypedStep ==
  ASSUME Typed, [Next]_vars
  PROVE  SlotTyped'
<1>1. CASE Commands
  BY <1>1 DEF Commands, Typed, SlotTyped, IsFresh
<1>2. CASE FrameRestarts
  BY <1>2 DEF FrameRestarts, Restarts, Typed, SlotTyped, IsFresh
<1>3. CASE FrameBuffers
  BY <1>3 DEF FrameBuffers, Buffers, Attempts, Typed, SlotTyped, Arms, ArmsNot
<1>4. CASE FrameAdvances
  BY <1>4 DEF FrameAdvances, Advances, Typed, SlotTyped, ArmsNot
<1>5. CASE AnswerRestarts
  BY <1>5 DEF AnswerRestarts, Restarts, Typed, SlotTyped, IsFresh
<1>6. CASE AnswerRefetches
  BY <1>6 DEF AnswerRefetches, Refetches, Attempts, Typed, SlotTyped, Arms
<1>7. CASE AnswerSeeds
  BY <1>7 DEF AnswerSeeds, Seeds, Typed, SlotTyped
<1>8. CASE Sweeps
  BY <1>8 DEF Sweeps, Restarts, Typed, SlotTyped, IsFresh
<1>9. CASE Reconnects
  BY <1>9 DEF Reconnects, Restarts, Skip, Typed, SlotTyped, IsFresh, slotVars
<1>10. CASE LaneCloses
  BY <1>10 DEF LaneCloses, Typed, SlotTyped
<1>11. CASE (\E n \in 1 .. 2 : Trade(n)) \/ Obey
           \/ (\E f \in fetches, ok \in BOOLEAN, at \in 0 .. MaxUpdates : Answer(f, ok, at))
           \/ (\E f \in fetches : AbortLands(f)) \/ Pace \/ FrameSkips \/ AnswerSkips
           \/ SessionEnds \/ Connected \/ ConnectFails \/ UNCHANGED vars
  <2>1. UNCHANGED <<slot, generation, asked>>
    BY <1>11
       DEF Trade, Obey, Answer, AbortLands, Pace, FrameSkips, WireTaken, Skip, AnswerSkips,
           AnswerTaken, SessionEnds, Connected, ConnectFails, vars, slotVars
  <2>. QED
    BY <2>1 DEF Typed, SlotTyped
<1>. QED
  BY <1>1, <1>2, <1>3, <1>4, <1>5, <1>6, <1>7, <1>8, <1>9, <1>10, <1>11, NextCases

(* ... the order of the socket,                                            *)
LEMMA WireInOrderStep ==
  ASSUME Typed, WireInOrder, [Next]_vars
  PROVE  WireInOrder'
<1>1. ASSUME NEW n \in 1 .. 2, Trade(n)
      PROVE  WireInOrder'
  BY <1>1, TradeKeepsOrder
<1>2. CASE FrameSkips
  BY <1>2, WireTakenKeepsOrder DEF FrameSkips
<1>3. CASE FrameRestarts
  BY <1>3, WireTakenKeepsOrder DEF FrameRestarts
<1>4. CASE FrameBuffers
  BY <1>4, WireTakenKeepsOrder DEF FrameBuffers
<1>5. CASE FrameAdvances
  BY <1>5, WireTakenKeepsOrder DEF FrameAdvances
<1>6. CASE SessionEnds
  BY <1>6 DEF SessionEnds, WireInOrder, Numbered
<1>7. CASE LaneCloses
  BY <1>7 DEF LaneCloses, WireInOrder, Numbered
<1>8. CASE Obey
           \/ (\E f \in fetches, ok \in BOOLEAN, at \in 0 .. MaxUpdates : Answer(f, ok, at))
           \/ (\E f \in fetches : AbortLands(f)) \/ Commands \/ Pace \/ AnswerSkips
           \/ AnswerRestarts \/ AnswerRefetches \/ AnswerSeeds \/ Sweeps \/ Reconnects
           \/ Connected \/ ConnectFails \/ UNCHANGED vars
  <2>1. UNCHANGED <<kind, now, wire>>
    BY <1>8
       DEF Obey, Answer, AbortLands, Commands, Pace, AnswerSkips, AnswerTaken, Skip,
           AnswerRestarts, Restarts, AnswerRefetches, Refetches, Attempts, AnswerSeeds,
           Seeds, Sweeps, Reconnects, Connected, ConnectFails, vars, venueVars
  <2>. QED
    BY <2>1 DEF WireInOrder, Numbered
<1>. QED
  BY <1>1, <1>2, <1>3, <1>4, <1>5, <1>6, <1>7, <1>8, NextCases

(* ... the order of what is set aside,                                     *)
LEMMA PendingInOrderStep ==
  ASSUME Typed, WireInOrder, PendingInOrder, [Next]_vars
  PROVE  PendingInOrder'
<1>1. ASSUME NEW n \in 1 .. 2, Trade(n)
      PROVE  PendingInOrder'
  BY <1>1, PendingSeesTrades
<1>2. CASE Commands
  BY <1>2 DEF Commands, PendingInOrder, Numbered, IsFresh
<1>3. CASE FrameSkips
  BY <1>3, PendingStays, SlotFacts DEF FrameSkips, Skip, slotVars, Typed
<1>4. CASE FrameRestarts
  BY <1>4 DEF FrameRestarts, Restarts, PendingInOrder, Numbered, IsFresh
<1>5. CASE FrameBuffers
  BY <1>5, PendingGrows
<1>6. CASE FrameAdvances
  BY <1>6, PendingStays DEF FrameAdvances, Advances
<1>7. CASE AnswerRestarts
  BY <1>7 DEF AnswerRestarts, Restarts, PendingInOrder, Numbered, IsFresh
<1>8. CASE AnswerRefetches
  BY <1>8, NoSlotIsNone
     DEF AnswerRefetches, AnswerTaken, Refetches, Attempts, PendingInOrder, Numbered,
         venueVars
<1>9. CASE AnswerSeeds
  BY <1>9 DEF AnswerSeeds, Seeds, PendingInOrder, Numbered
<1>10. CASE Sweeps
  BY <1>10 DEF Sweeps, Restarts, PendingInOrder, Numbered, IsFresh
<1>11. CASE SessionEnds
  BY <1>11 DEF SessionEnds, PendingInOrder, Numbered, slotVars
<1>12. CASE Reconnects
  <2>1. CASE slot = NoSlot /\ Skip
    BY <2>1, PendingRestarts DEF Skip, slotVars
  <2>2. CASE Restarts
    BY <2>2, PendingRestarts, FreshFacts DEF Restarts
  <2>. QED
    BY <1>12, <2>1, <2>2 DEF Reconnects
<1>13. CASE LaneCloses
  BY <1>13 DEF LaneCloses, PendingInOrder
<1>14. CASE Obey
           \/ (\E f \in fetches, ok \in BOOLEAN, at \in 0 .. MaxUpdates : Answer(f, ok, at))
           \/ (\E f \in fetches : AbortLands(f)) \/ Pace \/ AnswerSkips \/ Connected
           \/ ConnectFails \/ UNCHANGED vars
  <2>1. UNCHANGED <<kind, now, wire, slot>>
    BY <1>14
       DEF Obey, Answer, AbortLands, Pace, AnswerSkips, AnswerTaken, Skip, Connected,
           ConnectFails, vars, venueVars, slotVars
  <2>. QED
    BY <2>1 DEF PendingInOrder, Numbered
<1>. QED
  BY <1>1, <1>2, <1>3, <1>4, <1>5, <1>6, <1>7, <1>8, <1>9, <1>10, <1>11, <1>12, <1>13,
     <1>14, NextCases

(* ... the soundness of the attempt,                                       *)
LEMMA AttemptIsSoundStep ==
  ASSUME Typed, WireInOrder, AttemptIsSound, OneRequest, [Next]_vars
  PROVE  AttemptIsSound'
<1>1. CASE Commands
  BY <1>1, SizesAssumption DEF Commands, AttemptIsSound, IsFresh
<1>2. CASE FrameRestarts
  BY <1>2, SizesAssumption DEF FrameRestarts, Restarts, AttemptIsSound, IsFresh
<1>3. CASE FrameBuffers
  BY <1>3, AttemptBuffers
<1>4. CASE FrameAdvances
  BY <1>4, NoSlotIsNone DEF FrameAdvances, Advances, AttemptIsSound, ArmsNot
<1>5. CASE AnswerRestarts
  BY <1>5, SizesAssumption DEF AnswerRestarts, Restarts, AttemptIsSound, IsFresh
<1>6. CASE AnswerRefetches
  BY <1>6, AttemptRefetches
<1>7. CASE AnswerSeeds
  BY <1>7 DEF AnswerSeeds, Seeds, AttemptIsSound
<1>8. CASE Sweeps
  BY <1>8, SizesAssumption DEF Sweeps, Restarts, AttemptIsSound, IsFresh
<1>9. CASE Reconnects
  BY <1>9, SizesAssumption
     DEF Reconnects, Restarts, Skip, AttemptIsSound, IsFresh, slotVars
<1>10. CASE LaneCloses
  BY <1>10 DEF LaneCloses, AttemptIsSound
<1>11. CASE (\E n \in 1 .. 2 : Trade(n)) \/ Obey
           \/ (\E f \in fetches, ok \in BOOLEAN, at \in 0 .. MaxUpdates : Answer(f, ok, at))
           \/ (\E f \in fetches : AbortLands(f)) \/ Pace \/ FrameSkips \/ AnswerSkips
           \/ SessionEnds \/ Connected \/ ConnectFails \/ UNCHANGED vars
  <2>1. UNCHANGED <<slot, asked>>
    BY <1>11
       DEF Trade, Obey, Answer, AbortLands, Pace, FrameSkips, WireTaken, Skip, AnswerSkips,
           AnswerTaken, SessionEnds, Connected, ConnectFails, vars, slotVars
  <2>. QED
    BY <2>1 DEF AttemptIsSound, Ready
<1>. QED
  BY <1>1, <1>2, <1>3, <1>4, <1>5, <1>6, <1>7, <1>8, <1>9, <1>10, <1>11, NextCases

(* ... the generations spent,                                              *)
LEMMA GenerationsAreSpentStep ==
  ASSUME Typed, GenerationsAreSpent, [Next]_vars
  PROVE  GenerationsAreSpent'
<1>1. ASSUME NEW f \in fetches, NEW ok \in BOOLEAN, NEW at \in 0 .. MaxUpdates, Answer(f, ok, at)
      PROVE  GenerationsAreSpent'
  BY <1>1, NoSlotIsNone DEF Answer, GenerationsAreSpent, slotVars
<1>2. ASSUME NEW f \in fetches, AbortLands(f)
      PROVE  GenerationsAreSpent'
  BY <1>2 DEF AbortLands, GenerationsAreSpent, slotVars
<1>3. CASE Commands
  BY <1>3, SpentRestarts, FreshFacts DEF Commands, fetchVars
<1>4. CASE FrameRestarts
  BY <1>4, SpentRestarts, FreshFacts DEF FrameRestarts, Restarts, WireTaken
<1>5. CASE FrameBuffers
  BY <1>5, NoSlotIsNone
     DEF FrameBuffers, WireTaken, Buffers, Attempts, GenerationsAreSpent, Arms, ArmsNot
<1>6. CASE FrameAdvances
  BY <1>6, NoSlotIsNone
     DEF FrameAdvances, WireTaken, Advances, GenerationsAreSpent, ArmsNot
<1>7. CASE AnswerSkips
  BY <1>7, NoSlotIsNone
     DEF AnswerSkips, AnswerTaken, Skip, Typed, SlotTyped, GenerationsAreSpent, slotVars
<1>8. CASE AnswerRestarts
  BY <1>8, SpentRestarts, FreshFacts DEF AnswerRestarts, Restarts
<1>9. CASE AnswerRefetches
  BY <1>9, SpentGoesOn DEF AnswerRefetches, Refetches, Attempts, Arms
<1>10. CASE AnswerSeeds
  BY <1>10, SpentGoesOn DEF AnswerSeeds, Seeds
<1>11. CASE Sweeps
  BY <1>11, SpentRestarts, FreshFacts DEF Sweeps, Restarts
<1>12. CASE Reconnects
  <2>1. CASE slot = NoSlot /\ Skip
    BY <1>12, <2>1, SpentRestarts DEF Reconnects, Skip, slotVars
  <2>2. CASE Restarts
    BY <1>12, <2>2, SpentRestarts, FreshFacts DEF Reconnects, Restarts
  <2>. QED
    BY <1>12, <2>1, <2>2 DEF Reconnects
<1>13. CASE LaneCloses
  BY <1>13 DEF LaneCloses, GenerationsAreSpent, fetchVars
<1>14. CASE (\E n \in 1 .. 2 : Trade(n)) \/ Obey \/ Pace \/ FrameSkips \/ SessionEnds
           \/ Connected \/ ConnectFails \/ UNCHANGED vars
  <2>1. UNCHANGED <<slot, generation, fetches, answers>>
    BY <1>14
       DEF Trade, Obey, Pace, FrameSkips, WireTaken, Skip, SessionEnds, Connected,
           ConnectFails, vars, fetchVars, slotVars
  <2>. QED
    BY <2>1 DEF GenerationsAreSpent
<1>. QED
  BY <1>1, <1>2, <1>3, <1>4, <1>5, <1>6, <1>7, <1>8, <1>9, <1>10, <1>11, <1>12, <1>13,
     <1>14, NextCases

(* ... the one request,                                                    *)
LEMMA OneRequestStep ==
  ASSUME Typed, AttemptIsSound, GenerationsAreSpent, OneRequest, [Next]_vars
  PROVE  OneRequest'
<1>1. ASSUME NEW f \in fetches, NEW ok \in BOOLEAN, NEW at \in 0 .. MaxUpdates, Answer(f, ok, at)
      PROVE  OneRequest'
  BY <1>1, RequestAnswered
<1>2. ASSUME NEW f \in fetches, AbortLands(f)
      PROVE  OneRequest'
  BY <1>2, NoSlotIsNone DEF AbortLands, OneRequest, Asking, slotVars
<1>3. CASE Commands
  BY <1>3, RequestsRestart DEF Commands, fetchVars
<1>4. CASE FrameRestarts
  BY <1>4, RequestsRestart DEF FrameRestarts, Restarts, WireTaken
<1>5. CASE FrameBuffers
  BY <1>5, RequestBuffers
<1>6. CASE FrameAdvances
  BY <1>6, NoSlotIsNone
     DEF FrameAdvances, WireTaken, Advances, AttemptIsSound, OneRequest, Asking, ArmsNot
<1>7. CASE AnswerSkips
  BY <1>7, RequestSkipped
<1>8. CASE AnswerRestarts
  BY <1>8, RequestsRestart DEF AnswerRestarts, Restarts
<1>9. CASE AnswerRefetches
  BY <1>9, RequestRetried
<1>10. CASE AnswerSeeds
  BY <1>10, RequestMet
<1>11. CASE Sweeps
  BY <1>11, RequestsRestart DEF Sweeps, Restarts
<1>12. CASE Reconnects
  <2>1. CASE slot = NoSlot /\ Skip
    BY <1>12, <2>1, RequestsRestart DEF Reconnects, Skip, slotVars
  <2>2. CASE Restarts
    BY <1>12, <2>2, RequestsRestart DEF Reconnects, Restarts
  <2>. QED
    BY <1>12, <2>1, <2>2 DEF Reconnects
<1>13. CASE LaneCloses
  BY <1>13 DEF LaneCloses, OneRequest
<1>14. CASE (\E n \in 1 .. 2 : Trade(n)) \/ Obey \/ Pace \/ FrameSkips \/ SessionEnds
           \/ Connected \/ ConnectFails \/ UNCHANGED vars
  <2>1. UNCHANGED <<slot, fetches, answers>>
    BY <1>14
       DEF Trade, Obey, Pace, FrameSkips, WireTaken, Skip, SessionEnds, Connected,
           ConnectFails, vars, fetchVars, slotVars
  <2>. QED
    BY <2>1 DEF OneRequest, Asking
<1>. QED
  BY <1>1, <1>2, <1>3, <1>4, <1>5, <1>6, <1>7, <1>8, <1>9, <1>10, <1>11, <1>12, <1>13,
     <1>14, NextCases

(* ... nothing left of an old socket,                                      *)
LEMMA SocketIsGoneStep ==
  ASSUME Typed, AttemptIsSound, SocketIsGone, [Next]_vars
  PROVE  SocketIsGone'
<1>1. ASSUME NEW n \in 1 .. 2, Trade(n)
      PROVE  SocketIsGone'
  BY <1>1 DEF Trade, SocketIsGone, Ready, slotVars
<1>2. CASE Obey
  BY <1>2 DEF Obey, SocketIsGone
<1>3. CASE Commands
  BY <1>3 DEF Commands, SocketIsGone, venueVars
<1>4. CASE Pace
  BY <1>4 DEF Pace, SocketIsGone
<1>5. CASE FrameSkips
  BY <1>5 DEF FrameSkips, WireTaken, SocketIsGone
<1>6. CASE FrameRestarts
  BY <1>6 DEF FrameRestarts, WireTaken, SocketIsGone
<1>7. CASE FrameBuffers
  BY <1>7 DEF FrameBuffers, WireTaken, SocketIsGone
<1>8. CASE FrameAdvances
  BY <1>8 DEF FrameAdvances, WireTaken, SocketIsGone
<1>9. CASE AnswerRestarts
  BY <1>9 DEF AnswerRestarts, AnswerTaken, SocketIsGone, Turn
<1>10. CASE AnswerRefetches
  BY <1>10 DEF AnswerRefetches, AnswerTaken, SocketIsGone, Turn
<1>11. CASE AnswerSeeds
  BY <1>11 DEF AnswerSeeds, AnswerTaken, SocketIsGone, Turn
<1>12. CASE Sweeps
  BY <1>12 DEF Sweeps, SocketIsGone, Turn
<1>13. CASE SessionEnds
  BY <1>13 DEF SessionEnds, SocketIsGone
<1>14. CASE Reconnects
  BY <1>14, NoSlotIsNone
     DEF Reconnects, Restarts, Skip, SocketIsGone, Ready, IsFresh, venueVars, slotVars
<1>15. CASE Connected
  BY <1>15 DEF Connected, SocketIsGone
<1>16. CASE ConnectFails
  BY <1>16 DEF ConnectFails, SocketIsGone, venueVars
<1>17. CASE LaneCloses
  BY <1>17 DEF LaneCloses, SocketIsGone
<1>18. CASE
           \/ (\E f \in fetches, ok \in BOOLEAN, at \in 0 .. MaxUpdates : Answer(f, ok, at))
           \/ (\E f \in fetches : AbortLands(f)) \/ AnswerSkips \/ UNCHANGED vars
  <2>1. UNCHANGED <<session, orders, wire, streaming, control, slot>>
    BY <1>18
       DEF Answer, AbortLands, AnswerSkips, AnswerTaken, Skip, vars, venueVars, slotVars
  <2>. QED
    BY <2>1 DEF SocketIsGone, Ready
<1>. QED
  BY <1>1, <1>2, <1>3, <1>4, <1>5, <1>6, <1>7, <1>8, <1>9, <1>10, <1>11, <1>12, <1>13,
     <1>14, <1>15, <1>16, <1>17, <1>18, NextCases

(* ... the order that decides,                                             *)
LEMMA OrdersEndRightStep ==
  ASSUME Typed, SocketIsGone, OrdersEndRight, [Next]_vars
  PROVE  OrdersEndRight'
<1>1. CASE Obey
  BY <1>1, ObeyEndsRight
<1>2. CASE Commands
  BY <1>2, NoSlotIsNone DEF Commands, OrdersEndRight, Destined, IsFresh
<1>3. CASE Pace
  BY <1>3, PaceEndsRight
<1>4. CASE FrameRestarts
  BY <1>4, NoSlotIsNone
     DEF FrameRestarts, WireTaken, Restarts, OrdersEndRight, Destined, IsFresh
<1>5. CASE FrameBuffers
  BY <1>5, NoSlotIsNone
     DEF FrameBuffers, WireTaken, Buffers, Attempts, OrdersEndRight, Destined
<1>6. CASE FrameAdvances
  BY <1>6, NoSlotIsNone DEF FrameAdvances, WireTaken, Advances, OrdersEndRight, Destined
<1>7. CASE AnswerRestarts
  BY <1>7, NoSlotIsNone
     DEF AnswerRestarts, AnswerTaken, Restarts, OrdersEndRight, Destined, IsFresh,
         venueVars
<1>8. CASE AnswerRefetches
  BY <1>8, NoSlotIsNone
     DEF AnswerRefetches, AnswerTaken, Refetches, Attempts, OrdersEndRight, Destined,
         venueVars
<1>9. CASE AnswerSeeds
  BY <1>9, NoSlotIsNone
     DEF AnswerSeeds, AnswerTaken, Seeds, OrdersEndRight, Destined, venueVars
<1>10. CASE Sweeps
  BY <1>10, NoSlotIsNone
     DEF Sweeps, Restarts, OrdersEndRight, Destined, IsFresh, venueVars
<1>11. CASE SessionEnds
  BY <1>11 DEF SessionEnds, OrdersEndRight
<1>12. CASE Reconnects
  BY <1>12 DEF Reconnects, OrdersEndRight
<1>13. CASE Connected
  BY <1>13
     DEF Connected, Typed, SlotTyped, VenueTyped, SocketIsGone, OrdersEndRight, Destined,
         venueVars, slotVars
<1>14. CASE ConnectFails
  BY <1>14 DEF ConnectFails, OrdersEndRight
<1>15. CASE LaneCloses
  BY <1>15 DEF LaneCloses, OrdersEndRight
<1>16. CASE (\E n \in 1 .. 2 : Trade(n))
           \/ (\E f \in fetches, ok \in BOOLEAN, at \in 0 .. MaxUpdates : Answer(f, ok, at))
           \/ (\E f \in fetches : AbortLands(f)) \/ FrameSkips \/ AnswerSkips
           \/ UNCHANGED vars
  <2>1. UNCHANGED <<session, control, orders, streaming, slot>>
    BY <1>16
       DEF Trade, Answer, AbortLands, FrameSkips, WireTaken, Skip, AnswerSkips,
           AnswerTaken, vars, venueVars, slotVars
  <2>. QED
    BY <2>1 DEF OrdersEndRight, Destined
<1>. QED
  BY <1>1, <1>2, <1>3, <1>4, <1>5, <1>6, <1>7, <1>8, <1>9, <1>10, <1>11, <1>12, <1>13,
     <1>14, <1>15, <1>16, NextCases

(* ... the whole stream,                                                   *)
LEMMA StreamIsWholeStep ==
  ASSUME Typed, SocketIsGone, StreamIsWhole, [Next]_vars
  PROVE  StreamIsWhole'
<1>1. ASSUME NEW n \in 1 .. 2, Trade(n)
      PROVE  StreamIsWhole'
  BY <1>1, StreamOfTrades
<1>2. CASE Obey
  BY <1>2 DEF Obey, Typed, VenueTyped, StreamIsWhole, Renewed
<1>3. CASE Commands
  BY <1>3, StreamIsCommanded
<1>4. CASE Pace
  BY <1>4 DEF Pace, Typed, SessionTyped, StreamIsWhole, Renewed
<1>5. CASE FrameSkips
  BY <1>5, StreamIsTaken DEF FrameSkips
<1>6. CASE FrameRestarts
  BY <1>6, StreamIsTaken DEF FrameRestarts
<1>7. CASE FrameBuffers
  BY <1>7, StreamIsTaken DEF FrameBuffers
<1>8. CASE FrameAdvances
  BY <1>8, StreamIsTaken DEF FrameAdvances
<1>9. CASE SessionEnds
  BY <1>9 DEF SessionEnds, StreamIsWhole
<1>10. CASE Reconnects
  BY <1>10 DEF Reconnects, StreamIsWhole
<1>11. CASE Connected
  BY <1>11 DEF Connected, SocketIsGone, StreamIsWhole, venueVars
<1>12. CASE ConnectFails
  BY <1>12 DEF ConnectFails, StreamIsWhole
<1>13. CASE LaneCloses
  BY <1>13 DEF LaneCloses, StreamIsWhole
<1>14. CASE
           \/ (\E f \in fetches, ok \in BOOLEAN, at \in 0 .. MaxUpdates : Answer(f, ok, at))
           \/ (\E f \in fetches : AbortLands(f)) \/ AnswerSkips \/ AnswerRestarts
           \/ AnswerRefetches \/ AnswerSeeds \/ Sweeps \/ UNCHANGED vars
  <2>1. UNCHANGED <<kind, session, control, orders, wire, now, streaming, dropped>>
    BY <1>14
       DEF Answer, AbortLands, AnswerSkips, AnswerTaken, Skip, AnswerRestarts, Restarts,
           AnswerRefetches, Refetches, Attempts, AnswerSeeds, Seeds, Sweeps, vars, venueVars
  <2>. QED
    BY <2>1 DEF StreamIsWhole, Renewed
<1>. QED
  BY <1>1, <1>2, <1>3, <1>4, <1>5, <1>6, <1>7, <1>8, <1>9, <1>10, <1>11, <1>12, <1>13,
     <1>14, NextCases

(* ... the slot that goes with it,                                         *)
LEMMA SlotIsWholeStep ==
  ASSUME Typed, WireInOrder, PendingInOrder, AttemptIsSound, OneRequest, SocketIsGone,
     OrdersEndRight, StreamIsWhole, SlotIsWhole, [Next]_vars
  PROVE  SlotIsWhole'
<1>1. ASSUME NEW n \in 1 .. 2, Trade(n)
      PROVE  SlotIsWhole'
  BY <1>1, WholeTrades
<1>2. CASE Obey
  BY <1>2
     DEF Obey, Typed, VenueTyped, StreamIsWhole, SlotIsWhole, Renewed, Ready, slotVars
<1>3. CASE Commands
  BY <1>3, WholeCommands
<1>4. CASE FrameSkips
  BY <1>4, WholeSkips
<1>5. CASE FrameRestarts
  BY <1>5 DEF FrameRestarts, Restarts, SlotIsWhole, Ready, IsFresh
<1>6. CASE FrameBuffers
  BY <1>6, WholeBuffers
<1>7. CASE FrameAdvances
  BY <1>7, WholeAdvances
<1>8. CASE AnswerRestarts
  BY <1>8 DEF AnswerRestarts, Restarts, SlotIsWhole, Ready, IsFresh
<1>9. CASE AnswerRefetches
  BY <1>9, NoSlotIsNone
     DEF AnswerRefetches, AnswerTaken, Refetches, Attempts, SlotIsWhole, Renewed, Ready,
         venueVars
<1>10. CASE AnswerSeeds
  BY <1>10, WholeSeeds
<1>11. CASE Sweeps
  BY <1>11 DEF Sweeps, Restarts, SlotIsWhole, Ready, IsFresh
<1>12. CASE SessionEnds
  BY <1>12 DEF SessionEnds, SlotIsWhole
<1>13. CASE Reconnects
  BY <1>13 DEF Reconnects, SlotIsWhole
<1>14. CASE Connected
  BY <1>14 DEF Connected, SocketIsGone, SlotIsWhole, Ready, slotVars
<1>15. CASE ConnectFails
  BY <1>15 DEF ConnectFails, SlotIsWhole
<1>16. CASE LaneCloses
  BY <1>16 DEF LaneCloses, SlotIsWhole
<1>17. CASE
           \/ (\E f \in fetches, ok \in BOOLEAN, at \in 0 .. MaxUpdates : Answer(f, ok, at))
           \/ (\E f \in fetches : AbortLands(f)) \/ Pace \/ AnswerSkips
           \/ UNCHANGED vars
  <2>1. UNCHANGED <<kind, session, wire, now, streaming, dropped, slot>>
    BY <1>17
       DEF Answer, AbortLands, Pace, AnswerSkips, AnswerTaken, Skip, vars, venueVars,
           slotVars
  <2>. QED
    BY <2>1 DEF SlotIsWhole, Renewed, Ready
<1>. QED
  BY <1>1, <1>2, <1>3, <1>4, <1>5, <1>6, <1>7, <1>8, <1>9, <1>10, <1>11, <1>12, <1>13,
     <1>14, <1>15, <1>16, <1>17, NextCases

(* ... the venue's book,                                                   *)
LEMMA BooksAreVenuesStep ==
  ASSUME Typed, WireInOrder, PendingInOrder, StreamIsWhole, SlotIsWhole, SocketIsGone,
     BooksAreVenues, AttemptIsSound, OneRequest, [Next]_vars
  PROVE  BooksAreVenues'
<1>1. CASE Commands
  BY <1>1, NoSlotIsNone DEF Commands, BooksAreVenues, BookIsVenues, Ready, IsFresh
<1>2. CASE FrameRestarts
  BY <1>2 DEF FrameRestarts, Restarts, BooksAreVenues, BookIsVenues, Ready, IsFresh
<1>3. CASE FrameBuffers
  BY <1>3 DEF FrameBuffers, Buffers, Attempts, BooksAreVenues, BookIsVenues, Ready
<1>4. CASE FrameAdvances
  BY <1>4, BooksAdvance
<1>5. CASE AnswerRestarts
  BY <1>5 DEF AnswerRestarts, Restarts, BooksAreVenues, BookIsVenues, Ready, IsFresh
<1>6. CASE AnswerRefetches
  BY <1>6 DEF AnswerRefetches, Refetches, Attempts, BooksAreVenues, BookIsVenues, Ready
<1>7. CASE AnswerSeeds
  BY <1>7, BooksSeed
<1>8. CASE Sweeps
  BY <1>8 DEF Sweeps, Restarts, BooksAreVenues, BookIsVenues, Ready, IsFresh
<1>9. CASE Reconnects
  BY <1>9
     DEF Reconnects, Restarts, Skip, BooksAreVenues, BookIsVenues, Ready, IsFresh, slotVars
<1>10. CASE Connected
  BY <1>10 DEF Connected, SocketIsGone, BooksAreVenues, BookIsVenues, Ready, slotVars
<1>11. CASE LaneCloses
  BY <1>11, NoSlotIsNone DEF LaneCloses, BooksAreVenues, BookIsVenues, Ready
<1>12. CASE (\E n \in 1 .. 2 : Trade(n)) \/ Obey
           \/ (\E f \in fetches, ok \in BOOLEAN, at \in 0 .. MaxUpdates : Answer(f, ok, at))
           \/ (\E f \in fetches : AbortLands(f)) \/ Pace \/ FrameSkips \/ AnswerSkips
           \/ SessionEnds \/ ConnectFails \/ UNCHANGED vars
  <2>1. UNCHANGED <<kind, dropped, slot>>
    BY <1>12
       DEF Trade, Obey, Answer, AbortLands, Pace, FrameSkips, WireTaken, Skip, AnswerSkips,
           AnswerTaken, SessionEnds, ConnectFails, vars, slotVars
  <2>. QED
    BY <2>1 DEF BooksAreVenues, BookIsVenues, Ready
<1>. QED
  BY <1>1, <1>2, <1>3, <1>4, <1>5, <1>6, <1>7, <1>8, <1>9, <1>10, <1>11, <1>12, NextCases

(* ... and its top.                                                        *)
LEMMA ReadersSeeTheTopStep ==
  ASSUME Typed, ReadersSeeTheTop, [Next]_vars
  PROVE  ReadersSeeTheTop'
<1>1. CASE Commands
  BY <1>1, NoSlotIsNone DEF Commands, ReadersSeeTheTop, Ready, IsFresh
<1>2. CASE FrameRestarts
  BY <1>2 DEF FrameRestarts, Restarts, ReadersSeeTheTop, Ready, IsFresh
<1>3. CASE FrameBuffers
  BY <1>3 DEF FrameBuffers, Buffers, Attempts, ReadersSeeTheTop, Ready
<1>4. CASE FrameAdvances
  BY <1>4, TopAdvances
<1>5. CASE AnswerRestarts
  BY <1>5 DEF AnswerRestarts, Restarts, ReadersSeeTheTop, Ready, IsFresh
<1>6. CASE AnswerRefetches
  BY <1>6 DEF AnswerRefetches, Refetches, Attempts, ReadersSeeTheTop, Ready
<1>7. CASE AnswerSeeds
  BY <1>7 DEF AnswerSeeds, Seeds, ReadersSeeTheTop, Ready
<1>8. CASE Sweeps
  BY <1>8 DEF Sweeps, Restarts, ReadersSeeTheTop, Ready, IsFresh
<1>9. CASE Reconnects
  BY <1>9 DEF Reconnects, Restarts, Skip, ReadersSeeTheTop, Ready, IsFresh, slotVars
<1>10. CASE LaneCloses
  BY <1>10, NoSlotIsNone DEF LaneCloses, ReadersSeeTheTop, Ready
<1>11. CASE (\E n \in 1 .. 2 : Trade(n)) \/ Obey
           \/ (\E f \in fetches, ok \in BOOLEAN, at \in 0 .. MaxUpdates : Answer(f, ok, at))
           \/ (\E f \in fetches : AbortLands(f)) \/ Pace \/ FrameSkips \/ AnswerSkips
           \/ SessionEnds \/ Connected \/ ConnectFails \/ UNCHANGED vars
  <2>1. UNCHANGED <<slot, published>>
    BY <1>11
       DEF Trade, Obey, Answer, AbortLands, Pace, FrameSkips, WireTaken, Skip, AnswerSkips,
           AnswerTaken, SessionEnds, Connected, ConnectFails, vars, slotVars
  <2>. QED
    BY <2>1 DEF ReadersSeeTheTop, Ready
<1>. QED
  BY <1>1, <1>2, <1>3, <1>4, <1>5, <1>6, <1>7, <1>8, <1>9, <1>10, <1>11, NextCases

-----------------------------------------------------------------------------
(* The theorems *)

(* The inductive invariant.                                                *)
Invariant ==
  /\ Typed
  /\ WireInOrder /\ PendingInOrder
  /\ AttemptIsSound /\ GenerationsAreSpent /\ OneRequest
  /\ SocketIsGone /\ OrdersEndRight /\ StreamIsWhole /\ SlotIsWhole
  /\ BooksAreVenues /\ ReadersSeeTheTop

(* It holds at the start ...                                               *)
LEMMA InvariantAtFirst == Init => Invariant
<1>. SUFFICES ASSUME Init
              PROVE  Invariant
  OBVIOUS
<1>1. ~Ready
  BY NoSlotIsNone DEF Init, Ready
<1>2. Typed
  <2>1. <<>> \in Seq(Event) /\ <<>> \in Seq(Order) /\ <<>> \in Seq(Snapshot)
    OBVIOUS
  <2>2. kind \in {"binance", "bitstamp"}
    BY KindsAssumption DEF Init
  <2>. QED
    BY <2>1, <2>2
    DEF Init, Typed, VenueTyped, FetchTyped, SessionTyped, SlotTyped
<1>3. WireInOrder /\ PendingInOrder
  BY DEF Init, WireInOrder, PendingInOrder, Numbered
<1>4. AttemptIsSound /\ GenerationsAreSpent /\ OneRequest
  BY DEF Init, AttemptIsSound, GenerationsAreSpent, OneRequest
<1>5. SocketIsGone /\ OrdersEndRight /\ StreamIsWhole /\ SlotIsWhole
  BY <1>1 DEF Init, SocketIsGone, OrdersEndRight, StreamIsWhole, SlotIsWhole
<1>6. BooksAreVenues /\ ReadersSeeTheTop
  BY <1>1 DEF Init, BooksAreVenues, BookIsVenues, ReadersSeeTheTop
<1>. QED
  BY <1>2, <1>3, <1>4, <1>5, <1>6 DEF Invariant

(* ... and no step leaves it.                                              *)
LEMMA InvariantStep == Invariant /\ [Next]_vars => Invariant'
<1>. SUFFICES ASSUME Invariant, [Next]_vars
              PROVE  Invariant'
  OBVIOUS
<1>1. Typed'
  BY VenueTypedStep, FetchTypedStep, SessionTypedStep, SlotTypedStep DEF Invariant, Typed
<1>2. WireInOrder' /\ PendingInOrder'
  BY WireInOrderStep, PendingInOrderStep DEF Invariant
<1>3. AttemptIsSound' /\ GenerationsAreSpent' /\ OneRequest'
  BY AttemptIsSoundStep, GenerationsAreSpentStep, OneRequestStep DEF Invariant
<1>4. SocketIsGone' /\ OrdersEndRight'
  BY SocketIsGoneStep, OrdersEndRightStep DEF Invariant
<1>5. StreamIsWhole' /\ SlotIsWhole'
  BY StreamIsWholeStep, SlotIsWholeStep DEF Invariant
<1>6. BooksAreVenues' /\ ReadersSeeTheTop'
  BY BooksAreVenuesStep, ReadersSeeTheTopStep DEF Invariant
<1>. QED
  BY <1>1, <1>2, <1>3, <1>4, <1>5, <1>6 DEF Invariant

(* The invariant holds of every behaviour, for any numbers of levels,      *)
(* buffer, refetches and sessions.                                         *)
THEOREM ConnectionInvariant == Spec => []Invariant
BY InvariantAtFirst, InvariantStep, PTL DEF Spec

(* A ready book is the venue's as of its cursor, and readers see its top:  *)
(* no update is missed or applied twice across snapshot, replay, gap,      *)
(* resync and reconnect, save where Bitstamp's stream was renewed on its   *)
(* socket.                                                                 *)
THEOREM ReadyBooksAreVenues == Spec => []ReadyBookIsVenues
<1>1. Invariant => ReadyBookIsVenues
  BY DEF Invariant, BooksAreVenues, ReadersSeeTheTop, ReadyBookIsVenues
<1>. QED
  BY <1>1, ConnectionInvariant, PTL

(* The last order for the symbol matches its slot: the venue ends up       *)
(* streaming exactly what the connection has a slot for, however orders    *)
(* are paced.                                                              *)
THEOREM WireMatchesTableAlways == Spec => []WireMatchesTable
<1>1. Invariant => WireMatchesTable
  BY DEF Invariant, OrdersEndRight, Destined, WireMatchesTable
<1>. QED
  BY <1>1, ConnectionInvariant, PTL

(* A set whose elements are all the same counts at most one.               *)
LEMMA AtMostOneCounts ==
  ASSUME NEW S, \A x, y \in S : x = y
  PROVE  /\ S = {} => Cardinality(S) = 0
         /\ S # {} => Cardinality(S) = 1
<1>1. CASE S = {}
  BY <1>1, FS_EmptySet
<1>2. CASE S # {}
  <2>1. PICK x \in S : S = {x}
    BY <1>2
  <2>. QED
    BY <1>2, <2>1, FS_Singleton
<1>. QED
  BY <1>1, <1>2

(* Of the tasks and answers, at most one is the slot's.                    *)
LEMMA OneIsOutstanding ==
  ASSUME OneRequest, slot # NoSlot, slot.fetching \in BOOLEAN
  PROVE  Outstanding = IF slot.fetching THEN 1 ELSE 0
<1>. DEFINE F == {f \in fetches : Asking(f)}
            A == {i \in DOMAIN answers : Asking(answers[i])}
<1>1. /\ \A x, y \in F : x = y
      /\ \A x, y \in A : x = y
      /\ F = {} \/ A = {}
      /\ slot.fetching <=> F # {} \/ A # {}
  BY DEF OneRequest
<1>2. Outstanding = Cardinality(F) + Cardinality(A)
  BY DEF Outstanding
<1>. HIDE DEF F, A
<1>3. /\ Cardinality(F) = IF F = {} THEN 0 ELSE 1
      /\ Cardinality(A) = IF A = {} THEN 0 ELSE 1
  BY <1>1, AtMostOneCounts
<1>. QED
  BY <1>1, <1>2, <1>3

(* An attempt asks for at most one snapshot at a time and RefetchLimit + 1 *)
(* in all, and a slot that waits has one coming; its buffer stays under    *)
(* the venue's limit.                                                      *)
THEOREM FetchesStayBounded == Spec => []FetchesAreBounded
<1>1. Invariant => FetchesAreBounded
  <2>. SUFFICES ASSUME Invariant, slot # NoSlot
                PROVE  FetchesAreBounded
    BY DEF FetchesAreBounded
  <2>1. slot \in Slot /\ slot.fetching \in BOOLEAN /\ slot.refetches \in Nat /\ asked \in Nat
    BY SlotFacts DEF Invariant, Typed, SlotTyped, Slot
  <2>2. Outstanding = IF slot.fetching THEN 1 ELSE 0
    BY <2>1, OneIsOutstanding DEF Invariant
  <2>3. slot.phase = "bootstrapping" =>
          /\ Len(slot.pending) < MaxPending \/ slot.pending = <<>>
          /\ asked <= RefetchLimit + 1
    BY <2>1, SizesAssumption DEF Invariant, AttemptIsSound
  <2>. QED
    BY <2>2, <2>3 DEF FetchesAreBounded
<1>. QED
  BY <1>1, ConnectionInvariant, PTL
====

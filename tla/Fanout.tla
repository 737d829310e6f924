------------------------------- MODULE Fanout -------------------------------
(***************************************************************************)
(* One catalogue instrument's books on their way from the connectors to    *)
(* the clients: the book channel of each venue (core_lib/src/connector/    *)
(* book_publisher.rs), the broadcaster that merges and encodes them once   *)
(* (md_server/src/broadcast/broadcaster.rs), and the sessions and sinks it *)
(* offers the frame to (session.rs, grpc/sink.rs).  The two halves of a    *)
(* channel are used as LatestValue and Notification specify them.  Who     *)
(* files a broadcaster and queues joins is module Registry's; here it is   *)
(* the environment.                                                        *)
(*                                                                         *)
(* A book is the number of the update that wrote it, the last one of a     *)
(* venue the empty book of its publisher's drop.  A frame is the book of   *)
(* each venue it was merged from, numbered by its epoch, and lies in a     *)
(* buffer that may be written again.                                       *)
(***************************************************************************)
EXTENDS Integers, Sequences, FiniteSets

CONSTANTS Venues,
          Clients,
          MaxPublished, \* bound: the updates of a publisher, its drop included
          Quiet,        \* bound: the venues that publish nothing before their drop
          POOL,         \* the capacity of BufferPool::unused
          COOLING,
          Credit        \* bound: the frames a client's flow control leaves room for

ASSUME FanoutAssumption ==
  /\ IsFiniteSet(Venues) /\ Venues # {} /\ Quiet \subseteq Venues /\ IsFiniteSet(Clients)
  /\ {MaxPublished, POOL, COOLING, Credit} \subseteq Nat \ {0}

VARIABLES
  started,    \* started[v]: updates v's publisher began
  published,  \* published[v]: and finished
  vpc,        \* vpc[v]: where it is
  parting,    \* parting[v]: the update of its drop, 0 before it
  pending,    \* pending[v]: a notification v's Waiter is to report
  updates,    \* the venues whose Waiter the broadcaster still has
  bpc,        \* where the broadcaster is
  epoch, payload, pool, cooling,  \* Ctx
  content,    \* content[b]: the frame in buffer b
  sessions,   \* the attached clients
  session,    \* session[c]: its Session, and the frames its sink has yet to write
  got,        \* got[c]: the frame c was sent last
  joins,      \* the join channel
  filed,      \* does the registry still have a sender of it?
  asked,      \* the clients that were queued
  hungup      \* the clients that closed their end

channelVars == <<started, published, vpc, parting>>
ctxVars == <<epoch, payload, pool, cooling>>
bufferVars == <<ctxVars, content>>
clientVars == <<sessions, session, got, hungup>>
registryVars == <<joins, filed, asked>>
vars == <<channelVars, pending, updates, bpc, bufferVars, clientVars, registryVars>>

Buffers == 1 .. 2 + POOL + COOLING + Credit * Cardinality(Clients)
NoFrame == [epoch |-> -1, books |-> [v \in Venues |-> 0]]
Detached == [epoch |-> 0, ended |-> FALSE, finishing |-> FALSE, queue |-> <<>>]

Init ==
  /\ started = [v \in Venues |-> 0] /\ published = started
  /\ vpc = [v \in Venues |-> "idle"] /\ parting = started
  /\ pending = [v \in Venues |-> FALSE] /\ updates = Venues
  /\ bpc = "start"
  /\ epoch = 0 /\ payload = 0 /\ pool = {} /\ cooling = <<>>
  /\ content = [b \in Buffers |-> NoFrame]
  /\ sessions = {} /\ session = [c \in Clients |-> Detached]
  /\ got = [c \in Clients |-> NoFrame]
  /\ joins = <<>> /\ filed = TRUE
  /\ asked = {} /\ hungup = {}

-----------------------------------------------------------------------------
(* A venue's publisher: publish is an update of the buffer and a notify,   *)
(* drop publishes the empty book so, and then the notifier goes.           *)

Publisher(v) ==
  UNCHANGED <<updates, bpc, bufferVars, clientVars, registryVars>>

PublishStart(v) ==
  /\ vpc[v] = "idle" /\ v \notin Quiet /\ started[v] < MaxPublished - 1
  /\ started' = [started EXCEPT ![v] = @ + 1]
  /\ vpc' = [vpc EXCEPT ![v] = "update"]
  /\ Publisher(v) /\ UNCHANGED <<published, parting, pending>>

DropStart(v) ==
  /\ vpc[v] = "idle"
  /\ started' = [started EXCEPT ![v] = @ + 1]
  /\ parting' = [parting EXCEPT ![v] = started[v] + 1]
  /\ vpc' = [vpc EXCEPT ![v] = "update"]
  /\ Publisher(v) /\ UNCHANGED <<published, pending>>

UpdateReturns(v) ==
  /\ vpc[v] = "update"
  /\ published' = [published EXCEPT ![v] = started[v]]
  /\ vpc' = [vpc EXCEPT ![v] = "notify"]
  /\ Publisher(v) /\ UNCHANGED <<started, parting, pending>>

(* Slip: the empty book of the drop is not announced.                      *)
NotifyForgottenInDrop(v) ==
  /\ vpc[v] = "notify"
  /\ pending' = [pending EXCEPT ![v] = @ \/ parting[v] = 0]
  /\ vpc' = [vpc EXCEPT ![v] = IF parting[v] # 0 THEN "depart" ELSE "idle"]
  /\ Publisher(v) /\ UNCHANGED <<started, published, parting>>

NotifyReader(v) ==
  /\ vpc[v] = "notify"
  /\ pending' = [pending EXCEPT ![v] = TRUE]
  /\ vpc' = [vpc EXCEPT ![v] = IF parting[v] # 0 THEN "depart" ELSE "idle"]
  /\ Publisher(v) /\ UNCHANGED <<started, published, parting>>

NotifierDrop(v) ==
  /\ vpc[v] = "depart"
  /\ vpc' = [vpc EXCEPT ![v] = "gone"]
  /\ Publisher(v) /\ UNCHANGED <<started, published, parting, pending>>

-----------------------------------------------------------------------------
(* Ctx: the current frame, and the buffers it is cut from                  *)

HeldBy(c) == {session[c].queue[i] : i \in DOMAIN session[c].queue}
Pinned(b) == \E c \in sessions : b \in HeldBy(c)
InCooling == {cooling[i] : i \in DOMAIN cooling}
Spare == {b \in Buffers \ ({payload} \cup pool \cup InCooling) : ~Pinned(b)}

(* encode_book: a guard on each venue's newest book, which may be one that *)
(* is being published.                                                     *)
Readable == {f \in [Venues -> 0 .. MaxPublished] :
               \A v \in Venues : f[v] \in {published[v], started[v]}}

(* BufferPool::get: a buffer of the pool that is large enough, if any.     *)
Fresh == CHOOSE b \in Spare : \A o \in Spare : b <= o
Get(b, left) ==
  \/ b \in pool /\ left = pool \ {b}
  \/ /\ b = Fresh
     /\ left = IF Cardinality(pool) = POOL THEN pool \ {CHOOSE o \in pool : TRUE} ELSE pool

SwapRemove(s, i) == SubSeq([s EXCEPT ![i] = s[Len(s)]], 1, Len(s) - 1)
PushBounded(s, b, n) == IF Len(s) < n THEN Append(s, b) ELSE s
Returned(p, b) == IF Cardinality(p) < POOL THEN p \cup {b} ELSE p

(* Slip: what is cooling is taken to be nobody's by now.                   *)
CoolUnchecked(left, superseded) ==
  [pool |-> IF cooling = <<>> THEN left ELSE Returned(left, Head(cooling)),
   cooling |-> PushBounded(IF cooling = <<>> THEN <<>> ELSE Tail(cooling), superseded, COOLING)]

(* Ctx::cool.  A buffer that is pinned goes to the back as it is looked    *)
(* at, and the one swapped into its place is passed over.                  *)
Cool(left, superseded) ==
  LET at[i \in 1 .. Len(cooling) + 1] ==  \* after i - 1 looks
        IF i = 1 THEN [next |-> 1, list |-> cooling, pool |-> left]
        ELSE LET s == at[i - 1]
                 b == s.list[s.next]
                 rest == SwapRemove(s.list, s.next)
             IN  IF s.next > Len(s.list) THEN s
                 ELSE IF Pinned(b) THEN [s EXCEPT !.next = @ + 1, !.list = Append(rest, b)]
                 ELSE [s EXCEPT !.list = rest, !.pool = Returned(@, b)]
      looked == at[Len(cooling) + 1]
  IN  [pool |-> looked.pool, cooling |-> PushBounded(looked.list, superseded, COOLING)]

-----------------------------------------------------------------------------
(* Session and H2Sink: x is a client's [s, got].  `io` is what its polls   *)
(* meet: `seen`, h2 noticed that the client hung up, or how many frames    *)
(* of the queue it `takes`, and makes room by it.                          *)

Of(c) == [s |-> session[c], got |-> got[c]]
Room(x) == Len(x.s.queue) < Credit
End(x) == [x EXCEPT !.s.ended = TRUE]
Deaf(x, n) == x.s.finishing \/ x.s.ended \/ x.s.epoch > n

(* Slip: a client without room is taken to have had the book.              *)
DeliverOrSkip(x, n, b, io) ==
  CASE Deaf(x, n) -> x
    [] ~Deaf(x, n) /\ io.seen -> End(x)
    [] OTHER -> [x EXCEPT !.s.queue = IF Room(x) THEN Append(@, b) ELSE @, !.s.epoch = n + 1]

(* Session::deliver of frame n, in buffer b, and H2Sink::poll_send         *)
Deliver(x, n, b, io) ==
  CASE Deaf(x, n) -> x
    [] ~Deaf(x, n) /\ io.seen -> End(x)
    [] OTHER -> IF Room(x) THEN [x EXCEPT !.s.queue = Append(@, b), !.s.epoch = n + 1] ELSE x

(* H2Sink::poll_progress: a finished stream ends with the last of it.      *)
Progress(x, store, io) ==
  LET n == IF io.takes < Len(x.s.queue) THEN io.takes ELSE Len(x.s.queue)
      y == [s |-> [x.s EXCEPT !.queue = SubSeq(@, n + 1, Len(@))],
            got |-> IF n = 0 THEN x.got ELSE store[x.s.queue[n]]]
  IN  CASE x.s.ended -> x
        [] ~x.s.ended /\ io.seen -> End(x)
        [] OTHER -> IF y.s.finishing /\ y.s.queue = <<>> THEN End(y) ELSE y

DeliverAndFlush(x, n, b, store, io) == Progress(Deliver(x, n, b, io), store, io)
PollProgress(x, n, b, store, io) == Deliver(Progress(x, store, io), n, b, io)

(* What the polls of one lap may meet.                                     *)
Met(c) == {io \in [seen : BOOLEAN, takes : 0 .. Credit] :
             io.seen => c \in hungup /\ io.takes = 0}
Meetings(who) ==
  IF who = {} THEN {<<>>}
  ELSE {io \in [who -> UNION {Met(c) : c \in who}] : \A c \in who : io[c] \in Met(c)}

(* The clients that stay are `who`, and each is polled; of one that does   *)
(* not, what it read and that it hung up is forgotten.                     *)
Kept(who, step(_)) ==
  /\ sessions' = who
  /\ session' = [c \in Clients |-> IF c \in who THEN step(c).s ELSE Detached]
  /\ got' = [c \in Clients |-> IF c \in who THEN step(c).got ELSE NoFrame]
  /\ hungup' = hungup \cap (who \cup {joins'[i] : i \in DOMAIN joins'})

(* Every client is polled; if anybody ended and `prune` is set, those who  *)
(* did are dropped.                                                        *)
Polled(step(_), prune) ==
  Kept({c \in sessions : prune => ~step(c).s.ended}, step)

(* A buffer nobody refers to any more has no content, nor has a spare one. *)
Stored(store) ==
  content' = [b \in Buffers |->
                IF \/ b = payload' \/ \E i \in DOMAIN cooling' : cooling'[i] = b
                   \/ \E c \in sessions', i \in 1 .. Credit :
                        i \in DOMAIN session'[c].queue /\ session'[c].queue[i] = b
                THEN store[b] ELSE NoFrame]

-----------------------------------------------------------------------------
(* Broadcaster::run *)

Env == UNCHANGED <<channelVars, asked>>

(* The end of a lap: an idle broadcaster asks the registry if it may go.   *)
NextLap == bpc' = IF sessions' = {} THEN "asking" ELSE "run"

Start ==
  /\ bpc = "start" /\ bpc' = "run"
  /\ payload' = Fresh
  /\ \E f \in Readable : content' = [content EXCEPT ![Fresh] = [epoch |-> 0, books |-> f]]
  /\ Env /\ UNCHANGED <<pending, updates, epoch, pool, cooling, clientVars, joins, filed>>

Departed == {v \in updates : ~pending[v] /\ vpc[v] = "gone"}
Updated == {v \in updates : pending[v]}
BookReady == bpc = "run" /\ (Updated # {} \/ Departed # {})

(* poll_readers, and publish if any venue did.                             *)
Book ==
  /\ BookReady /\ Updated # {}
  /\ pending' = [v \in Venues |-> pending[v] /\ v \notin Updated]
  /\ updates' = updates \ Departed
  /\ epoch' = epoch + 1
  /\ UNCHANGED <<joins, filed>>
  /\ \E f \in Readable, b \in pool \cup {Fresh}, left \in SUBSET pool, io \in Meetings(sessions) :
       LET store == [content EXCEPT ![b] = [epoch |-> epoch + 1, books |-> f]]
           cooled == Cool(left, payload)
       IN  /\ Get(b, left)
           /\ payload' = b
           /\ pool' = cooled.pool /\ cooling' = cooled.cooling
           /\ Polled(LAMBDA c : DeliverAndFlush(Of(c), epoch + 1, b, store, io[c]), updates' # {})
           /\ Stored(store)
  /\ IF updates' = {} THEN bpc' = "close" ELSE NextLap
  /\ Env

(* Slip: only a wake that published looks whether anybody is left.         *)
DepartureUnnoticed ==
  /\ BookReady /\ Updated = {}
  /\ updates' = updates \ Departed
  /\ bpc' = IF sessions = {} THEN "asking" ELSE "run"
  /\ Env /\ UNCHANGED <<pending, bufferVars, clientVars, joins, filed>>

(* A departure changes nothing to send: the empty book went before it.     *)
Departure ==
  /\ BookReady /\ Updated = {}
  /\ updates' = updates \ Departed
  /\ bpc' = IF updates' = {} THEN "close" ELSE IF sessions = {} THEN "asking" ELSE "run"
  /\ Env /\ UNCHANGED <<pending, bufferVars, clientVars, joins, filed>>

(* Join(Some): the client is answered, and given the current book.         *)
Attach ==
  /\ bpc = "run" /\ ~BookReady /\ joins # <<>>
  /\ joins' = Tail(joins)
  /\ LET c == Head(joins)
     IN  \E io \in Met(c) :
           LET x == DeliverAndFlush(Of(c), epoch, payload, content, io)
           IN  Kept(IF x.s.ended THEN sessions ELSE sessions \cup {c},
                    LAMBDA o : IF o = c THEN x ELSE Of(o))
  /\ NextLap
  /\ Env /\ UNCHANGED <<pending, updates, bufferVars, filed>>

(* Join(None) *)
JoinsClosed ==
  /\ bpc = "run" /\ ~BookReady /\ joins = <<>> /\ ~filed
  /\ bpc' = "close"
  /\ Env /\ UNCHANGED <<pending, updates, bufferVars, clientVars, joins, filed>>

(* poll_sessions; Pending unless somebody ended.                           *)
PollSessions(io) ==
  /\ bpc = "run" /\ ~BookReady /\ joins = <<>> /\ filed
  /\ Env /\ UNCHANGED <<pending, updates, ctxVars, joins, filed>>
  /\ Polled(LAMBDA c : PollProgress(Of(c), epoch, payload, content, io[c]), TRUE)
  /\ session' # session
  /\ NextLap
  /\ Stored(content)

(* What the other wakes leave, the sweep finds.                            *)
Sweep ==
  /\ bpc = "run" /\ ~BookReady /\ joins = <<>> /\ filed /\ sessions = {}
  /\ bpc' = "asking"
  /\ Env /\ UNCHANGED <<pending, updates, bufferVars, clientVars, joins, filed>>

(* retire_if_idle: yes, and the entry is gone, unless a join is pending.   *)
RegistryAnswers ==
  /\ bpc = "asking"
  /\ IF joins = <<>> \/ ~filed THEN bpc' = "close" /\ filed' = FALSE
     ELSE bpc' = "run" /\ filed' = filed
  /\ Env /\ UNCHANGED <<pending, updates, bufferVars, clientVars, joins>>

-----------------------------------------------------------------------------
(* The way out: retire, close, and the drain of the joins, by which the    *)
(* frames are of no more use and the model forgets them.                   *)

Drain ==
  /\ bpc' = "drain"
  /\ payload' = 0 /\ pool' = {} /\ cooling' = <<>> /\ epoch' = 0
  /\ content' = [b \in Buffers |-> NoFrame]

BeginFinish ==
  /\ bpc = "close" /\ sessions # {}
  /\ session' = [c \in Clients |-> IF c \in sessions /\ ~session[c].ended
                                   THEN [session[c] EXCEPT !.finishing = TRUE] ELSE session[c]]
  /\ bpc' = "closing"
  /\ Env /\ UNCHANGED <<pending, updates, bufferVars, sessions, got, hungup, joins, filed>>

PollClosing(io) ==
  /\ bpc = "closing"
  /\ Env /\ UNCHANGED <<pending, updates, bpc, ctxVars, joins, filed>>
  /\ Polled(LAMBDA c : PollProgress(Of(c), epoch, payload, content, io[c]), FALSE)
  /\ session' # session
  /\ Stored(content)

(* Everybody was told, or TEARDOWN_TIMEOUT is over.                        *)
SessionsDropped ==
  /\ bpc = "closing" \/ (bpc = "close" /\ sessions = {})
  /\ Drain
  /\ Env /\ UNCHANGED <<pending, updates, joins, filed>>
  /\ Kept({}, Of)

Reject ==
  /\ bpc = "drain" /\ joins # <<>>
  /\ joins' = Tail(joins)
  /\ hungup' = hungup \ {Head(joins)}
  /\ Env /\ UNCHANGED <<pending, updates, bpc, bufferVars, sessions, session, got, filed>>

(* The last sender is gone.                                                *)
Drained ==
  /\ bpc = "drain" /\ joins = <<>> /\ ~filed
  /\ bpc' = "done"
  /\ Env /\ UNCHANGED <<pending, updates, bufferVars, clientVars, joins, filed>>

-----------------------------------------------------------------------------
(* The registry, and the clients *)

Task == UNCHANGED <<channelVars, pending, updates, bpc, bufferVars, sessions, session, got>>

QueueJoin(c) ==
  /\ filed /\ c \notin asked
  /\ joins' = Append(joins, c)
  /\ asked' = asked \cup {c}
  /\ Task /\ UNCHANGED <<filed, hungup>>

(* The server stops, or the registry comes to a `retire`.                  *)
EntryRemoved ==
  /\ filed /\ filed' = FALSE
  /\ Task /\ UNCHANGED <<joins, asked, hungup>>

HangUp(c) ==
  /\ c \notin hungup
  /\ c \in sessions \/ \E i \in DOMAIN joins : joins[i] = c
  /\ hungup' = hungup \cup {c}
  /\ Task /\ UNCHANGED registryVars

-----------------------------------------------------------------------------
Publishing(v) == UpdateReturns(v) \/ NotifyReader(v) \/ NotifierDrop(v)
Polls == \E io \in Meetings(sessions) : PollSessions(io) \/ PollClosing(io)
Running == Start \/ Book \/ Departure \/ Attach \/ JoinsClosed \/ Sweep
Ending == RegistryAnswers \/ BeginFinish \/ SessionsDropped \/ Reject \/ Drained

Next ==
  \/ \E v \in Venues : PublishStart(v) \/ DropStart(v) \/ Publishing(v)
  \/ Running \/ Polls \/ Ending \/ EntryRemoved
  \/ \E c \in Clients : QueueJoin(c) \/ HangUp(c)

Spec == Init /\ [][Next]_vars

(* The runtime polls a task that was woken, and the registry answers it,   *)
(* handling the retire of a broadcaster on its way out; a publish that     *)
(* began is carried through (there are finitely many: one condition for    *)
(* all of them is one for each).  That a client takes what is queued for   *)
(* it is assumed of those that do not hang up: of one that stalls for ever *)
(* nothing is promised.                                                    *)
Takes(c) == \E io \in Meetings(sessions) :
              c \in sessions /\ (io[c].takes > 0 \/ io[c].seen) /\ PollSessions(io)
Fairness ==
  /\ WF_vars(Running \/ Ending \/ (bpc \in {"close", "closing", "drain"} /\ EntryRemoved))
  /\ WF_vars(\E v \in Venues : Publishing(v))
  /\ \A c \in Clients : WF_vars(Takes(c))

LiveSpec == Spec /\ Fairness

-----------------------------------------------------------------------------
(* Properties *)

(* A client reads whole books, in the order they were merged in and none   *)
(* twice, however often it is offered one and whichever it missed: no      *)
(* buffer is written again while a connection holds a frame in it, nor is  *)
(* one in two places at once (Ctx::cool, BufferPool).  And a client that   *)
(* needs no book has been given the newest (session.rs, "Epochs").         *)
FramesAreIntact ==
  /\ \A c \in sessions :
       LET q == session[c].queue
           sent == <<got[c]>> \o [i \in DOMAIN q |-> content[q[i]]]
       IN  /\ \A i, j \in DOMAIN sent : i < j => sent[i].epoch < sent[j].epoch
           /\ q # <<>> => sent[Len(sent)].epoch = session[c].epoch - 1
           /\ session[c].epoch > epoch => sent[Len(sent)] = content[payload]
  /\ {payload} \cap pool = {} /\ {payload} \cap InCooling = {} /\ pool \cap InCooling = {}
  /\ \A i, j \in DOMAIN cooling : cooling[i] = cooling[j] => i = j
  /\ \A b \in pool : ~Pinned(b)

(* A broadcaster with nothing to be woken for has the newest book of every *)
(* venue that is between publishes in its frame, and of a venue it stopped *)
(* polling the empty book, though its departure sends nothing              *)
(* (poll_readers; the "Shutdown" section of book_publisher.rs).            *)
FrameIsNewest ==
  bpc \in {"run", "asking", "close", "closing"} =>
    \A v \in Venues :
      /\ vpc[v] \in {"idle", "gone"} /\ ~pending[v] => content[payload].books[v] = published[v]
      /\ v \notin updates => parting[v] # 0 /\ content[payload].books[v] = parting[v]

(* A book that is published reaches every attached client that reads, or a *)
(* newer one does, though a client without room is not offered it twice    *)
(* and nothing is kept for it (session.rs): however long it lags, a client *)
(* catches up with every venue, or is gone.                                *)
BooksReachClients ==
  \A c \in Clients :
    []<>(c \in sessions => \A v \in Venues : got[c].books[v] >= published[v])

(* Once the last publisher has gone, or the registry has let go, everyone  *)
(* who asked is told, or was cut off when time ran out, and nobody is left *)
(* waiting in the queue (close, BroadcasterRx::drain).                     *)
StreamsEnd ==
  ((\A v \in Venues : vpc[v] = "gone") \/ ~filed) ~> (bpc = "done" /\ joins = <<>> /\ sessions = {})
=============================================================================

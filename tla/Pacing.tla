------------------------------- MODULE Pacing -------------------------------
(***************************************************************************)
(* A connection against the clock: the control frames that say which       *)
(* streams its socket carries, and the sockets it opens one after another. *)
(* A pacer sends either all it has, many names to a frame, sleeping        *)
(* between frames while the session waits (binance_spot/src/pacer.rs), or  *)
(* one name per frame on the session's timer (bitstamp/src/pacer.rs); it   *)
(* lives as long as its socket.  A lost socket is replaced after a backoff *)
(* (core_lib/src/venue/connection.rs, backoff.rs).                         *)
(*                                                                         *)
(* Time is in ticks, and may pass before anything that is due.             *)
(***************************************************************************)
EXTENDS Integers, Sequences, FiniteSets

CONSTANTS Streams,      \* the wire names of the symbols
          CHUNK,        \* SUBSCRIBE_CHUNK
          GAP,          \* MIN_CONTROL_GAP, CONTROL_GAP
          INFLIGHT_IDS,
          BASE,         \* Backoff::BASE
          MAX_BACKOFF,  \* max_backoff
          HEALTHY,      \* HEALTHY_SESSION
          MaxTime,      \* bound: ticks
          MaxOrders     \* bound: commands

ASSUME PacingAssumption ==
  /\ IsFiniteSet(Streams) /\ CHUNK \in Nat \ {0} /\ INFLIGHT_IDS \in Nat \ {0} /\ GAP \in Nat
  /\ BASE \in Nat \ {0} /\ MAX_BACKOFF \in Nat /\ HEALTHY \in Nat
  /\ MaxTime \in Nat /\ MaxOrders \in Nat

VARIABLES pacer,   \* "batch" or "queue"
          clock,
          phase,   \* "connecting", "up", "down" or "over"
          carries, \* the streams that have a slot in the table
          outbox,  \* the pacer's queue
          batch,   \* frames on_admitted has yet to send; the session waits
          ready,   \* the time from which the next frame may go
          ids,     \* in_flight
          wire,    \* the frames this socket has taken
          started, \* when this session began
          backoff, \* Backoff::current
          wakeAt,  \* the end of the backoff
          streak,  \* history: sockets lost since one was healthy, with that one
          ended,   \* history: when the last one was lost
          orders   \* bound: commands so far

pacingVars == <<pacer, clock, phase, carries, outbox, batch, ready, ids, wire,
                started, backoff, wakeAt, streak, ended, orders>>
historyVars == <<streak, ended>>

Lesser(m, n) == IF m < n THEN m ELSE n

-----------------------------------------------------------------------------
(* The pacers *)

(* Slip: the streams of a method are put together, whatever came between.  *)
FramesPartitioned(items) ==
  LET of(method) == SelectSeq(items, LAMBDA item : item.method = method)
      frame(method) == [method |-> method, names |-> [i \in DOMAIN of(method) |-> of(method)[i].name]]
  IN  SelectSeq(<<frame("Subscribe"), frame("Unsubscribe")>>, LAMBDA f : f.names # <<>>)

(* One more name, in the last frame if that has its method and room.       *)
Framed(frames, item) ==
  IF frames # <<>> /\ frames[Len(frames)].method = item.method /\ Len(frames[Len(frames)].names) < CHUNK
  THEN [frames EXCEPT ![Len(frames)].names = Append(@, item.name)]
  ELSE Append(frames, [method |-> item.method, names |-> <<item.name>>])

(* Runs of one method, in chunks.                                          *)
Frames(items) ==
  LET first[n \in 0 .. Len(items)] == IF n = 0 THEN <<>> ELSE Framed(first[n - 1], items[n])
  IN  first[Len(items)]

(* on_admitted, with `items` behind what is queued.                        *)
Admitted(items) ==
  IF pacer = "batch" THEN outbox' = <<>> /\ batch' = Frames(outbox \o items)
  ELSE outbox' = outbox \o items /\ UNCHANGED batch

(* A frame on the wire, and the id it had there.                           *)
Sent(frame) ==
  /\ ready <= clock
  /\ wire' = Append(wire, [method |-> frame.method, names |-> frame.names, at |-> clock])
  /\ ready' = clock + GAP

(* send_control: the next chunk.                                           *)
SendControl ==
  /\ phase = "up" /\ batch # <<>>
  /\ Sent(Head(batch))
  /\ batch' = Tail(batch)
  /\ LET grown == Append(ids, [id |-> Len(wire'), names |-> Head(batch).names])
     IN  ids' = IF Len(grown) > INFLIGHT_IDS THEN Tail(grown) ELSE grown
  /\ UNCHANGED <<pacer, clock, phase, carries, outbox, started, backoff, wakeAt, historyVars, orders>>

(* on_deadline: one name.                                                  *)
OnDeadline ==
  /\ phase = "up" /\ pacer = "queue" /\ outbox # <<>>
  /\ Sent([method |-> Head(outbox).method, names |-> <<Head(outbox).name>>])
  /\ outbox' = Tail(outbox)
  /\ ids' = <<[id |-> Len(wire'), names |-> <<Head(outbox).name>>]>>   \* last_sent
  /\ UNCHANGED <<pacer, clock, phase, carries, batch, started, backoff, wakeAt, historyVars, orders>>

(* names_for: the streams a rejection is put down to.  A rejection of      *)
(* Bitstamp's names no request.                                            *)
NamesFor(id) ==
  IF pacer = "queue" THEN IF ids = <<>> THEN <<>> ELSE ids[1].names
  ELSE IF \E i \in DOMAIN ids : ids[i].id = id
    THEN ids[CHOOSE i \in DOMAIN ids : ids[i].id = id].names ELSE <<>>

-----------------------------------------------------------------------------
(* The session loop *)

(* What the supervisor asks: a stream that is carried to go, another to    *)
(* come; and what may be queued behind it.                                 *)
Order(method, name) == [method |-> method, name |-> name]
Toggle(name) == Order(IF name \in carries THEN "Unsubscribe" ELSE "Subscribe", name)
Undo(name) == Order(IF name \in carries THEN "Subscribe" ELSE "Unsubscribe", name)
Bursts(name) == {<<Toggle(name)>>, <<Toggle(name), Undo(name)>>}
                  \cup {<<Toggle(name), Toggle(also)>> : also \in Streams \ {name}}

(* What is subscribed after frames were obeyed in order; a command is like *)
(* a frame of one name.                                                    *)
Names(frame) == {frame.names[i] : i \in DOMAIN frame.names}
Obeying(streams, frame) ==
  IF frame.method = "Subscribe" THEN streams \cup Names(frame) ELSE streams \ Names(frame)
Obeyed(streams, frames) ==
  LET after[n \in 0 .. Len(frames)] == IF n = 0 THEN streams ELSE Obeying(after[n - 1], frames[n])
  IN  after[Len(frames)]
Single(items) == [i \in DOMAIN items |-> [method |-> items[i].method, names |-> <<items[i].name>>]]

(* apply, one command after another: a slot comes or goes.                 *)
Apply(items) ==
  /\ orders + Len(items) <= MaxOrders
  /\ orders' = orders + Len(items)
  /\ carries' = Obeyed(carries, Single(items))
  /\ UNCHANGED <<pacer, clock, phase, ready, ids, wire, started, backoff, wakeAt, historyVars>>

Admit(items) == phase = "up" /\ batch = <<>> /\ Apply(items) /\ Admitted(items)

(* wait_backoff admits, and has no socket to send on.                      *)
AdmitOffline(name) == phase = "down" /\ Apply(<<Toggle(name)>>) /\ UNCHANGED <<outbox, batch>>

(* The socket is open: every stream of the table is subscribed, by a pacer *)
(* that was new when the session began.                                    *)
Connected ==
  /\ phase = "connecting"
  /\ phase' = "up"
  /\ \E order \in [1 .. Cardinality(carries) -> carries] :
       /\ \A name \in carries : \E i \in DOMAIN order : order[i] = name
       /\ Admitted([i \in DOMAIN order |-> [method |-> "Subscribe", name |-> order[i]]])
  /\ UNCHANGED <<pacer, clock, carries, ready, ids, wire, started, backoff, wakeAt, historyVars, orders>>

(* next_delay: the wait, with some jitter, and twice that next time.  The  *)
(* cap is on what comes next, and may be less than BASE.                   *)
NextDelay(wait) ==
  /\ \E jitter \in 0 .. wait \div 2 : wakeAt' = clock + wait + jitter
  /\ backoff' = Lesser(2 * wait, MAX_BACKOFF)

(* The session fails, wherever it is; a long one starts the backoff from   *)
(* scratch.                                                                *)
SessionEnds ==
  /\ phase \in {"connecting", "up"}
  /\ phase' = "down"
  /\ LET healthy == clock - started >= HEALTHY
     IN  /\ NextDelay(IF healthy THEN BASE ELSE backoff)
         /\ streak' = IF healthy THEN 1 ELSE streak + 1
  /\ ended' = clock
  /\ UNCHANGED <<pacer, clock, carries, outbox, batch, ready, ids, wire, started, orders>>

(* A pacer lets its first frame go at once.                                *)
NewPacer == ready' = clock /\ outbox' = <<>> /\ batch' = <<>> /\ ids' = <<>>

(* The head of the loop and of the session: a pacer of its own.            *)
Reconnect ==
  /\ phase = "down" /\ clock >= wakeAt
  /\ phase' = "connecting"
  /\ started' = clock
  /\ NewPacer /\ wire' = <<>>
  /\ UNCHANGED <<pacer, clock, carries, backoff, wakeAt, historyVars, orders>>

(* The supervisor closed the queue.                                        *)
LaneClosed ==
  /\ phase = "down" \/ (phase = "up" /\ batch = <<>>)
  /\ phase' = "over"
  /\ UNCHANGED <<pacer, clock, carries, outbox, batch, ready, ids, wire, started, backoff, wakeAt,
                 historyVars, orders>>

Tick ==
  /\ phase # "over" /\ clock < MaxTime
  /\ clock' = clock + 1
  /\ UNCHANGED <<pacer, phase, carries, outbox, batch, ready, ids, wire, started, backoff, wakeAt,
                 historyVars, orders>>

-----------------------------------------------------------------------------
PacingInit ==
  /\ pacer \in {"batch", "queue"} /\ clock = 0 /\ phase = "connecting"
  /\ carries = {} /\ outbox = <<>> /\ batch = <<>> /\ ready = 0 /\ ids = <<>> /\ wire = <<>>
  /\ started = 0 /\ backoff = BASE /\ wakeAt = 0 /\ streak = 0 /\ ended = 0 /\ orders = 0

PacingNext ==
  \/ SendControl \/ OnDeadline \/ Connected \/ SessionEnds \/ Reconnect \/ LaneClosed \/ Tick
  \/ \E name \in Streams : AdmitOffline(name) \/ \E items \in Bursts(name) : Admit(items)

-----------------------------------------------------------------------------
(* Properties *)

(* BASE, doubled n - 1 times; all but the first under the cap.             *)
ShortestWait(n) ==
  LET doubled[k \in 1 .. n] == IF k = 1 THEN BASE ELSE 2 * doubled[k - 1]
  IN  IF n = 1 THEN BASE ELSE Lesser(doubled[n], MAX_BACKOFF)

(* However commands were batched, chunked and interrupted, a venue that    *)
(* obeys the frames of a socket in order ends up with the streams of the   *)
(* table, once it has what the pacer still holds; it is never sent frames  *)
(* closer than the gap, and a rejection is put down to the streams of its  *)
(* own request as long as they are remembered.  A venue that goes on       *)
(* failing sees the next socket after BASE first, then after twice as long *)
(* each time up to the cap, and after no more than half as much again      *)
(* (backoff.rs); a cap under BASE cuts the waits after the first.          *)
PacedInOrder ==
  /\ phase = "up" => Obeyed({}, wire \o batch \o Single(outbox)) = carries
  /\ \A i \in DOMAIN wire :
       /\ i > 1 => wire[i].at >= wire[i - 1].at + GAP
       /\ pacer = "batch" /\ phase = "up" =>
            NamesFor(i) = IF i > Len(wire) - INFLIGHT_IDS THEN wire[i].names ELSE <<>>
  /\ phase \in {"connecting", "up"} /\ streak > 0 => started >= ended + ShortestWait(streak)
  /\ phase = "down" => wakeAt <= ended + ShortestWait(streak) + ShortestWait(streak) \div 2
=============================================================================

------------------------------ MODULE Registry ------------------------------
(***************************************************************************)
(* The life of one catalogue instrument in the server: the accept loop and *)
(* its handshakes (md_server/src/framed.rs), the registry task that files  *)
(* at most one broadcaster under the instrument (registry/mod.rs), the     *)
(* generations of broadcasters (broadcast/broadcaster.rs), and the         *)
(* connectors' subscriptions (core_lib/src/venue/supervisor.rs) of the     *)
(* venues the instrument is merged from.                                   *)
(*                                                                         *)
(* The registry is one task that reads one unbounded queue and runs each   *)
(* handler to its end; everything around it runs at its own pace.  A       *)
(* broadcaster is named by its generation, the identity of its             *)
(* `pending_joins`.  Books are abstracted away: what matters is who is     *)
(* still publishing, who is attached, and who hears what.                  *)
(*                                                                         *)
(* A venue's supervisor and the connection it routes to are one step here: *)
(* the answer to a subscribe and the end of a publisher come with the      *)
(* router's decision.  Panics are not modelled.                            *)
(***************************************************************************)
EXTENDS Naturals, Sequences, FiniteSets

CONSTANTS Venues,    \* the venues of the instrument's pairs
          Clients,   \* the connections, each of which asks once
          Relisting  \* bound: may a symbol that was delisted be listed again?

ASSUME VenuesAssumption == IsFiniteSet(Venues) /\ Venues # {}
ASSUME ClientsAssumption == IsFiniteSet(Clients)
ASSUME RelistingAssumption == Relisting \in BOOLEAN

VARIABLES
  server,      \* "serving", "stopping" (aborting handshakes), "waiting" (for the
               \* registry), "finished" (connectors reclaimed) or "stopped"
  stage,       \* stage[c]: where client c is, or what it was told
  shaking,     \* the clients whose handshake task runs: it holds a RegistryTx
  hungup,      \* the clients that closed their end
  queue,       \* the registry's queue
  resolved,    \* has the instrument's slot of Registry::resolved been filled?
  shuttingDown,
  entry,       \* the generation filed in Registry::entries, 0 if None
  gens,        \* the number of broadcasters spawned so far
  bpc,         \* bpc[g]: where broadcaster g is
  joins,       \* joins[g]: the clients queued on its join channel
  pending,     \* pending[g]: its pending_joins
  sessions,    \* sessions[g]: the clients attached to it
  answer,      \* answer[g][v]: venue v's reply to its subscribe
  live,        \* live[g]: the venues whose Waiter it still polls
  interned,    \* the venues that ever listed their symbol
  listed,      \* the venues that list it as tradable now
  cqueue,      \* cqueue[v]: the queue of v's supervisor
  bound,       \* bound[v]: the generation v's router carries the symbol for, or 0
  publishing   \* publishing[g]: the venues whose BookPublisher for g exists

serverVars == <<server, shaking>>
registryVars == <<resolved, shuttingDown, entry, gens>>
taskVars == <<bpc, joins, pending, sessions, answer, live>>
venueVars == <<interned, listed, cqueue, bound, publishing>>
vars == <<serverVars, stage, hungup, queue, registryVars, taskVars, venueVars>>

(* Every generation but the first needs a client of its own to start it.   *)
Gens == 1 .. Cardinality(Clients)

Declined == {"unlisted", "changed", "shuttingDown"}
Answered == Declined \cup {"connectorRefused", "streamEnded"}
Over == Answered \cup {"dropped", "left"}
Stages == {"away", "reading", "queued", "joining", "attached"} \cup Over

BroadcasterSteps == {"none", "opening", "running", "asking", "kept", "stopping",
                     "closing", "draining", "done"}

Subscribe(c, current) == [type |-> "Subscribe", client |-> c, current |-> current]
RetireIfIdle(g) == [type |-> "RetireIfIdle", gen |-> g]
Retire(g) == [type |-> "Retire", gen |-> g]
ShutDown == [type |-> "ShutDown"]

(* Somebody outside the registry task holds a RegistryTx.                  *)
Reachable == \/ server \in {"serving", "stopping"}
             \/ shaking # {}
             \/ \E g \in Gens : bpc[g] \notin {"none", "done"}

Init ==
  /\ server = "serving"
  /\ stage = [c \in Clients |-> "away"]
  /\ shaking = {}
  /\ hungup = {}
  /\ queue = <<>>
  /\ resolved = FALSE
  /\ shuttingDown = FALSE
  /\ entry = 0
  /\ gens = 0
  /\ bpc = [g \in Gens |-> "none"]
  /\ joins = [g \in Gens |-> <<>>]
  /\ pending = [g \in Gens |-> 0]
  /\ sessions = [g \in Gens |-> {}]
  /\ answer = [g \in Gens |-> [v \in Venues |-> "none"]]
  /\ live = [g \in Gens |-> {}]
  /\ interned = {}
  /\ listed = {}
  /\ cqueue = [v \in Venues |-> <<>>]
  /\ bound = [v \in Venues |-> 0]
  /\ publishing = [g \in Gens |-> {}]

-----------------------------------------------------------------------------
(* The accept loop, the handshakes and the server's shutdown *)

Connect(c) ==
  /\ server = "serving"
  /\ stage[c] = "away"
  /\ stage' = [stage EXCEPT ![c] = "reading"]
  /\ shaking' = shaking \cup {c}
  /\ UNCHANGED <<server, hungup, queue, registryVars, taskVars, venueVars>>

(* The request arrived: it goes onto the registry's queue, client and all. *)
(* Its pairs are the catalogue's, or those of a catalogue of the past.     *)
Ask(c, current) ==
  /\ c \in shaking /\ stage[c] = "reading"
  /\ stage' = [stage EXCEPT ![c] = "queued"]
  /\ queue' = Append(queue, Subscribe(c, current))
  /\ UNCHANGED <<serverVars, hungup, registryVars, taskVars, venueVars>>

(* No usable request in time, or one the handshake answers by itself.      *)
HandshakeFails(c) ==
  /\ c \in shaking /\ stage[c] = "reading"
  /\ stage' = [stage EXCEPT ![c] = "dropped"]
  /\ shaking' = shaking \ {c}
  /\ UNCHANGED <<server, hungup, queue, registryVars, taskVars, venueVars>>

(* The registry replied; a client it handed back has been refused.         *)
HandshakeEnds(c) ==
  /\ c \in shaking /\ stage[c] \notin {"reading", "queued"}
  /\ shaking' = shaking \ {c}
  /\ UNCHANGED <<server, stage, hungup, queue, registryVars, taskVars, venueVars>>

Stop ==
  /\ server = "serving"
  /\ server' = "stopping"
  /\ UNCHANGED <<stage, shaking, hungup, queue, registryVars, taskVars, venueVars>>

(* in_flight.shutdown() aborts every handshake: a client that is still in  *)
(* its hands goes with it.                                                 *)
AbortHandshake(c) ==
  /\ server = "stopping" /\ c \in shaking
  /\ shaking' = shaking \ {c}
  /\ stage' = [stage EXCEPT ![c] = IF @ \in {"reading"} \cup Declined THEN "dropped" ELSE @]
  /\ UNCHANGED <<server, hungup, queue, registryVars, taskVars, venueVars>>

(* RegistryHandle::shutdown: the event, and the last RegistryTx but those  *)
(* of the broadcasters.                                                    *)
SendShutDown ==
  /\ server = "stopping" /\ shaking = {}
  /\ queue' = Append(queue, ShutDown)
  /\ server' = "waiting"
  /\ UNCHANGED <<shaking, stage, hungup, registryVars, taskVars, venueVars>>

(* The registry task hands the connectors back ...                         *)
RegistryEnds ==
  /\ queue = <<>> /\ ~Reachable
  /\ server = "waiting"
  /\ server' = "finished"
  /\ UNCHANGED <<stage, shaking, hungup, queue, registryVars, taskVars, venueVars>>

(* ... and they are shut down, their queues and their publishers with them.*)
ConnectorsStop ==
  /\ server = "finished"
  /\ server' = "stopped"
  /\ cqueue' = [v \in Venues |-> <<>>]
  /\ bound' = [v \in Venues |-> 0]
  /\ publishing' = [g \in Gens |-> {}]
  /\ UNCHANGED <<stage, shaking, hungup, queue, registryVars, taskVars, interned, listed>>

(* A client that was taken closes its connection.                          *)
HangUp(c) ==
  /\ stage[c] \in {"joining", "attached"} /\ c \notin hungup
  /\ hungup' = hungup \cup {c}
  /\ UNCHANGED <<serverVars, stage, queue, registryVars, taskVars, venueVars>>

-----------------------------------------------------------------------------
(* The registry task: one handler per event, from the head of the queue.   *)

Handles(type) == queue # <<>> /\ Head(queue).type = type /\ queue' = Tail(queue)

(* The reply carries the client back for a refusal; a handshake that was   *)
(* aborted meanwhile lets it fall.                                         *)
Decline(c, why) ==
  /\ stage' = [stage EXCEPT ![c] = IF c \in shaking THEN why ELSE "dropped"]
  /\ UNCHANGED <<gens, taskVars, cqueue>>

(* join_running: the count goes up before the send, on the same task.      *)
JoinRunning(c) ==
  /\ pending' = [pending EXCEPT ![entry] = @ + 1]
  /\ joins' = [joins EXCEPT ![entry] = Append(@, c)]
  /\ stage' = [stage EXCEPT ![c] = "joining"]
  /\ UNCHANGED <<entry, gens, bpc, sessions, answer, live, cqueue>>

(* A subscribe goes to every venue's supervisor, in the pairs' order.      *)
StartBroadcaster(c) ==
  LET g == gens + 1
  IN  /\ g \in Gens   \* a bound that is never met: each takes a client of its own
      /\ gens' = g
      /\ entry' = g
      /\ pending' = [pending EXCEPT ![g] = 1]
      /\ joins' = [joins EXCEPT ![g] = <<c>>]
      /\ bpc' = [bpc EXCEPT ![g] = "opening"]
      /\ stage' = [stage EXCEPT ![c] = "joining"]
      /\ cqueue' = [v \in Venues |-> Append(cqueue[v], g)]
      /\ UNCHANGED <<sessions, answer, live>>

(* The filed broadcaster still has the receiving half of its joins.        *)
Receiving == entry # 0 /\ bpc[entry] # "done"

(* check, resolve (the sweep may not be due, or may find a venue that has  *)
(* not interned its symbol), then subscribe_resolved.                      *)
HandleSubscribe ==
  /\ Handles("Subscribe")
  /\ LET c == Head(queue).client
         current == Head(queue).current
     IN  \/ /\ ~current
            /\ Decline(c, "changed")
            /\ UNCHANGED <<resolved, entry>>
         \/ /\ current /\ ~resolved
            /\ Decline(c, "unlisted")
            /\ UNCHANGED <<resolved, entry>>
         \/ /\ current /\ (resolved \/ interned = Venues)
            /\ resolved' = TRUE
            /\ \/ Receiving /\ JoinRunning(c)
               \/ ~Receiving /\ (shuttingDown \/ ~Reachable)
                  /\ Decline(c, "shuttingDown") /\ entry' = 0
               \/ ~Receiving /\ ~shuttingDown /\ Reachable /\ StartBroadcaster(c)
  /\ UNCHANGED <<serverVars, hungup, shuttingDown, interned, listed, bound, publishing>>

(* Entry::unsubscribe: every pair is released, whoever answered for it.    *)
Unsubscribe == 0
ReleaseEntry ==
  /\ entry' = 0
  /\ cqueue' = [v \in Venues |-> Append(cqueue[v], Unsubscribe)]

(* Slip: the joins on their way are not looked at.                         *)
HandleRetireIfIdleBlind ==
  /\ Handles("RetireIfIdle")
  /\ LET g == Head(queue).gen
     IN  /\ bpc' = [bpc EXCEPT ![g] = "stopping"]
         /\ IF entry = g THEN ReleaseEntry ELSE UNCHANGED <<entry, cqueue>>
  /\ UNCHANGED <<serverVars, stage, hungup, resolved, shuttingDown, gens, joins, pending,
                 sessions, answer, live, interned, listed, bound, publishing>>

(* Slip: the entry goes without its subscriptions.                         *)
HandleRetireIfIdleLeaks ==
  /\ Handles("RetireIfIdle")
  /\ LET g == Head(queue).gen
         kept == entry = g /\ pending[g] > 0
     IN  /\ bpc' = [bpc EXCEPT ![g] = IF kept THEN "kept" ELSE "stopping"]
         /\ entry' = IF entry = g /\ ~kept THEN 0 ELSE entry
  /\ UNCHANGED <<serverVars, stage, hungup, resolved, shuttingDown, gens, joins, pending,
                 sessions, answer, live, venueVars>>

(* retire_if_idle: the verdict goes back to the broadcaster that waits.    *)
HandleRetireIfIdle ==
  /\ Handles("RetireIfIdle")
  /\ LET g == Head(queue).gen
     IN  \/ /\ entry # g
            /\ bpc' = [bpc EXCEPT ![g] = "stopping"]
            /\ UNCHANGED <<entry, cqueue>>
         \/ /\ entry = g /\ pending[g] > 0
            /\ bpc' = [bpc EXCEPT ![g] = "kept"]
            /\ UNCHANGED <<entry, cqueue>>
         \/ /\ entry = g /\ pending[g] = 0
            /\ bpc' = [bpc EXCEPT ![g] = "stopping"]
            /\ ReleaseEntry
  /\ UNCHANGED <<serverVars, stage, hungup, resolved, shuttingDown, gens, joins, pending,
                 sessions, answer, live, interned, listed, bound, publishing>>

(* Slip: the entry goes, its subscriptions stay.                           *)
HandleRetireLeaks ==
  /\ Handles("Retire")
  /\ entry' = IF Head(queue).gen = entry THEN 0 ELSE entry
  /\ UNCHANGED <<serverVars, stage, hungup, resolved, shuttingDown, gens, taskVars, venueVars>>

(* Slip: the identity is not compared, a newer entry is taken out.         *)
HandleRetireAnyone ==
  /\ Handles("Retire")
  /\ IF entry # 0 THEN ReleaseEntry ELSE UNCHANGED <<entry, cqueue>>
  /\ UNCHANGED <<serverVars, stage, hungup, resolved, shuttingDown, gens, taskVars,
                 interned, listed, bound, publishing>>

HandleRetire ==
  /\ Handles("Retire")
  /\ IF Head(queue).gen = entry THEN ReleaseEntry ELSE UNCHANGED <<entry, cqueue>>
  /\ UNCHANGED <<serverVars, stage, hungup, resolved, shuttingDown, gens, taskVars,
                 interned, listed, bound, publishing>>

(* Slip: the entries stay, and with them the broadcasters' join senders.   *)
HandleShutDownKeepsEntries ==
  /\ Handles("ShutDown")
  /\ shuttingDown' = TRUE
  /\ UNCHANGED <<serverVars, stage, hungup, resolved, entry, gens, taskVars, venueVars>>

(* The entries are dropped; nothing is unsubscribed, the connectors are    *)
(* about to go.                                                            *)
HandleShutDown ==
  /\ Handles("ShutDown")
  /\ shuttingDown' = TRUE
  /\ entry' = 0
  /\ UNCHANGED <<serverVars, stage, hungup, resolved, gens, taskVars, venueVars>>

-----------------------------------------------------------------------------
(* The supervisors.  A queue entry is the generation a subscribe is for,   *)
(* or Unsubscribe.                                                         *)

(* The router forgets the symbol and the publisher is dropped.             *)
Unbind(v) ==
  /\ bound' = [bound EXCEPT ![v] = 0]
  /\ publishing' = [g \in Gens |-> IF bound[v] = g THEN publishing[g] \ {v} ELSE publishing[g]]

(* A refresh of the venue's listing names the symbol, and interns it ...   *)
List(v) ==
  /\ v \notin listed /\ server # "stopped"
  /\ v \in interned => Relisting
  /\ listed' = listed \cup {v}
  /\ interned' = interned \cup {v}
  /\ UNCHANGED <<serverVars, stage, hungup, queue, registryVars, taskVars,
                 cqueue, bound, publishing>>

(* ... or no longer names it: retire_unlisted.                             *)
Delist(v) ==
  /\ v \in listed /\ server # "stopped"
  /\ listed' = listed \ {v}
  /\ Unbind(v)
  /\ UNCHANGED <<serverVars, stage, hungup, queue, registryVars, taskVars, interned, cqueue>>

(* handle_subscribe: refused when unlisted, or already carried, or when    *)
(* the connection that should carry it is gone.                            *)
SuperviseSubscribe(v) ==
  /\ cqueue[v] # <<>> /\ Head(cqueue[v]) # Unsubscribe
  /\ cqueue' = [cqueue EXCEPT ![v] = Tail(@)]
  /\ LET g == Head(cqueue[v])
     IN  \/ /\ answer' = [answer EXCEPT ![g][v] = "refused"]
            /\ UNCHANGED <<bound, publishing>>
         \/ /\ v \in listed /\ bound[v] = 0
            /\ answer' = [answer EXCEPT ![g][v] = "reader"]
            /\ bound' = [bound EXCEPT ![v] = g]
            /\ publishing' = [publishing EXCEPT ![g] = @ \cup {v}]
  /\ UNCHANGED <<serverVars, stage, hungup, queue, registryVars, bpc, joins, pending,
                 sessions, live, interned, listed>>

SuperviseUnsubscribe(v) ==
  /\ cqueue[v] # <<>> /\ Head(cqueue[v]) = Unsubscribe
  /\ cqueue' = [cqueue EXCEPT ![v] = Tail(@)]
  /\ Unbind(v)
  /\ UNCHANGED <<serverVars, stage, hungup, queue, registryVars, taskVars, interned, listed>>

-----------------------------------------------------------------------------
(* A broadcaster *)

(* serve: every reply is awaited; all readers, or the whole subscribe is   *)
(* unwound and the joins are refused.                                      *)
OpenReaders(g) ==
  /\ bpc[g] = "opening" /\ \A v \in Venues : answer[g][v] # "none"
  /\ \/ /\ \A v \in Venues : answer[g][v] = "reader"
        /\ live' = [live EXCEPT ![g] = Venues]
        /\ bpc' = [bpc EXCEPT ![g] = "running"]
        /\ UNCHANGED queue
     \/ /\ \E v \in Venues : answer[g][v] = "refused"
        /\ bpc' = [bpc EXCEPT ![g] = "draining"]
        /\ queue' = Append(queue, Retire(g))
        /\ UNCHANGED live
  /\ UNCHANGED <<serverVars, stage, hungup, registryVars, joins, pending, sessions,
                 answer, venueVars>>

(* What every wake of the select ends with: a broadcaster without sessions *)
(* asks whether it may stop, and waits for the verdict.                    *)
EndOfWake(g) ==
  IF sessions'[g] = {} THEN /\ bpc' = [bpc EXCEPT ![g] = "asking"]
                            /\ queue' = Append(queue, RetireIfIdle(g))
  ELSE UNCHANGED <<bpc, queue>>

(* The verdict was no: round the loop again.                               *)
StayAlive(g) ==
  /\ bpc[g] = "kept"
  /\ bpc' = [bpc EXCEPT ![g] = "running"]
  /\ UNCHANGED <<serverVars, stage, hungup, queue, registryVars, joins, pending, sessions,
                 answer, live, venueVars>>

(* poll_readers finds the publishers that have gone (gone) and some venue  *)
(* that published; the publish may find sessions that ended.               *)
WakeBook(g) ==
  /\ bpc[g] = "running"
  /\ \E gone \in SUBSET (live[g] \ publishing[g]) :
     \E ended \in SUBSET (sessions[g] \cap hungup) :
       /\ live[g] \ gone # {}
       /\ live' = [live EXCEPT ![g] = @ \ gone]
       /\ sessions' = [sessions EXCEPT ![g] = @ \ ended]
       /\ stage' = [c \in Clients |-> IF c \in ended THEN "left" ELSE stage[c]]
  /\ EndOfWake(g)
  /\ UNCHANGED <<serverVars, hungup, registryVars, joins, pending, answer, venueVars>>

(* ... or nothing was published, and if nobody is left to, the broadcaster *)
(* stops.                                                                  *)
WakeDeparted(g) ==
  /\ bpc[g] = "running"
  /\ live[g] \ publishing[g] # {}
  /\ live' = [live EXCEPT ![g] = @ \cap publishing[g]]
  /\ UNCHANGED sessions
  /\ IF live'[g] = {} THEN bpc' = [bpc EXCEPT ![g] = "stopping"] /\ UNCHANGED queue
     ELSE EndOfWake(g)
  /\ UNCHANGED <<serverVars, stage, hungup, registryVars, joins, pending, answer, venueVars>>

(* The select is biased: joins are looked at when no reader is ready.      *)
ReadersQuiet(g) == bpc[g] = "running" /\ live[g] \subseteq publishing[g]

(* attach: the count goes down, and the current book may find that the     *)
(* client has gone already.                                                *)
WakeJoin(g) ==
  /\ ReadersQuiet(g) /\ joins[g] # <<>>
  /\ LET c == Head(joins[g])
     IN  \/ /\ sessions' = [sessions EXCEPT ![g] = @ \cup {c}]
            /\ stage' = [stage EXCEPT ![c] = "attached"]
         \/ /\ c \in hungup
            /\ stage' = [stage EXCEPT ![c] = "left"]
            /\ UNCHANGED sessions
  /\ joins' = [joins EXCEPT ![g] = Tail(@)]
  /\ pending' = [pending EXCEPT ![g] = @ - 1]
  /\ EndOfWake(g)
  /\ UNCHANGED <<serverVars, hungup, registryVars, answer, live, venueVars>>

(* The registry dropped the entry and with it the sender.                  *)
WakeJoinNone(g) ==
  /\ ReadersQuiet(g) /\ joins[g] = <<>> /\ entry # g
  /\ bpc' = [bpc EXCEPT ![g] = "stopping"]
  /\ UNCHANGED <<serverVars, stage, hungup, queue, registryVars, joins, pending, sessions,
                 answer, live, venueVars>>

(* poll_sessions finds sessions whose client has gone.  The Sweep wake     *)
(* does no more than have it look again, at clients that said nothing.     *)
WakeEnded(g) ==
  /\ ReadersQuiet(g) /\ joins[g] = <<>> /\ entry = g
  /\ \E ended \in SUBSET (sessions[g] \cap hungup) \ {{}} :
       /\ sessions' = [sessions EXCEPT ![g] = @ \ ended]
       /\ stage' = [c \in Clients |-> IF c \in ended THEN "left" ELSE stage[c]]
  /\ EndOfWake(g)
  /\ UNCHANGED <<serverVars, hungup, registryVars, joins, pending, answer, live, venueVars>>

(* Out of the loop: the claim is given up before anybody is told.          *)
StopBroadcasting(g) ==
  /\ bpc[g] = "stopping"
  /\ queue' = Append(queue, Retire(g))
  /\ bpc' = [bpc EXCEPT ![g] = "closing"]
  /\ UNCHANGED <<serverVars, stage, hungup, registryVars, joins, pending, sessions,
                 answer, live, venueVars>>

(* close: one deadline for all; a client that does not read is dropped.    *)
CloseSessions(g) ==
  /\ bpc[g] = "closing"
  /\ \E told \in SUBSET (sessions[g] \ hungup) :
       stage' = [c \in Clients |-> IF c \notin sessions[g] THEN stage[c]
                                   ELSE IF c \in told THEN "streamEnded"
                                   ELSE IF c \in hungup THEN "left" ELSE "dropped"]
  /\ sessions' = [sessions EXCEPT ![g] = {}]
  /\ bpc' = [bpc EXCEPT ![g] = "draining"]
  /\ UNCHANGED <<serverVars, hungup, queue, registryVars, joins, pending, answer, live, venueVars>>

Refused(g) == \E v \in Venues : answer[g][v] = "refused"

(* drain: every join there will ever be is refused ...                     *)
DrainJoin(g) ==
  /\ bpc[g] = "draining" /\ joins[g] # <<>>
  /\ LET c == Head(joins[g])
     IN stage' = [stage EXCEPT ![c] = IF c \in hungup THEN "left"
                                      ELSE IF Refused(g) THEN "connectorRefused"
                                      ELSE "streamEnded"]
  /\ joins' = [joins EXCEPT ![g] = Tail(@)]
  /\ UNCHANGED <<serverVars, hungup, queue, registryVars, bpc, pending, sessions,
                 answer, live, venueVars>>

(* Slip: the receiving half is dropped without a drain.                    *)
BroadcasterEndsUndrained(g) ==
  /\ bpc[g] = "draining"
  /\ bpc' = [bpc EXCEPT ![g] = "done"]
  /\ UNCHANGED <<serverVars, stage, hungup, queue, registryVars, joins, pending, sessions,
                 answer, live, venueVars>>

(* ... and the task ends when the registry has let go of the sender.       *)
BroadcasterEnds(g) ==
  /\ bpc[g] = "draining" /\ joins[g] = <<>> /\ entry # g
  /\ bpc' = [bpc EXCEPT ![g] = "done"]
  /\ UNCHANGED <<serverVars, stage, hungup, queue, registryVars, joins, pending, sessions,
                 answer, live, venueVars>>

-----------------------------------------------------------------------------
HandleEvent == HandleSubscribe \/ HandleRetireIfIdle \/ HandleRetire \/ HandleShutDown

Supervise(v) == SuperviseSubscribe(v) \/ SuperviseUnsubscribe(v)

(* What broadcaster g goes through with once it got there.                 *)
Advance(g) == \/ OpenReaders(g) \/ StayAlive(g) \/ WakeDeparted(g) \/ WakeJoinNone(g)
              \/ StopBroadcasting(g) \/ CloseSessions(g) \/ DrainJoin(g) \/ BroadcasterEnds(g)

Handshake(c) == (\E current \in BOOLEAN : Ask(c, current)) \/ HandshakeFails(c) \/ HandshakeEnds(c) \/ AbortHandshake(c)

Next ==
  \/ \E c \in Clients : Connect(c) \/ Handshake(c) \/ HangUp(c)
  \/ Stop \/ SendShutDown \/ RegistryEnds \/ ConnectorsStop
  \/ HandleEvent
  \/ \E v \in Venues : List(v) \/ Delist(v) \/ Supervise(v)
  \/ \E g \in Gens : Advance(g) \/ WakeBook(g) \/ WakeJoin(g) \/ WakeEnded(g)

Spec == Init /\ [][Next]_vars

(* Every task runs on and every deadline passes.  A broadcaster is not     *)
(* kept from its joins and sessions for ever by books (SF: the select is   *)
(* biased towards them, and a venue's updates leave gaps), and a publisher *)
(* that has gone reports one last book at most.  Nothing makes a client    *)
(* connect or leave, a venue list, or the server stop.                     *)
Fairness ==
  /\ WF_vars(HandleEvent)
  /\ WF_vars(SendShutDown \/ RegistryEnds \/ ConnectorsStop)
  /\ WF_vars(\E c \in Clients : Handshake(c))     \* a few steps per client at most
  /\ WF_vars(\E v \in Venues : Supervise(v))      \* finitely many requests
  /\ \A g \in Gens : /\ WF_vars(Advance(g))
                      /\ SF_vars(WakeDeparted(g) \/ WakeJoin(g) \/ WakeEnded(g))

LiveSpec == Spec /\ Fairness

-----------------------------------------------------------------------------
(* Properties *)

(* One broadcaster serves the instrument at a time: until the server shuts *)
(* down, a generation that opens or broadcasts is the one that is filed.   *)
OneBroadcaster ==
  \A g \in Gens : bpc[g] \in {"opening", "running", "kept"} /\ ~shuttingDown => entry = g

(* A subscription has one owner.  No supervisor is ever asked to subscribe *)
(* a symbol it still carries, which it would refuse ("an invariant, not a  *)
(* nicety", subscribe_resolved); and one that nobody is filed for is about *)
(* to be released.                                                         *)
SubscriptionsAreOwned ==
  \A v \in Venues :
    /\ cqueue[v] # <<>> /\ Head(cqueue[v]) # Unsubscribe => bound[v] = 0
    /\ bound[v] # 0 /\ ~shuttingDown =>
         bound[v] = entry \/ \E i \in DOMAIN cqueue[v] : cqueue[v][i] = Unsubscribe

(* A client that was handed to a broadcaster is turned away only because   *)
(* no venue publishes any more, one refused, or the server shuts down: the *)
(* retirement of an idle broadcaster never costs a client its stream.      *)
StoppedForCause ==
  \A g \in Gens :
    bpc[g] \in {"stopping", "closing", "draining"} /\ (joins[g] # <<>> \/ sessions[g] # {})
      => shuttingDown \/ live[g] = {} \/ Refused(g)

(* A client on the registry's queue is attached, refused or dropped.       *)
EveryClientAnswered ==
  \A c \in Clients : (stage[c] = "queued") ~> (stage[c] \notin {"queued", "joining"})

Unwatched == \A c \in Clients : stage[c] \in Over \cup {"away"} \/ c \in hungup

(* When nobody watches the instrument its subscriptions are released.      *)
UnwatchedIsReleased ==
  Unwatched ~> (~Unwatched \/ \A v \in Venues : bound[v] = 0)

(* Once told to, the server stops, whatever its clients do.                *)
ShutdownCompletes == (server = "stopping") ~> (server = "stopped")
=============================================================================

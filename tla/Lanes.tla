------------------------------- MODULE Lanes -------------------------------
(***************************************************************************)
(* The supervisor of one venue (core_lib/src/venue/supervisor.rs), the     *)
(* router that says which connection carries which symbol (router.rs), the *)
(* task that refreshes the venue's listing (universe.rs), and, of each     *)
(* connection, its command queue and the symbols that have a slot on it    *)
(* (connection.rs; module Connection models the rest of it).               *)
(*                                                                         *)
(* The supervisor is one task that runs one arm of its select to the end,  *)
(* but an arm stops where it awaits room in a lane's queue, and a lane     *)
(* may take commands, close or die meanwhile: each such wait is a state of *)
(* `sup`.  Lanes are numbered in the order they are opened.  A connection  *)
(* that is opening its socket takes no commands: it is one whose next      *)
(* Admit is yet to come.                                                   *)
(***************************************************************************)
EXTENDS Naturals, Sequences, FiniteSets

CONSTANTS Symbols,     \* the instruments of the venue
          Capacity,    \* max_symbols_per_connection
          QueueSize,   \* SUBS_CHANNEL
          MaxRequests, \* bound: requests of the registry
          MaxBacklog,  \* bound: requests in its queue at a time
          MaxListings, \* bound: listings fetched
          MaxDeaths    \* bound: connection tasks that die

ASSUME SymbolsAssumption == IsFiniteSet(Symbols) /\ Symbols # {}
ASSUME SizesAssumption == Capacity \in Nat \ {0} /\ QueueSize \in Nat \ {0}
ASSUME BoundsAssumption == MaxRequests \in Nat /\ MaxBacklog \in Nat
                           /\ MaxListings \in Nat /\ MaxDeaths \in Nat

VARIABLES
  channel,   \* the listing channel, one deep
  listings,  \* bound: listings fetched so far
  requests,  \* the connector's queue
  sent,      \* bound: requests so far; a subscribe is named by its number
  answer,    \* answer[i]: "none" (no such subscribe), "asked", or how it ended
  listed,    \* the listing the supervisor goes by
  lanes,     \* Router::lanes: the load of each lane it holds
  bySymbol,  \* Router::by_symbol
  opened,    \* Router::next_id
  sup,       \* where the supervisor is
  task,      \* task[l]: "none", "running" or "ended"
  queue,     \* queue[l]: its command queue
  slots,     \* slots[l]: the symbols of its slot table
  unjoined,  \* how many ended tasks the JoinSet still holds
  deaths     \* bound: deaths so far

refreshVars == <<channel, listings>>
requestVars == <<requests, sent>>
routerVars == <<lanes, bySymbol, opened>>
laneVars == <<task, queue, slots, unjoined, deaths>>
vars == <<refreshVars, requestVars, answer, listed, routerVars, sup, laneVars>>

(* A subscribe opens a lane, and one more when that one has died.          *)
Lane == 1 .. MaxRequests + MaxDeaths
Ids == 1 .. MaxRequests

Idle == [at |-> "idle"]
Stopping == [at |-> "stopping"]
Stopped == [at |-> "stopped"]
ShutDown == [op |-> "ShutDown"]

Routed == DOMAIN bySymbol
Closed(l) == task[l] = "ended"
Held(l) == l \in DOMAIN lanes
Without(f, S) == [x \in DOMAIN f \ S |-> f[x]]
Bound(l) == {s \in Routed : bySymbol[s] = l}

(* The first listing has arrived, and names every symbol: before that any  *)
(* subscribe is refused and nothing is routed.                             *)
Init ==
  /\ channel = <<>> /\ listings = 0
  /\ requests = <<>> /\ sent = 0
  /\ answer = [i \in Ids |-> "none"]
  /\ listed = Symbols
  /\ lanes = <<>> /\ bySymbol = <<>> /\ opened = 0
  /\ sup = Idle
  /\ task = [l \in Lane |-> "none"]
  /\ queue = [l \in Lane |-> <<>>]
  /\ slots = [l \in Lane |-> {}]
  /\ unjoined = 0
  /\ deaths = 0

-----------------------------------------------------------------------------
(* The registry's requests and the refresh of the listing *)

(* The shut down is the registry's last word.                              *)
MayAsk == /\ Len(requests) < MaxBacklog /\ ShutDown \notin {requests[k] : k \in DOMAIN requests}
          /\ sup.at \notin {"stopping", "stopped"}

Ask(s, op) ==
  /\ MayAsk /\ sent < MaxRequests
  /\ sent' = sent + 1
  /\ requests' = Append(requests, [op |-> op, sym |-> s, id |-> sent + 1])
  /\ answer' = IF op = "Subscribe" THEN [answer EXCEPT ![sent + 1] = "asked"] ELSE answer
  /\ UNCHANGED <<refreshVars, listed, routerVars, sup, laneVars>>

AskShutDown ==
  /\ MayAsk
  /\ requests' = Append(requests, ShutDown)
  /\ UNCHANGED <<refreshVars, sent, answer, listed, routerVars, sup, laneVars>>

(* A listing was fetched, and goes into the channel when there is room.  A *)
(* fetch that fails never sends: the supervisor keeps the listing it had.  *)
Refreshed(S) ==
  /\ sup.at \notin {"stopping", "stopped"}
  /\ channel = <<>> /\ listings < MaxListings
  /\ channel' = <<S>> /\ listings' = listings + 1
  /\ UNCHANGED <<requestVars, answer, listed, routerVars, sup, laneVars>>

-----------------------------------------------------------------------------
(* The router *)

WithRoom == {l \in DOMAIN lanes : lanes[l] < Capacity /\ ~Closed(l)}
Lowest(S) == CHOOSE l \in S : \A k \in S : l <= k

(* spawn_lane, on a router that holds `held`.                              *)
Open(held) ==
  LET l == opened + 1
  IN  /\ l \in Lane   \* bound, never met
      /\ opened' = l
      /\ lanes' = [k \in DOMAIN held \cup {l} |-> IF k = l THEN 0 ELSE held[k]]
      /\ task' = [task EXCEPT ![l] = "running"]

(* Slip: the load is not counted.                                          *)
BindUncounted(s, l) ==
  /\ bySymbol' = [k \in Routed \cup {s} |-> IF k = s THEN l ELSE bySymbol[k]]
  /\ UNCHANGED lanes

Bind(s, l) ==
  /\ bySymbol' = [k \in Routed \cup {s} |-> IF k = s THEN l ELSE bySymbol[k]]
  /\ lanes' = [k \in DOMAIN lanes |-> lanes[k] + (IF k = l THEN 1 ELSE 0)]

(* Router::take: `held` is what it leaves of the lanes' loads.             *)
Unloaded(l) ==
  [k \in DOMAIN lanes |-> IF k = l /\ lanes[k] > 0 THEN lanes[k] - 1 ELSE lanes[k]]
Take(s) == bySymbol' = Without(bySymbol, {s}) /\ lanes' = Unloaded(bySymbol[s])

(* The bindings of the lanes in L go with them.                            *)
DropLanes(L) ==
  /\ lanes' = Without(lanes, L)
  /\ bySymbol' = Without(bySymbol, UNION {Bound(l) : l \in L})

PurgeClosed == DropLanes({l \in DOMAIN lanes : Closed(l)})

(* reap_idle: every empty lane but the oldest.                             *)
Reaped ==
  LET empty == {l \in DOMAIN lanes : lanes[l] = 0}
  IN  IF empty = {} THEN lanes ELSE Without(lanes, empty \ {Lowest(empty)})

-----------------------------------------------------------------------------
(* The supervisor.  Everything below takes up a turn of its select, or     *)
(* goes on from where the turn waited for room in a queue.                 *)

SubscribeCmd(s, i) == [op |-> "Subscribe", sym |-> s, id |-> i]
UnsubscribeCmd(s) == [op |-> "Unsubscribe", sym |-> s]
Room(l) == Held(l) /\ ~Closed(l) /\ Len(queue[l]) < QueueSize
(* Slip: a send waits for room on a dead lane, too.                        *)
GoneByRouter(l) == ~Held(l)

Gone(l) == ~Held(l) \/ Closed(l)
Send(l, cmd) == queue' = [queue EXCEPT ![l] = Append(@, cmd)]

(* retire_unlisted: what the listing no longer names is torn down, symbol  *)
(* by symbol and in no particular order; then the listing counts.          *)
TakeListing ==
  /\ sup = Idle /\ channel # <<>>
  /\ channel' = <<>>
  /\ LET gone == Routed \ channel[1]
     IN  \E order \in [1 .. Cardinality(gone) -> gone] :
           /\ \A i, j \in DOMAIN order : order[i] = order[j] => i = j
           /\ sup' = [at |-> "retiring", gone |-> order, fresh |-> channel[1]]
  /\ UNCHANGED <<listings, requestVars, answer, listed, routerVars, laneVars>>

(* router.take comes before the wait, but nobody else reads the router.    *)
RetireNext ==
  /\ sup.at = "retiring" /\ sup.gone # <<>>
  /\ LET s == Head(sup.gone)
         l == bySymbol[s]
     IN  /\ \/ Gone(l) /\ UNCHANGED queue
            \/ Room(l) /\ Send(l, UnsubscribeCmd(s))
         /\ Take(s)
  /\ sup' = [sup EXCEPT !.gone = Tail(@)]
  /\ UNCHANGED <<refreshVars, requestVars, answer, listed, opened, task, slots, unjoined, deaths>>

RetireDone ==
  /\ sup.at = "retiring" /\ sup.gone = <<>>
  /\ listed' = sup.fresh
  /\ sup' = Idle
  /\ UNCHANGED <<refreshVars, requestVars, answer, routerVars, laneVars>>

Next_(op) == sup = Idle /\ requests # <<>> /\ Head(requests).op = op
          /\ requests' = Tail(requests)

(* Slip: nobody looks whether the symbol is carried already.               *)
TakeSubscribeUnchecked ==
  /\ Next_("Subscribe")
  /\ LET s == Head(requests).sym
         i == Head(requests).id
         to(l) == [at |-> "subscribing", sym |-> s, id |-> i, lane |-> l, attempt |-> 0]
     IN  IF s \notin listed
         THEN answer' = [answer EXCEPT ![i] = "refused"] /\ UNCHANGED <<sup, routerVars, task>>
         ELSE /\ UNCHANGED <<answer, bySymbol>>
              /\ IF WithRoom # {} THEN sup' = to(Lowest(WithRoom)) /\ UNCHANGED <<lanes, opened, task>>
                 ELSE Open(lanes) /\ sup' = to(opened + 1)
  /\ UNCHANGED <<refreshVars, sent, listed, queue, slots, unjoined, deaths>>

(* handle_subscribe: refused, or a lane is chosen.                         *)
TakeSubscribe ==
  /\ Next_("Subscribe")
  /\ LET s == Head(requests).sym
         i == Head(requests).id
         to(l) == [at |-> "subscribing", sym |-> s, id |-> i, lane |-> l, attempt |-> 0]
     IN  \/ /\ s \notin listed \/ s \in Routed
            /\ answer' = [answer EXCEPT ![i] = "refused"]
            /\ UNCHANGED <<sup, routerVars, task>>
         \/ /\ s \in listed \ Routed
            /\ IF WithRoom # {} THEN sup' = to(Lowest(WithRoom)) /\ UNCHANGED <<lanes, opened, task>>
               ELSE Open(lanes) /\ sup' = to(opened + 1)
            /\ UNCHANGED <<answer, bySymbol>>
  /\ UNCHANGED <<refreshVars, sent, listed, queue, slots, unjoined, deaths>>

(* send_subscribe: the binding is made when the command is in the queue.   *)
SendSubscribe ==
  /\ sup.at = "subscribing" /\ Room(sup.lane)
  /\ Send(sup.lane, SubscribeCmd(sup.sym, sup.id))
  /\ Bind(sup.sym, sup.lane)
  /\ sup' = Idle
  /\ UNCHANGED <<refreshVars, requestVars, answer, listed, opened, task, slots, unjoined, deaths>>

(* Slip: the caller is told at the first failure, and the command kept.    *)
SubscribeLaneGoneAnswers ==
  /\ sup.at = "subscribing" /\ Gone(sup.lane)
  /\ DropLanes({sup.lane})
  /\ answer' = [answer EXCEPT ![sup.id] = "refused"]
  /\ \/ /\ sup.attempt = 0
        /\ sup' = [sup EXCEPT !.attempt = 1]
     \/ /\ sup.attempt = 1
        /\ sup' = Idle
  /\ UNCHANGED <<refreshVars, requestVars, listed, opened, task, queue, slots, unjoined, deaths>>

(* The lane died before the command was taken: it is dropped with what it  *)
(* carried and the command tried once more, on a lane of its own.          *)
SubscribeLaneGone ==
  /\ sup.at = "subscribing" /\ Gone(sup.lane)
  /\ bySymbol' = Without(bySymbol, Bound(sup.lane))   \* drop_lane
  /\ \/ /\ sup.attempt = 0
        /\ Open(Without(lanes, {sup.lane}))
        /\ sup' = [sup EXCEPT !.lane = opened + 1, !.attempt = 1]
        /\ UNCHANGED answer
     \/ /\ sup.attempt = 1
        /\ lanes' = Without(lanes, {sup.lane})
        /\ answer' = [answer EXCEPT ![sup.id] = "refused"]
        /\ sup' = Idle
        /\ UNCHANGED <<opened, task>>
  /\ UNCHANGED <<refreshVars, requestVars, listed, queue, slots, unjoined, deaths>>

(* handle_unsubscribe of a symbol nobody carries.                          *)
UnsubscribeUnknown ==
  /\ Next_("Unsubscribe") /\ Head(requests).sym \notin Routed
  /\ UNCHANGED <<refreshVars, sent, answer, listed, routerVars, sup, laneVars>>

TakeUnsubscribe ==
  /\ Next_("Unsubscribe") /\ Head(requests).sym \in Routed
  /\ LET s == Head(requests).sym
     IN  /\ Take(s)
         /\ sup' = [at |-> "unsubscribing", sym |-> s, lane |-> bySymbol[s]]
  /\ UNCHANGED <<refreshVars, sent, answer, listed, opened, laneVars>>

(* The command is sent, or the lane is gone; either way idle lanes close.  *)
SendUnsubscribe ==
  /\ sup.at = "unsubscribing"
  /\ \/ Gone(sup.lane) /\ UNCHANGED queue
     \/ Room(sup.lane) /\ Send(sup.lane, UnsubscribeCmd(sup.sym))
  /\ lanes' = Reaped
  /\ sup' = Idle
  /\ UNCHANGED <<refreshVars, requestVars, answer, listed, bySymbol, opened, task, slots,
                 unjoined, deaths>>

(* Slip: only the lanes go.                                                *)
JoinKeepsBindings ==
  /\ sup = Idle /\ unjoined > 0
  /\ unjoined' = unjoined - 1
  /\ lanes' = Without(lanes, {k \in DOMAIN lanes : Closed(k)})
  /\ UNCHANGED <<refreshVars, requestVars, answer, listed, bySymbol, opened, sup, task, queue,
                 slots, deaths>>

(* A task is joined; every lane whose sender reports closed is purged.     *)
Join ==
  /\ sup = Idle /\ unjoined > 0
  /\ unjoined' = unjoined - 1
  /\ PurgeClosed
  /\ UNCHANGED <<refreshVars, requestVars, answer, listed, opened, sup, task, queue, slots, deaths>>

(* The refresher is aborted and every lane's sender dropped.               *)
TakeShutDown ==
  /\ Next_("ShutDown")
  /\ channel' = <<>>
  /\ lanes' = <<>> /\ bySymbol' = <<>>
  /\ sup' = Stopping
  /\ UNCHANGED <<listings, sent, answer, listed, opened, laneVars>>

Running == {l \in Lane : task[l] = "running"}
Left(l) == {queue[l][k].id : k \in {k \in DOMAIN queue[l] : queue[l][k].op = "Subscribe"}}

(* The tasks in L end, and the subscribes left in their queues are never   *)
(* answered: their reply channels are dropped.                             *)
End(L) ==
  LET lost == UNION {Left(l) : l \in L}
  IN  /\ task' = [l \in Lane |-> IF l \in L THEN "ended" ELSE task[l]]
      /\ queue' = [l \in Lane |-> IF l \in L THEN <<>> ELSE queue[l]]
      /\ slots' = [l \in Lane |-> IF l \in L THEN {} ELSE slots[l]]
      /\ answer' = [i \in Ids |-> IF i \in lost THEN "dropped" ELSE answer[i]]
      /\ unjoined' = unjoined + Cardinality(L)

(* SHUTDOWN_GRACE is over.                                                 *)
AbortLanes ==
  /\ sup = Stopping /\ Running # {}
  /\ End(Running)
  /\ UNCHANGED <<refreshVars, requestVars, listed, routerVars, sup, deaths>>

(* Every connection has ended and is joined.                               *)
Finish ==
  /\ sup = Stopping /\ Running = {}
  /\ sup' = Stopped
  /\ unjoined' = 0
  /\ UNCHANGED <<refreshVars, requestVars, answer, listed, routerVars, task, queue, slots, deaths>>

-----------------------------------------------------------------------------
(* A connection *)

(* apply: insert_slot answers the request, one way or the other.           *)
Admit(l) ==
  /\ l \in Running /\ queue[l] # <<>>
  /\ queue' = [queue EXCEPT ![l] = Tail(@)]
  /\ LET cmd == Head(queue[l])
     IN  \/ /\ cmd.op = "Subscribe" /\ cmd.sym \notin slots[l]
            /\ slots' = [slots EXCEPT ![l] = @ \cup {cmd.sym}]
            /\ answer' = [answer EXCEPT ![cmd.id] = "reader"]
         \/ /\ cmd.op = "Subscribe" /\ cmd.sym \in slots[l]
            /\ answer' = [answer EXCEPT ![cmd.id] = "refused"]
            /\ UNCHANGED slots
         \/ /\ cmd.op = "Unsubscribe"
            /\ slots' = [slots EXCEPT ![l] = @ \ {cmd.sym}]
            /\ UNCHANGED answer
  /\ UNCHANGED <<refreshVars, requestVars, listed, routerVars, sup, task, unjoined, deaths>>

(* The sender was dropped, and the queue is drained first; but a           *)
(* connection that fails to open its socket then returns at once.          *)
Closes(l) ==
  /\ ~Held(l) /\ l \in Running
  /\ End({l})
  /\ UNCHANGED <<refreshVars, requestVars, listed, routerVars, sup, deaths>>

Dies(l) ==
  /\ deaths < MaxDeaths /\ l \in Running
  /\ deaths' = deaths + 1
  /\ End({l})
  /\ UNCHANGED <<refreshVars, requestVars, listed, routerVars, sup>>

Supervise ==
  \/ TakeListing \/ RetireNext \/ RetireDone
  \/ TakeSubscribe \/ SendSubscribe \/ SubscribeLaneGone
  \/ UnsubscribeUnknown \/ TakeUnsubscribe \/ SendUnsubscribe
  \/ Join \/ TakeShutDown \/ Finish

Next ==
  \/ \E s \in Symbols : Ask(s, "Subscribe") \/ Ask(s, "Unsubscribe")
  \/ AskShutDown
  \/ \E S \in SUBSET Symbols : Refreshed(S)
  \/ Supervise \/ AbortLanes
  \/ \E l \in Lane : Admit(l) \/ Closes(l) \/ Dies(l)

(* The supervisor and the connections run: a connect returns, and the      *)
(* arms of a select take turns.  Nothing is asked of the registry, the     *)
(* listing or the sockets.                                                 *)
Fairness == WF_vars(Supervise \/ AbortLanes \/ \E l \in Lane : Admit(l) \/ Closes(l))

Spec == Init /\ [][Next]_vars /\ Fairness

-----------------------------------------------------------------------------
(* Properties *)

(* The slot table of l when n commands of its queue are through: the last  *)
(* to name a symbol decides, and a symbol none names stays as it is.       *)
After(l, n) ==
  LET naming(s) == {k \in 1 .. n : queue[l][k].sym = s}
  IN  {s \in Symbols :
         \/ naming(s) = {} /\ s \in slots[l]
         \/ \E k \in naming(s) : /\ queue[l][k].op = "Subscribe"
                                /\ \A j \in naming(s) : j <= k}

(* ... and when all of them are.                                          *)
AfterQueue(l) == After(l, Len(queue[l]))

InHand(l) == IF sup.at = "unsubscribing" /\ sup.lane = l THEN {sup.sym} ELSE {}

(* The router is right about every connection that runs: once its queue is *)
(* drained it has a slot for the symbols bound to it (router.rs) and the   *)
(* one being unsubscribed, and for no other; its load says how many.  A    *)
(* connection that was let go carries nothing, none has more slots than    *)
(* its venue allows, and what the venue no longer lists is not routed once *)
(* the supervisor is back at its select.                                   *)
TableFollowsRouter ==
  sup.at \notin {"stopping", "stopped"} =>
    /\ \A l \in Running :
         /\ AfterQueue(l) = Bound(l) \cup InHand(l)
         /\ Held(l) => lanes[l] = Cardinality(Bound(l))
         /\ Cardinality(slots[l]) <= Capacity
    /\ sup = Idle => Routed \subseteq listed

(* One symbol never ends up with two books: no two connections that run    *)
(* are about to have a slot for it, and a subscribe reaches none that has. *)
OneSlotPerSymbol ==
  /\ \A k, l \in Lane : k # l => AfterQueue(k) \cap AfterQueue(l) = {}
  /\ \A l \in Lane : queue[l] # <<>> /\ Head(queue[l]).op = "Subscribe"
                        => Head(queue[l]).sym \notin slots[l]

(* Where subscribe i is: in the connector's queue, in the supervisor's     *)
(* hands, or in the queues of the lanes.                                   *)
Places(i) ==
  {<<"requests", k>> : k \in {k \in DOMAIN requests : requests[k] # ShutDown /\ requests[k].id = i}}
  \cup {<<"sup", 0>> : x \in {x \in {1} : sup.at = "subscribing" /\ sup.id = i}}
  \cup {<<"lane", l>> : l \in {l \in Lane : i \in Left(l)}}

(* A subscribe that is retried is neither lost nor answered twice: the     *)
(* reply channel is in one place until it is answered, and then in none.   *)
AnsweredOnce ==
  \A i \in Ids : Cardinality({p \in Places(i) : answer[i] # "none"})
                   = (IF answer[i] = "asked" THEN 1 ELSE 0)

(* Every subscribe is answered, or its caller sees the channel drop: with  *)
(* finitely many requests there comes a time when none waits.              *)
EverySubscribeEnds == (\E i \in Ids : answer[i] = "asked") ~> (\A i \in Ids : answer[i] # "asked")

(* The symbols of a connection that died may be subscribed again.          *)
OrphansAreFreed == (\E s \in Routed : Closed(bySymbol[s])) ~> (\A s \in Routed : ~Closed(bySymbol[s]))

=============================================================================

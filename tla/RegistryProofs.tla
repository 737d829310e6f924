--------------------------- MODULE RegistryProofs ---------------------------
(***************************************************************************)
(* Proofs about Registry, for every set of venues and of clients: one      *)
(* broadcaster at a time, every subscription owned, and no client turned   *)
(* away without a cause.                                                   *)
(***************************************************************************)
EXTENDS Registry, Integers, FiniteSetTheorems, TLAPS

(* The events on the registry's queue.                                     *)
Events == [type : {"Subscribe"}, client : Clients, current : BOOLEAN]
            \cup [type : {"RetireIfIdle", "Retire"}, gen : Gens]
            \cup [type : {"ShutDown"}]

(* The type invariant of what the proof is about.                          *)
Types ==
  /\ queue \in Seq(Events)
  /\ shuttingDown \in BOOLEAN /\ gens \in Nat /\ entry \in Nat
  /\ bpc \in [Gens -> BroadcasterSteps]
  /\ joins \in [Gens -> Seq(Clients)] /\ pending \in [Gens -> Int]
  /\ sessions \in [Gens -> SUBSET Clients] /\ live \in [Gens -> SUBSET Venues]
  /\ answer \in [Gens -> [Venues -> {"none", "refused", "reader"}]]
  /\ cqueue \in [Venues -> Seq(Nat)] /\ bound \in [Venues -> Nat]

(* What the invariant is about; the rest may move as it likes.             *)
moving == <<queue, shuttingDown, entry, gens, bpc, joins, pending, sessions, answer, live,
            cqueue, bound>>

(* A generation that has not left its loop.                                *)
Active(g) == bpc[g] \in {"opening", "running", "asking", "kept"}

(* One that is on its way out.                                             *)
Leaving(g) == bpc[g] \in {"stopping", "closing", "draining"}

(* The entry and its generation: numbers are given out in order, the entry *)
(* is of a broadcaster that is there, and until the server stops a         *)
(* broadcaster in its loop is the filed one.                               *)
Filed ==
  /\ \A g \in Gens : g > gens => bpc[g] = "none"
  /\ entry <= gens
  /\ entry # 0 => entry \in Gens /\ bpc[entry] \notin {"none", "done"}
  /\ \A g \in Gens : Active(g) /\ ~shuttingDown => entry = g
  /\ shuttingDown => entry = 0

(* Somebody whose question is queued waits for the verdict ...             *)
AskersWait ==
  \A i \in DOMAIN queue : queue[i].type = "RetireIfIdle" => bpc[queue[i].gen] = "asking"

(* ... having asked once ...                                               *)
OneQuestion ==
  \A i, j \in DOMAIN queue :
    queue[i].type = "RetireIfIdle" /\ queue[j].type = "RetireIfIdle"
      /\ queue[i].gen = queue[j].gen => i = j

(* ... and a claim is given up on the way out.                             *)
RetirersLeft ==
  \A i \in DOMAIN queue :
    queue[i].type = "Retire" => bpc[queue[i].gen] \in {"closing", "draining", "done"}

(* The registry's queue is true of those who sent it.                      *)
Queued == AskersWait /\ OneQuestion /\ RetirersLeft

(* A subscribe on a supervisor's queue was not answered, and is there once.*)
ToBeAnswered(v) ==
  \A i \in DOMAIN cqueue[v] :
    cqueue[v][i] # Unsubscribe =>
      cqueue[v][i] <= gens /\ cqueue[v][i] \in Gens /\ answer[cqueue[v][i]][v] = "none"

AskedForOnce(v) ==
  \A i, j \in DOMAIN cqueue[v] :
    cqueue[v][i] # Unsubscribe /\ cqueue[v][j] = cqueue[v][i] => i = j

NotAskedYet(v) == \A g \in Gens : g > gens => answer[g][v] = "none"

(* Every generation asks every venue once.                                 *)
AskedOnce == \A v \in Venues : ToBeAnswered(v) /\ AskedForOnce(v) /\ NotAskedYet(v)

(* What StoppedForCause lets a client be turned away for.                  *)
Caused(g) == shuttingDown \/ live[g] = {} \/ Refused(g)

(* While it serves, the count is of the joins on their way; it asks when   *)
(* it is alone; and it leaves nobody, and no entry, without a cause.          *)
Counted(g) == Active(g) => pending[g] = Len(joins[g])

AsksAlone(g) == bpc[g] = "asking" => sessions[g] = {}

LeavesForCause(g) ==
  Leaving(g) /\ (joins[g] # <<>> \/ sessions[g] # {} \/ entry = g) => Caused(g)

CausesAt(g) == Counted(g) /\ AsksAlone(g) /\ LeavesForCause(g)

Causes == \A g \in Gens : CausesAt(g)

(* A subscribe that is no longer the filed one's is followed by a release, *)
AsksOwned(v) ==
  \A i \in DOMAIN cqueue[v] :
    cqueue[v][i] # Unsubscribe /\ ~shuttingDown =>
      \/ cqueue[v][i] = entry
      \/ \E k \in DOMAIN cqueue[v] : k > i /\ cqueue[v][k] = Unsubscribe

(* and so is what a router carries;                                        *)
BoundOwned(v) ==
  bound[v] # 0 /\ ~shuttingDown =>
    bound[v] = entry \/ \E k \in DOMAIN cqueue[v] : cqueue[v][k] = Unsubscribe

(* a release comes before every other subscribe, of what is carried and of *)
(* what is asked for.                                                      *)
BoundReleased(v) ==
  bound[v] # 0 =>
    \A j \in DOMAIN cqueue[v] : cqueue[v][j] # Unsubscribe =>
      \E k \in DOMAIN cqueue[v] : k < j /\ cqueue[v][k] = Unsubscribe

AsksReleased(v) ==
  \A i, j \in DOMAIN cqueue[v] :
    i < j /\ cqueue[v][i] # Unsubscribe /\ cqueue[v][j] # Unsubscribe =>
      \E k \in DOMAIN cqueue[v] : i < k /\ k < j /\ cqueue[v][k] = Unsubscribe

(* A venue's subscriptions have their owners ...                           *)
OwnedAt(v) == AsksOwned(v) /\ BoundOwned(v) /\ BoundReleased(v) /\ AsksReleased(v)

(* ... and every venue's have.                                             *)
Owned == \A v \in Venues : OwnedAt(v)

(* The inductive invariant.                                                *)
RegistryInv == Types /\ Filed /\ Queued /\ AskedOnce /\ Causes /\ Owned

-----------------------------------------------------------------------------
(* What the steps do *)

(* Append adds an element behind the others.                               *)
LEMMA AppendFacts ==
  ASSUME NEW S, NEW s \in Seq(S), NEW e \in S
  PROVE  /\ Append(s, e) \in Seq(S) /\ Len(s) \in Nat
         /\ DOMAIN s = 1 .. Len(s) /\ DOMAIN Append(s, e) = 1 .. Len(s) + 1
         /\ Len(Append(s, e)) = Len(s) + 1
         /\ \A i \in DOMAIN s : Append(s, e)[i] = s[i]
         /\ Append(s, e)[Len(s) + 1] = e
         /\ Append(s, e) # <<>>
OBVIOUS

(* Tail takes the first element away and moves the others up.              *)
LEMMA TailFacts ==
  ASSUME NEW S, NEW s \in Seq(S), s # <<>>
  PROVE  /\ Tail(s) \in Seq(S) /\ Head(s) \in S /\ Head(s) = s[1]
         /\ 1 \in DOMAIN s /\ Len(s) \in Nat
         /\ DOMAIN s = 1 .. Len(s) /\ DOMAIN Tail(s) = 1 .. Len(s) - 1
         /\ Len(Tail(s)) = Len(s) - 1
         /\ \A i \in DOMAIN Tail(s) : Tail(s)[i] = s[i + 1] /\ i + 1 \in DOMAIN s
OBVIOUS

(* Generations are numbered from one: an entry of 0 is none of them.       *)
LEMMA GensFacts == Gens \subseteq Nat \ {0} /\ 0 \notin Gens
<1>1. Cardinality(Clients) \in Nat
  BY ClientsAssumption, FS_CardinalityType
<1>2. QED
  BY <1>1 DEF Gens

(* The events the program sends are events.                                *)
LEMMA IsEvent ==
  /\ \A g \in Gens : RetireIfIdle(g) \in Events /\ Retire(g) \in Events
  /\ ShutDown \in Events
  /\ \A c \in Clients, b \in BOOLEAN : Subscribe(c, b) \in Events
BY DEF Events, RetireIfIdle, Retire, ShutDown, Subscribe

(* An event is posted behind those that are on the registry's queue.       *)
LEMMA Posted ==
  ASSUME queue \in Seq(Events), NEW e \in Events, queue' = Append(queue, e)
  PROVE  /\ queue' \in Seq(Events) /\ Len(queue) \in Nat
         /\ DOMAIN queue = 1 .. Len(queue) /\ DOMAIN queue' = 1 .. Len(queue) + 1
         /\ \A i \in DOMAIN queue : queue'[i] = queue[i]
         /\ queue'[Len(queue) + 1] = e
BY AppendFacts

(* The registry takes the event at the head of its queue.                  *)
LEMMA Taken ==
  ASSUME queue \in Seq(Events), queue # <<>>, queue' = Tail(queue)
  PROVE  /\ queue' \in Seq(Events) /\ Len(queue) \in Nat /\ 1 \in DOMAIN queue
         /\ Head(queue) = queue[1] /\ Head(queue) \in Events
         /\ DOMAIN queue = 1 .. Len(queue) /\ DOMAIN queue' = 1 .. Len(queue) - 1
         /\ \A i \in DOMAIN queue' : queue'[i] = queue[i + 1] /\ i + 1 \in DOMAIN queue
BY TailFacts

(* Whom an event names.                                                    *)
LEMMA EventFacts ==
  ASSUME NEW e \in Events
  PROVE  /\ e.type \in {"RetireIfIdle", "Retire"} => e.gen \in Gens
         /\ e.type = "Subscribe" => e.client \in Clients
BY DEF Events

(* What the handler of a subscribe does: it declines, it joins the client  *)
(* to the filed broadcaster, or it starts one, which it does only while    *)
(* the server runs and nothing is filed.                                   *)
LEMMA SubscribeCases ==
  ASSUME Types, Filed, HandleSubscribe
  PROVE  /\ queue # <<>> /\ queue' = Tail(queue) /\ queue[1].type = "Subscribe"
         /\ UNCHANGED <<shuttingDown, bound, sessions, answer, live>>
         /\ \/ UNCHANGED <<entry, gens, bpc, joins, pending, cqueue>>
            \/ entry # 0 /\ \E c \in Clients : JoinRunning(c)
            \/ ~shuttingDown /\ entry = 0 /\ \E c \in Clients : StartBroadcaster(c)
<1>1. /\ queue # <<>> /\ queue' = Tail(queue) /\ Head(queue).type = "Subscribe"
      /\ UNCHANGED <<shuttingDown, bound>>
  BY DEF HandleSubscribe, Handles
<1>2. queue[1].type = "Subscribe" /\ Head(queue) = queue[1]
        /\ Head(queue).client \in Clients
  BY <1>1, Taken, EventFacts DEF Types
<1>3. Receiving <=> entry # 0
  BY DEF Receiving, Filed
<1> DEFINE c == Head(queue).client
<1>4. CASE \E why : Decline(c, why) /\ UNCHANGED entry
  BY <1>1, <1>2, <1>4 DEF Decline, taskVars
<1>5. CASE Receiving /\ JoinRunning(c)
  BY <1>1, <1>2, <1>3, <1>5 DEF JoinRunning
<1>6. CASE ~Receiving /\ ~shuttingDown /\ StartBroadcaster(c)
  BY <1>1, <1>2, <1>3, <1>6 DEF StartBroadcaster
<1>7. CASE ~Receiving /\ Decline(c, "shuttingDown") /\ entry' = 0
  BY <1>3, <1>4, <1>7
<1>8. QED
  BY <1>4, <1>5, <1>6, <1>7 DEF HandleSubscribe

(* What a broadcaster is told that asks whether it may stop: yes, another  *)
(* is filed; no, joins are on their way; or yes, and the entry goes.       *)
LEMMA RetireIfIdleCases ==
  ASSUME Types, Filed, HandleRetireIfIdle
  PROVE  /\ queue # <<>> /\ queue' = Tail(queue) /\ queue[1].type = "RetireIfIdle"
         /\ UNCHANGED <<shuttingDown, gens, bound, joins, pending, sessions, answer, live>>
         /\ \E g \in Gens :
              /\ g = queue[1].gen
              /\ \/ entry # g /\ bpc' = [bpc EXCEPT ![g] = "stopping"]
                   /\ UNCHANGED <<entry, cqueue>>
                 \/ entry = g /\ bpc' = [bpc EXCEPT ![g] = "kept"]
                      /\ UNCHANGED <<entry, cqueue>>
                 \/ entry = g /\ pending[g] = 0 /\ bpc' = [bpc EXCEPT ![g] = "stopping"]
                      /\ ReleaseEntry
<1>1. /\ queue # <<>> /\ queue' = Tail(queue) /\ Head(queue).type = "RetireIfIdle"
      /\ UNCHANGED <<shuttingDown, gens, bound, joins, pending, sessions, answer, live>>
  BY DEF HandleRetireIfIdle, Handles
<1>2. Head(queue) = queue[1] /\ Head(queue).gen \in Gens
  BY <1>1, Taken, EventFacts DEF Types
<1>3. QED
  BY <1>1, <1>2 DEF HandleRetireIfIdle

(* A broadcaster that stopped takes out the entry if it is its own.        *)
LEMMA RetireCases ==
  ASSUME Types, Filed, HandleRetire
  PROVE  /\ queue # <<>> /\ queue' = Tail(queue) /\ queue[1].type = "Retire"
         /\ UNCHANGED <<shuttingDown, gens, bound, bpc, joins, pending, sessions, answer,
                       live>>
         /\ \/ UNCHANGED <<entry, cqueue>>
            \/ entry \in Gens /\ entry = queue[1].gen /\ ReleaseEntry
<1>1. /\ queue # <<>> /\ queue' = Tail(queue) /\ Head(queue).type = "Retire"
      /\ UNCHANGED <<shuttingDown, gens, bound, bpc, joins, pending, sessions, answer,
                    live>>
  BY DEF HandleRetire, Handles, taskVars
<1>2. Head(queue) = queue[1] /\ Head(queue).gen \in Gens
  BY <1>1, Taken, EventFacts DEF Types
<1>3. QED
  BY <1>1, <1>2 DEF HandleRetire

(* A release goes behind everything on every supervisor's queue.           *)
LEMMA ReleaseFacts ==
  ASSUME Types, ReleaseEntry
  PROVE  /\ entry' = 0
         /\ cqueue' \in [Venues -> Seq(Nat)]
         /\ \A v \in Venues :
              /\ Len(cqueue[v]) \in Nat
              /\ DOMAIN cqueue[v] = 1 .. Len(cqueue[v])
              /\ DOMAIN cqueue'[v] = 1 .. Len(cqueue[v]) + 1
              /\ \A i \in DOMAIN cqueue[v] : cqueue'[v][i] = cqueue[v][i]
              /\ cqueue'[v][Len(cqueue[v]) + 1] = 0
<1> USE DEF Types, ReleaseEntry, Unsubscribe
<1>1. ASSUME NEW v \in Venues
      PROVE  /\ cqueue'[v] = Append(cqueue[v], 0)
             /\ cqueue[v] \in Seq(Nat)
  OBVIOUS
<1>2. \A v \in Venues : cqueue'[v] \in Seq(Nat)
  BY <1>1, AppendFacts
<1>3. cqueue' \in [Venues -> Seq(Nat)]
  BY <1>2
<1>4. QED
  BY <1>1, <1>3, AppendFacts

(* A new generation takes the next number; its subscribe goes behind       *)
(* everything on every supervisor's queue.                                 *)
LEMMA StartFacts ==
  ASSUME Types, NEW c \in Clients, StartBroadcaster(c)
  PROVE  /\ gens + 1 \in Gens /\ gens' = gens + 1 /\ entry' = gens + 1
         /\ pending' = [pending EXCEPT ![gens + 1] = 1]
         /\ joins' = [joins EXCEPT ![gens + 1] = <<c>>]
         /\ bpc' = [bpc EXCEPT ![gens + 1] = "opening"]
         /\ UNCHANGED <<sessions, answer, live>>
         /\ cqueue' \in [Venues -> Seq(Nat)]
         /\ \A v \in Venues :
              /\ Len(cqueue[v]) \in Nat
              /\ DOMAIN cqueue[v] = 1 .. Len(cqueue[v])
              /\ DOMAIN cqueue'[v] = 1 .. Len(cqueue[v]) + 1
              /\ \A i \in DOMAIN cqueue[v] : cqueue'[v][i] = cqueue[v][i]
              /\ cqueue'[v][Len(cqueue[v]) + 1] = gens + 1
<1> USE DEF Types, StartBroadcaster
<1>1. ASSUME NEW v \in Venues
      PROVE  /\ cqueue'[v] = Append(cqueue[v], gens + 1)
             /\ cqueue[v] \in Seq(Nat)
  OBVIOUS
<1>2. \A v \in Venues : cqueue'[v] \in Seq(Nat)
  BY <1>1, AppendFacts
<1>3. cqueue' \in [Venues -> Seq(Nat)]
  BY <1>2
<1>4. QED
  BY <1>1, <1>3, AppendFacts

(* A supervisor takes the head of its queue, nobody else's.                *)
LEMMA SupervisedFacts ==
  ASSUME Types, NEW v \in Venues, cqueue[v] # <<>>, cqueue' = [cqueue EXCEPT ![v] = Tail(@)]
  PROVE  /\ cqueue' \in [Venues -> Seq(Nat)]
         /\ Head(cqueue[v]) = cqueue[v][1] /\ Head(cqueue[v]) \in Nat
              /\ 1 \in DOMAIN cqueue[v]
         /\ Len(cqueue[v]) \in Nat /\ DOMAIN cqueue[v] = 1 .. Len(cqueue[v])
         /\ DOMAIN cqueue'[v] = 1 .. Len(cqueue[v]) - 1
         /\ \A i \in DOMAIN cqueue'[v] : cqueue'[v][i] = cqueue[v][i + 1]
              /\ i + 1 \in DOMAIN cqueue[v]
         /\ \A w \in Venues \ {v} : cqueue'[w] = cqueue[w]
<1> USE DEF Types
<1>1. cqueue[v] \in Seq(Nat) /\ cqueue'[v] = Tail(cqueue[v])
  OBVIOUS
<1>2. Tail(cqueue[v]) \in Seq(Nat)
  BY <1>1, TailFacts
<1>3. cqueue' \in [Venues -> Seq(Nat)]
  BY <1>2
<1>4. QED
  BY <1>1, <1>3, TailFacts

(* What a wake of the select ends with: a question, or nothing.            *)
LEMMA WakeFacts ==
  ASSUME Types, NEW g \in Gens, EndOfWake(g)
  PROVE  /\ queue' \in Seq(Events) /\ bpc' \in [Gens -> BroadcasterSteps]
         /\ \/ /\ sessions'[g] = {} /\ bpc' = [bpc EXCEPT ![g] = "asking"]
               /\ queue' = Append(queue, RetireIfIdle(g))
            \/ UNCHANGED <<bpc, queue>>
<1>1. CASE sessions'[g] = {}
  <2>1. queue' = Append(queue, RetireIfIdle(g)) /\ bpc' = [bpc EXCEPT ![g] = "asking"]
    BY <1>1 DEF EndOfWake
  <2>2. queue' \in Seq(Events)
    BY <2>1, IsEvent, Posted DEF Types
  <2>3. QED
    BY <1>1, <2>1, <2>2 DEF Types, BroadcasterSteps
<1>2. CASE UNCHANGED <<bpc, queue>>
  BY <1>2 DEF Types
<1>3. QED
  BY <1>1, <1>2 DEF EndOfWake

(* Every step leaves what the invariant is about alone, or is one of       *)
(* these.                                                                  *)
LEMMA NextCases ==
  ASSUME [Next]_vars
  PROVE  \/ UNCHANGED moving
         \/ \E c \in Clients, current \in BOOLEAN : Ask(c, current)
         \/ SendShutDown \/ ConnectorsStop \/ HandleEvent
         \/ \E v \in Venues : Delist(v) \/ Supervise(v)
         \/ \E g \in Gens : Advance(g) \/ WakeBook(g) \/ WakeJoin(g) \/ WakeEnded(g)
<1> USE DEF moving, registryVars, taskVars, venueVars
<1>1. CASE UNCHANGED vars
  BY <1>1 DEF vars
<1>2. ASSUME NEW c \in Clients, Connect(c) \/ Handshake(c) \/ HangUp(c)
      PROVE  UNCHANGED moving \/ \E current \in BOOLEAN : Ask(c, current)
  BY <1>2 DEF Connect, Handshake, HandshakeFails, HandshakeEnds, AbortHandshake, HangUp
<1>3. CASE Stop \/ RegistryEnds
  BY <1>3 DEF Stop, RegistryEnds
<1>4. ASSUME NEW v \in Venues, List(v)
      PROVE  UNCHANGED moving
  BY <1>4 DEF List
<1> HIDE DEF moving, registryVars, taskVars, venueVars
<1>5. QED
  BY <1>1, <1>2, <1>3, <1>4 DEF Next

-----------------------------------------------------------------------------
(* Types and filing *)

(* Every step keeps the types.                                             *)
LEMMA TypesStep ==
  Types /\ Filed /\ [Next]_vars => Types'
<1> SUFFICES ASSUME Types, Filed, [Next]_vars
             PROVE  Types'
  OBVIOUS
<1> USE GensFacts DEF Types, serverVars, registryVars, taskVars, venueVars
<1>1. CASE UNCHANGED moving
  BY <1>1 DEF moving
<1>2. ASSUME NEW c \in Clients, NEW current \in BOOLEAN, Ask(c, current)
       PROVE  Types'
  BY <1>2, IsEvent, Posted DEF Ask
<1>3. CASE SendShutDown
  BY <1>3, IsEvent, Posted DEF SendShutDown
<1>4. CASE ConnectorsStop
  BY <1>4 DEF ConnectorsStop
<1>5. CASE HandleSubscribe
  <2>1. queue' \in Seq(Events)
    BY <1>5, SubscribeCases, Taken
  <2>2. CASE UNCHANGED <<entry, gens, bpc, joins, pending, cqueue>>
    BY <1>5, <2>1, <2>2, SubscribeCases
  <2>3. ASSUME NEW c \in Clients, entry # 0, JoinRunning(c) PROVE Types'
    <3>1. joins[entry] \in Seq(Clients) /\ Append(joins[entry], c) \in Seq(Clients)
      BY <2>3, AppendFacts DEF Filed
    <3>2. joins' \in [Gens -> Seq(Clients)]
      BY <2>3, <3>1 DEF JoinRunning
    <3>3. pending' \in [Gens -> Int]
      BY <2>3 DEF JoinRunning, Filed
    <3>4. QED
      BY <1>5, <2>1, <2>3, <3>2, <3>3, SubscribeCases DEF JoinRunning
  <2>4. ASSUME NEW c \in Clients, StartBroadcaster(c) PROVE Types'
    <3>1. gens' \in Nat /\ entry' \in Nat /\ cqueue' \in [Venues -> Seq(Nat)]
      BY <2>4, StartFacts
    <3>2. joins' \in [Gens -> Seq(Clients)]
      <4>1. <<c>> \in Seq(Clients)
        OBVIOUS
      <4>2. joins' = [joins EXCEPT ![gens + 1] = <<c>>]
        BY <2>4, StartFacts
      <4>3. QED
        BY <4>1, <4>2
    <3>3. pending' \in [Gens -> Int]
      <4>1. pending' = [pending EXCEPT ![gens + 1] = 1] /\ pending \in [Gens -> Int]
        BY <2>4, StartFacts
      <4>2. pending' = [h \in Gens |-> IF h = gens + 1 THEN 1 ELSE pending[h]]
        BY ONLY <4>1
      <4>3. \A h \in Gens : (IF h = gens + 1 THEN 1 ELSE pending[h]) \in Int
        BY ONLY <4>1
      <4>4. QED
        BY ONLY <4>2, <4>3
    <3>4. bpc' \in [Gens -> BroadcasterSteps]
      BY <2>4, StartFacts DEF BroadcasterSteps
    <3>5. QED
      BY <1>5, <2>1, <2>4, <3>1, <3>2, <3>3, <3>4, StartFacts, SubscribeCases
  <2>5. QED
    BY <1>5, <2>2, <2>3, <2>4, SubscribeCases
<1>6. CASE HandleRetireIfIdle
  <2>1. queue' \in Seq(Events)
    BY <1>6, RetireIfIdleCases, Taken
  <2>2. bpc' \in [Gens -> BroadcasterSteps]
    BY <1>6, RetireIfIdleCases DEF BroadcasterSteps
  <2>3. entry' \in Nat /\ cqueue' \in [Venues -> Seq(Nat)]
    BY <1>6, RetireIfIdleCases, ReleaseFacts
  <2>4. QED
    BY <1>6, <2>1, <2>2, <2>3, RetireIfIdleCases
<1>7. CASE HandleRetire
  <2>1. queue' \in Seq(Events)
    BY <1>7, RetireCases, Taken
  <2>2. entry' \in Nat /\ cqueue' \in [Venues -> Seq(Nat)]
    BY <1>7, RetireCases, ReleaseFacts
  <2>3. QED
    BY <1>7, <2>1, <2>2, RetireCases
<1>8. CASE HandleShutDown
  BY <1>8, Taken DEF HandleShutDown, Handles
<1>9. ASSUME NEW v \in Venues, Delist(v)
       PROVE  Types'
  BY <1>9 DEF Delist, Unbind
<1>10. ASSUME NEW v \in Venues, SuperviseSubscribe(v)
       PROVE  Types'
  <2> DEFINE g == Head(cqueue[v])
  <2>1. cqueue' \in [Venues -> Seq(Nat)] /\ g \in Nat
    BY <1>10, SupervisedFacts DEF SuperviseSubscribe
  <2>2. answer' \in [Gens -> [Venues -> {"none", "refused", "reader"}]]
    <3>1. PICK a \in {"refused", "reader"} : answer' = [answer EXCEPT ![g][v] = a]
      BY <1>10 DEF SuperviseSubscribe
    <3>2. CASE g \in Gens
      BY <3>1, <3>2
    <3>3. CASE g \notin Gens
      BY <3>1, <3>3
    <3>4. QED
      BY <3>2, <3>3
  <2>3. bound' \in [Venues -> Nat]
    BY <1>10, <2>1 DEF SuperviseSubscribe
  <2>4. QED
    BY <1>10, <2>1, <2>2, <2>3 DEF SuperviseSubscribe
<1>11. ASSUME NEW v \in Venues, SuperviseUnsubscribe(v)
       PROVE  Types'
  <2>1. cqueue' \in [Venues -> Seq(Nat)]
    BY <1>11, SupervisedFacts DEF SuperviseUnsubscribe
  <2>2. QED
    BY <1>11, <2>1 DEF SuperviseUnsubscribe, Unbind
<1>12. ASSUME NEW g \in Gens, OpenReaders(g)
       PROVE  Types'
  <2>1. queue' \in Seq(Events)
    BY <1>12, IsEvent, Posted DEF OpenReaders
  <2>2. bpc' \in [Gens -> BroadcasterSteps] /\ live' \in [Gens -> SUBSET Venues]
    BY <1>12 DEF OpenReaders, BroadcasterSteps
  <2>3. QED
    BY <1>12, <2>1, <2>2 DEF OpenReaders
<1>13. ASSUME NEW g \in Gens, StayAlive(g)
       PROVE  Types'
  BY <1>13 DEF StayAlive, BroadcasterSteps
<1>14. ASSUME NEW g \in Gens, WakeDeparted(g)
       PROVE  Types'
  <2>1. CASE EndOfWake(g)
    <3>1. queue' \in Seq(Events) /\ bpc' \in [Gens -> BroadcasterSteps]
      BY <2>1, WakeFacts
    <3>2. QED
      BY <1>14, <3>1 DEF WakeDeparted
  <2>2. CASE bpc' = [bpc EXCEPT ![g] = "stopping"] /\ UNCHANGED queue
    BY <1>14, <2>2 DEF WakeDeparted, BroadcasterSteps
  <2>3. QED
    BY <1>14, <2>1, <2>2 DEF WakeDeparted
<1>15. ASSUME NEW g \in Gens, WakeJoinNone(g)
       PROVE  Types'
  BY <1>15 DEF WakeJoinNone, ReadersQuiet, BroadcasterSteps
<1>16. ASSUME NEW g \in Gens, StopBroadcasting(g)
       PROVE  Types'
  BY <1>16, IsEvent, Posted DEF StopBroadcasting, BroadcasterSteps
<1>17. ASSUME NEW g \in Gens, CloseSessions(g)
       PROVE  Types'
  BY <1>17 DEF CloseSessions, BroadcasterSteps
<1>18. ASSUME NEW g \in Gens, DrainJoin(g)
       PROVE  Types'
  <2>1. Tail(joins[g]) \in Seq(Clients)
    BY <1>18, TailFacts DEF DrainJoin
  <2>2. QED
    BY <1>18, <2>1 DEF DrainJoin
<1>19. ASSUME NEW g \in Gens, BroadcasterEnds(g)
       PROVE  Types'
  BY <1>19 DEF BroadcasterEnds, BroadcasterSteps
<1>20. ASSUME NEW g \in Gens, WakeBook(g)
       PROVE  Types'
  <2>1. EndOfWake(g)
    BY <1>20 DEF WakeBook
  <2>2. queue' \in Seq(Events) /\ bpc' \in [Gens -> BroadcasterSteps]
    BY <2>1, WakeFacts
  <2>3. sessions' \in [Gens -> SUBSET Clients]
    <3>1. PICK ended \in SUBSET (sessions[g] \cap hungup) :
            sessions' = [sessions EXCEPT ![g] = @ \ ended]
      BY <1>20 DEF WakeBook
    <3>2. QED
      BY <3>1
  <2>4. live' \in [Gens -> SUBSET Venues]
    BY <1>20 DEF WakeBook
  <2>5. UNCHANGED <<shuttingDown, gens, entry, joins, pending, answer, cqueue, bound>>
    BY <1>20 DEF WakeBook
  <2>6. QED
    BY <2>2, <2>3, <2>4, <2>5
<1>21. ASSUME NEW g \in Gens, WakeJoin(g)
       PROVE  Types'
  <2>1. EndOfWake(g)
    BY <1>21 DEF WakeJoin
  <2>2. queue' \in Seq(Events) /\ bpc' \in [Gens -> BroadcasterSteps]
    BY <2>1, WakeFacts
  <2>0. joins[g] \in Seq(Clients) /\ Head(joins[g]) \in Clients
          /\ Tail(joins[g]) \in Seq(Clients)
    BY <1>21, TailFacts DEF WakeJoin
  <2>3. sessions' \in [Gens -> SUBSET Clients]
    BY <1>21, <2>0 DEF WakeJoin
  <2>4. joins' \in [Gens -> Seq(Clients)] /\ pending' \in [Gens -> Int]
    BY <1>21, <2>0 DEF WakeJoin
  <2>5. UNCHANGED <<shuttingDown, gens, entry, live, answer, cqueue, bound>>
    BY <1>21 DEF WakeJoin
  <2>6. QED
    BY <2>2, <2>3, <2>4, <2>5
<1>22. ASSUME NEW g \in Gens, WakeEnded(g)
       PROVE  Types'
  <2>1. EndOfWake(g)
    BY <1>22 DEF WakeEnded
  <2>2. queue' \in Seq(Events) /\ bpc' \in [Gens -> BroadcasterSteps]
    BY <2>1, WakeFacts
  <2>3. sessions' \in [Gens -> SUBSET Clients]
    <3>1. PICK ended \in SUBSET (sessions[g] \cap hungup) :
            sessions' = [sessions EXCEPT ![g] = @ \ ended]
      BY <1>22 DEF WakeEnded
    <3>2. QED
      BY <3>1
  <2>4. live' \in [Gens -> SUBSET Venues]
    BY <1>22 DEF WakeEnded
  <2>5. UNCHANGED <<shuttingDown, gens, entry, joins, pending, answer, cqueue, bound>>
    BY <1>22 DEF WakeEnded
  <2>6. QED
    BY <2>2, <2>3, <2>4, <2>5
<1> HIDE DEF Types, serverVars, registryVars, taskVars, venueVars
<1>23. QED
  BY <1>1, <1>2, <1>3, <1>4, <1>5, <1>6, <1>7, <1>8, <1>9, <1>10, <1>11, <1>12, <1>13,
     <1>14, <1>15, <1>16, <1>17, <1>18, <1>19, <1>20, <1>21, <1>22,
     NextCases DEF HandleEvent, Supervise, Advance

(* Every step keeps the filing: an entry is of a broadcaster that is       *)
(* there, and one in its loop is filed until the server stops.             *)
LEMMA FiledStep ==
  Types /\ Filed /\ Queued /\ [Next]_vars => Filed'
<1> SUFFICES ASSUME Types, Filed, Queued, [Next]_vars
             PROVE  Filed'
  OBVIOUS
<1>0. /\ bpc \in [Gens -> BroadcasterSteps]
      /\ gens \in Nat /\ entry \in Nat /\ shuttingDown \in BOOLEAN
  BY DEF Types
<1> USE <1>0, GensFacts DEF Filed, Active, serverVars, registryVars, taskVars, venueVars
<1>1. CASE UNCHANGED moving
  BY <1>1 DEF moving
<1>2. ASSUME NEW c \in Clients, NEW current \in BOOLEAN, Ask(c, current)
       PROVE  Filed'
  BY <1>2 DEF Ask
<1>3. CASE SendShutDown
  BY <1>3 DEF SendShutDown
<1>4. CASE ConnectorsStop
  BY <1>4 DEF ConnectorsStop
<1>5. CASE HandleSubscribe
  <2>1. CASE UNCHANGED <<entry, gens, bpc>>
    <3>1. UNCHANGED shuttingDown
      BY <1>5, SubscribeCases
    <3>2. QED
      BY <2>1, <3>1
  <2>2. ASSUME NEW c \in Clients, ~shuttingDown, entry = 0, StartBroadcaster(c) PROVE Filed'
    <3>1. /\ gens + 1 \in Gens /\ gens' = gens + 1 /\ entry' = gens + 1
          /\ bpc' = [bpc EXCEPT ![gens + 1] = "opening"] /\ UNCHANGED shuttingDown
      BY <1>5, <2>2, StartFacts, SubscribeCases
    <3>2. QED
      BY <2>2, <3>1
  <2>3. QED
    BY <1>5, <2>1, <2>2, SubscribeCases DEF JoinRunning
<1>6. CASE HandleRetireIfIdle
  <2>1. PICK g \in Gens :
          /\ g = queue[1].gen
          /\ \/ entry # g /\ bpc' = [bpc EXCEPT ![g] = "stopping"] /\ UNCHANGED entry
             \/ entry = g /\ bpc' = [bpc EXCEPT ![g] = "kept"] /\ UNCHANGED entry
             \/ entry = g /\ bpc' = [bpc EXCEPT ![g] = "stopping"] /\ entry' = 0
    BY <1>6, RetireIfIdleCases, ReleaseFacts
  <2>2. UNCHANGED <<gens, shuttingDown>> /\ bpc[g] = "asking"
    BY <1>6, <2>1, RetireIfIdleCases, Taken DEF Types, Queued, AskersWait, OneQuestion,
       RetirersLeft
  <2>3. QED
    BY <2>1, <2>2
<1>7. CASE HandleRetire
  <2>1. UNCHANGED <<gens, shuttingDown, bpc>>
    BY <1>7, RetireCases
  <2>2. CASE UNCHANGED entry
    BY <2>1, <2>2
  <2>3. CASE entry \in Gens /\ entry = queue[1].gen /\ ReleaseEntry
    <3>1. entry' = 0 /\ bpc[entry] \in {"closing", "draining", "done"}
      BY <1>7, <2>3, RetireCases, Taken DEF ReleaseEntry, Types, Queued, AskersWait,
         OneQuestion, RetirersLeft
    <3>2. QED
      BY <2>1, <2>3, <3>1
  <2>4. QED
    BY <1>7, <2>2, <2>3, RetireCases
<1>8. CASE HandleShutDown
  BY <1>8 DEF HandleShutDown
<1>9. ASSUME NEW v \in Venues, Delist(v)
       PROVE  Filed'
  BY <1>9 DEF Delist, Unbind
<1>10. ASSUME NEW v \in Venues, SuperviseSubscribe(v)
       PROVE  Filed'
  BY <1>10 DEF SuperviseSubscribe, Unsubscribe
<1>11. ASSUME NEW v \in Venues, SuperviseUnsubscribe(v)
       PROVE  Filed'
  BY <1>11 DEF SuperviseUnsubscribe, Unbind, Unsubscribe
<1>12. ASSUME NEW g \in Gens, OpenReaders(g)
       PROVE  Filed'
  BY <1>12 DEF OpenReaders
<1>13. ASSUME NEW g \in Gens, StayAlive(g)
       PROVE  Filed'
  BY <1>13 DEF StayAlive
<1>14. ASSUME NEW g \in Gens, WakeDeparted(g)
       PROVE  Filed'
  <2>1. UNCHANGED <<gens, entry, shuttingDown>> /\ bpc[g] = "running"
    BY <1>14 DEF WakeDeparted
  <2>2. \/ bpc' = [bpc EXCEPT ![g] = "stopping"] \/ bpc' = [bpc EXCEPT ![g] = "asking"]
        \/ UNCHANGED bpc
    BY <1>14, WakeFacts DEF WakeDeparted
  <2>3. QED
    BY <2>1, <2>2
<1>15. ASSUME NEW g \in Gens, WakeJoinNone(g)
       PROVE  Filed'
  BY <1>15 DEF WakeJoinNone, ReadersQuiet
<1>16. ASSUME NEW g \in Gens, StopBroadcasting(g)
       PROVE  Filed'
  BY <1>16 DEF StopBroadcasting
<1>17. ASSUME NEW g \in Gens, CloseSessions(g)
       PROVE  Filed'
  BY <1>17 DEF CloseSessions
<1>18. ASSUME NEW g \in Gens, DrainJoin(g)
       PROVE  Filed'
  BY <1>18 DEF DrainJoin
<1>19. ASSUME NEW g \in Gens, BroadcasterEnds(g)
       PROVE  Filed'
  BY <1>19 DEF BroadcasterEnds
<1>20. ASSUME NEW g \in Gens, WakeBook(g)
       PROVE  Filed'
  <2>1. EndOfWake(g) /\ UNCHANGED <<gens, entry, shuttingDown>> /\ bpc[g] = "running"
    BY <1>20 DEF WakeBook, ReadersQuiet, registryVars
  <2>2. bpc' = [bpc EXCEPT ![g] = "asking"] \/ UNCHANGED bpc
    BY <2>1, WakeFacts
  <2>3. QED
    BY <2>1, <2>2
<1>21. ASSUME NEW g \in Gens, WakeJoin(g)
       PROVE  Filed'
  <2>1. EndOfWake(g) /\ UNCHANGED <<gens, entry, shuttingDown>> /\ bpc[g] = "running"
    BY <1>21 DEF WakeJoin, ReadersQuiet, registryVars
  <2>2. bpc' = [bpc EXCEPT ![g] = "asking"] \/ UNCHANGED bpc
    BY <2>1, WakeFacts
  <2>3. QED
    BY <2>1, <2>2
<1>22. ASSUME NEW g \in Gens, WakeEnded(g)
       PROVE  Filed'
  <2>1. EndOfWake(g) /\ UNCHANGED <<gens, entry, shuttingDown>> /\ bpc[g] = "running"
    BY <1>22 DEF WakeEnded, ReadersQuiet, registryVars
  <2>2. bpc' = [bpc EXCEPT ![g] = "asking"] \/ UNCHANGED bpc
    BY <2>1, WakeFacts
  <2>3. QED
    BY <2>1, <2>2
<1> HIDE DEF Filed, Active, serverVars, registryVars, taskVars, venueVars
<1>23. QED
  BY <1>1, <1>2, <1>3, <1>4, <1>5, <1>6, <1>7, <1>8, <1>9, <1>10, <1>11, <1>12, <1>13,
     <1>14, <1>15, <1>16, <1>17, <1>18, <1>19, <1>20, <1>21, <1>22,
     NextCases DEF HandleEvent, Supervise, Advance

-----------------------------------------------------------------------------
(* The registry's queue *)

(* An event may be posted when its sender is where that event says it is.  *)
LEMMA PostedQueued ==
  ASSUME Types, Queued, NEW e \in Events, queue' = Append(queue, e),
         \A g \in Gens : bpc[g] \in {"asking", "closing", "draining", "done"}
              => bpc'[g] = bpc[g],
         e.type = "RetireIfIdle" => bpc[e.gen] # "asking" /\ bpc'[e.gen] = "asking",
         e.type = "Retire" => bpc'[e.gen] \in {"closing", "draining", "done"}
  PROVE  Queued'
<1>1. \A i \in DOMAIN queue : queue[i] \in Events
  BY DEF Types
<1>2. \A i \in DOMAIN queue : queue[i].type \in {"RetireIfIdle", "Retire"}
        => queue[i].gen \in Gens
  BY <1>1, EventFacts
<1>3. /\ Len(queue) \in Nat
      /\ DOMAIN queue = 1 .. Len(queue) /\ DOMAIN queue' = 1 .. Len(queue) + 1
      /\ \A i \in DOMAIN queue : queue'[i] = queue[i]
      /\ queue'[Len(queue) + 1] = e
  BY Posted DEF Types
<1>4. \A i \in DOMAIN queue' : i \in DOMAIN queue \/ (queue'[i] = e /\ i = Len(queue) + 1)
  BY <1>3
<1>5. ASSUME NEW i \in DOMAIN queue', queue'[i].type = "RetireIfIdle"
      PROVE  bpc'[queue'[i].gen] = "asking"
  BY <1>2, <1>3, <1>4, <1>5 DEF Queued, AskersWait, OneQuestion, RetirersLeft
<1>6. ASSUME NEW i \in DOMAIN queue', queue'[i].type = "Retire"
      PROVE  bpc'[queue'[i].gen] \in {"closing", "draining", "done"}
  BY <1>2, <1>3, <1>4, <1>6 DEF Queued, AskersWait, OneQuestion, RetirersLeft
<1>7. ASSUME NEW i \in DOMAIN queue', NEW j \in DOMAIN queue',
             queue'[i].type = "RetireIfIdle", queue'[j].type = "RetireIfIdle",
             queue'[i].gen = queue'[j].gen
      PROVE  i = j
  <2>1. \A k \in DOMAIN queue : queue[k].type = "RetireIfIdle"
          => bpc[queue[k].gen] = "asking"
    BY DEF Queued, AskersWait, OneQuestion, RetirersLeft
  <2>2. CASE i \in DOMAIN queue /\ j \in DOMAIN queue
    BY <1>3, <1>7, <2>2 DEF Queued, AskersWait, OneQuestion, RetirersLeft
  <2>3. QED
    BY <1>3, <1>4, <1>7, <2>1, <2>2
<1>8. QED
  <2>1. AskersWait'
    BY <1>5 DEF AskersWait
  <2>2. RetirersLeft'
    BY <1>6 DEF RetirersLeft
  <2>3. OneQuestion'
    BY <1>7 DEF OneQuestion
  <2>4. QED
    BY <2>1, <2>2, <2>3 DEF Queued

(* Whoever waits for a verdict goes on waiting, and whoever left stays     *)
(* out.                                                                    *)
LEMMA SameQueued ==
  ASSUME Types, Queued, UNCHANGED queue,
         \A g \in Gens : bpc[g] = "asking" => bpc'[g] = "asking",
         \A g \in Gens : bpc[g] \in {"closing", "draining", "done"}
                            => bpc'[g] \in {"closing", "draining", "done"}
  PROVE  Queued'
<1>1. \A i \in DOMAIN queue : queue[i] \in Events
  BY DEF Types
<1>2. \A i \in DOMAIN queue : queue[i].type \in {"RetireIfIdle", "Retire"}
        => queue[i].gen \in Gens
  BY <1>1, EventFacts
<1>3. QED
  BY <1>2 DEF Queued, AskersWait, OneQuestion, RetirersLeft

(* The event that is handled is the only one of the broadcaster it frees.  *)
LEMMA TakenQueued ==
  ASSUME Types, Queued, queue # <<>>, queue' = Tail(queue),
         \A g \in Gens : bpc[g] \in {"closing", "draining", "done"} => bpc'[g] = bpc[g],
         \A g \in Gens : bpc[g] = "asking" =>
                           bpc'[g] = "asking" \/ (queue[1].type = "RetireIfIdle"
                                /\ queue[1].gen = g)
  PROVE  Queued'
<1>1. \A i \in DOMAIN queue : queue[i] \in Events
  BY DEF Types
<1>2. \A i \in DOMAIN queue : queue[i].type \in {"RetireIfIdle", "Retire"}
        => queue[i].gen \in Gens
  BY <1>1, EventFacts
<1>3. /\ Len(queue) \in Nat /\ 1 \in DOMAIN queue
      /\ DOMAIN queue = 1 .. Len(queue) /\ DOMAIN queue' = 1 .. Len(queue) - 1
      /\ \A i \in DOMAIN queue' : queue'[i] = queue[i + 1] /\ i + 1 \in DOMAIN queue
  BY Taken DEF Types
<1>4. ASSUME NEW i \in DOMAIN queue', queue'[i].type = "RetireIfIdle"
      PROVE  bpc'[queue'[i].gen] = "asking"
  <2>1. i + 1 \in DOMAIN queue /\ i + 1 # 1 /\ queue'[i] = queue[i + 1]
    BY <1>3
  <2>2. queue[i + 1].gen \in Gens /\ bpc[queue[i + 1].gen] = "asking"
    BY <1>2, <1>4, <2>1 DEF Queued, AskersWait, OneQuestion, RetirersLeft
  <2>3. ~(queue[1].type = "RetireIfIdle" /\ queue[1].gen = queue[i + 1].gen)
    BY <1>3, <1>4, <2>1 DEF Queued, AskersWait, OneQuestion, RetirersLeft
  <2>4. QED
    BY <2>1, <2>2, <2>3
<1>5. ASSUME NEW i \in DOMAIN queue', queue'[i].type = "Retire"
      PROVE  bpc'[queue'[i].gen] \in {"closing", "draining", "done"}
  BY <1>2, <1>3, <1>5 DEF Queued, AskersWait, OneQuestion, RetirersLeft
<1>6. ASSUME NEW i \in DOMAIN queue', NEW j \in DOMAIN queue',
             queue'[i].type = "RetireIfIdle", queue'[j].type = "RetireIfIdle",
             queue'[i].gen = queue'[j].gen
      PROVE  i = j
  BY <1>3, <1>6 DEF Queued, AskersWait, OneQuestion, RetirersLeft
<1>7. QED
  <2>1. AskersWait'
    BY <1>4 DEF AskersWait
  <2>2. RetirersLeft'
    BY <1>5 DEF RetirersLeft
  <2>3. OneQuestion'
    BY <1>6 DEF OneQuestion
  <2>4. QED
    BY <2>1, <2>2, <2>3 DEF Queued

(* Every step keeps the queue's events true of their senders.              *)
LEMMA QueuedStep ==
  Types /\ Filed /\ Queued /\ [Next]_vars => Queued'
<1> SUFFICES ASSUME Types, Filed, Queued, [Next]_vars
             PROVE  Queued'
  OBVIOUS
<1>0. /\ bpc \in [Gens -> BroadcasterSteps]
      /\ gens \in Nat /\ entry \in Nat /\ shuttingDown \in BOOLEAN
  BY DEF Types
<1> USE <1>0, GensFacts DEF Filed, serverVars, registryVars, taskVars, venueVars
<1>1. CASE UNCHANGED moving
  BY <1>1, SameQueued DEF moving
<1>2. ASSUME NEW c \in Clients, NEW current \in BOOLEAN, Ask(c, current)
       PROVE  Queued'
  <2>1. queue' = Append(queue, Subscribe(c, current)) /\ UNCHANGED bpc
    BY <1>2 DEF Ask
  <2>2. Subscribe(c, current) \in Events /\ Subscribe(c, current).type = "Subscribe"
    BY IsEvent DEF Subscribe, Retire, ShutDown
  <2>3. QED
    BY <2>1, <2>2, PostedQueued
<1>3. CASE SendShutDown
  <2>1. queue' = Append(queue, ShutDown) /\ UNCHANGED bpc
    BY <1>3 DEF SendShutDown
  <2>2. ShutDown \in Events /\ ShutDown.type = "ShutDown"
    BY IsEvent DEF Subscribe, Retire, ShutDown
  <2>3. QED
    BY <2>1, <2>2, PostedQueued
<1>4. CASE ConnectorsStop
  BY <1>4, SameQueued DEF ConnectorsStop
<1>5. CASE HandleSubscribe
  <2>1. queue # <<>> /\ queue' = Tail(queue)
    BY <1>5, SubscribeCases
  <2>2. UNCHANGED bpc \/ (gens + 1 \in Gens /\ bpc' = [bpc EXCEPT ![gens + 1] = "opening"])
    BY <1>5, SubscribeCases, StartFacts DEF JoinRunning
  <2>3. gens + 1 \in Gens => bpc[gens + 1] = "none"
    OBVIOUS
  <2>4. QED
    BY <2>1, <2>2, <2>3, TakenQueued
<1>6. CASE HandleRetireIfIdle
  <2>1. queue # <<>> /\ queue' = Tail(queue) /\ queue[1].type = "RetireIfIdle"
    BY <1>6, RetireIfIdleCases
  <2>2. PICK g \in Gens : g = queue[1].gen
          /\ \E b \in {"stopping", "kept"} : bpc' = [bpc EXCEPT ![g] = b]
    BY <1>6, RetireIfIdleCases
  <2>3. bpc[g] = "asking"
    BY <2>1, <2>2, Taken DEF Types, Queued, AskersWait, OneQuestion, RetirersLeft
  <2>4. QED
    BY <2>1, <2>2, <2>3, TakenQueued
<1>7. CASE HandleRetire
  <2>1. queue # <<>> /\ queue' = Tail(queue) /\ UNCHANGED bpc
    BY <1>7, RetireCases DEF HandleRetire, Handles
  <2>2. QED
    BY <2>1, TakenQueued
<1>8. CASE HandleShutDown
  <2>1. queue # <<>> /\ queue' = Tail(queue) /\ UNCHANGED bpc
    BY <1>8 DEF HandleShutDown, Handles
  <2>2. QED
    BY <2>1, TakenQueued
<1>9. ASSUME NEW v \in Venues, Delist(v)
       PROVE  Queued'
  BY <1>9, SameQueued DEF Delist, Unbind
<1>10. ASSUME NEW v \in Venues, SuperviseSubscribe(v)
       PROVE  Queued'
  BY <1>10, SameQueued DEF SuperviseSubscribe, Unsubscribe
<1>11. ASSUME NEW v \in Venues, SuperviseUnsubscribe(v)
       PROVE  Queued'
  BY <1>11, SameQueued DEF SuperviseUnsubscribe, Unbind, Unsubscribe
<1>12. ASSUME NEW g \in Gens, OpenReaders(g)
       PROVE  Queued'
  <2>1. CASE bpc' = [bpc EXCEPT ![g] = "running"] /\ UNCHANGED queue
    BY <1>12, <2>1, SameQueued DEF OpenReaders
  <2>2. CASE bpc' = [bpc EXCEPT ![g] = "draining"] /\ queue' = Append(queue, Retire(g))
    <3>1. bpc[g] = "opening"
      BY <1>12 DEF OpenReaders
    <3>2. Retire(g) \in Events /\ Retire(g).type = "Retire" /\ Retire(g).gen = g
      BY IsEvent DEF Retire
    <3>3. QED
      BY <2>2, <3>1, <3>2, PostedQueued
  <2>3. QED
    BY <1>12, <2>1, <2>2 DEF OpenReaders
<1>13. ASSUME NEW g \in Gens, StayAlive(g)
       PROVE  Queued'
  BY <1>13, SameQueued DEF StayAlive
<1>14. ASSUME NEW g \in Gens, WakeDeparted(g)
       PROVE  Queued'
  <2>1. bpc[g] = "running" /\ (EndOfWake(g) \/ (bpc' = [bpc EXCEPT ![g] = "stopping"]
          /\ UNCHANGED queue))
    BY <1>14 DEF WakeDeparted, ReadersQuiet
  <2>2. CASE bpc' = [bpc EXCEPT ![g] = "asking"] /\ queue' = Append(queue, RetireIfIdle(g))
    <3>1. RetireIfIdle(g) \in Events /\ RetireIfIdle(g).type = "RetireIfIdle"
            /\ RetireIfIdle(g).gen = g
      BY IsEvent DEF RetireIfIdle
    <3>2. QED
      BY <2>1, <2>2, <3>1, PostedQueued
  <2>3. CASE UNCHANGED <<bpc, queue>>
    BY <2>3, SameQueued
  <2>4. CASE bpc' = [bpc EXCEPT ![g] = "stopping"] /\ UNCHANGED queue
    BY <2>1, <2>4, SameQueued
  <2>5. QED
    BY <2>1, <2>2, <2>3, <2>4, WakeFacts
<1>15. ASSUME NEW g \in Gens, WakeJoinNone(g)
       PROVE  Queued'
  BY <1>15, SameQueued DEF WakeJoinNone, ReadersQuiet
<1>16. ASSUME NEW g \in Gens, StopBroadcasting(g)
       PROVE  Queued'
  <2>1. queue' = Append(queue, Retire(g)) /\ bpc[g] = "stopping"
          /\ bpc' = [bpc EXCEPT ![g] = "closing"]
    BY <1>16 DEF StopBroadcasting
  <2>2. Retire(g) \in Events /\ Retire(g).type = "Retire" /\ Retire(g).gen = g
    BY IsEvent DEF Retire
  <2>3. QED
    BY <2>1, <2>2, PostedQueued
<1>17. ASSUME NEW g \in Gens, CloseSessions(g)
       PROVE  Queued'
  BY <1>17, SameQueued DEF CloseSessions
<1>18. ASSUME NEW g \in Gens, DrainJoin(g)
       PROVE  Queued'
  BY <1>18, SameQueued DEF DrainJoin
<1>19. ASSUME NEW g \in Gens, BroadcasterEnds(g)
       PROVE  Queued'
  BY <1>19, SameQueued DEF BroadcasterEnds
<1>20. ASSUME NEW g \in Gens, WakeBook(g)
       PROVE  Queued'
  <2>1. bpc[g] = "running" /\ (EndOfWake(g))
    BY <1>20 DEF WakeBook, ReadersQuiet
  <2>2. CASE bpc' = [bpc EXCEPT ![g] = "asking"] /\ queue' = Append(queue, RetireIfIdle(g))
    <3>1. RetireIfIdle(g) \in Events /\ RetireIfIdle(g).type = "RetireIfIdle"
            /\ RetireIfIdle(g).gen = g
      BY IsEvent DEF RetireIfIdle
    <3>2. QED
      BY <2>1, <2>2, <3>1, PostedQueued
  <2>3. CASE UNCHANGED <<bpc, queue>>
    BY <2>3, SameQueued
  <2>4. QED
    BY <2>1, <2>2, <2>3, WakeFacts
<1>21. ASSUME NEW g \in Gens, WakeJoin(g)
       PROVE  Queued'
  <2>1. bpc[g] = "running" /\ (EndOfWake(g))
    BY <1>21 DEF WakeJoin, ReadersQuiet
  <2>2. CASE bpc' = [bpc EXCEPT ![g] = "asking"] /\ queue' = Append(queue, RetireIfIdle(g))
    <3>1. RetireIfIdle(g) \in Events /\ RetireIfIdle(g).type = "RetireIfIdle"
            /\ RetireIfIdle(g).gen = g
      BY IsEvent DEF RetireIfIdle
    <3>2. QED
      BY <2>1, <2>2, <3>1, PostedQueued
  <2>3. CASE UNCHANGED <<bpc, queue>>
    BY <2>3, SameQueued
  <2>4. QED
    BY <2>1, <2>2, <2>3, WakeFacts
<1>22. ASSUME NEW g \in Gens, WakeEnded(g)
       PROVE  Queued'
  <2>1. bpc[g] = "running" /\ (EndOfWake(g))
    BY <1>22 DEF WakeEnded, ReadersQuiet
  <2>2. CASE bpc' = [bpc EXCEPT ![g] = "asking"] /\ queue' = Append(queue, RetireIfIdle(g))
    <3>1. RetireIfIdle(g) \in Events /\ RetireIfIdle(g).type = "RetireIfIdle"
            /\ RetireIfIdle(g).gen = g
      BY IsEvent DEF RetireIfIdle
    <3>2. QED
      BY <2>1, <2>2, <3>1, PostedQueued
  <2>3. CASE UNCHANGED <<bpc, queue>>
    BY <2>3, SameQueued
  <2>4. QED
    BY <2>1, <2>2, <2>3, WakeFacts
<1> HIDE DEF Filed, serverVars, registryVars, taskVars, venueVars
<1>23. QED
  BY <1>1, <1>2, <1>3, <1>4, <1>5, <1>6, <1>7, <1>8, <1>9, <1>10, <1>11, <1>12, <1>13,
     <1>14, <1>15, <1>16, <1>17, <1>18, <1>19, <1>20, <1>21, <1>22,
     NextCases DEF HandleEvent, Supervise, Advance

-----------------------------------------------------------------------------
(* The supervisors' queues *)

(* Every step keeps a subscribe asked for once and answered once.          *)
LEMMA AskedStep ==
  Types /\ Filed /\ AskedOnce /\ [Next]_vars => AskedOnce'
<1> SUFFICES ASSUME Types, Filed, AskedOnce, [Next]_vars
             PROVE  AskedOnce'
  OBVIOUS
<1>0. /\ gens \in Nat /\ cqueue \in [Venues -> Seq(Nat)]
      /\ answer \in [Gens -> [Venues -> {"none", "refused", "reader"}]]
  BY DEF Types
<1> USE <1>0, GensFacts DEF AskedOnce, ToBeAnswered, AskedForOnce, NotAskedYet,
          Unsubscribe, serverVars, registryVars, taskVars, venueVars
<1>1. CASE UNCHANGED moving
  BY <1>1 DEF moving
<1>2. ASSUME NEW c \in Clients, NEW current \in BOOLEAN, Ask(c, current)
       PROVE  AskedOnce'
  BY <1>2 DEF Ask
<1>3. CASE SendShutDown
  BY <1>3 DEF SendShutDown
<1>4. CASE ConnectorsStop
  <2>1. UNCHANGED <<gens, answer>> /\ \A v \in Venues : cqueue'[v] = <<>>
    BY <1>4 DEF ConnectorsStop
  <2>2. QED
    BY <2>1
<1>5. CASE HandleSubscribe
  <2>1. UNCHANGED answer
    BY <1>5, SubscribeCases
  <2>2. CASE UNCHANGED <<gens, cqueue>>
    BY <2>1, <2>2
  <2>3. ASSUME NEW c \in Clients, StartBroadcaster(c) PROVE AskedOnce'
    <3>1. ASSUME NEW v \in Venues
        PROVE  (ToBeAnswered(v) /\ AskedForOnce(v) /\ NotAskedYet(v))'
      <4>1. /\ gens + 1 \in Gens /\ gens' = gens + 1
            /\ Len(cqueue[v]) \in Nat
            /\ DOMAIN cqueue[v] = 1 .. Len(cqueue[v])
                 /\ DOMAIN cqueue'[v] = 1 .. Len(cqueue[v]) + 1
            /\ \A i \in DOMAIN cqueue[v] : cqueue'[v][i] = cqueue[v][i]
            /\ cqueue'[v][Len(cqueue[v]) + 1] = gens + 1
        BY <2>3, StartFacts
      <4>2. \A i \in DOMAIN cqueue'[v] : i \in DOMAIN cqueue[v] \/ i = Len(cqueue[v]) + 1
        BY <4>1
      <4>3. ASSUME NEW i \in DOMAIN cqueue[v] PROVE cqueue[v][i] # gens + 1 /\ gens + 1 # 0
        <5>1. cqueue[v][i] = 0 \/ cqueue[v][i] <= gens
          OBVIOUS
        <5>2. cqueue[v][i] \in Nat
          BY <4>1
        <5>3. QED
          BY <5>1, <5>2
      <4>4. ToBeAnswered(v)'
        BY <2>1, <4>1, <4>2, <4>3
      <4>5. AskedForOnce(v)'
        <5>1. ASSUME NEW i \in DOMAIN cqueue'[v], NEW j \in DOMAIN cqueue'[v],
                     cqueue'[v][i] # 0, cqueue'[v][j] = cqueue'[v][i]
              PROVE  i = j
          <6>1. CASE i \in DOMAIN cqueue[v] /\ j \in DOMAIN cqueue[v]
            BY <4>1, <5>1, <6>1
          <6>2. CASE i \notin DOMAIN cqueue[v] \/ j \notin DOMAIN cqueue[v]
            BY <4>1, <4>2, <4>3, <5>1, <6>2
          <6>3. QED
            BY <6>1, <6>2
        <5>2. QED
          BY <5>1
      <4>6. NotAskedYet(v)'
        BY <2>1, <4>1
      <4>7. QED
        BY <4>4, <4>5, <4>6
    <3>2. QED
      BY <3>1
  <2>4. QED
    BY <1>5, <2>2, <2>3, SubscribeCases DEF JoinRunning
<1>6. CASE HandleRetireIfIdle
  <2>1. UNCHANGED <<answer, gens>>
    BY <1>6, RetireIfIdleCases
  <2>2. ASSUME ReleaseEntry PROVE AskedOnce'
    <3>1. ASSUME NEW v \in Venues
        PROVE  (ToBeAnswered(v) /\ AskedForOnce(v) /\ NotAskedYet(v))'
      <4>1. /\ Len(cqueue[v]) \in Nat
            /\ DOMAIN cqueue[v] = 1 .. Len(cqueue[v])
                 /\ DOMAIN cqueue'[v] = 1 .. Len(cqueue[v]) + 1
            /\ \A i \in DOMAIN cqueue[v] : cqueue'[v][i] = cqueue[v][i]
            /\ cqueue'[v][Len(cqueue[v]) + 1] = 0
        BY <2>2, ReleaseFacts
      <4>2. \A i \in DOMAIN cqueue'[v] : cqueue'[v][i] # 0 => i \in DOMAIN cqueue[v]
        BY <4>1
      <4>3. QED
        BY <2>1, <4>1, <4>2
    <3>2. QED
      BY <3>1
  <2>3. CASE UNCHANGED cqueue
    BY <2>1, <2>3
  <2>4. QED
    BY <1>6, <2>2, <2>3, RetireIfIdleCases
<1>7. CASE HandleRetire
  <2>1. UNCHANGED <<answer, gens>>
    BY <1>7, RetireCases
  <2>2. ASSUME ReleaseEntry PROVE AskedOnce'
    <3>1. ASSUME NEW v \in Venues
        PROVE  (ToBeAnswered(v) /\ AskedForOnce(v) /\ NotAskedYet(v))'
      <4>1. /\ Len(cqueue[v]) \in Nat
            /\ DOMAIN cqueue[v] = 1 .. Len(cqueue[v])
                 /\ DOMAIN cqueue'[v] = 1 .. Len(cqueue[v]) + 1
            /\ \A i \in DOMAIN cqueue[v] : cqueue'[v][i] = cqueue[v][i]
            /\ cqueue'[v][Len(cqueue[v]) + 1] = 0
        BY <2>2, ReleaseFacts
      <4>2. \A i \in DOMAIN cqueue'[v] : cqueue'[v][i] # 0 => i \in DOMAIN cqueue[v]
        BY <4>1
      <4>3. QED
        BY <2>1, <4>1, <4>2
    <3>2. QED
      BY <3>1
  <2>3. QED
    BY <1>7, <2>1, <2>2, RetireCases
<1>8. CASE HandleShutDown
  BY <1>8 DEF HandleShutDown, Handles
<1>9. ASSUME NEW v \in Venues, Delist(v)
       PROVE  AskedOnce'
  BY <1>9 DEF Delist, Unbind
<1>10. ASSUME NEW v \in Venues, SuperviseSubscribe(v)
       PROVE  AskedOnce'
  <2>1. UNCHANGED gens /\ cqueue[v] # <<>> /\ cqueue' = [cqueue EXCEPT ![v] = Tail(@)]
    BY <1>10 DEF SuperviseSubscribe
  <2>2. /\ Head(cqueue[v]) = cqueue[v][1] /\ 1 \in DOMAIN cqueue[v]
        /\ Len(cqueue[v]) \in Nat /\ DOMAIN cqueue[v] = 1 .. Len(cqueue[v])
        /\ DOMAIN cqueue'[v] = 1 .. Len(cqueue[v]) - 1
        /\ \A i \in DOMAIN cqueue'[v] : cqueue'[v][i] = cqueue[v][i + 1]
             /\ i + 1 \in DOMAIN cqueue[v]
        /\ \A w \in Venues \ {v} : cqueue'[w] = cqueue[w]
    BY <2>1, SupervisedFacts
  <2> DEFINE g == Head(cqueue[v])
  <2>3. PICK a \in {"refused", "reader"} : answer' = [answer EXCEPT ![g][v] = a]
    BY <1>10 DEF SuperviseSubscribe
  <2>4. g \in Gens /\ g <= gens /\ g # 0 /\ g = cqueue[v][1]
    BY <1>10, <2>2 DEF SuperviseSubscribe
  <2>5. \A w \in Venues, h \in Gens : w # v \/ h # g => answer'[h][w] = answer[h][w]
    BY <2>3, <2>4
  <2>6. ASSUME NEW w \in Venues \ {v}
        PROVE  (ToBeAnswered(w) /\ AskedForOnce(w) /\ NotAskedYet(w))'
    BY <2>1, <2>2, <2>5
  <2>7. ASSUME NEW i \in DOMAIN cqueue'[v] PROVE cqueue'[v][i] # g
    <3>1. i + 1 \in DOMAIN cqueue[v] /\ 1 \in DOMAIN cqueue[v] /\ i + 1 # 1
            /\ cqueue'[v][i] = cqueue[v][i + 1]
      BY <2>2
    <3>2. cqueue[v][i + 1] # cqueue[v][1]
      BY <2>4, <3>1
    <3>3. QED
      BY <2>4, <3>1, <3>2
  <2>8. ToBeAnswered(v)'
    BY <2>1, <2>2, <2>5, <2>7
  <2>9. AskedForOnce(v)'
    <3>1. ASSUME NEW i \in DOMAIN cqueue'[v], NEW j \in DOMAIN cqueue'[v],
                 cqueue'[v][i] # 0, cqueue'[v][j] = cqueue'[v][i]
          PROVE  i = j
      <4>1. /\ i + 1 \in DOMAIN cqueue[v] /\ j + 1 \in DOMAIN cqueue[v]
            /\ cqueue[v][i + 1] # 0 /\ cqueue[v][j + 1] = cqueue[v][i + 1]
        BY <2>2, <3>1
      <4>2. i + 1 = j + 1
        BY <4>1
      <4>3. QED
        BY <2>2, <4>2
    <3>2. QED
      BY <3>1
  <2>10. NotAskedYet(v)'
    <3>1. ASSUME NEW h \in Gens, h > gens PROVE answer'[h][v] = "none"
      <4>1. h # g
        BY <2>4, <3>1
      <4>2. answer'[h][v] = answer[h][v]
        BY <2>5, <4>1
      <4>3. QED
        BY <3>1, <4>2
    <3>2. QED
      BY <2>1, <3>1
  <2>11. QED
    BY <2>6, <2>8, <2>9, <2>10
<1>11. ASSUME NEW v \in Venues, SuperviseUnsubscribe(v)
       PROVE  AskedOnce'
  <2>1. UNCHANGED gens /\ cqueue[v] # <<>> /\ cqueue' = [cqueue EXCEPT ![v] = Tail(@)]
    BY <1>11 DEF SuperviseUnsubscribe
  <2>2. /\ Head(cqueue[v]) = cqueue[v][1] /\ 1 \in DOMAIN cqueue[v]
        /\ Len(cqueue[v]) \in Nat /\ DOMAIN cqueue[v] = 1 .. Len(cqueue[v])
        /\ DOMAIN cqueue'[v] = 1 .. Len(cqueue[v]) - 1
        /\ \A i \in DOMAIN cqueue'[v] : cqueue'[v][i] = cqueue[v][i + 1]
             /\ i + 1 \in DOMAIN cqueue[v]
        /\ \A w \in Venues \ {v} : cqueue'[w] = cqueue[w]
    BY <2>1, SupervisedFacts
  <2>3. UNCHANGED answer
    BY <1>11 DEF SuperviseUnsubscribe
  <2>4. ASSUME NEW w \in Venues \ {v}
        PROVE  (ToBeAnswered(w) /\ AskedForOnce(w) /\ NotAskedYet(w))'
    BY <2>1, <2>2, <2>3
  <2>5. ToBeAnswered(v)'
    BY <2>1, <2>2, <2>3
  <2>6. AskedForOnce(v)'
    <3>1. ASSUME NEW i \in DOMAIN cqueue'[v], NEW j \in DOMAIN cqueue'[v],
                 cqueue'[v][i] # 0, cqueue'[v][j] = cqueue'[v][i]
          PROVE  i = j
      <4>1. /\ i + 1 \in DOMAIN cqueue[v] /\ j + 1 \in DOMAIN cqueue[v]
            /\ cqueue[v][i + 1] # 0 /\ cqueue[v][j + 1] = cqueue[v][i + 1]
        BY <2>2, <3>1
      <4>2. i + 1 = j + 1
        BY <4>1
      <4>3. QED
        BY <2>2, <4>2
    <3>2. QED
      BY <3>1
  <2>7. NotAskedYet(v)'
    BY <2>1, <2>3
  <2>8. QED
    BY <2>4, <2>5, <2>6, <2>7
<1>12. ASSUME NEW g \in Gens, OpenReaders(g)
       PROVE  AskedOnce'
  BY <1>12 DEF OpenReaders
<1>13. ASSUME NEW g \in Gens, StayAlive(g)
       PROVE  AskedOnce'
  BY <1>13 DEF StayAlive
<1>14. ASSUME NEW g \in Gens, WakeDeparted(g)
       PROVE  AskedOnce'
  BY <1>14 DEF WakeDeparted
<1>15. ASSUME NEW g \in Gens, WakeJoinNone(g)
       PROVE  AskedOnce'
  BY <1>15 DEF WakeJoinNone, ReadersQuiet
<1>16. ASSUME NEW g \in Gens, StopBroadcasting(g)
       PROVE  AskedOnce'
  BY <1>16 DEF StopBroadcasting
<1>17. ASSUME NEW g \in Gens, CloseSessions(g)
       PROVE  AskedOnce'
  BY <1>17 DEF CloseSessions
<1>18. ASSUME NEW g \in Gens, DrainJoin(g)
       PROVE  AskedOnce'
  BY <1>18 DEF DrainJoin
<1>19. ASSUME NEW g \in Gens, BroadcasterEnds(g)
       PROVE  AskedOnce'
  BY <1>19 DEF BroadcasterEnds
<1>20. ASSUME NEW g \in Gens, WakeBook(g)
       PROVE  AskedOnce'
  BY <1>20 DEF WakeBook
<1>21. ASSUME NEW g \in Gens, WakeJoin(g)
       PROVE  AskedOnce'
  BY <1>21 DEF WakeJoin, ReadersQuiet
<1>22. ASSUME NEW g \in Gens, WakeEnded(g)
       PROVE  AskedOnce'
  BY <1>22 DEF WakeEnded, ReadersQuiet
<1> HIDE DEF AskedOnce, ToBeAnswered, AskedForOnce, NotAskedYet, Unsubscribe, serverVars,
          registryVars, taskVars, venueVars
<1>23. QED
  BY <1>1, <1>2, <1>3, <1>4, <1>5, <1>6, <1>7, <1>8, <1>9, <1>10, <1>11, <1>12, <1>13,
     <1>14, <1>15, <1>16, <1>17, <1>18, <1>19, <1>20, <1>21, <1>22,
     NextCases DEF HandleEvent, Supervise, Advance

-----------------------------------------------------------------------------
(* Causes *)

(* A sequence of no elements.                                              *)
LEMMA EmptyFacts ==
  ASSUME NEW S, NEW s \in Seq(S), Len(s) = 0
  PROVE  s = <<>>
OBVIOUS

(* A broadcaster nothing happens to stays as it is, whoever is answered.   *)
LEMMA OthersCauses ==
  ASSUME NEW h \in Gens, CausesAt(h), bpc'[h] = bpc[h], joins'[h] = joins[h],
         pending'[h] = pending[h], sessions'[h] = sessions[h], live'[h] = live[h],
         entry' = h => entry = h, shuttingDown => shuttingDown', Refused(h) => Refused(h)'
  PROVE  CausesAt(h)'
<1>1. Counted(h) /\ AsksAlone(h) /\ LeavesForCause(h)
  BY DEF CausesAt
<1>2. Counted(h)' /\ AsksAlone(h)'
  BY <1>1 DEF Counted, AsksAlone, Active
<1>3. Caused(h) => Caused(h)'
  BY DEF Caused
<1>4. LeavesForCause(h)'
  BY <1>1, <1>3 DEF LeavesForCause, Leaving
<1>5. QED
  BY <1>2, <1>4 DEF CausesAt

(* A step that touches no broadcaster at all.                              *)
LEMMA SameCauses ==
  ASSUME Causes, UNCHANGED <<bpc, joins, pending, sessions, live, answer>>, 0 \notin Gens,
         entry' \in {0, entry}, shuttingDown => shuttingDown'
  PROVE  Causes'
<1>1. ASSUME NEW h \in Gens PROVE CausesAt(h)'
  <2>1. CausesAt(h) /\ (Refused(h) => Refused(h)')
    BY DEF Causes, Refused
  <2>2. QED
    BY <2>1, OthersCauses
<1>2. QED
  BY <1>1 DEF Causes

(* A step that touches one broadcaster has that one to account for.        *)
LEMMA OneCauses ==
  ASSUME Causes, NEW g \in Gens, UNCHANGED answer, entry' \in {0, entry, g}, 0 \notin Gens,
         shuttingDown => shuttingDown',
         \A h \in Gens \ {g} : /\ bpc'[h] = bpc[h] /\ joins'[h] = joins[h]
                               /\ pending'[h] = pending[h] /\ sessions'[h] = sessions[h]
                               /\ live'[h] = live[h],
         CausesAt(g)'
  PROVE  Causes'
<1>1. ASSUME NEW h \in Gens \ {g} PROVE CausesAt(h)'
  <2>1. CausesAt(h) /\ (Refused(h) => Refused(h)') /\ (entry' = h => entry = h)
    BY DEF Causes, Refused
  <2>2. QED
    BY <2>1, OthersCauses
<1>2. QED
  BY <1>1 DEF Causes

(* What there is to show of a broadcaster that stays in its loop ...       *)
LEMMA ActiveCauses ==
  ASSUME NEW g \in Gens, Active(g)', pending'[g] = Len(joins'[g]),
         bpc'[g] = "asking" => sessions'[g] = {}
  PROVE  CausesAt(g)'
BY DEF CausesAt, Counted, AsksAlone, LeavesForCause, Active, Leaving

(* ... and of one that leaves it.                                          *)
LEMMA LeavingCauses ==
  ASSUME NEW g \in Gens, Leaving(g)',
         joins'[g] # <<>> \/ sessions'[g] # {} \/ entry' = g => Caused(g)'
  PROVE  CausesAt(g)'
BY DEF CausesAt, Counted, AsksAlone, LeavesForCause, Active, Leaving

(* A broadcaster in its loop is the filed one, or the server stops.        *)

(* A broadcaster in its loop is the filed one, or the server stops.        *)
LEMMA UnfiledCauses ==
  ASSUME Filed, NEW g \in Gens, Active(g), entry # g
  PROVE  Caused(g)
BY DEF Filed, Caused

(* The end of a wake keeps the account of the broadcaster that woke.       *)
LEMMA WakeCauses ==
  ASSUME Types, NEW g \in Gens, bpc[g] = "running", EndOfWake(g),
  pending'[g] = Len(joins'[g])
  PROVE  CausesAt(g)' /\ \A h \in Gens \ {g} : bpc'[h] = bpc[h]
<1>1. \/ sessions'[g] = {} /\ bpc' = [bpc EXCEPT ![g] = "asking"]
      \/ UNCHANGED bpc
  BY WakeFacts
<1>2. bpc \in [Gens -> BroadcasterSteps]
  BY DEF Types
<1>3. bpc'[g] = "running" \/ (bpc'[g] = "asking" /\ sessions'[g] = {})
  BY <1>1, <1>2
<1>4. CausesAt(g)'
  BY <1>3, ActiveCauses DEF Active
<1>5. QED
  BY <1>1, <1>2, <1>4

(* Every step keeps the accounts: nobody is left without a cause.          *)
LEMMA CausesStep ==
  Types /\ Filed /\ Queued /\ AskedOnce /\ Causes /\ [Next]_vars => Causes'
<1> SUFFICES ASSUME Types, Filed, Queued, AskedOnce, Causes, [Next]_vars
             PROVE  Causes'
  OBVIOUS
<1>1. CASE UNCHANGED moving
  BY <1>1, SameCauses, GensFacts DEF moving
<1>2. ASSUME NEW c \in Clients, NEW current \in BOOLEAN, Ask(c, current)
       PROVE  Causes'
  BY <1>2, SameCauses, GensFacts DEF Ask, registryVars, taskVars
<1>3. CASE SendShutDown
  BY <1>3, SameCauses, GensFacts DEF SendShutDown, registryVars, taskVars
<1>4. CASE ConnectorsStop
  BY <1>4, SameCauses, GensFacts DEF ConnectorsStop, registryVars, taskVars
<1>5. CASE HandleSubscribe
  <2>1. UNCHANGED <<shuttingDown, sessions, answer, live>>
    BY <1>5, SubscribeCases
  <2>2. CASE UNCHANGED <<entry, bpc, joins, pending>>
    BY <2>1, <2>2, SameCauses, GensFacts
  <2>3. ASSUME NEW c \in Clients, entry # 0, JoinRunning(c) PROVE Causes'
    <3>1. PICK g \in Gens :
          /\ g = entry /\ UNCHANGED <<entry, bpc>>
          /\ joins' = [joins EXCEPT ![g] = Append(@, c)]
               /\ pending' = [pending EXCEPT ![g] = @ + 1]
      BY <2>3 DEF JoinRunning, Filed
    <3>2. \A h \in Gens \ {g} : /\ bpc'[h] = bpc[h] /\ joins'[h] = joins[h]
                                  /\ pending'[h] = pending[h] /\ sessions'[h] = sessions[h]
                                  /\ live'[h] = live[h]
      BY <2>1, <3>1 DEF Types
    <3>3. CausesAt(g)
      BY <3>1 DEF Causes
    <3>4. CASE Leaving(g)
      <4>1. Caused(g)
        BY <3>1, <3>3, <3>4 DEF CausesAt, LeavesForCause
      <4>2. Caused(g)' /\ Leaving(g)'
        BY <2>1, <3>1, <3>4, <4>1 DEF Caused, Refused, Leaving
      <4>3. CausesAt(g)'
        BY <3>1, <4>2, LeavingCauses
      <4>4. QED
        BY <2>1, <3>1, <3>2, <4>3, OneCauses, GensFacts
    <3>5. CASE Active(g)
      <4>1. pending[g] = Len(joins[g]) /\ (bpc[g] = "asking" => sessions[g] = {})
        BY <3>3, <3>5 DEF CausesAt, Counted, AsksAlone
      <4>2. joins[g] \in Seq(Clients) /\ joins'[g] = Append(joins[g], c)
              /\ pending'[g] = pending[g] + 1
        BY <3>1 DEF Types
      <4>3. Len(joins'[g]) = Len(joins[g]) + 1
        BY <4>2, AppendFacts
      <4>4. Active(g)'
        BY <3>1, <3>5 DEF Active
      <4>5. CausesAt(g)'
        BY <2>1, <3>1, <4>1, <4>2, <4>3, <4>4, ActiveCauses
      <4>6. QED
        BY <2>1, <3>1, <3>2, <4>5, OneCauses, GensFacts
    <3>6. QED
      BY <2>3, <3>1, <3>4, <3>5 DEF Filed, Active, Leaving, Types, BroadcasterSteps
  <2>4. ASSUME NEW c \in Clients, StartBroadcaster(c) PROVE Causes'
    <3>1. PICK g \in Gens :
          /\ entry' = g /\ bpc' = [bpc EXCEPT ![g] = "opening"]
          /\ joins' = [joins EXCEPT ![g] = <<c>>] /\ pending' = [pending EXCEPT ![g] = 1]
      BY <2>4, StartFacts
    <3>2. \A h \in Gens \ {g} : /\ bpc'[h] = bpc[h] /\ joins'[h] = joins[h]
                                  /\ pending'[h] = pending[h] /\ sessions'[h] = sessions[h]
                                  /\ live'[h] = live[h]
      BY <2>1, <3>1 DEF Types
    <3>3. bpc'[g] = "opening" /\ joins'[g] = <<c>> /\ pending'[g] = 1
      BY <3>1 DEF Types
    <3>4. Len(joins'[g]) = pending'[g]
      <4>1. Len(<<c>>) = 1
        OBVIOUS
      <4>2. QED
        BY <3>3, <4>1
    <3>5. CausesAt(g)'
      BY <3>3, <3>4, ActiveCauses DEF Active
    <3>6. QED
      BY <2>1, <3>1, <3>2, <3>5, OneCauses, GensFacts
  <2>5. QED
    BY <1>5, <2>2, <2>3, <2>4, SubscribeCases
<1>6. CASE HandleRetireIfIdle
  <2>1. /\ UNCHANGED <<shuttingDown, joins, pending, sessions, answer, live>>
        /\ queue # <<>> /\ queue' = Tail(queue) /\ queue[1].type = "RetireIfIdle"
    BY <1>6, RetireIfIdleCases
  <2>2. PICK g \in Gens :
          /\ g = queue[1].gen
          /\ \/ entry # g /\ bpc' = [bpc EXCEPT ![g] = "stopping"] /\ UNCHANGED entry
             \/ entry = g /\ bpc' = [bpc EXCEPT ![g] = "kept"] /\ UNCHANGED entry
             \/ entry = g /\ pending[g] = 0 /\ bpc' = [bpc EXCEPT ![g] = "stopping"]
                  /\ entry' = 0
    BY <1>6, RetireIfIdleCases DEF ReleaseEntry
  <2>3. bpc[g] = "asking"
    BY <2>1, <2>2, Taken DEF Types, Queued, AskersWait
  <2>4. \A h \in Gens \ {g} : /\ bpc'[h] = bpc[h] /\ joins'[h] = joins[h]
                                  /\ pending'[h] = pending[h] /\ sessions'[h] = sessions[h]
                                  /\ live'[h] = live[h]
    BY <2>1, <2>2 DEF Types
  <2>5. pending[g] = Len(joins[g]) /\ sessions[g] = {}
    BY <2>3 DEF Causes, CausesAt, Counted, AsksAlone, Active
  <2>6. CASE entry # g /\ bpc' = [bpc EXCEPT ![g] = "stopping"] /\ UNCHANGED entry
    <3>1. Caused(g)
      BY <2>3, <2>6, UnfiledCauses DEF Active
    <3>2. Caused(g)' /\ Leaving(g)'
      BY <2>1, <2>6, <3>1 DEF Caused, Refused, Leaving, Types
    <3>3. QED
      BY <2>1, <2>4, <2>6, <3>2, LeavingCauses, OneCauses, GensFacts
  <2>7. CASE entry = g /\ bpc' = [bpc EXCEPT ![g] = "kept"] /\ UNCHANGED entry
    <3>1. bpc'[g] = "kept"
      BY <2>7 DEF Types
    <3>2. CausesAt(g)'
      BY <2>1, <2>5, <3>1, ActiveCauses DEF Active
    <3>3. QED
      BY <2>1, <2>4, <2>7, <3>2, OneCauses, GensFacts
  <2>8. CASE pending[g] = 0 /\ bpc' = [bpc EXCEPT ![g] = "stopping"] /\ entry' = 0
    <3>1. joins[g] = <<>>
      <4>1. joins[g] \in Seq(Clients) /\ Len(joins[g]) = 0
        BY <2>5, <2>8 DEF Types
      <4>2. QED
        BY <4>1, EmptyFacts
    <3>2. Leaving(g)' /\ joins'[g] = <<>> /\ sessions'[g] = {} /\ entry' # g
      BY <2>1, <2>5, <2>8, <3>1, GensFacts DEF Leaving, Types
    <3>3. CausesAt(g)'
      BY <3>2, LeavingCauses
    <3>4. QED
      BY <2>1, <2>4, <2>8, <3>3, OneCauses, GensFacts
  <2>9. QED
    BY <2>2, <2>6, <2>7, <2>8
<1>7. CASE HandleRetire
  <2>1. /\ UNCHANGED <<shuttingDown, bpc, joins, pending, sessions, answer, live>>
        /\ entry' \in {0, entry}
    BY <1>7, RetireCases DEF ReleaseEntry
  <2>2. QED
    BY <2>1, SameCauses, GensFacts
<1>8. CASE HandleShutDown
  <2>1. /\ UNCHANGED <<bpc, joins, pending, sessions, answer, live>>
        /\ entry' = 0 /\ shuttingDown'
    BY <1>8 DEF HandleShutDown, taskVars
  <2>2. QED
    BY <2>1, SameCauses, GensFacts
<1>9. ASSUME NEW v \in Venues, Delist(v)
       PROVE  Causes'
  BY <1>9, SameCauses, GensFacts DEF Delist, registryVars, taskVars
<1>10. ASSUME NEW v \in Venues, SuperviseSubscribe(v)
       PROVE  Causes'
  <2> DEFINE g == Head(cqueue[v])
  <2>1. /\ UNCHANGED <<bpc, joins, pending, sessions, live, entry, shuttingDown>>
        /\ cqueue[v] # <<>> /\ g # 0 /\ cqueue[v] \in Seq(Nat)
    BY <1>10 DEF SuperviseSubscribe, registryVars, Unsubscribe, Types
  <2>2. PICK a \in {"refused", "reader"} : answer' = [answer EXCEPT ![g][v] = a]
    BY <1>10 DEF SuperviseSubscribe
  <2>3. g \in Gens /\ answer[g][v] = "none"
    <3>1. g = cqueue[v][1] /\ 1 \in DOMAIN cqueue[v]
      BY <2>1, TailFacts
    <3>2. QED
      BY <2>1, <3>1 DEF AskedOnce, ToBeAnswered, Unsubscribe
  <2> HIDE DEF g
  <2>4. ASSUME NEW h \in Gens, Refused(h) PROVE Refused(h)'
    <3>1. PICK w \in Venues : answer[h][w] = "refused"
      BY <2>4 DEF Refused
    <3>2. answer'[h][w] = "refused"
      BY <2>2, <2>3, <3>1 DEF Types
    <3>3. QED
      BY <3>2 DEF Refused
  <2>5. ASSUME NEW h \in Gens PROVE CausesAt(h)'
    BY <2>1, <2>4, OthersCauses DEF Causes
  <2>6. QED
    BY <2>5 DEF Causes
<1>11. ASSUME NEW v \in Venues, SuperviseUnsubscribe(v)
       PROVE  Causes'
  BY <1>11, SameCauses, GensFacts DEF SuperviseUnsubscribe, registryVars, taskVars
<1>12. ASSUME NEW g \in Gens, OpenReaders(g)
       PROVE  Causes'
  <2>1. bpc[g] = "opening" /\ UNCHANGED <<joins, pending, sessions, answer, entry,
  shuttingDown>>
    BY <1>12 DEF OpenReaders, registryVars
  <2>2. CausesAt(g)
    BY DEF Causes
  <2>3. CASE bpc' = [bpc EXCEPT ![g] = "running"] /\ live' = [live EXCEPT ![g] = Venues]
    <3>1. \A h \in Gens \ {g} : /\ bpc'[h] = bpc[h] /\ joins'[h] = joins[h]
                                  /\ pending'[h] = pending[h] /\ sessions'[h] = sessions[h]
                                  /\ live'[h] = live[h]
      BY <2>1, <2>3 DEF Types
    <3>2. bpc'[g] = "running" /\ pending[g] = Len(joins[g])
      BY <2>1, <2>2, <2>3 DEF CausesAt, Counted, Active, Types
    <3>3. CausesAt(g)'
      BY <2>1, <3>2, ActiveCauses DEF Active
    <3>4. QED
      BY <2>1, <3>1, <3>3, OneCauses, GensFacts
  <2>4. CASE /\ \E v \in Venues : answer[g][v] = "refused"
             /\ bpc' = [bpc EXCEPT ![g] = "draining"] /\ UNCHANGED live
    <3>1. \A h \in Gens \ {g} : /\ bpc'[h] = bpc[h] /\ joins'[h] = joins[h]
                                  /\ pending'[h] = pending[h] /\ sessions'[h] = sessions[h]
                                  /\ live'[h] = live[h]
      BY <2>1, <2>4 DEF Types
    <3>2. Caused(g)' /\ Leaving(g)'
      BY <2>1, <2>4 DEF Caused, Refused, Leaving, Types
    <3>3. CausesAt(g)'
      BY <3>2, LeavingCauses
    <3>4. QED
      BY <2>1, <3>1, <3>3, OneCauses, GensFacts
  <2>5. QED
    BY <1>12, <2>3, <2>4 DEF OpenReaders
<1>13. ASSUME NEW g \in Gens, StayAlive(g)
       PROVE  Causes'
  <2>1. /\ bpc[g] = "kept"
        /\ bpc' = [bpc EXCEPT ![g] = "running"]
        /\ UNCHANGED <<joins, pending, sessions, live, answer, entry, shuttingDown>>
    BY <1>13 DEF StayAlive, registryVars
  <2>2. \A h \in Gens \ {g} : /\ bpc'[h] = bpc[h] /\ joins'[h] = joins[h]
                                  /\ pending'[h] = pending[h] /\ sessions'[h] = sessions[h]
                                  /\ live'[h] = live[h]
    BY <2>1 DEF Types
  <2>3. CausesAt(g)
    BY DEF Causes
  <2>4. bpc'[g] = "running" /\ pending[g] = Len(joins[g])
    BY <2>1, <2>3 DEF CausesAt, Counted, Active, Types
  <2>5. CausesAt(g)'
    BY <2>1, <2>4, ActiveCauses DEF Active
  <2>6. QED
    BY <2>1, <2>2, <2>5, OneCauses, GensFacts
<1>14. ASSUME NEW g \in Gens, WakeDeparted(g)
       PROVE  Causes'
  <2>1. /\ bpc[g] = "running" /\ live' = [live EXCEPT ![g] = @ \cap publishing[g]]
        /\ UNCHANGED <<joins, pending, sessions, answer, entry, shuttingDown>>
    BY <1>14 DEF WakeDeparted, registryVars
  <2>2. \A h \in Gens \ {g} : live'[h] = live[h]
    BY <2>1 DEF Types
  <2>3. CASE bpc' = [bpc EXCEPT ![g] = "stopping"] /\ live'[g] = {}
    <3>1. Caused(g)' /\ Leaving(g)'
      BY <2>3 DEF Caused, Leaving, Types
    <3>2. CausesAt(g)'
      BY <3>1, LeavingCauses
    <3>3. \A h \in Gens \ {g} : bpc'[h] = bpc[h]
      BY <2>3 DEF Types
    <3>4. QED
      BY <2>1, <2>2, <3>2, <3>3, OneCauses, GensFacts
  <2>4. CASE EndOfWake(g)
    <3>1. CausesAt(g)
      BY DEF Causes
    <3>2. pending'[g] = Len(joins'[g])
      BY <2>1, <3>1 DEF CausesAt, Counted, Active
    <3>3. CausesAt(g)' /\ \A h \in Gens \ {g} : bpc'[h] = bpc[h]
      BY <2>1, <2>4, <3>2, WakeCauses
    <3>4. QED
      BY <2>1, <2>2, <3>3, OneCauses, GensFacts
  <2>5. QED
    BY <1>14, <2>3, <2>4 DEF WakeDeparted
<1>15. ASSUME NEW g \in Gens, WakeJoinNone(g)
       PROVE  Causes'
  <2>1. /\ bpc[g] = "running" /\ entry # g
        /\ bpc' = [bpc EXCEPT ![g] = "stopping"]
        /\ UNCHANGED <<joins, pending, sessions, live, answer, entry, shuttingDown>>
    BY <1>15 DEF WakeJoinNone, ReadersQuiet, registryVars
  <2>2. \A h \in Gens \ {g} : /\ bpc'[h] = bpc[h] /\ joins'[h] = joins[h]
                                  /\ pending'[h] = pending[h] /\ sessions'[h] = sessions[h]
                                  /\ live'[h] = live[h]
    BY <2>1 DEF Types
  <2>3. CausesAt(g)
    BY DEF Causes
  <2>4. Caused(g)' /\ Leaving(g)'
    <3>1. Caused(g)
      BY <2>1, UnfiledCauses DEF Active
    <3>2. QED
      BY <2>1, <3>1 DEF Caused, Refused, Leaving, Types
  <2>5. CausesAt(g)'
    BY <2>4, LeavingCauses
  <2>6. QED
    BY <2>1, <2>2, <2>5, OneCauses, GensFacts
<1>16. ASSUME NEW g \in Gens, StopBroadcasting(g)
       PROVE  Causes'
  <2>1. /\ bpc[g] = "stopping"
        /\ bpc' = [bpc EXCEPT ![g] = "closing"]
        /\ UNCHANGED <<joins, pending, sessions, live, answer, entry, shuttingDown>>
    BY <1>16 DEF StopBroadcasting, registryVars
  <2>2. \A h \in Gens \ {g} : /\ bpc'[h] = bpc[h] /\ joins'[h] = joins[h]
                                  /\ pending'[h] = pending[h] /\ sessions'[h] = sessions[h]
                                  /\ live'[h] = live[h]
    BY <2>1 DEF Types
  <2>3. CausesAt(g)
    BY DEF Causes
  <2>4. joins[g] # <<>> \/ sessions[g] # {} \/ entry = g => Caused(g)
    BY <2>1, <2>3 DEF CausesAt, LeavesForCause, Leaving
  <2>5. Leaving(g)' /\ (Caused(g) => Caused(g)')
    BY <2>1 DEF Caused, Refused, Leaving, Types
  <2>6. CausesAt(g)'
    BY <2>1, <2>4, <2>5, LeavingCauses
  <2>7. QED
    BY <2>1, <2>2, <2>6, OneCauses, GensFacts
<1>17. ASSUME NEW g \in Gens, CloseSessions(g)
       PROVE  Causes'
  <2>1. /\ bpc[g] = "closing"
        /\ bpc' = [bpc EXCEPT ![g] = "draining"] /\ sessions' = [sessions EXCEPT ![g] = {}]
        /\ UNCHANGED <<joins, pending, live, answer, entry, shuttingDown>>
    BY <1>17 DEF CloseSessions, registryVars
  <2>2. \A h \in Gens \ {g} : /\ bpc'[h] = bpc[h] /\ joins'[h] = joins[h]
                                  /\ pending'[h] = pending[h] /\ sessions'[h] = sessions[h]
                                  /\ live'[h] = live[h]
    BY <2>1 DEF Types
  <2>3. CausesAt(g)
    BY DEF Causes
  <2>4. joins[g] # <<>> \/ sessions[g] # {} \/ entry = g => Caused(g)
    BY <2>1, <2>3 DEF CausesAt, LeavesForCause, Leaving
  <2>5. Leaving(g)' /\ (Caused(g) => Caused(g)')
    BY <2>1 DEF Caused, Refused, Leaving, Types
  <2>6. CausesAt(g)'
    <3>1. sessions'[g] = {}
      BY <2>1 DEF Types
    <3>2. QED
      BY <2>1, <2>4, <2>5, <3>1, LeavingCauses
  <2>7. QED
    BY <2>1, <2>2, <2>6, OneCauses, GensFacts
<1>18. ASSUME NEW g \in Gens, DrainJoin(g)
       PROVE  Causes'
  <2>1. /\ bpc[g] = "draining" /\ joins[g] # <<>>
        /\ joins' = [joins EXCEPT ![g] = Tail(@)]
        /\ UNCHANGED <<bpc, pending, sessions, live, answer, entry, shuttingDown>>
    BY <1>18 DEF DrainJoin, registryVars
  <2>2. \A h \in Gens \ {g} : /\ bpc'[h] = bpc[h] /\ joins'[h] = joins[h]
                                  /\ pending'[h] = pending[h] /\ sessions'[h] = sessions[h]
                                  /\ live'[h] = live[h]
    BY <2>1 DEF Types
  <2>3. CausesAt(g)
    BY DEF Causes
  <2>4. joins[g] # <<>> \/ sessions[g] # {} \/ entry = g => Caused(g)
    BY <2>1, <2>3 DEF CausesAt, LeavesForCause, Leaving
  <2>5. Leaving(g)' /\ (Caused(g) => Caused(g)')
    BY <2>1 DEF Caused, Refused, Leaving, Types
  <2>6. CausesAt(g)'
    BY <2>1, <2>4, <2>5, LeavingCauses
  <2>7. QED
    BY <2>1, <2>2, <2>6, OneCauses, GensFacts
<1>19. ASSUME NEW g \in Gens, BroadcasterEnds(g)
       PROVE  Causes'
  <2>1. /\ bpc[g] = "draining"
        /\ bpc' = [bpc EXCEPT ![g] = "done"]
        /\ UNCHANGED <<joins, pending, sessions, live, answer, entry, shuttingDown>>
    BY <1>19 DEF BroadcasterEnds, registryVars
  <2>2. \A h \in Gens \ {g} : /\ bpc'[h] = bpc[h] /\ joins'[h] = joins[h]
                                  /\ pending'[h] = pending[h] /\ sessions'[h] = sessions[h]
                                  /\ live'[h] = live[h]
    BY <2>1 DEF Types
  <2>3. CausesAt(g)
    BY DEF Causes
  <2>4. bpc'[g] = "done"
    BY <2>1 DEF Types
  <2>5. CausesAt(g)'
    BY <2>4 DEF CausesAt, Counted, AsksAlone, LeavesForCause, Active, Leaving
  <2>6. QED
    BY <2>1, <2>2, <2>5, OneCauses, GensFacts
<1>20. ASSUME NEW g \in Gens, WakeBook(g)
       PROVE  Causes'
  <2>1. /\ bpc[g] = "running" /\ EndOfWake(g)
        /\ UNCHANGED <<joins, pending, answer, entry, shuttingDown>>
    BY <1>20 DEF WakeBook, ReadersQuiet, registryVars
  <2>2. \A h \in Gens \ {g} : /\ joins'[h] = joins[h] /\ pending'[h] = pending[h]
                               /\ sessions'[h] = sessions[h] /\ live'[h] = live[h]
    BY <1>20 DEF WakeBook, Types
  <2>3. pending'[g] = Len(joins'[g])
    <3>1. CausesAt(g)
      BY DEF Causes
    <3>2. pending[g] = Len(joins[g])
      BY <2>1, <3>1 DEF CausesAt, Counted, Active
    <3>3. QED
      BY <2>1, <3>2
  <2>4. CausesAt(g)' /\ \A h \in Gens \ {g} : bpc'[h] = bpc[h]
    BY <2>1, <2>3, WakeCauses
  <2>5. QED
    BY <2>1, <2>2, <2>4, OneCauses, GensFacts
<1>21. ASSUME NEW g \in Gens, WakeJoin(g)
       PROVE  Causes'
  <2>1. /\ bpc[g] = "running" /\ EndOfWake(g)
        /\ UNCHANGED <<live, answer, entry, shuttingDown>>
    BY <1>21 DEF WakeJoin, ReadersQuiet, registryVars
  <2>2. \A h \in Gens \ {g} : /\ joins'[h] = joins[h] /\ pending'[h] = pending[h]
                               /\ sessions'[h] = sessions[h] /\ live'[h] = live[h]
    BY <1>21 DEF WakeJoin, Types
  <2>3. pending'[g] = Len(joins'[g])
    <3>1. CausesAt(g)
      BY DEF Causes
    <3>2. pending[g] = Len(joins[g])
      BY <2>1, <3>1 DEF CausesAt, Counted, Active
    <3>3. QED
      <4>1. joins[g] # <<>> /\ joins[g] \in Seq(Clients)
        BY <1>21 DEF WakeJoin, Types
      <4>2. Len(Tail(joins[g])) = Len(joins[g]) - 1
        BY <4>1, TailFacts
      <4>3. joins'[g] = Tail(joins[g]) /\ pending'[g] = pending[g] - 1
        BY <1>21 DEF WakeJoin, Types
      <4>4. QED
        BY <3>2, <4>2, <4>3
  <2>4. CausesAt(g)' /\ \A h \in Gens \ {g} : bpc'[h] = bpc[h]
    BY <2>1, <2>3, WakeCauses
  <2>5. QED
    BY <2>1, <2>2, <2>4, OneCauses, GensFacts
<1>22. ASSUME NEW g \in Gens, WakeEnded(g)
       PROVE  Causes'
  <2>1. /\ bpc[g] = "running" /\ EndOfWake(g)
        /\ UNCHANGED <<joins, pending, live, answer, entry, shuttingDown>>
    BY <1>22 DEF WakeEnded, ReadersQuiet, registryVars
  <2>2. \A h \in Gens \ {g} : /\ joins'[h] = joins[h] /\ pending'[h] = pending[h]
                               /\ sessions'[h] = sessions[h] /\ live'[h] = live[h]
    BY <1>22 DEF WakeEnded, Types
  <2>3. pending'[g] = Len(joins'[g])
    <3>1. CausesAt(g)
      BY DEF Causes
    <3>2. pending[g] = Len(joins[g])
      BY <2>1, <3>1 DEF CausesAt, Counted, Active
    <3>3. QED
      BY <2>1, <3>2
  <2>4. CausesAt(g)' /\ \A h \in Gens \ {g} : bpc'[h] = bpc[h]
    BY <2>1, <2>3, WakeCauses
  <2>5. QED
    BY <2>1, <2>2, <2>4, OneCauses, GensFacts
<1>23. QED
  BY <1>1, <1>2, <1>3, <1>4, <1>5, <1>6, <1>7, <1>8, <1>9, <1>10, <1>11, <1>12, <1>13,
     <1>14, <1>15, <1>16, <1>17, <1>18, <1>19, <1>20, <1>21, <1>22,
     NextCases DEF HandleEvent, Supervise, Advance

-----------------------------------------------------------------------------
(* Ownership *)

(* Nothing is asked or released; what was carried may be let go of.        *)
LEMMA SameOwned ==
  ASSUME Owned, UNCHANGED cqueue, \A v \in Venues : bound'[v] \in {0, bound[v]},
         UNCHANGED <<entry, shuttingDown>> \/ shuttingDown'
  PROVE  Owned'
<1>1. ASSUME NEW v \in Venues PROVE OwnedAt(v)'
  <2>1. AsksOwned(v) /\ BoundOwned(v) /\ BoundReleased(v) /\ AsksReleased(v)
    BY DEF Owned, OwnedAt
  <2>2. AsksOwned(v)'
    BY <2>1 DEF AsksOwned, Unsubscribe
  <2>3. BoundOwned(v)'
    BY <2>1 DEF BoundOwned, Unsubscribe
  <2>4. BoundReleased(v)'
    BY <2>1 DEF BoundReleased, Unsubscribe
  <2>5. AsksReleased(v)'
    BY <2>1 DEF AsksReleased, Unsubscribe
  <2>6. QED
    BY <2>2, <2>3, <2>4, <2>5 DEF OwnedAt
<1>2. QED
  BY <1>1 DEF Owned

(* The entry's release puts an end to everything before it.                *)
LEMMA ReleasedOwned ==
  ASSUME Types, Owned, ReleaseEntry, UNCHANGED <<bound, shuttingDown>>
  PROVE  Owned'
<1>1. ASSUME NEW v \in Venues PROVE OwnedAt(v)'
  <2> DEFINE n == Len(cqueue[v])
  <2>1. /\ n \in Nat
        /\ DOMAIN cqueue[v] = 1 .. n /\ DOMAIN cqueue'[v] = 1 .. n + 1
        /\ \A i \in DOMAIN cqueue[v] : cqueue'[v][i] = cqueue[v][i]
        /\ cqueue'[v][n + 1] = 0
    BY ReleaseFacts
  <2> HIDE DEF n
  <2>2. AsksOwned(v) /\ BoundOwned(v) /\ BoundReleased(v) /\ AsksReleased(v)
    BY DEF Owned, OwnedAt
  <2>3. n + 1 \in DOMAIN cqueue'[v]
    BY <2>1
  <2>4. \A i \in DOMAIN cqueue'[v] : cqueue'[v][i] # 0 => i \in DOMAIN cqueue[v]
          /\ i < n + 1
    BY <2>1
  <2>5. AsksOwned(v)'
    BY <2>1, <2>3, <2>4 DEF AsksOwned, Unsubscribe
  <2>6. BoundOwned(v)'
    BY <2>1, <2>3 DEF BoundOwned, Unsubscribe
  <2>7. BoundReleased(v)'
    BY <2>1, <2>2, <2>4 DEF BoundReleased, Unsubscribe
  <2>8. AsksReleased(v)'
    <3>1. ASSUME NEW i \in DOMAIN cqueue'[v], NEW j \in DOMAIN cqueue'[v],
                 i < j, cqueue'[v][i] # 0, cqueue'[v][j] # 0
          PROVE  \E k \in DOMAIN cqueue'[v] : i < k /\ k < j /\ cqueue'[v][k] = 0
      <4>1. i \in DOMAIN cqueue[v] /\ j \in DOMAIN cqueue[v] /\ cqueue[v][i] # 0
              /\ cqueue[v][j] # 0
        BY <2>1, <2>4, <3>1
      <4>2. PICK k \in DOMAIN cqueue[v] : i < k /\ k < j /\ cqueue[v][k] = 0
        BY <2>2, <3>1, <4>1 DEF AsksReleased, Unsubscribe
      <4>3. QED
        BY <2>1, <4>2
    <3>2. QED
      BY <3>1 DEF AsksReleased, Unsubscribe
  <2>9. QED
    BY <2>5, <2>6, <2>7, <2>8 DEF OwnedAt
<1>2. QED
  BY <1>1 DEF Owned

(* A new subscribe is the filed broadcaster's; what is before it has been  *)
(* released, for nothing was filed.                                        *)
LEMMA StartedOwned ==
  ASSUME Types, Owned, NEW c \in Clients, StartBroadcaster(c), entry = 0, ~shuttingDown,
         UNCHANGED <<bound, shuttingDown>>
  PROVE  Owned'
<1>1. ASSUME NEW v \in Venues PROVE OwnedAt(v)'
  <2> DEFINE n == Len(cqueue[v])
  <2>1. /\ n \in Nat /\ entry' = gens + 1
        /\ DOMAIN cqueue[v] = 1 .. n /\ DOMAIN cqueue'[v] = 1 .. n + 1
        /\ \A i \in DOMAIN cqueue[v] : cqueue'[v][i] = cqueue[v][i]
        /\ cqueue'[v][n + 1] = gens + 1
    BY StartFacts
  <2> HIDE DEF n
  <2>2. AsksOwned(v) /\ BoundOwned(v) /\ BoundReleased(v) /\ AsksReleased(v)
    BY DEF Owned, OwnedAt
  <2>3. \A i \in DOMAIN cqueue[v] : cqueue[v][i] # 0 =>
          \E k \in DOMAIN cqueue[v] : k > i /\ cqueue[v][k] = 0
    BY <2>2 DEF AsksOwned, Unsubscribe
  <2>4. bound[v] # 0 => \E k \in DOMAIN cqueue[v] : cqueue[v][k] = 0
    BY <2>2 DEF BoundOwned, Unsubscribe
  <2>5. \A i \in DOMAIN cqueue'[v] : i \in DOMAIN cqueue[v] \/ i = n + 1
    BY <2>1
  <2>6. \A k \in DOMAIN cqueue[v] : k \in DOMAIN cqueue'[v] /\ k < n + 1
    BY <2>1
  <2>7. AsksOwned(v)'
    BY <2>1, <2>3, <2>5, <2>6 DEF AsksOwned, Unsubscribe
  <2>8. BoundOwned(v)'
    BY <2>1, <2>4, <2>6 DEF BoundOwned, Unsubscribe
  <2>9. BoundReleased(v)'
    <3>1. ASSUME bound[v] # 0, NEW j \in DOMAIN cqueue'[v], cqueue'[v][j] # 0
          PROVE  \E k \in DOMAIN cqueue'[v] : k < j /\ cqueue'[v][k] = 0
      <4>1. CASE j \in DOMAIN cqueue[v]
        <5>1. PICK k \in DOMAIN cqueue[v] : k < j /\ cqueue[v][k] = 0
          BY <2>1, <2>2, <3>1, <4>1 DEF BoundReleased, Unsubscribe
        <5>2. QED
          BY <2>1, <2>6, <5>1
      <4>2. CASE j = n + 1
        BY <2>1, <2>4, <2>6, <3>1, <4>2
      <4>3. QED
        BY <2>5, <4>1, <4>2
    <3>2. QED
      BY <3>1 DEF BoundReleased, Unsubscribe
  <2>10. AsksReleased(v)'
    <3>1. ASSUME NEW i \in DOMAIN cqueue'[v], NEW j \in DOMAIN cqueue'[v],
                 i < j, cqueue'[v][i] # 0, cqueue'[v][j] # 0
          PROVE  \E k \in DOMAIN cqueue'[v] : i < k /\ k < j /\ cqueue'[v][k] = 0
      <4>1. i \in DOMAIN cqueue[v] /\ cqueue[v][i] # 0
        BY <2>1, <3>1
      <4>2. CASE j \in DOMAIN cqueue[v]
        <5>1. PICK k \in DOMAIN cqueue[v] : i < k /\ k < j /\ cqueue[v][k] = 0
          BY <2>1, <2>2, <3>1, <4>1, <4>2 DEF AsksReleased, Unsubscribe
        <5>2. QED
          BY <2>1, <2>6, <5>1
      <4>3. CASE j = n + 1
        <5>1. PICK k \in DOMAIN cqueue[v] : k > i /\ cqueue[v][k] = 0
          BY <2>3, <4>1
        <5>2. QED
          BY <2>1, <2>6, <4>3, <5>1
      <4>4. QED
        BY <2>5, <4>2, <4>3
    <3>2. QED
      BY <3>1 DEF AsksReleased, Unsubscribe
  <2>11. QED
    BY <2>7, <2>8, <2>9, <2>10 DEF OwnedAt
<1>2. QED
  BY <1>1 DEF Owned

(* A supervisor answers in order: what it comes to carry was asked for,    *)
(* and it carried nothing when it was asked.                               *)
LEMMA SupervisedOwned ==
  ASSUME Types, Owned, UNCHANGED <<entry, shuttingDown>>, NEW v \in Venues,
                cqueue[v] # <<>>,
         cqueue' = [cqueue EXCEPT ![v] = Tail(@)],
         \A w \in Venues \ {v} : bound'[w] = bound[w],
         bound'[v] \in {0, Head(cqueue[v])} \/ (bound'[v] = bound[v] /\ Head(cqueue[v]) # 0)
  PROVE  Owned'
<1>1. /\ Head(cqueue[v]) = cqueue[v][1] /\ 1 \in DOMAIN cqueue[v]
      /\ Len(cqueue[v]) \in Nat /\ DOMAIN cqueue[v] = 1 .. Len(cqueue[v])
      /\ DOMAIN cqueue'[v] = 1 .. Len(cqueue[v]) - 1
      /\ \A i \in DOMAIN cqueue'[v] : cqueue'[v][i] = cqueue[v][i + 1]
           /\ i + 1 \in DOMAIN cqueue[v]
      /\ \A w \in Venues \ {v} : cqueue'[w] = cqueue[w]
  BY SupervisedFacts
<1>2. AsksOwned(v) /\ BoundOwned(v) /\ BoundReleased(v) /\ AsksReleased(v)
  BY DEF Owned, OwnedAt
<1>3. ASSUME NEW k \in DOMAIN cqueue[v], k > 1
      PROVE  k - 1 \in DOMAIN cqueue'[v] /\ cqueue'[v][k - 1] = cqueue[v][k]
  <2>1. k - 1 \in DOMAIN cqueue'[v] /\ (k - 1) + 1 = k
    BY <1>1, <1>3
  <2>2. QED
    BY <1>1, <2>1
<1>4. bound'[v] # 0 => bound'[v] = cqueue[v][1]
  <2>1. CASE bound[v] # 0 /\ Head(cqueue[v]) # 0
    <3>1. PICK k \in DOMAIN cqueue[v] : k < 1
      BY <1>1, <1>2, <2>1 DEF BoundReleased, Unsubscribe
    <3>2. QED
      BY <1>1, <3>1
  <2>2. QED
    BY <1>1, <2>1
<1>5. AsksOwned(v)'
  <2>1. ASSUME NEW i \in DOMAIN cqueue'[v], cqueue'[v][i] # 0, ~shuttingDown,
  cqueue'[v][i] # entry
        PROVE  \E k \in DOMAIN cqueue'[v] : k > i /\ cqueue'[v][k] = 0
    <3>1. i + 1 \in DOMAIN cqueue[v] /\ cqueue[v][i + 1] # 0 /\ cqueue[v][i + 1] # entry
            /\ i \in Nat /\ i > 0
      BY <1>1, <2>1
    <3>2. PICK k \in DOMAIN cqueue[v] : k > i + 1 /\ cqueue[v][k] = 0
      BY <1>2, <2>1, <3>1 DEF AsksOwned, Unsubscribe
    <3>3. k \in Nat /\ k > 1 /\ k - 1 > i
      BY <1>1, <3>1, <3>2
    <3>4. QED
      BY <1>3, <3>2, <3>3
  <2>2. QED
    BY <2>1 DEF AsksOwned, Unsubscribe
<1>6. BoundOwned(v)'
  <2>1. ASSUME bound'[v] # 0, ~shuttingDown, bound'[v] # entry
        PROVE  \E k \in DOMAIN cqueue'[v] : cqueue'[v][k] = 0
    <3>1. PICK k \in DOMAIN cqueue[v] : k > 1 /\ cqueue[v][k] = 0
      BY <1>1, <1>2, <1>4, <2>1 DEF AsksOwned, Unsubscribe
    <3>2. QED
      BY <1>3, <3>1
  <2>2. QED
    BY <2>1 DEF BoundOwned, Unsubscribe
<1>7. BoundReleased(v)'
  <2>1. ASSUME bound'[v] # 0, NEW j \in DOMAIN cqueue'[v], cqueue'[v][j] # 0
        PROVE  \E k \in DOMAIN cqueue'[v] : k < j /\ cqueue'[v][k] = 0
    <3>1. j + 1 \in DOMAIN cqueue[v] /\ cqueue[v][j + 1] # 0 /\ 1 < j + 1 /\ j \in Nat
      BY <1>1, <2>1
    <3>2. PICK k \in DOMAIN cqueue[v] : 1 < k /\ k < j + 1 /\ cqueue[v][k] = 0
      BY <1>1, <1>2, <1>4, <2>1, <3>1 DEF AsksReleased, Unsubscribe
    <3>3. k \in Nat /\ k > 1 /\ k - 1 < j
      BY <1>1, <3>1, <3>2
    <3>4. QED
      BY <1>3, <3>2, <3>3
  <2>2. QED
    BY <2>1 DEF BoundReleased, Unsubscribe
<1>8. AsksReleased(v)'
  <2>1. ASSUME NEW i \in DOMAIN cqueue'[v], NEW j \in DOMAIN cqueue'[v],
               i < j, cqueue'[v][i] # 0, cqueue'[v][j] # 0
        PROVE  \E k \in DOMAIN cqueue'[v] : i < k /\ k < j /\ cqueue'[v][k] = 0
    <3>1. /\ i + 1 \in DOMAIN cqueue[v] /\ cqueue[v][i + 1] # 0
          /\ j + 1 \in DOMAIN cqueue[v] /\ cqueue[v][j + 1] # 0
          /\ i + 1 < j + 1 /\ i \in Nat /\ j \in Nat /\ i > 0
      BY <1>1, <2>1
    <3>2. PICK k \in DOMAIN cqueue[v] : i + 1 < k /\ k < j + 1 /\ cqueue[v][k] = 0
      BY <1>2, <3>1 DEF AsksReleased, Unsubscribe
    <3>3. k \in Nat /\ k > 1 /\ i < k - 1 /\ k - 1 < j
      BY <1>1, <3>1, <3>2
    <3>4. QED
      BY <1>3, <3>2, <3>3
  <2>2. QED
    BY <2>1 DEF AsksReleased, Unsubscribe
<1>9. ASSUME NEW w \in Venues \ {v} PROVE OwnedAt(w)'
  <2>1. AsksOwned(w) /\ BoundOwned(w) /\ BoundReleased(w) /\ AsksReleased(w)
    BY DEF Owned, OwnedAt
  <2>2. cqueue'[w] = cqueue[w] /\ bound'[w] = bound[w]
    BY <1>1
  <2>3. QED
    BY <2>1, <2>2 DEF OwnedAt, AsksOwned, BoundOwned, BoundReleased, AsksReleased,
       Unsubscribe
<1>10. OwnedAt(v)'
  BY <1>5, <1>6, <1>7, <1>8 DEF OwnedAt
<1>11. QED
  BY <1>9, <1>10 DEF Owned

(* Every step keeps every subscription owned.                              *)
LEMMA OwnedStep ==
  Types /\ Filed /\ Owned /\ [Next]_vars => Owned'
<1> SUFFICES ASSUME Types, Filed, Owned, [Next]_vars
             PROVE  Owned'
  OBVIOUS
<1>1. CASE UNCHANGED moving
  BY <1>1, SameOwned DEF moving
<1>2. ASSUME NEW c \in Clients, NEW current \in BOOLEAN, Ask(c, current)
       PROVE  Owned'
  BY <1>2, SameOwned DEF Ask, registryVars, venueVars
<1>3. CASE SendShutDown
  BY <1>3, SameOwned DEF SendShutDown, registryVars, venueVars
<1>4. CASE ConnectorsStop
  <2>1. \A v \in Venues : cqueue'[v] = <<>> /\ bound'[v] = 0
    BY <1>4 DEF ConnectorsStop
  <2>2. QED
    BY <2>1 DEF Owned, OwnedAt, AsksOwned, BoundOwned, BoundReleased, AsksReleased
<1>5. CASE HandleSubscribe
  <2>1. UNCHANGED <<bound, shuttingDown>>
    BY <1>5, SubscribeCases
  <2>2. CASE UNCHANGED <<entry, cqueue>>
    BY <2>1, <2>2, SameOwned
  <2>3. CASE ~shuttingDown /\ entry = 0 /\ \E c \in Clients : StartBroadcaster(c)
    BY <2>1, <2>3, StartedOwned
  <2>4. QED
    BY <1>5, <2>2, <2>3, SubscribeCases DEF JoinRunning
<1>6. CASE HandleRetireIfIdle
  <2>1. UNCHANGED <<bound, shuttingDown>>
    BY <1>6, RetireIfIdleCases
  <2>2. CASE UNCHANGED <<entry, cqueue>>
    BY <2>1, <2>2, SameOwned
  <2>3. CASE ReleaseEntry
    BY <2>1, <2>3, ReleasedOwned
  <2>4. QED
    BY <1>6, <2>2, <2>3, RetireIfIdleCases
<1>7. CASE HandleRetire
  <2>1. UNCHANGED <<bound, shuttingDown>>
    BY <1>7, RetireCases
  <2>2. CASE UNCHANGED <<entry, cqueue>>
    BY <2>1, <2>2, SameOwned
  <2>3. CASE ReleaseEntry
    BY <2>1, <2>3, ReleasedOwned
  <2>4. QED
    BY <1>7, <2>2, <2>3, RetireCases
<1>8. CASE HandleShutDown
  BY <1>8, SameOwned DEF HandleShutDown, registryVars, venueVars
<1>9. ASSUME NEW v \in Venues, Delist(v)
       PROVE  Owned'
  <2>1. UNCHANGED <<entry, shuttingDown, cqueue>> /\ bound' = [bound EXCEPT ![v] = 0]
    BY <1>9 DEF Delist, registryVars, Unbind
  <2>2. \A w \in Venues : bound'[w] \in {0, bound[w]}
    BY <2>1 DEF Types
  <2>3. QED
    BY <2>1, <2>2, SameOwned
<1>10. ASSUME NEW v \in Venues, SuperviseSubscribe(v)
       PROVE  Owned'
  <2>1. /\ cqueue[v] # <<>> /\ cqueue' = [cqueue EXCEPT ![v] = Tail(@)]
        /\ UNCHANGED <<entry, shuttingDown>> /\ Head(cqueue[v]) # 0
    BY <1>10 DEF SuperviseSubscribe, registryVars, Unsubscribe
  <2>2. UNCHANGED bound \/ bound' = [bound EXCEPT ![v] = Head(cqueue[v])]
    BY <1>10 DEF SuperviseSubscribe
  <2>3. /\ \A w \in Venues \ {v} : bound'[w] = bound[w]
        /\ bound'[v] \in {bound[v], Head(cqueue[v])}
    BY <2>2 DEF Types
  <2>4. QED
    BY <2>1, <2>3, SupervisedOwned
<1>11. ASSUME NEW v \in Venues, SuperviseUnsubscribe(v)
       PROVE  Owned'
  <2>1. /\ cqueue[v] # <<>> /\ cqueue' = [cqueue EXCEPT ![v] = Tail(@)]
        /\ UNCHANGED <<entry, shuttingDown>> /\ bound' = [bound EXCEPT ![v] = 0]
    BY <1>11 DEF SuperviseUnsubscribe, registryVars, Unbind
  <2>2. bound'[v] = 0 /\ \A w \in Venues \ {v} : bound'[w] = bound[w]
    BY <2>1 DEF Types
  <2>3. QED
    BY <2>1, <2>2, SupervisedOwned
<1>12. ASSUME NEW g \in Gens, OpenReaders(g)
       PROVE  Owned'
  BY <1>12, SameOwned DEF OpenReaders, registryVars, venueVars
<1>13. ASSUME NEW g \in Gens, StayAlive(g)
       PROVE  Owned'
  BY <1>13, SameOwned DEF StayAlive, registryVars, venueVars
<1>14. ASSUME NEW g \in Gens, WakeDeparted(g)
       PROVE  Owned'
  BY <1>14, SameOwned DEF WakeDeparted, registryVars, venueVars
<1>15. ASSUME NEW g \in Gens, WakeJoinNone(g)
       PROVE  Owned'
  BY <1>15, SameOwned DEF WakeJoinNone, registryVars, venueVars
<1>16. ASSUME NEW g \in Gens, StopBroadcasting(g)
       PROVE  Owned'
  BY <1>16, SameOwned DEF StopBroadcasting, registryVars, venueVars
<1>17. ASSUME NEW g \in Gens, CloseSessions(g)
       PROVE  Owned'
  BY <1>17, SameOwned DEF CloseSessions, registryVars, venueVars
<1>18. ASSUME NEW g \in Gens, DrainJoin(g)
       PROVE  Owned'
  BY <1>18, SameOwned DEF DrainJoin, registryVars, venueVars
<1>19. ASSUME NEW g \in Gens, BroadcasterEnds(g)
       PROVE  Owned'
  BY <1>19, SameOwned DEF BroadcasterEnds, registryVars, venueVars
<1>20. ASSUME NEW g \in Gens, WakeBook(g)
       PROVE  Owned'
  BY <1>20, SameOwned DEF WakeBook, registryVars, venueVars
<1>21. ASSUME NEW g \in Gens, WakeJoin(g)
       PROVE  Owned'
  BY <1>21, SameOwned DEF WakeJoin, registryVars, venueVars
<1>22. ASSUME NEW g \in Gens, WakeEnded(g)
       PROVE  Owned'
  BY <1>22, SameOwned DEF WakeEnded, registryVars, venueVars
<1>23. QED
  BY <1>1, <1>2, <1>3, <1>4, <1>5, <1>6, <1>7, <1>8, <1>9, <1>10, <1>11, <1>12, <1>13,
     <1>14, <1>15, <1>16, <1>17, <1>18, <1>19, <1>20, <1>21, <1>22,
     NextCases DEF HandleEvent, Supervise, Advance

-----------------------------------------------------------------------------
(* The theorems *)

(* The invariant holds at the start ...                                    *)
LEMMA RegistryInit == Init => RegistryInv
<1> SUFFICES ASSUME Init PROVE RegistryInv
  OBVIOUS
<1>1. Types
  <2>1. queue \in Seq(Events) /\ joins \in [Gens -> Seq(Clients)]
          /\ cqueue \in [Venues -> Seq(Nat)]
    BY DEF Init
  <2>2. bpc \in [Gens -> BroadcasterSteps] /\ bound \in [Venues -> Nat]
    BY DEF Init, BroadcasterSteps
  <2>3. /\ pending \in [Gens -> Int]
        /\ sessions \in [Gens -> SUBSET Clients] /\ live \in [Gens -> SUBSET Venues]
    BY DEF Init
  <2>4. answer \in [Gens -> [Venues -> {"none", "refused", "reader"}]]
    BY DEF Init
  <2>5. QED
    BY <2>1, <2>2, <2>3, <2>4 DEF Init, Types
<1>2. Filed
  BY GensFacts DEF Init, Filed, Active
<1>3. Queued
  BY DEF Init, Queued, AskersWait, OneQuestion, RetirersLeft
<1>4. AskedOnce
  BY DEF Init, AskedOnce, ToBeAnswered, AskedForOnce, NotAskedYet
<1>5. Causes
  BY DEF Init, Causes, CausesAt, Counted, AsksAlone, LeavesForCause, Active, Leaving
<1>6. Owned
  BY DEF Init, Owned, OwnedAt, AsksOwned, BoundOwned, BoundReleased, AsksReleased
<1>7. QED
  BY <1>1, <1>2, <1>3, <1>4, <1>5, <1>6 DEF RegistryInv

(* ... and always: no step leaves it.                                      *)
LEMMA RegistryInvariant == Spec => []RegistryInv
<1>1. RegistryInv /\ [Next]_vars => RegistryInv'
  BY TypesStep, FiledStep, QueuedStep, AskedStep, CausesStep, OwnedStep DEF RegistryInv
<1>2. QED
  BY RegistryInit, <1>1, PTL DEF Spec

(* One broadcaster serves the instrument at a time: until the server shuts *)
(* down, whoever opens or broadcasts is the one the registry has filed,    *)
(* whatever the order of subscribes, verdicts and retirements on its queue *)
(* (registry/mod.rs).                                                      *)
THEOREM OneIsFiled == Spec => []OneBroadcaster
<1>1. RegistryInv => OneBroadcaster
  BY DEF RegistryInv, Filed, Active, OneBroadcaster
<1>2. QED
  BY RegistryInvariant, <1>1, PTL

(* No broadcaster leaves a client that attached or is on its way without a *)
(* cause: the registry counts a join before it sends it (join_running), so *)
(* the verdict retire_if_idle gives is never wrong.                        *)
THEOREM NobodyIsLeftBehind == Spec => []StoppedForCause
<1>1. RegistryInv => StoppedForCause
  <2> SUFFICES ASSUME RegistryInv, NEW g \in Gens,
                      bpc[g] \in {"stopping", "closing", "draining"},
                      joins[g] # <<>> \/ sessions[g] # {}
               PROVE  shuttingDown \/ live[g] = {} \/ Refused(g)
    BY DEF StoppedForCause
  <2>1. LeavesForCause(g)
    BY DEF RegistryInv, Causes, CausesAt
  <2>2. QED
    BY <2>1 DEF LeavesForCause, Leaving, Caused
<1>2. QED
  BY RegistryInvariant, <1>1, PTL

(* No supervisor is asked to subscribe what it carries, and what it        *)
(* carries has its broadcaster filed or its release on the way: the        *)
(* subscribes and releases of all generations are in order on the queues   *)
(* (subscribe_resolved, Entry::unsubscribe).                               *)
THEOREM EverySubscriptionIsOwned == Spec => []SubscriptionsAreOwned
<1>1. RegistryInv => SubscriptionsAreOwned
  <2> SUFFICES ASSUME RegistryInv, NEW v \in Venues
               PROVE  /\ cqueue[v] # <<>> /\ Head(cqueue[v]) # Unsubscribe => bound[v] = 0
                      /\ BoundOwned(v)
    BY DEF SubscriptionsAreOwned, BoundOwned
  <2>1. BoundOwned(v) /\ BoundReleased(v)
    BY DEF RegistryInv, Owned, OwnedAt
  <2>2. ASSUME cqueue[v] # <<>>, Head(cqueue[v]) # Unsubscribe, bound[v] # 0
        PROVE  FALSE
    <3>1. /\ DOMAIN cqueue[v] = 1 .. Len(cqueue[v]) /\ Len(cqueue[v]) \in Nat
          /\ Head(cqueue[v]) = cqueue[v][1] /\ 1 \in DOMAIN cqueue[v]
      <4>1. cqueue[v] \in Seq(Nat)
        BY DEF RegistryInv, Types
      <4>2. QED
        BY <2>2, <4>1, TailFacts
    <3>2. PICK k \in DOMAIN cqueue[v] : k < 1
      BY <2>1, <2>2, <3>1 DEF BoundReleased
    <3>3. QED
      BY <3>1, <3>2
  <2>3. QED
    BY <2>1, <2>2
<1>2. QED
  BY RegistryInvariant, <1>1, PTL
=============================================================================

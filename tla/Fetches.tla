------------------------------ MODULE Fetches ------------------------------
(***************************************************************************)
(* The snapshot fetches of all the symbols of a venue                      *)
(* (core_lib/src/venue/connection.rs, rest.rs): one task each, a few       *)
(* permits shared by all the connections, and one bounded channel per      *)
(* connection, which is not read while the connection is without a socket. *)
(* A slot remembers at most one fetch; the others were told to abort and   *)
(* may outrun it.  What a snapshot does to a book is module Connection's.  *)
(***************************************************************************)
EXTENDS Integers, Sequences, FiniteSets

CONSTANTS Routed,       \* symbols, each with a slot of its own
          Sockets,      \* connections
          PERMITS,      \* max_concurrent_snapshots
          SNAP_CHANNEL, \* capacity of the snapshot channel, 64
          REFETCHES,    \* SNAPSHOT_REFETCH_LIMIT
          MaxAttempts   \* bound: generations of a symbol

ASSUME FetchesAssumption ==
  /\ Routed # {} /\ Sockets # {} /\ MaxAttempts \in Nat /\ REFETCHES \in Nat
  /\ PERMITS \in Nat \ {0} /\ SNAP_CHANNEL \in Nat \ {0}

VARIABLES socketOf, \* the connection a symbol is on; fixed
          socket,   \* "up", "down" (backing off) or "gone"
          boots,    \* Bootstrap: the generation, is a handle kept, the refetches
          spawned,  \* fetch tasks that run, and what each is at
          line,     \* those that called acquire: who holds a permit, then who waits
          inbox     \* the snapshot channels

fetchesVars == <<socketOf, socket, boots, spawned, line, inbox>>

Attempt(g) == [gen |-> g, kept |-> FALSE, refetches |-> 0, phase |-> "buffering"]
Name(f) == [sym |-> f.sym, gen |-> f.gen]
On(c) == {s \in Routed : socketOf[s] = c}
Serves(s) == socket[socketOf[s]] = "up"

(* The semaphore is fair: who called acquire first has a permit first.     *)
Granted == {line[i] : i \in {i \in DOMAIN line : i <= PERMITS}}

(* A task calls acquire once.                                              *)
LeaveLine(n) ==
  IF \A i \in DOMAIN line : line[i] # n THEN line
  ELSE LET i == CHOOSE i \in DOMAIN line : line[i] = n
       IN  SubSeq(line, 1, i - 1) \o SubSeq(line, i + 1, Len(line))

(* spawn_snapshot: a task that has yet to run, or waits out a delay.       *)
Spawned(s, g) == spawned \cup {[sym |-> s, gen |-> g, at |-> "starting", told |-> FALSE]}

(* abort_fetch, for the slots of the symbols in S.                         *)
Told(S) == {IF f.sym \in S /\ f.gen = boots[f.sym].gen THEN [f EXCEPT !.told = TRUE] ELSE f : f \in spawned}

(* Slot::reset, of the symbols in S.                                       *)
ResetAll(S) ==
  /\ \A s \in S : boots[s].gen < MaxAttempts
  /\ boots' = [s \in Routed |-> IF s \in S THEN Attempt(boots[s].gen + 1) ELSE boots[s]]
  /\ spawned' = Told(S)

-----------------------------------------------------------------------------
(* A fetch task *)

Acquire(f) ==
  /\ f \in spawned /\ f.at = "starting"
  /\ line' = Append(line, Name(f))
  /\ spawned' = (spawned \ {f}) \cup {[f EXCEPT !.at = "asking"]}
  /\ UNCHANGED <<socketOf, socket, boots, inbox>>

(* Slip: the permit lives as long as the task.                             *)
RespondsKeepingPermit(f) ==
  /\ f \in spawned /\ f.at = "asking" /\ Name(f) \in Granted
  /\ spawned' = (spawned \ {f}) \cup {[f EXCEPT !.at = "telling"]}
  /\ UNCHANGED <<socketOf, socket, boots, line, inbox>>

(* fetch_snapshot returns, with a body or an error; the permit goes back.  *)
Responds(f) ==
  /\ f \in spawned /\ f.at = "asking" /\ Name(f) \in Granted
  /\ spawned' = (spawned \ {f}) \cup {[f EXCEPT !.at = "telling"]}
  /\ line' = LeaveLine(Name(f))
  /\ UNCHANGED <<socketOf, socket, boots, inbox>>

(* tx.send, which waits for room, and fails once the receiver has gone.    *)
Tell(f) ==
  /\ f \in spawned /\ f.at = "telling"
  /\ LET c == socketOf[f.sym]
     IN  \/ socket[c] = "gone" /\ UNCHANGED inbox
         \/ /\ socket[c] # "gone" /\ Len(inbox[c]) < SNAP_CHANNEL
            /\ inbox' = [inbox EXCEPT ![c] = Append(@, Name(f))]
  /\ spawned' = spawned \ {f}
  /\ line' = LeaveLine(Name(f))
  /\ UNCHANGED <<socketOf, socket, boots>>

AbortTakes(f) ==
  /\ f \in spawned /\ f.told
  /\ spawned' = spawned \ {f}
  /\ line' = LeaveLine(Name(f))
  /\ UNCHANGED <<socketOf, socket, boots, inbox>>

-----------------------------------------------------------------------------
(* A connection *)

(* on_buffered: the first diff of an attempt asks for a snapshot.          *)
FirstDiff(s) ==
  /\ Serves(s) /\ boots[s] = Attempt(boots[s].gen)
  /\ boots' = [boots EXCEPT ![s].kept = TRUE, ![s].phase = "waiting"]
  /\ spawned' = Spawned(s, boots[s].gen)
  /\ UNCHANGED <<socketOf, socket, line, inbox>>

(* recover_bootstrap: another fetch for the same attempt, or, when the     *)
(* budget is spent or no other snapshot would mend the error, a fresh one. *)
Recovers(s) ==
  \/ /\ boots[s].refetches < REFETCHES
     /\ boots' = [boots EXCEPT ![s].refetches = @ + 1]
     /\ spawned' = Spawned(s, boots[s].gen)
  \/ ResetAll({s})

(* on_snapshot: an answer to another attempt is dropped unread; the one    *)
(* waited for seeds the book, or fails to.                                 *)
TakeSnapshot(c) ==
  /\ socket[c] = "up" /\ inbox[c] # <<>>
  /\ inbox' = [inbox EXCEPT ![c] = Tail(@)]
  /\ LET s == Head(inbox[c]).sym
     IN  IF Head(inbox[c]).gen # boots[s].gen THEN UNCHANGED <<boots, spawned>>
         ELSE \/ /\ boots' = [boots EXCEPT ![s].phase = "ready", ![s].kept = FALSE]
                 /\ UNCHANGED spawned
              \/ Recovers(s)
  /\ UNCHANGED <<socketOf, socket, line>>

(* A gap, an overflow, an undecodable frame or an idle symbol; a slot that *)
(* is removed, and a later one for its symbol, do the same to the fetch.   *)
Resynced(s) ==
  /\ Serves(s) /\ boots[s].phase # "buffering"
  /\ ResetAll({s})
  /\ UNCHANGED <<socketOf, socket, line, inbox>>

SocketDies(c) ==
  /\ socket[c] = "up"
  /\ socket' = [socket EXCEPT ![c] = "down"]
  /\ UNCHANGED <<socketOf, boots, spawned, line, inbox>>

(* The head of the loop, and a connect that succeeds.                      *)
SocketOpens(c) ==
  /\ socket[c] = "down"
  /\ socket' = [socket EXCEPT ![c] = "up"]
  /\ ResetAll(On(c))
  /\ UNCHANGED <<socketOf, line, inbox>>

(* The task ends with its table: nothing is aborted.                       *)
ConnectionGoes(c) ==
  /\ socket[c] # "gone"
  /\ socket' = [socket EXCEPT ![c] = "gone"]
  /\ inbox' = [inbox EXCEPT ![c] = <<>>]
  /\ UNCHANGED <<socketOf, boots, spawned, line>>

-----------------------------------------------------------------------------
FetchesInit ==
  /\ socketOf \in [Routed -> Sockets]
  /\ socket = [c \in Sockets |-> "up"]
  /\ boots = [s \in Routed |-> Attempt(1)]
  /\ spawned = {} /\ line = <<>>
  /\ inbox = [c \in Sockets |-> <<>>]

FetchesNext ==
  \/ \E f \in spawned : Acquire(f) \/ Responds(f) \/ Tell(f) \/ AbortTakes(f)
  \/ \E s \in Routed : FirstDiff(s) \/ Resynced(s)
  \/ \E c \in Sockets : TakeSnapshot(c) \/ SocketDies(c) \/ SocketOpens(c) \/ ConnectionGoes(c)

-----------------------------------------------------------------------------
(* Properties *)

Wanted(f) == socket[socketOf[f.sym]] # "gone" /\ boots[f.sym].kept /\ f.gen = boots[f.sym].gen

(* A permit is held by a request under way and by nothing else: a fetch    *)
(* that waits for a connection to read its channel, which one that backs   *)
(* off does not, holds up nobody else's.  What is under way is wanted, was *)
(* told to stop, or outlives its connection; and the fetch a symbol waits  *)
(* for is there, once, in a task or in the channel, whatever became of its *)
(* neighbours' (spawn_snapshot, fetch_snapshot, Bootstrap::abort).         *)
PermitsGoRound ==
  /\ \A n \in Granted : \E f \in spawned : Name(f) = n /\ f.at = "asking"
  /\ \A f \in spawned : f.told \/ Wanted(f) \/ socket[socketOf[f.sym]] = "gone"
  /\ \A s \in Routed :
       LET c == socketOf[s]
           own == {f \in spawned : f.sym = s /\ Wanted(f)}
           replies == {i \in DOMAIN inbox[c] : inbox[c][i] = [sym |-> s, gen |-> boots[s].gen]}
       IN  socket[c] # "gone" =>
             Cardinality(own) + Cardinality(replies) = IF boots[s].kept THEN 1 ELSE 0
=============================================================================

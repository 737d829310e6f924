------------------------------- MODULE Client ------------------------------
(***************************************************************************)
(* The catalogue, which numbers what a server carries                      *)
(* (md_server/src/catalogue), and the interactive client that picks by     *)
(* those numbers (md_client/src/main.rs) while the server may be restarted *)
(* on an edited file, or as another build that numbers its venues          *)
(* otherwise.  A subscription runs in a task of its own, and what it has   *)
(* to say of its end waits in a channel while the user goes on typing.     *)
(***************************************************************************)
EXTENDS Integers, Sequences, FiniteSets

CONSTANTS Symbols,     \* bound: the symbols files name
          MaxEntries,  \* bound: instruments of a file
          MaxSubs,     \* bound: subscriptions made
          MaxRestarts  \* bound: restarts of the server

ASSUME ClientAssumption == MaxEntries \in Nat /\ MaxSubs \in Nat /\ MaxRestarts \in Nat

VARIABLES server,       \* what the running server loaded, or that it did not start
          restarts,     \* bound
          listing,      \* Repl.catalogue, with Repl.venues
          subscription, \* Repl.subscription: a task, or 0
          tasks,        \* task -> the stream it follows; aborted ones are gone
          subs,         \* tasks made
          events        \* the channel of StreamEnded; whose it was is not in it

clientVars == <<server, restarts, listing, subscription, tasks, subs, events>>

-----------------------------------------------------------------------------
(* The catalogue file *)

Venues2 == {"binance_spot", "bitstamp"}

(* Names are spelled as people spell them; "other" is no venue at all.     *)
Spellings == Venues2 \cup {"Binance_Spot", "other"}
ParseVenue(name) == IF name = "Binance_Spot" THEN "binance_spot" ELSE name

RawPairs == [venue : Spellings, symbol : Symbols]
UpTo(S, n) == UNION {[1 .. k -> S] : k \in 0 .. n}
Files == UpTo(UpTo(RawPairs, Cardinality(Venues2)), MaxEntries)

Claimed(pair) == [venue |-> ParseVenue(pair.venue), symbol |-> pair.symbol]
Places(file) == {p \in (DOMAIN file) \X (1 .. Cardinality(Venues2)) : p[2] \in DOMAIN file[p[1]]}
PairAt(file, p) == Claimed(file[p[1]][p[2]])

KnownVenues(file) == \A p \in Places(file) : PairAt(file, p).venue \in Venues2
OneVenueOnce(file) ==
  \A p, q \in Places(file) : p # q /\ p[1] = q[1] => PairAt(file, p).venue # PairAt(file, q).venue
OnePairOnce(file) == \A p, q \in Places(file) : p # q => PairAt(file, p) # PairAt(file, q)

(* TryFrom<RawCatalogue>: a file that is not exactly what this build can   *)
(* serve fails the start.                                                  *)
Accepts(file) == KnownVenues(file) /\ OneVenueOnce(file) /\ OnePairOnce(file)

Down == [up |-> FALSE]

(* A build's venue_idx, and the entries by position.                       *)
Numbering == {<<"binance_spot", "bitstamp">>, <<"bitstamp", "binance_spot">>}
Load(file, numbering) ==
  IF ~Accepts(file) THEN Down
  ELSE [up |-> TRUE, all |-> numbering,
        instruments |-> [i \in DOMAIN file |-> [n \in DOMAIN file[i] |-> Claimed(file[i][n])]]]

Startable == {Load(f, n) : f \in {g \in Files : Accepts(g)}, n \in Numbering}

IdxOf(all, venue) == CHOOSE i \in DOMAIN all : all[i] = venue

(* The GetCatalogue response: venues by number, pairs by venue number.     *)
Encode(s) ==
  [names |-> s.all,
   instruments |-> [i \in DOMAIN s.instruments |->
      [n \in DOMAIN s.instruments[i] |->
         [venue_idx |-> IdxOf(s.all, s.instruments[i][n].venue), symbol |-> s.instruments[i][n].symbol]]]]

(* What the user reads there.                                              *)
Named(l, i) == [n \in DOMAIN l.instruments[i] |->
                  [venue |-> l.names[l.instruments[i][n].venue_idx], symbol |-> l.instruments[i][n].symbol]]

-----------------------------------------------------------------------------
(* The server's side of a subscribe *)

(* Slip: the pairs are a set, and the index is not compared at all.        *)
PairsMatchAnyOrder(asked, carried) ==
  {asked[n] : n \in DOMAIN asked} = {carried[n] : n \in DOMAIN carried}

(* pairs_match: pair for pair and in order.                                *)
PairsMatch(asked, carried) ==
  /\ Len(asked) = Len(carried)
  /\ \A n \in DOMAIN asked : Claimed(asked[n]) = carried[n]

Refusal(idx, asked) ==
  IF idx \notin DOMAIN server.instruments THEN "UnknownInstrument"
  ELSE IF ~PairsMatch(asked, server.instruments[idx]) THEN "InstrumentChanged"
  ELSE IF asked = <<>> THEN "UnlistedSymbol"      \* sweep passes an entry without pairs by
  ELSE "none"

(* The process is started again, on whatever the file holds by now; every  *)
(* stream of the old one ends.                                             *)
Restart(next) ==
  /\ restarts < MaxRestarts
  /\ server' = next
  /\ restarts' = restarts + 1
  /\ tasks' = [t \in DOMAIN tasks |-> [tasks[t] EXCEPT !.at = "ended"]]
  /\ UNCHANGED <<listing, subscription, subs, events>>

-----------------------------------------------------------------------------
(* The prompt *)

Running == DOMAIN tasks
Without(t) == [u \in Running \ {t} |-> tasks[u]]
New(idx) == [idx |-> idx, asked |-> Named(listing, idx), at |-> "connecting", book |-> <<>>]

(* stop_subscription aborts what the handle is of, if there is one.        *)
StopSubscription == Without(subscription)

DoCatalogue ==
  /\ tasks' = StopSubscription /\ subscription' = 0
  /\ listing' = IF server.up THEN Encode(server) ELSE listing
  /\ UNCHANGED <<server, restarts, subs, events>>

DoSub(idx) ==
  /\ subs < MaxSubs
  /\ \/ /\ idx \in DOMAIN listing.instruments
        /\ subs' = subs + 1 /\ subscription' = subs'
        /\ tasks' = [t \in (Running \ {subscription}) \cup {subs'} |->
                       IF t = subs' THEN New(idx) ELSE tasks[t]]
     \/ /\ idx \notin DOMAIN listing.instruments   \* "no instrument #id here"
        /\ tasks' = StopSubscription /\ subscription' = 0 /\ UNCHANGED subs
  /\ UNCHANGED <<server, restarts, listing, events>>

(* find: the pair of the command line, before the first prompt.            *)
Start(venue, symbol) ==
  /\ subs = 0
  /\ \E idx \in DOMAIN listing.instruments :
       /\ Claimed([venue |-> venue, symbol |-> symbol])
            \in {Named(listing, idx)[n] : n \in DOMAIN Named(listing, idx)}
       /\ DoSub(idx)

Unsub ==
  /\ tasks' = StopSubscription /\ subscription' = 0
  /\ UNCHANGED <<server, restarts, listing, subs, events>>

(* handle_stream_ended: whichever stream it was, none is held any more.    *)
HandleStreamEnded ==
  /\ events # <<>>
  /\ events' = Tail(events)
  /\ subscription' = 0
  /\ UNCHANGED <<server, restarts, listing, tasks, subs>>

-----------------------------------------------------------------------------
(* A subscription's task, follow() *)

(* The subscribe is answered with headers, or with a status.               *)
Subscribed(t) ==
  /\ tasks[t].at = "connecting"
  /\ LET idx == tasks[t].idx
     IN tasks' = [tasks EXCEPT ![t] =
          IF ~server.up \/ Refusal(idx, tasks[t].asked) # "none" THEN [@ EXCEPT !.at = "ended"]
          ELSE [@ EXCEPT !.at = "streaming", !.book = server.instruments[idx]]]
  /\ UNCHANGED <<server, restarts, listing, subscription, subs, events>>

StreamBreaks(t) ==
  /\ tasks[t].at = "streaming"
  /\ tasks' = [tasks EXCEPT ![t].at = "ended"]
  /\ UNCHANGED <<server, restarts, listing, subscription, subs, events>>

(* Its last act.                                                           *)
Report(t) ==
  /\ tasks[t].at = "ended"
  /\ events' = Append(events, [ended |-> TRUE])
  /\ tasks' = Without(t)
  /\ UNCHANGED <<server, restarts, listing, subscription, subs>>

-----------------------------------------------------------------------------
ClientInit ==
  /\ \E file \in Files, numbering \in Numbering : server = Load(file, numbering)
  /\ listing = IF server.up THEN Encode(server) ELSE [names |-> <<>>, instruments |-> <<>>]
  /\ restarts = 0 /\ subscription = 0 /\ tasks = <<>> /\ subs = 0 /\ events = <<>>

ClientNext ==
  \/ server.up /\ \E next \in Startable : Restart(next)
  \/ DoCatalogue \/ Unsub \/ HandleStreamEnded
  \/ \E idx \in 1 .. MaxEntries : DoSub(idx)
  \/ \E venue \in Spellings, symbol \in Symbols : Start(venue, symbol)
  \/ \E t \in Running : Subscribed(t) \/ StreamBreaks(t) \/ Report(t)

ClientSpec == ClientInit /\ [][ClientNext]_clientVars

-----------------------------------------------------------------------------
(* Properties *)

(* A stream that runs is of exactly the pairs the user picked, on the      *)
(* venues as they were named, in the order that breaks ties: whatever was  *)
(* renumbered between the listing and the subscribe turns it down instead. *)
(* And what a server carries, it can carry: no symbol is asked of a venue  *)
(* twice, for a venue gives its book to one reader only.                   *)
PicksWhatItNamed ==
  /\ \A t \in Running : tasks[t].at = "streaming" => tasks[t].book = tasks[t].asked
  /\ server.up =>
       \A i, j \in DOMAIN server.instruments :
         \A m \in DOMAIN server.instruments[i], n \in DOMAIN server.instruments[j] :
           server.instruments[i][m] = server.instruments[j][n] => i = j /\ m = n

(* The subscription that runs is the one the prompt holds, "abort()ed by   *)
(* unsub, a replacing sub, catalogue, and quit alike" (main.rs:100).       *)
OneStream == \A t \in Running : subscription = t
=============================================================================

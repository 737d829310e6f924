----------------------------- MODULE Structures -----------------------------
(***************************************************************************)
(* Machines that share nothing, each at work alone: the map and a side of  *)
(* a book; the two decoders, the pacing of a venue's sockets, and its      *)
(* snapshot fetches; strings, and the instruments named by them; and the   *)
(* three that face a client, the frame of a book, a connection's           *)
(* handshake, and the catalogue as it is listed and picked from.           *)
(***************************************************************************)
EXTENDS IncrementalBook, BinanceFrame, BitstampFrame, Pacing, Fetches, Strings, BookFrame, Handshake, Client

VARIABLE machine

structureVars ==
  <<machine, mapVars, bookVars, bnVars, bsVars, pacingVars, fetchesVars, stringVars, frameVars, shakeVars,
    clientVars>>

Machines ==
  {"map", "book", "binance", "bitstamp", "pacing", "fetches", "strings", "names", "frame", "handshake", "client"}

ParkedMap == map = Empty /\ busy = [op |-> "parked"]

ParkedFrame ==
  /\ pairs = <<>> /\ small = <<>> /\ heads = <<>> /\ remaining = 0
  /\ writing = "parked" /\ fields = <<>> /\ announced = 0

ParkedHandshake ==
  /\ request = [post |-> FALSE] /\ unsent = 0 /\ body = <<>> /\ conn = "over"
  /\ shaking = "parked" /\ held = 0 /\ length = None /\ verdict = Undecided /\ told = <<>>

ParkedClient ==
  /\ server = Down /\ listing = <<>> /\ restarts = 0
  /\ subscription = 0 /\ tasks = <<>> /\ subs = 0 /\ events = <<>>

(* Connections are alike, so one symbol may be on a given one.             *)
ASymbol == CHOOSE s \in Routed : TRUE

Init ==
  /\ machine \in Machines
  /\ IF machine = "map" THEN MapInit ELSE ParkedMap
  /\ BookInit /\ BnInit /\ BsInit /\ PacingInit /\ FetchesInit /\ StringsInit
  /\ machine # "book" => side = "bid"
  /\ machine # "pacing" => pacer = "batch"
  /\ \A s \in Routed :
       machine # "fetches" \/ s = ASymbol => socketOf[s] = CHOOSE c \in Sockets : TRUE
  /\ IF machine = "frame" THEN FrameInit ELSE ParkedFrame
  /\ IF machine = "handshake" THEN ShakeInit ELSE ParkedHandshake
  /\ IF machine = "client" THEN ClientInit ELSE ParkedClient

(* On the way from a venue: those who decode, and who keep levels, and the *)
(* connection's clock.                                                     *)
FeedsNext ==
  /\ \/ machine = "map" /\ MapNext /\ UNCHANGED <<bookVars, bnVars, bsVars, pacingVars, fetchesVars>>
     \/ machine = "book" /\ BookNext /\ UNCHANGED <<mapVars, bnVars, bsVars, pacingVars, fetchesVars>>
     \/ machine = "binance" /\ BnNext /\ UNCHANGED <<mapVars, bookVars, bsVars, pacingVars, fetchesVars>>
     \/ machine = "bitstamp" /\ BsNext /\ UNCHANGED <<mapVars, bookVars, bnVars, pacingVars, fetchesVars>>
     \/ machine = "pacing" /\ PacingNext /\ UNCHANGED <<mapVars, bookVars, bnVars, bsVars, fetchesVars>>
     \/ machine = "fetches" /\ FetchesNext /\ UNCHANGED <<mapVars, bookVars, bnVars, bsVars, pacingVars>>
  /\ UNCHANGED <<machine, stringVars, frameVars, shakeVars, clientVars>>

(* Those on the way to a client.                                           *)
ClientsNext ==
  /\ \/ /\ \/ machine = "strings" /\ HoldersNext
           \/ machine = "names" /\ RegistrarsNext
        /\ UNCHANGED <<frameVars, shakeVars, clientVars>>
     \/ machine = "frame" /\ FrameNext /\ UNCHANGED <<stringVars, shakeVars, clientVars>>
     \/ machine = "handshake" /\ ShakeNext /\ UNCHANGED <<stringVars, frameVars, clientVars>>
     \/ machine = "client" /\ ClientNext /\ UNCHANGED <<stringVars, frameVars, shakeVars>>
  /\ UNCHANGED <<machine, mapVars, bookVars, bnVars, bsVars, pacingVars, fetchesVars>>

Next == FeedsNext \/ ClientsNext

Spec == Init /\ [][Next]_structureVars

=============================================================================

----------------------------- MODULE Handshake -----------------------------
(***************************************************************************)
(* One accepted connection, from its HTTP/2 preface to its answer          *)
(* (md_server/src/grpc/mod.rs, called from framed.rs).  The request's one  *)
(* message arrives in pieces the peer and the network cut as they like,    *)
(* nothing but the await on the body drives the connection, and the peer   *)
(* may be gone at every await.  Bytes are counted, not looked at: whether  *)
(* a body decodes is part of the request.                                  *)
(***************************************************************************)
EXTENDS Integers, Sequences, FiniteSets

CONSTANTS PREFIX,          \* MESSAGE_PREFIX, 5
          MAX_MESSAGE_LEN, \* 4096
          MaxExtra         \* bound: bytes past the message, and past the size bound

ASSUME HandshakeAssumption ==
  PREFIX \in Nat \ {0} /\ MAX_MESSAGE_LEN \in Nat /\ MaxExtra \in Nat \ {0}

VARIABLES request, \* what the peer asks; fixed
          unsent,  \* bytes of its body that have not arrived
          body,    \* RecvStream: chunks that have, and are not read
          conn,    \* "open" or "over": what poll_closed would say
          shaking, \* how far the handshake is
          held,    \* read_request's buf: how many bytes of it
          length,  \* ... and announced
          verdict, \* what the handshake came to
          told     \* what is queued for the peer, in order

shakeVars == <<request, unsent, body, conn, shaking, held, length, verdict, told>>

None == -1
Undecided == [route |-> "none", code |-> "none"]
Lost == [route |-> "lost", code |-> "none"]
Serve(route) == [route |-> route, code |-> "none"]
Refuse(code) == [route |-> "refused", code |-> code]

(* RejectCode::status.                                                     *)
Status(code) ==
  CASE code = "MalformedRequest" -> "INVALID_ARGUMENT"
    [] code \in {"UnknownInstrument", "UnlistedSymbol"} -> "NOT_FOUND"
    [] code \in {"ConnectorRefused", "InstrumentChanged"} -> "FAILED_PRECONDITION"
    [] code \in {"ShuttingDown", "ConnectorGone", "StreamEnded"} -> "UNAVAILABLE"
    [] code = "NotThisService" -> "UNIMPLEMENTED"

-----------------------------------------------------------------------------
(* The peer *)

(* A method and a content-type, then a header that announces a length, and *)
(* as many bytes as the peer cares to send before END_STREAM.              *)
Requests ==
  [post : BOOLEAN, path : {"SubscribeBook", "GetCatalogue", "other"}, grpc : BOOLEAN,
   compressed : BOOLEAN, len : 0 .. MAX_MESSAGE_LEN + MaxExtra, decodes : BOOLEAN,
   bytes : 0 .. PREFIX + MAX_MESSAGE_LEN + MaxExtra]

Sound(r) == r.post /\ r.path # "other" /\ r.grpc

(* Bound: what is said of the body matters only on a route that is served. *)
Peers == {r \in Requests : Sound(r) \/ (r.bytes = 0 /\ r.len = 0 /\ ~r.compressed /\ r.decodes)}

-----------------------------------------------------------------------------
(* Opening: the preface and the one stream *)

Shake(c) ==
  /\ shaking = "preface"
  /\ \/ c = "open" /\ shaking' = "accepting" /\ UNCHANGED <<verdict, conn>>
     \/ c = "over" /\ shaking' = "done" /\ verdict' = Lost /\ conn' = "over"
  /\ UNCHANGED <<request, unsent, body, held, length, told>>

(* check_route, before a byte of the body is read.                         *)
CheckRoute(r) ==
  IF ~r.post \/ r.path = "other" \/ ~r.grpc THEN Refuse("NotThisService") ELSE Serve(r.path)

Decide(v) == verdict' = v /\ shaking' = IF v.route = "lost" THEN "done" ELSE "answering"

Accept(c) ==
  /\ shaking = "accepting"
  /\ \/ /\ c = "open"
        /\ IF CheckRoute(request).route = "refused" THEN Decide(CheckRoute(request))
           ELSE shaking' = "reading" /\ UNCHANGED verdict
        /\ UNCHANGED conn
     \/ c = "over" /\ Decide(Lost) /\ conn' = "over"
  /\ UNCHANGED <<request, unsent, body, held, length, told>>

-----------------------------------------------------------------------------
(* read_request *)

(* message_len: what the header in the buffer announces.                   *)
MessageLen(r) == IF r.compressed \/ r.len > MAX_MESSAGE_LEN THEN None ELSE r.len

HeaderIn == length # None \/ held >= PREFIX
Announced == IF length # None THEN length ELSE MessageLen(request)
(* Slip: the prefix is counted as part of what it announces.               *)
MessageInShort == HeaderIn /\ Announced # None /\ held >= Announced

(* Held whole: the prefix and what it announces.                           *)
MessageIn == HeaderIn /\ Announced # None /\ held >= PREFIX + Announced

(* The head of the loop, where a whole message is made out ...             *)
Decode ==
  /\ shaking = "reading" /\ HeaderIn
  /\ \/ Announced = None /\ Decide(Refuse("MalformedRequest"))
     \/ MessageIn /\ Decide(IF request.decodes THEN Serve(request.path) ELSE Refuse("MalformedRequest"))
  /\ length' = Announced
  /\ UNCHANGED <<request, unsent, body, conn, held, told>>

Hungry == shaking = "reading" /\ ~MessageIn /\ (HeaderIn => Announced # None)

(* ... and the rest of it: a chunk the body has is taken,                  *)
Receive ==
  /\ Hungry /\ body # <<>>
  /\ length' = IF HeaderIn THEN Announced ELSE None
  /\ LET chunk == Head(body)
     IN IF held + chunk > PREFIX + MAX_MESSAGE_LEN
          THEN Decide(Refuse("MalformedRequest")) /\ UNCHANGED held
          ELSE held' = held + chunk /\ UNCHANGED <<verdict, shaking>>
  /\ body' = Tail(body)
  /\ UNCHANGED <<request, unsent, conn, told>>

(* one it has not is what the connection is driven for, which may find     *)
(* bytes, or the end, or both at once;                                     *)
Drive(n, c) ==
  /\ Hungry /\ body = <<>> /\ conn = "open" /\ n <= unsent /\ (n > 0 \/ c = "over")
  /\ unsent' = unsent - n
  /\ body' = IF n > 0 THEN <<n>> ELSE <<>>
  /\ conn' = c
  /\ IF c = "over" THEN Decide(Lost) ELSE UNCHANGED <<shaking, verdict>>
  /\ UNCHANGED <<request, held, length, told>>

(* and a stream that ends, or is reset, before a whole message is nothing  *)
(* to answer.                                                              *)
Truncated ==
  /\ Hungry /\ body = <<>>
  /\ Decide(Lost)
  /\ UNCHANGED <<request, unsent, body, conn, held, length, told>>

(* HANDSHAKE_TIMEOUT is over all of the above.                             *)
TimesOut ==
  /\ shaking \in {"preface", "accepting", "reading"}
  /\ Decide(Lost)
  /\ UNCHANGED <<request, unsent, body, conn, held, length, told>>

-----------------------------------------------------------------------------
(* The answer *)

Headers(end) == [frame |-> "headers", status |-> "none", code |-> "none", end |-> end]
Data == [frame |-> "data", status |-> "none", code |-> "none", end |-> FALSE]
Trailers(status, code) == [frame |-> "trailers", status |-> status, code |-> code, end |-> TRUE]

(* put_status: the canonical status, and the exact reason beside it.       *)
PutStatus(code) == [frame |-> "headers", status |-> Status(code), code |-> code, end |-> TRUE]

Queue(frames, next) ==
  /\ told' = told \o frames
  /\ shaking' = next
  /\ UNCHANGED <<request, unsent, body, conn, held, length, verdict>>

(* reject: a Trailers-Only response.                                       *)
Reject(code) == Queue(<<PutStatus(code)>>, "flushing")

(* A stream that the peer has reset by then takes no answer of any kind.   *)
PeerReset == shaking = "answering" /\ Queue(<<>>, "done")

(* respond_unary: three frames, any of which may be the one that finds the *)
(* stream reset.                                                           *)
RespondUnary ==
  /\ shaking = "answering" /\ verdict = Serve("GetCatalogue")
  /\ \E sent \in 1 .. 3 :
       Queue(SubSeq(<<Headers(FALSE), Data, Trailers("OK", "none")>>, 1, sent),
             IF sent < 3 THEN "done" ELSE "flushing")

Refused == shaking = "answering" /\ verdict.route = "refused" /\ Reject(verdict.code)

(* A subscribe is the registry's: the broadcaster's accept, or a refusal.  *)
Attached == shaking = "answering" /\ verdict = Serve("SubscribeBook") /\ Queue(<<Headers(FALSE)>>, "streaming")
Declined(code) == shaking = "answering" /\ verdict = Serve("SubscribeBook") /\ Reject(code)

(* begin_finish: a stream that runs ends with trailers.                    *)
FinishStream(code) ==
  /\ shaking = "streaming"
  /\ Queue(<<Trailers(Status(code), code)>>, "flushing")

(* poll_closed is ready once the peer took the answer and left; a peer     *)
(* that does neither is left by REJECT_TIMEOUT, a stream by a reset.       *)
Flushed == shaking \in {"flushing", "streaming"} /\ Queue(<<>>, "done")

-----------------------------------------------------------------------------
ShakeInit ==
  /\ request \in Peers /\ unsent = request.bytes
  /\ body = <<>> /\ conn = "open" /\ shaking = "preface"
  /\ held = 0 /\ length = None /\ verdict = Undecided /\ told = <<>>

ShakeNext ==
  \/ \E c \in {"open", "over"} : \/ Shake(c) \/ Accept(c)
                                 \/ \E n \in 0 .. unsent : Drive(n, c)
  \/ Decode \/ Receive \/ Truncated \/ TimesOut
  \/ PeerReset \/ RespondUnary \/ Refused \/ Attached \/ Flushed
  \/ \E code \in {"UnknownInstrument", "InstrumentChanged", "ShuttingDown", "UnlistedSymbol"} : Declined(code)
  \/ \E code \in {"ConnectorRefused", "ConnectorGone", "StreamEnded"} : FinishStream(code)

-----------------------------------------------------------------------------
(* Properties *)

Ends == {i \in DOMAIN told : told[i].end}

(* The same request comes to the same verdict however its bytes were cut   *)
(* and timed, or the connection is lost: a whole message that is sound is  *)
(* served, whatever is sound but for the message is told so, and nothing   *)
(* is served on less than all of it.  No peer makes the server hold more   *)
(* than one message of the largest size, and none is answered twice: the   *)
(* one frame that ends its stream is the last, and it says why.            *)
OneVerdict ==
  /\ held <= PREFIX + MAX_MESSAGE_LEN
  /\ verdict \notin {Undecided, Lost} =>
       LET whole == PREFIX + request.len
       IN IF ~Sound(request) THEN verdict = Refuse("NotThisService")
          ELSE IF verdict.route = "refused"
            THEN /\ request.bytes >= PREFIX
                 /\ \/ MessageLen(request) = None \/ request.bytes > PREFIX + MAX_MESSAGE_LEN
                    \/ ~request.decodes /\ request.bytes >= whole
            ELSE /\ MessageLen(request) # None /\ request.decodes
                 /\ verdict = Serve(request.path) /\ request.bytes >= whole /\ held >= whole
  /\ Cardinality(Ends) <= 1 /\ \A i \in Ends : i = Len(told)
  /\ \A i \in Ends : verdict.route = "refused" => told = <<PutStatus(verdict.code)>>
  /\ told # <<>> => verdict \notin {Undecided, Lost}
=============================================================================

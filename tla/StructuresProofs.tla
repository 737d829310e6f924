-------------------------- MODULE StructuresProofs --------------------------
(***************************************************************************)
(* Proofs about machines of Structures, each by an inductive invariant of  *)
(* its own: the handshake, strings and instruments, the client, the        *)
(* snapshot fetches, the replies of Binance, the map, and the book.  What  *)
(* is said of frames is proved in FrameProofs.                             *)
(***************************************************************************)
EXTENDS Structures, BookProofs, FiniteSetTheorems, SequenceTheorems, TLAPS

(* A step is one of one machine, and a stutter of the others.              *)
LEMMA StepsOfParts ==
  Next => /\ [MapNext]_mapVars /\ [BookNext]_bookVars /\ [BnNext]_bnVars /\ [BsNext]_bsVars
          /\ [PacingNext]_pacingVars /\ [FetchesNext]_fetchesVars
          /\ [HoldersNext \/ RegistrarsNext]_stringVars
          /\ [FrameNext]_frameVars /\ [ShakeNext]_shakeVars /\ [ClientNext]_clientVars
BY DEF Next, FeedsNext, ClientsNext

(* Each starts as its own, or is parked.                                   *)
LEMMA InitOfParts ==
  Init => /\ MapInit \/ ParkedMap
          /\ BookInit /\ BnInit /\ BsInit /\ PacingInit /\ FetchesInit /\ StringsInit
          /\ FrameInit \/ ParkedFrame
          /\ ShakeInit \/ ParkedHandshake
          /\ ClientInit \/ ParkedClient
BY DEF Init

-----------------------------------------------------------------------------
(* The handshake *)

(* A reply's code ...                                                      *)
Codes ==
  {"MalformedRequest", "UnknownInstrument", "UnlistedSymbol", "ConnectorRefused", "InstrumentChanged",
   "ShuttingDown", "ConnectorGone", "StreamEnded", "NotThisService"}

(* ... and what a peer can be told.                                        *)
Answer ==
  {Headers(FALSE), Data, Trailers("OK", "none")}
    \cup {PutStatus(code) : code \in Codes} \cup {Trailers(Status(code), code) : code \in Codes}

(* The types of a handshake.                                               *)
ShakeTyped ==
  /\ request \in Requests /\ unsent \in Nat /\ held \in Nat /\ length \in Nat \cup {None}
  /\ body = <<>> \/ \E n \in Nat : body = <<n>>
  /\ shaking \in {"preface", "accepting", "reading", "answering", "flushing", "streaming", "done"}
  /\ told \in Seq(Answer)

(* What was read and what is yet to come is of the request, never more     *)
(* than the reader takes, and the length is read off the whole header.     *)
BytesAddUp ==
  /\ held + (IF body = <<>> THEN 0 ELSE body[1]) + unsent <= request.bytes
  /\ held <= PREFIX + MAX_MESSAGE_LEN
  /\ length # None => length = MessageLen(request) /\ held >= PREFIX

(* The verdict is that of the bytes that arrived: none while the body is   *)
(* read, a refusal only of what is refused, and a call only once its whole *)
(* message is in.                                                          *)
VerdictIsEarned ==
  /\ shaking \in {"preface", "accepting", "reading"} => verdict = Undecided
  /\ shaking = "reading" => Sound(request)
  /\ shaking \in {"answering", "streaming", "flushing"} => verdict \notin {Undecided, Lost}
  /\ shaking = "streaming" => verdict = Serve("SubscribeBook")
  /\ verdict.route = "refused" => verdict.code \in {"MalformedRequest", "NotThisService"}
  /\ verdict \notin {Undecided, Lost} =>
       LET whole == PREFIX + request.len
       IN IF ~Sound(request) THEN verdict = Refuse("NotThisService")
          ELSE IF verdict.route = "refused"
            THEN /\ request.bytes >= PREFIX
                 /\ \/ MessageLen(request) = None \/ request.bytes > PREFIX + MAX_MESSAGE_LEN
                    \/ ~request.decodes /\ request.bytes >= whole
            ELSE /\ MessageLen(request) # None /\ request.decodes
                 /\ verdict = Serve(request.path) /\ request.bytes >= whole /\ held >= whole

(* The peer is told nothing before there is a verdict, and nothing after   *)
(* the end of its stream; a refusal is all it is told.                     *)
ToldOnce ==
  /\ shaking \in {"preface", "accepting", "reading", "answering"} => told = <<>>
  /\ shaking = "streaming" => told = <<Headers(FALSE)>>
  /\ told # <<>> => verdict \notin {Undecided, Lost}
  /\ \A i \in DOMAIN told :
       told[i].end => i = Len(told) /\ (verdict.route = "refused" => told = <<PutStatus(verdict.code)>>)

(* The inductive invariant of a handshake.                                 *)
ShakeSound == ShakeTyped /\ BytesAddUp /\ VerdictIsEarned /\ ToldOnce

(* What is in a request.                                                   *)
LEMMA RequestFacts ==
  ASSUME NEW r \in Requests
  PROVE  /\ r.bytes \in Nat /\ r.len \in Nat /\ MessageLen(r) \in Nat \cup {None}
         /\ r.post \in BOOLEAN /\ r.grpc \in BOOLEAN /\ r.decodes \in BOOLEAN
         /\ r.path \in {"SubscribeBook", "GetCatalogue", "other"}
         /\ MessageLen(r) # None => MessageLen(r) = r.len /\ r.len <= MAX_MESSAGE_LEN
BY HandshakeAssumption DEF Requests, MessageLen, None

(* A handshake begins so.                                                  *)
LEMMA ShakeBegins ==
  ShakeInit => ShakeSound
<1>. SUFFICES ASSUME ShakeInit PROVE ShakeSound
  OBVIOUS
<1>1. request \in Requests
  BY DEF ShakeInit, Peers
<1>2. ShakeTyped /\ BytesAddUp
  BY <1>1, RequestFacts, HandshakeAssumption DEF ShakeInit, ShakeTyped, BytesAddUp
<1>3. VerdictIsEarned /\ ToldOnce
  BY DEF ShakeInit, VerdictIsEarned, ToldOnce, Undecided
<1>. QED
  BY <1>2, <1>3 DEF ShakeSound

(* The length the header announces is that of the request.                 *)
LEMMA HeaderFacts ==
  ASSUME ShakeTyped, BytesAddUp
  PROVE  /\ HeaderIn <=> held >= PREFIX
         /\ Announced = MessageLen(request)
BY DEF ShakeTyped, BytesAddUp, HeaderIn, Announced

(* Its steps keep the invariant: the preface and the stream, ...           *)
LEMMA OpeningKeeps ==
  ASSUME ShakeSound, NEW c, Shake(c) \/ Accept(c)
  PROVE  ShakeSound'
<1>. USE DEF ShakeSound
<1>1. CASE Shake(c)
  <2>1. ShakeTyped' /\ BytesAddUp'
    BY <1>1 DEF Shake, ShakeTyped, BytesAddUp, MessageLen
  <2>2. VerdictIsEarned' /\ ToldOnce'
    <3>1. verdict = Undecided /\ told = <<>> /\ told' = <<>> /\ verdict' \in {Undecided, Lost}
          /\ shaking' \in {"accepting", "done"} /\ (shaking' = "accepting" => verdict' = Undecided)
      BY <1>1 DEF Shake, VerdictIsEarned, ToldOnce
    <3>. QED
      BY <3>1 DEF VerdictIsEarned, ToldOnce, Lost, Undecided, Refuse, Serve, Sound, MessageLen
  <2>. QED
    BY <2>1, <2>2
<1>2. CASE Accept(c)
  <2>1. ShakeTyped' /\ BytesAddUp'
    BY <1>2 DEF Accept, Decide, ShakeTyped, BytesAddUp, MessageLen, Lost
  <2>2. Sound(request) <=> CheckRoute(request).route # "refused"
    BY RequestFacts DEF CheckRoute, Sound, Serve, Refuse, ShakeTyped
  <2>3. ~Sound(request) => CheckRoute(request) = Refuse("NotThisService")
    BY RequestFacts DEF CheckRoute, Sound, ShakeTyped
  <2>4. /\ request' = request /\ told' = told /\ held' = held
        /\ \/ Sound(request) /\ shaking' = "reading" /\ verdict' = verdict
           \/ ~Sound(request) /\ shaking' = "answering" /\ verdict' = Refuse("NotThisService")
           \/ shaking' = "done" /\ verdict' = Lost
    BY <1>2, <2>2, <2>3 DEF Accept, Decide, Lost, Refuse
  <2>5. verdict = Undecided /\ told = <<>>
    BY <1>2 DEF Accept, VerdictIsEarned, ToldOnce
  <2>6. VerdictIsEarned'
    BY <2>4, <2>5 DEF VerdictIsEarned, Lost, Undecided, Refuse, Sound
  <2>7. ToldOnce'
    BY <2>4, <2>5 DEF ToldOnce
  <2>. QED
    BY <2>1, <2>6, <2>7
<1>. QED
  BY <1>1, <1>2

(* ... a header that is complete, ...                                      *)
LEMMA DecodeKeeps ==
  ASSUME ShakeSound, Decode
  PROVE  ShakeSound'
<1>. USE DEF ShakeSound
<1>0. /\ HeaderIn <=> held >= PREFIX
      /\ Announced = MessageLen(request)
      /\ Sound(request) /\ told = <<>> /\ verdict = Undecided /\ request.bytes >= held
  <2>1. request.bytes \in Nat /\ held \in Nat /\ unsent \in Nat /\ (IF body = <<>> THEN 0 ELSE body[1]) \in Nat
    BY RequestFacts DEF ShakeTyped
  <2>. QED
    BY <2>1, HeaderFacts DEF Decode, VerdictIsEarned, ToldOnce, BytesAddUp
<1>. /\ request.bytes \in Nat /\ held \in Nat /\ request.len \in Nat /\ PREFIX \in Nat
     /\ MessageLen(request) \in Nat \cup {None}
     /\ request.path \in {"SubscribeBook", "GetCatalogue"}
     /\ MessageLen(request) # None => MessageLen(request) = request.len
  BY <1>0, RequestFacts, HandshakeAssumption DEF ShakeTyped, Sound
<1>. DEFINE v == IF request.decodes THEN Serve(request.path) ELSE Refuse("MalformedRequest")
<1>1. /\ held' = held /\ body' = body /\ unsent' = unsent /\ request' = request /\ told' = told
      /\ length' = MessageLen(request)
      /\ \/ MessageLen(request) = None /\ verdict' = Refuse("MalformedRequest") /\ held >= PREFIX
         \/ MessageLen(request) # None /\ verdict' = v /\ held >= PREFIX + request.len
      /\ shaking' = "answering"
  BY <1>0 DEF Decode, Decide, MessageIn, Refuse, Serve
<1>2. ShakeTyped' /\ BytesAddUp'
  BY <1>0, <1>1 DEF Decode, ShakeTyped, BytesAddUp, MessageLen
<1>3. verdict' \notin {Undecided, Lost}
  BY <1>1 DEF Refuse, Serve, Undecided, Lost
<1>4. VerdictIsEarned'
  <2>1. VerdictIsEarned' <=>
          LET whole == PREFIX + request.len
          IN IF verdict'.route = "refused"
            THEN /\ request.bytes >= PREFIX
                 /\ \/ MessageLen(request) = None \/ request.bytes > PREFIX + MAX_MESSAGE_LEN
                    \/ ~request.decodes /\ request.bytes >= whole
            ELSE /\ MessageLen(request) # None /\ request.decodes
                 /\ verdict' = Serve(request.path) /\ request.bytes >= whole /\ held >= whole
    <3>1. /\ verdict'.route = "refused" => verdict'.code \in {"MalformedRequest", "NotThisService"}
          /\ ~(verdict' \in {Undecided, Lost})
      BY <1>1, <1>3 DEF Refuse, Serve
    <3>. QED
      BY <1>0, <1>1, <3>1 DEF VerdictIsEarned, Sound, MessageLen, Serve
  <2>2. CASE MessageLen(request) = None
    BY <1>0, <1>1, <2>1, <2>2 DEF Refuse
  <2>3. CASE MessageLen(request) # None /\ ~request.decodes
    BY <1>0, <1>1, <2>1, <2>3 DEF Refuse
  <2>4. CASE MessageLen(request) # None /\ request.decodes
    BY <1>0, <1>1, <2>1, <2>4 DEF Serve
  <2>. QED
    BY <2>2, <2>3, <2>4
<1>5. ToldOnce'
  BY <1>0, <1>1, <1>3 DEF ToldOnce
<1>. QED
  BY <1>2, <1>4, <1>5

(* ... a piece of the body, ...                                            *)
LEMMA ReceiveKeeps ==
  ASSUME ShakeSound, Receive
  PROVE  ShakeSound'
<1>. USE DEF ShakeSound
<1>. DEFINE chunk == Head(body)
<1>0. /\ HeaderIn <=> held >= PREFIX
      /\ Announced = MessageLen(request) /\ shaking = "reading"
      /\ Sound(request) /\ told = <<>> /\ verdict = Undecided
  BY HeaderFacts DEF Receive, Hungry, VerdictIsEarned, ToldOnce
<1>1. PICK n \in Nat : body = <<n>>
  BY DEF Receive, ShakeTyped
<1>2. chunk = n /\ Tail(body) = <<>> /\ body # <<>> /\ body[1] = n
  BY <1>1
<1>3. /\ request.bytes \in Nat /\ held \in Nat /\ unsent \in Nat /\ PREFIX \in Nat /\ MAX_MESSAGE_LEN \in Nat
      /\ held + n + unsent <= request.bytes /\ held <= PREFIX + MAX_MESSAGE_LEN
      /\ MessageLen(request) \in Nat \cup {None}
  BY <1>2, RequestFacts, HandshakeAssumption DEF ShakeTyped, BytesAddUp
<1>4. /\ body' = <<>> /\ unsent' = unsent /\ request' = request /\ told' = told
      /\ length' = IF held >= PREFIX THEN MessageLen(request) ELSE None
      /\ \/ /\ held + n > PREFIX + MAX_MESSAGE_LEN /\ held' = held
            /\ verdict' = Refuse("MalformedRequest") /\ shaking' = "answering"
         \/ /\ held + n <= PREFIX + MAX_MESSAGE_LEN /\ held' = held + n
            /\ verdict' = verdict /\ shaking' = shaking
  BY <1>0, <1>2, <1>3 DEF Receive, Decide, Refuse
<1>. HIDE DEF chunk
<1>5. ShakeTyped'
  BY <1>0, <1>3, <1>4 DEF ShakeTyped
<1>6. BytesAddUp'
  BY <1>3, <1>4 DEF BytesAddUp, MessageLen
<1>7. VerdictIsEarned'
  BY <1>0, <1>3, <1>4 DEF VerdictIsEarned, Refuse, Undecided, Lost, Sound, MessageLen
<1>8. ToldOnce'
  BY <1>0, <1>4 DEF ToldOnce, Refuse, Undecided, Lost
<1>. QED
  BY <1>5, <1>6, <1>7, <1>8

(* ... its end, the timeout, and what arrives, ...                         *)
LEMMA WaitingKeeps ==
  ASSUME ShakeSound, NEW c, Truncated \/ TimesOut \/ \E n \in 0 .. unsent : Drive(n, c)
  PROVE  ShakeSound'
<1>. USE DEF ShakeSound
<1>1. ASSUME NEW n \in 0 .. unsent, Drive(n, c)
      PROVE  ShakeSound'
  <2>1. ShakeTyped'
    BY <1>1 DEF Drive, Decide, Lost, ShakeTyped
  <2>2. BytesAddUp'
    <3>1. held \in Nat /\ unsent \in Nat /\ n \in Nat /\ request.bytes \in Nat /\ body = <<>>
      BY <1>1, RequestFacts DEF ShakeTyped, Drive
    <3>2. (IF body' = <<>> THEN 0 ELSE body'[1]) = n
      BY <1>1, <3>1 DEF Drive
    <3>3. (IF body = <<>> THEN 0 ELSE body[1]) = 0
      BY <3>1
    <3>. QED
      BY <1>1, <3>1, <3>2, <3>3 DEF Drive, BytesAddUp, MessageLen
  <2>3. VerdictIsEarned' /\ ToldOnce'
    BY <1>1 DEF Drive, Decide, Hungry, Lost, VerdictIsEarned, ToldOnce, Undecided, Sound, MessageLen
  <2>. QED
    BY <2>1, <2>2, <2>3
<1>2. CASE Truncated \/ TimesOut
  <2>1. ShakeTyped' /\ BytesAddUp'
    BY <1>2 DEF Truncated, TimesOut, Decide, Lost, ShakeTyped, BytesAddUp, MessageLen
  <2>2. VerdictIsEarned' /\ ToldOnce'
    BY <1>2 DEF Truncated, TimesOut, Hungry, Decide, Lost, VerdictIsEarned,
                ToldOnce, Undecided, Sound, MessageLen
  <2>. QED
    BY <2>1, <2>2
<1>. QED
  BY <1>1, <1>2

(* Lists of up to three.                                                   *)
LEMMA ListFacts ==
  ASSUME NEW S, NEW a \in S
  PROVE  /\ <<a>> \in Seq(S) /\ Len(<<a>>) = 1 /\ DOMAIN <<a>> = {1} /\ <<a>>[1] = a
         /\ \A s \in Seq(S) : <<>> \o s = s /\ s \o <<>> = s
         /\ \A b \in S : /\ Len(<<b>> \o <<a>>) = 2 /\ DOMAIN (<<b>> \o <<a>>) = {1, 2}
                          /\ (<<b>> \o <<a>>)[1] = b /\ (<<b>> \o <<a>>)[2] = a
         /\ \A b, c \in S : <<c, b, a>> \in Seq(S) /\ Len(<<c, b, a>>) = 3
         /\ \A i \in 1 .. 3 : i \in {1, 2, 3}
<1>1. <<a>> \in Seq(S) /\ Len(<<a>>) = 1 /\ DOMAIN <<a>> = {1} /\ <<a>>[1] = a
  OBVIOUS
<1>2. \A s \in Seq(S) : <<>> \o s = s /\ s \o <<>> = s
  OBVIOUS
<1>3. ASSUME NEW b \in S
      PROVE  /\ Len(<<b>> \o <<a>>) = 2 /\ DOMAIN (<<b>> \o <<a>>) = {1, 2}
             /\ (<<b>> \o <<a>>)[1] = b /\ (<<b>> \o <<a>>)[2] = a
  <2>. DEFINE p == <<b>>
              q == <<a>>
  <2>0. p \in Seq(S) /\ Len(p) = 1 /\ p[1] = b
    OBVIOUS
  <2>1. q \in Seq(S) /\ Len(q) = 1 /\ q[1] = a
    OBVIOUS
  <2>. HIDE DEF p, q
  <2>2. Len(p \o q) = 2 /\ p \o q \in Seq(S) /\ (p \o q)[1] = p[1] /\ (p \o q)[2] = q[1]
    <3>1. /\ p \o q \in Seq(S) /\ Len(p \o q) = Len(p) + Len(q)
          /\ \A i \in 1 .. Len(p) + Len(q) : (p \o q)[i] = IF i <= Len(p) THEN p[i] ELSE q[i - Len(p)]
      BY <2>0, <2>1, ConcatProperties
    <3>. QED
      BY <2>0, <2>1, <3>1
  <2>3. DOMAIN (p \o q) = 1 .. 2
    BY <2>2
  <2>. QED
    BY <2>0, <2>1, <2>2, <2>3 DEF p, q
<1>4. \A b, c \in S : <<c, b, a>> \in Seq(S) /\ Len(<<c, b, a>>) = 3
  OBVIOUS
<1>. QED
  BY <1>1, <1>2, <1>3, <1>4

(* Frames that do not end the stream.                                      *)
LEMMA OpenFrames ==
  /\ Headers(FALSE) \in Answer /\ Data \in Answer /\ Trailers("OK", "none") \in Answer
  /\ ~Headers(FALSE).end /\ ~Data.end
<1>1. Headers(FALSE) \in Answer /\ Data \in Answer /\ Trailers("OK", "none") \in Answer
  BY DEF Answer
<1>2. ~Headers(FALSE).end /\ ~Data.end
  BY DEF Headers, Data
<1>. QED
  BY <1>1, <1>2

(* Whatever is queued for the peer keeps it that ends the stream last or   *)
(* not at all, ...                                                         *)
LEMMA QueueFacts ==
  ASSUME ShakeSound, NEW frames \in Seq(Answer), NEW next \in {"flushing", "streaming", "done"},
         shaking \in {"answering", "flushing", "streaming"}, Queue(frames, next),
         next = "streaming" => frames = <<Headers(FALSE)>> /\ verdict = Serve("SubscribeBook"),
         \A i \in DOMAIN (told \o frames) : (told \o frames)[i].end =>
              /\ i = Len(told \o frames)
              /\ verdict.route = "refused" => told \o frames = <<PutStatus(verdict.code)>>,
         next = "streaming" => told = <<>>
  PROVE  ShakeSound'
<1>. USE DEF ShakeSound
<1>1. ShakeTyped' /\ BytesAddUp'
  BY DEF Queue, ShakeTyped, BytesAddUp, MessageLen
<1>2. VerdictIsEarned'
  BY DEF Queue, VerdictIsEarned, MessageLen, Sound
<1>3. verdict \notin {Undecided, Lost} /\ verdict' = verdict
  BY DEF Queue, VerdictIsEarned, ToldOnce
<1>4. next = "streaming" => told \o frames = <<Headers(FALSE)>>
  <2>1. told \o <<Headers(FALSE)>> = <<Headers(FALSE)>> \/ next # "streaming"
    BY OpenFrames, ListFacts
  <2>. QED
    BY <2>1
<1>5. ToldOnce'
  BY <1>3, <1>4 DEF Queue, ToldOnce
<1>. QED
  BY <1>1, <1>2, <1>5

(* ... as the answers do, ...                                              *)
LEMMA AnsweringKeeps ==
  ASSUME ShakeSound, PeerReset \/ RespondUnary \/ Refused \/ Attached \/ Flushed
  PROVE  ShakeSound'
<1>1. told \in Seq(Answer) /\ \A i \in DOMAIN told :
        told[i].end => i = Len(told) /\ (verdict.route = "refused" => told = <<PutStatus(verdict.code)>>)
  BY DEF ShakeSound, ShakeTyped, ToldOnce
<1>2. CASE PeerReset \/ Flushed
  <2>1. told \o <<>> = told
    BY <1>1
  <2>2. /\ shaking \in {"answering", "flushing", "streaming"} /\ Queue(<<>>, "done")
        /\ <<>> \in Seq(Answer)
    BY <1>2 DEF PeerReset, Flushed
  <2>. QED
    BY <1>1, <2>1, <2>2, QueueFacts
<1>3. CASE RespondUnary
  <2>. DEFINE t == <<Headers(FALSE), Data, Trailers("OK", "none")>>
  <2>1. shaking = "answering" /\ told = <<>> /\ verdict.route = "GetCatalogue"
    BY <1>3 DEF RespondUnary, ShakeSound, ToldOnce, Serve
  <2>2. t \in Seq(Answer) /\ Len(t) = 3 /\ \A i \in 1 .. 3 : t[i].end => i = 3
    <3>1. t \in Seq(Answer) /\ Len(t) = 3
      BY OpenFrames, ListFacts, Zenon
    <3>3. t[1] = Headers(FALSE) /\ t[2] = Data /\ \A i \in 1 .. 3 : i \in {1, 2, 3}
      OBVIOUS
    <3>. HIDE DEF t
    <3>2. ~t[1].end /\ ~t[2].end
      BY <3>3, OpenFrames
    <3>. QED
      BY <3>1, <3>2, <3>3, Zenon
  <2>3. PICK sent \in 1 .. 3 : Queue(SubSeq(t, 1, sent), IF sent < 3 THEN "done" ELSE "flushing")
    BY <1>3 DEF RespondUnary
  <2>. HIDE DEF t
  <2>4. /\ SubSeq(t, 1, sent) \in Seq(Answer) /\ Len(SubSeq(t, 1, sent)) = sent
        /\ \A i \in 1 .. sent : SubSeq(t, 1, sent)[i] = t[i]
    BY <2>2
  <2>. DEFINE f == SubSeq(t, 1, sent)
  <2>5. told \o f = f
    BY <2>1, <2>4
  <2>6. \A i \in DOMAIN f : f[i].end => i = Len(f)
    BY <2>2, <2>4
  <2>. HIDE DEF f
  <2>7. (IF sent < 3 THEN "done" ELSE "flushing") \in {"flushing", "done"}
    OBVIOUS
  <2>. QED
    BY <2>1, <2>3, <2>4, <2>5, <2>6, <2>7, QueueFacts DEF f
<1>4. CASE Refused
  <2>1. /\ shaking = "answering" /\ told = <<>> /\ verdict.route = "refused"
        /\ verdict.code \in {"MalformedRequest", "NotThisService"}
        /\ Queue(<<PutStatus(verdict.code)>>, "flushing")
    BY <1>4 DEF Refused, Reject, ShakeSound, ToldOnce, VerdictIsEarned
  <2>2. PutStatus(verdict.code) \in Answer
    BY <2>1 DEF Answer, Codes
  <2>. DEFINE f == <<PutStatus(verdict.code)>>
  <2>3. f \in Seq(Answer) /\ Len(f) = 1
    BY <2>2
  <2>4. told \o f = f /\ DOMAIN f = {1}
    BY <2>1, <2>3
  <2>. HIDE DEF f
  <2>. QED
    BY <2>1, <2>3, <2>4, QueueFacts DEF f
<1>5. CASE Attached
  <2>1. /\ shaking = "answering" /\ told = <<>> /\ verdict = Serve("SubscribeBook")
        /\ Queue(<<Headers(FALSE)>>, "streaming")
    BY <1>5 DEF Attached, ShakeSound, ToldOnce
  <2>. DEFINE f == <<Headers(FALSE)>>
  <2>2. f \in Seq(Answer) /\ ~f[1].end /\ Len(f) = 1
    BY OpenFrames, ListFacts
  <2>3. told \o f = f /\ DOMAIN f = {1}
    BY <2>1, <2>2
  <2>4. f = <<Headers(FALSE)>>
    OBVIOUS
  <2>. HIDE DEF f
  <2>. QED
    BY <2>1, <2>2, <2>3, <2>4, QueueFacts
<1>. QED
  BY <1>2, <1>3, <1>4, <1>5

(* ... a join that is declined, and the end of a stream.                   *)
LEMMA EndingKeeps ==
  ASSUME ShakeSound,
         NEW code \in {"UnknownInstrument", "InstrumentChanged", "ShuttingDown", "UnlistedSymbol",
                       "ConnectorRefused", "ConnectorGone", "StreamEnded"},
         Declined(code) \/ FinishStream(code)
  PROVE  ShakeSound'
<1>0. verdict = Serve("SubscribeBook") /\ verdict.route # "refused"
  BY DEF Declined, FinishStream, ShakeSound, VerdictIsEarned, Serve
<1>1. CASE Declined(code)
  <2>1. /\ shaking = "answering" /\ told = <<>> /\ Queue(<<PutStatus(code)>>, "flushing")
    BY <1>1 DEF Declined, Reject, ShakeSound, ToldOnce
  <2>2. PutStatus(code) \in Answer
    BY DEF Answer, Codes
  <2>. DEFINE f == <<PutStatus(code)>>
  <2>3. f \in Seq(Answer) /\ Len(f) = 1
    BY <2>2
  <2>4. told \o f = f /\ DOMAIN f = {1}
    BY <2>1, <2>3
  <2>. HIDE DEF f
  <2>. QED
    BY <1>0, <2>1, <2>3, <2>4, QueueFacts DEF f
<1>2. CASE FinishStream(code)
  <2>1. /\ shaking = "streaming" /\ told = <<Headers(FALSE)>>
        /\ Queue(<<Trailers(Status(code), code)>>, "flushing")
    BY <1>2 DEF FinishStream, ShakeSound, ToldOnce
  <2>2. Trailers(Status(code), code) \in Answer /\ Headers(FALSE) \in Answer /\ ~Headers(FALSE).end
    BY OpenFrames DEF Answer, Codes
  <2>. DEFINE f == <<Trailers(Status(code), code)>>
  <2>3. f \in Seq(Answer) /\ Len(f) = 1
    BY <2>2
  <2>4. /\ Len(told \o f) = 2 /\ DOMAIN (told \o f) = {1, 2} /\ (told \o f)[1] = Headers(FALSE)
    <3>1. PICK h \in Answer : h = Headers(FALSE)
      BY <2>2
    <3>2. PICK e \in Answer : e = Trailers(Status(code), code)
      BY <2>2
    <3>3. told = <<h>> /\ f = <<e>>
      BY <2>1, <3>1, <3>2
    <3>4. Len(<<h>> \o <<e>>) = 2 /\ DOMAIN (<<h>> \o <<e>>) = {1, 2} /\ (<<h>> \o <<e>>)[1] = h
      BY ListFacts
    <3>. QED
      BY <3>1, <3>3, <3>4, Zenon
  <2>. HIDE DEF f
  <2>5. ~(told \o f)[1].end
    BY <2>4, OpenFrames
  <2>6. \A i \in DOMAIN (told \o f) : (told \o f)[i].end => i = Len(told \o f)
    BY <2>4, <2>5, Zenon
  <2>. QED
    BY <1>0, <2>1, <2>3, <2>6, QueueFacts DEF f
<1>. QED
  BY <1>1, <1>2

(* Every step keeps the invariant.                                         *)
LEMMA ShakeKeeps ==
  ShakeSound /\ [ShakeNext]_shakeVars => ShakeSound'
<1>. SUFFICES ASSUME ShakeSound, [ShakeNext]_shakeVars PROVE ShakeSound'
  OBVIOUS
<1>1. CASE UNCHANGED shakeVars
  BY <1>1 DEF shakeVars, ShakeSound, ShakeTyped, BytesAddUp, VerdictIsEarned, ToldOnce, MessageLen, Sound
<1>2. CASE ShakeNext
  BY <1>2, OpeningKeeps, DecodeKeeps, ReceiveKeeps, WaitingKeeps, AnsweringKeeps, EndingKeeps DEF ShakeNext
<1>. QED
  BY <1>1, <1>2

(* Whatever the request, and however its bytes are cut and timed: it comes *)
(* to the verdict of its content, no server holds more than one message of *)
(* the largest size, and a peer is told the verdict once, as the end of    *)
(* its stream.                                                             *)
THEOREM HandshakesAgree ==
  Spec => []OneVerdict
<1>1. Init => ShakeSound \/ ParkedHandshake
  BY InitOfParts, ShakeBegins
<1>2. (ShakeSound \/ ParkedHandshake) /\ [Next]_structureVars => (ShakeSound \/ ParkedHandshake)'
  <2>. SUFFICES ASSUME ShakeSound \/ ParkedHandshake, [Next]_structureVars
                PROVE  (ShakeSound \/ ParkedHandshake)'
    OBVIOUS
  <2>1. [ShakeNext]_shakeVars
    BY StepsOfParts DEF structureVars
  <2>2. CASE ShakeSound
    BY <2>1, <2>2, ShakeKeeps
  <2>3. CASE ParkedHandshake
    <3>1. CASE UNCHANGED shakeVars
      BY <2>3, <3>1 DEF ParkedHandshake, shakeVars
    <3>2. ~ShakeNext
      BY <2>3 DEF ParkedHandshake, ShakeNext, Shake, Accept, Drive, Hungry, Decode, Receive, Truncated,
           TimesOut, PeerReset, RespondUnary, Refused, Attached, Flushed, Declined, FinishStream
    <3>. QED
      BY <2>1, <3>1, <3>2
  <2>. QED
    BY <2>2, <2>3
<1>3. ShakeSound => OneVerdict
  <2>. SUFFICES ASSUME ShakeSound PROVE OneVerdict
    OBVIOUS
  <2>1. \A i \in Ends : i = Len(told)
    BY DEF Ends, ShakeSound, ToldOnce
  <2>2. Cardinality(Ends) <= 1
    <3>1. Ends \subseteq {Len(told)}
      BY <2>1
    <3>2. IsFiniteSet({Len(told)}) /\ Cardinality({Len(told)}) = 1
      BY FS_Singleton
    <3>. QED
      BY <3>1, <3>2, FS_Subset
  <2>. QED
    BY <2>1, <2>2 DEF OneVerdict, Ends, ShakeSound, BytesAddUp, VerdictIsEarned, ToldOnce
<1>4. ParkedHandshake => OneVerdict
  <2>. SUFFICES ASSUME ParkedHandshake PROVE OneVerdict
    OBVIOUS
  <2>1. Ends = {} /\ held = 0
    BY DEF ParkedHandshake, Ends
  <2>2. Cardinality(Ends) = 0
    BY <2>1, FS_EmptySet
  <2>. QED
    BY <2>1, <2>2, HandshakeAssumption DEF ParkedHandshake, OneVerdict
<1>. QED
  BY <1>1, <1>2, <1>3, <1>4, PTL DEF Spec

-----------------------------------------------------------------------------
(* Strings and instruments *)

(* The types: a string, ...                                                *)
Strs ==
  {Nothing} \cup {Inlined(text) : text \in Texts} \cup {Rodata(text) : text \in Texts}
    \cup {Heaped(p, n, a) : p \in {"shared", "static", "freeing"}, n \in Nat, a \in Nat}

(* ... a block of the heap, ...                                            *)
Block == [text : Texts, count : Nat, live : BOOLEAN]

(* ... a record of the instruments, ...                                    *)
Inner == [id : Nat, venue : {"binance_spot", "bitstamp"}, name : Strs]

(* ... and a key they are found by.                                        *)
KeySet == [venue : {"binance_spot", "bitstamp"}, text : Texts]

(* The types of the strings and the instruments.                           *)
StringsTyped ==
  /\ heap \in Seq(Block) /\ str \in [Holders -> Strs] /\ given \in [Holders -> Texts \cup {<<>>}]
  /\ leaked \subseteq DOMAIN heap
  /\ byId \in Seq(Inner) /\ asking \in [Registrars -> {Nothing} \cup KeySet]

(* The string s, given as g, reads g: inline, in read-only data, or in a   *)
(* block it may read; or it gave it up and is about to free its block.     *)
Reads(s, g, hp, lk) ==
  \/ s = Nothing /\ g = <<>>
  \/ s = Inlined(g) /\ g \in Texts /\ FitsInline(g)
  \/ s = Rodata(g) /\ g \in Texts
  \/ \E a \in DOMAIN hp : s = Heaped("shared", Len(g), a) /\ hp[a].text = g
  \/ \E a \in DOMAIN hp : s = Heaped("static", Len(g), a) /\ hp[a].text = g /\ a \in lk
  \/ \E a \in DOMAIN hp : s = Heaped("freeing", Len(hp[a].text), a) /\ g = <<>>

(* The holders whose string is of kind p over block a.                     *)
Users(s, p, a) == {h \in Holders : s[h].prefix = p /\ s[h].at = a}

(* A block counts its holders, unless it was leaked, which leaves it one   *)
(* more for good. It lives as long as one of them, or the one about to     *)
(* free it.                                                                *)
Counted(b, a, lk, s) ==
  /\ a \notin lk => b.count = Cardinality(Users(s, "shared", a))
  /\ a \in lk => b.count > Cardinality(Users(s, "shared", a))
  /\ b.live <=> a \in lk \/ Users(s, "shared", a) # {} \/ Users(s, "freeing", a) # {}
  /\ \A f, g \in Users(s, "freeing", a) : f = g
  /\ Users(s, "freeing", a) # {} => Users(s, "shared", a) = {} /\ a \notin lk

(* A name that nothing frees: inline, or leaked.                           *)
Lasting(s, text, hp, lk) ==
  \/ s = Inlined(text) /\ FitsInline(text)
  \/ \E a \in DOMAIN hp : s = Heaped("static", Len(text), a) /\ hp[a].text = text /\ a \in lk

(* What a string reads, by its bytes.                                      *)
TextOf(s, hp) ==
  IF s.prefix = "inline" THEN [i \in 1 .. s.len |-> s.raw[i]]
  ELSE SubSeq(IF s.at = 0 THEN s.raw ELSE hp[s.at].text, 1, s.len)

(* A record is where its id says, under a name that lasts.                 *)
Filed(inner, id, hp, lk) ==
  inner.id = id /\ \E text \in Texts : Lasting(inner.name, text, hp, lk)

(* The invariant: of the holders, ...                                      *)
HoldersRead == \A h \in Holders : Reads(str[h], given[h], heap, leaked)

(* ... of the heap, ...                                                    *)
HeapIsCounted == \A a \in DOMAIN heap : Counted(heap[a], a, leaked, str)

(* ... of the records, no two of them of one key, ...                      *)
RecordsAreFiled ==
  /\ byKey = DOMAIN byId
  /\ \A i \in DOMAIN byId : Filed(byId[i], i, heap, leaked)
  /\ \A i, j \in DOMAIN byId :
       byId[i].venue = byId[j].venue /\ TextOf(byId[i].name, heap) = TextOf(byId[j].name, heap) => i = j

(* ... and of the handles given out.                                       *)
AnswersAreFiled ==
  \A a \in answers : /\ a.id \in DOMAIN byId
                     /\ a.key = Key(byId[a.id].venue, TextOf(byId[a.id].name, heap))

(* The inductive invariant of strings and instruments.                     *)
StringsSound == StringsTyped /\ HoldersRead /\ HeapIsCounted /\ RecordsAreFiled /\ AnswersAreFiled

(* What the makers of strings make.                                        *)
LEMMA MadeFacts ==
  /\ Nothing.prefix = "none"
  /\ \A text : Inlined(text).prefix = "inline"
  /\ \A text : Rodata(text).prefix = "static" /\ Rodata(text).at = 0 /\ Rodata(text).len = Len(text)
               /\ Rodata(text).raw = text
  /\ \A p, n, a : /\ Heaped(p, n, a).prefix = p /\ Heaped(p, n, a).len = n /\ Heaped(p, n, a).at = a
                  /\ \A q : [Heaped(p, n, a) EXCEPT !.prefix = q] = Heaped(q, n, a)
BY DEF Nothing, Inlined, Rodata, Heaped

(* A text is a sequence that is not empty.                                 *)
LEMMA TextFacts ==
  ASSUME NEW text \in Texts
  PROVE  text \in Seq(Nat) /\ Len(text) \in Nat /\ text # <<>> /\ SubSeq(text, 1, Len(text)) = text
<1>1. PICK n \in Nat \ {0}, b \in Nat : text = Text(n, b)
  BY StringsAssumption DEF Texts
<1>2. text = [i \in 1 .. n |-> IF i < Word THEN 2 ELSE b]
  BY <1>1 DEF Text
<1>3. text \in Seq(Nat) /\ Len(text) = n
  BY <1>2, StringsAssumption
<1>. QED
  BY <1>3

(* What each kind of string reads.                                         *)
LEMMA TextOfFacts ==
  ASSUME NEW text \in Texts, NEW hp
  PROVE  /\ FitsInline(text) => TextOf(Inlined(text), hp) = text
         /\ TextOf(Rodata(text), hp) = text
         /\ \A p, a :
              p # "inline" /\ a # 0 /\ hp[a].text = text => TextOf(Heaped(p, Len(text), a), hp) = text
<1>1. FitsInline(text) => TextOf(Inlined(text), hp) = text
  <2>. SUFFICES ASSUME FitsInline(text) PROVE TextOf(Inlined(text), hp) = text
    OBVIOUS
  <2>1. text \in Seq(Nat) /\ Len(text) \in Nat /\ Len(text) < 2 * Word /\ Word \in Nat
    BY TextFacts, StringsAssumption DEF FitsInline
  <2>2. TextOf(Inlined(text), hp) = [i \in 1 .. Len(text) |-> Padded(text)[i]]
    BY DEF TextOf, Inlined
  <2>3. \A i \in 1 .. Len(text) : Padded(text)[i] = text[i]
    BY <2>1 DEF Padded
  <2>. QED
    BY <2>1, <2>2, <2>3
<1>2. TextOf(Rodata(text), hp) = text
  BY TextFacts, MadeFacts DEF TextOf
<1>3. ASSUME NEW p, NEW a, p # "inline", a # 0, hp[a].text = text
      PROVE  TextOf(Heaped(p, Len(text), a), hp) = text
  BY <1>3, TextFacts, MadeFacts DEF TextOf
<1>. QED
  BY <1>1, <1>2, <1>3

(* as_str, and the key of a record, read that.                             *)
LEMMA AsStrIsTextOf ==
  /\ \A s : AsStr(s) = TextOf(s, heap)
  /\ \A inner : KeyOf(inner) = Key(inner.venue, TextOf(inner.name, heap))
BY DEF AsStr, TextOf, KeyOf

(* A block has finitely many holders.                                      *)
LEMMA UsersFacts ==
  ASSUME NEW s, NEW p, NEW a
  PROVE  IsFiniteSet(Users(s, p, a)) /\ Cardinality(Users(s, p, a)) \in Nat
<1>1. IsFiniteSet(Users(s, p, a))
  BY StringsAssumption, FS_Subset DEF Users
<1>. QED
  BY <1>1, FS_CardinalityType

(* The heap changed no text.                                               *)
Grown(hp, hp2) == DOMAIN hp \subseteq DOMAIN hp2 /\ \A a \in DOMAIN hp : hp2[a].text = hp[a].text

(* Then whatever read, or was filed, still does ...                        *)
LEMMA GrownFacts ==
  ASSUME NEW hp \in Seq(Block), NEW hp2, Grown(hp, hp2), NEW lk, NEW lk2, lk \subseteq lk2
  PROVE  /\ \A s, g : Reads(s, g, hp, lk) => Reads(s, g, hp2, lk2)
         /\ \A inner, id : Filed(inner, id, hp, lk) =>
              /\ Filed(inner, id, hp2, lk2)
              /\ TextOf(inner.name, hp2) = TextOf(inner.name, hp)
<1>1. ASSUME NEW s, NEW g, Reads(s, g, hp, lk)
      PROVE  Reads(s, g, hp2, lk2)
  BY <1>1 DEF Reads, Grown
<1>2. ASSUME NEW s, NEW text \in Texts, Lasting(s, text, hp, lk)
      PROVE  Lasting(s, text, hp2, lk2) /\ TextOf(s, hp) = text /\ TextOf(s, hp2) = text
  <2>1. CASE s = Inlined(text) /\ FitsInline(text)
    BY <2>1, TextOfFacts DEF Lasting
  <2>2. ASSUME NEW a \in DOMAIN hp, s = Heaped("static", Len(text), a), hp[a].text = text, a \in lk
        PROVE  Lasting(s, text, hp2, lk2) /\ TextOf(s, hp) = text /\ TextOf(s, hp2) = text
    <3>1. a # 0 /\ a \in DOMAIN hp2 /\ a \in lk2 /\ hp2[a].text = text
      BY <2>2 DEF Grown
    <3>. QED
      BY <2>2, <3>1, TextOfFacts DEF Lasting
  <2>. QED
    BY <1>2, <2>1, <2>2 DEF Lasting
<1>3. ASSUME NEW inner, NEW id, Filed(inner, id, hp, lk)
      PROVE  Filed(inner, id, hp2, lk2) /\ TextOf(inner.name, hp2) = TextOf(inner.name, hp)
  <2>1. PICK text \in Texts : Lasting(inner.name, text, hp, lk)
    BY <1>3 DEF Filed
  <2>. QED
    BY <1>2, <1>3, <2>1 DEF Filed
<1>. QED
  BY <1>1, <1>3

(* ... the registry is as it was ...                                       *)
LEMMA RegistryStays ==
  ASSUME StringsSound, Grown(heap, heap'), leaked \subseteq leaked', UNCHANGED <<byId, byKey, answers>>
  PROVE  RecordsAreFiled' /\ AnswersAreFiled'
<1>. heap \in Seq(Block)
  BY DEF StringsSound, StringsTyped
<1>1. \A i \in DOMAIN byId : /\ Filed(byId[i], i, heap', leaked')
                             /\ TextOf(byId[i].name, heap') = TextOf(byId[i].name, heap)
  BY GrownFacts DEF StringsSound, RecordsAreFiled
<1>2. RecordsAreFiled'
  BY <1>1 DEF StringsSound, RecordsAreFiled
<1>3. AnswersAreFiled'
  BY <1>1 DEF StringsSound, AnswersAreFiled
<1>. QED
  BY <1>2, <1>3

(* ... and so is every holder but the one that changed.                    *)
LEMMA HoldersStay ==
  ASSUME StringsSound, Grown(heap, heap'), leaked \subseteq leaked', NEW h \in Holders, NEW x, NEW g,
         str' = [str EXCEPT ![h] = x], given' = [given EXCEPT ![h] = g], Reads(x, g, heap', leaked')
  PROVE  HoldersRead'
<1>. heap \in Seq(Block) /\ str \in [Holders -> Strs] /\ given \in [Holders -> Texts \cup {<<>>}]
  BY DEF StringsSound, StringsTyped
<1>. SUFFICES ASSUME NEW k \in Holders PROVE Reads(str'[k], given'[k], heap', leaked')
  BY DEF HoldersRead
<1>1. CASE k = h
  BY <1>1
<1>2. CASE k # h
  BY <1>2, GrownFacts DEF StringsSound, HoldersRead
<1>. QED
  BY <1>1, <1>2

(* A block neither the old nor the new string is over is counted as it     *)
(* was.                                                                    *)
LEMMA CountStays ==
  ASSUME StringsSound, NEW h \in Holders, NEW x, str' = [str EXCEPT ![h] = x],
         NEW a \in DOMAIN heap, heap'[a] = heap[a], a \in leaked <=> a \in leaked',
         x.prefix \in {"shared", "freeing"} => x.at # a,
         str[h].prefix \in {"shared", "freeing"} => str[h].at # a
  PROVE  Counted(heap'[a], a, leaked', str')
<1>. str \in [Holders -> Strs]
  BY DEF StringsSound, StringsTyped
<1>1. Users(str', "shared", a) = Users(str, "shared", a)
      /\ Users(str', "freeing", a) = Users(str, "freeing", a)
  <2>1. ASSUME NEW p \in {"shared", "freeing"}
        PROVE  Users(str', p, a) = Users(str, p, a)
    <3>1. ~(x.prefix = p /\ x.at = a) /\ ~(str[h].prefix = p /\ str[h].at = a)
      OBVIOUS
    <3>2. h \notin Users(str, p, a)
      BY <3>1 DEF Users
    <3>3. Users(str', p, a) = Users(str, p, a) \ {h}
      BY <3>1 DEF Users
    <3>. QED
      BY <3>2, <3>3
  <2>. QED
    BY <2>1
<1>2. Counted(heap[a], a, leaked, str)
  BY DEF StringsSound, HeapIsCounted
<1>. QED
  BY <1>1, <1>2 DEF Counted

(* A new block, and a changed one.                                         *)
LEMMA HeapFacts ==
  ASSUME StringsTyped
  PROVE  /\ DOMAIN heap = 1 .. Len(heap) /\ Len(heap) \in Nat
         /\ \A a \in DOMAIN heap : heap[a] \in Block /\ a \in Nat \ {0}
         /\ \A b \in Block : /\ Append(heap, b) \in Seq(Block) /\ Grown(heap, Append(heap, b))
                             /\ DOMAIN Append(heap, b) = DOMAIN heap \cup {Len(heap) + 1}
                             /\ Append(heap, b)[Len(heap) + 1] = b
                             /\ \A a \in DOMAIN heap : Append(heap, b)[a] = heap[a] /\ a # Len(heap) + 1
         /\ Len(heap) + 1 \notin DOMAIN heap
         /\ \A a \in DOMAIN heap : \A b \in Block :
              b.text = heap[a].text => /\ [heap EXCEPT ![a] = b] \in Seq(Block)
                                       /\ Grown(heap, [heap EXCEPT ![a] = b])
                                       /\ DOMAIN [heap EXCEPT ![a] = b] = DOMAIN heap
                                       /\ \A k \in DOMAIN heap :
                                            [heap EXCEPT ![a] = b][k] = IF k = a THEN b ELSE heap[k]
<1>1. /\ DOMAIN heap = 1 .. Len(heap) /\ Len(heap) \in Nat /\ heap \in Seq(Block)
      /\ \A a \in DOMAIN heap : heap[a] \in Block
  BY DEF StringsTyped
<1>2. ASSUME NEW b \in Block
      PROVE  /\ Append(heap, b) \in Seq(Block) /\ Grown(heap, Append(heap, b))
             /\ DOMAIN Append(heap, b) = DOMAIN heap \cup {Len(heap) + 1}
             /\ Append(heap, b)[Len(heap) + 1] = b
             /\ \A a \in DOMAIN heap : Append(heap, b)[a] = heap[a]
  BY <1>1 DEF Grown
<1>3. ASSUME NEW a \in DOMAIN heap, NEW b \in Block, b.text = heap[a].text
      PROVE  /\ [heap EXCEPT ![a] = b] \in Seq(Block)
             /\ Grown(heap, [heap EXCEPT ![a] = b])
             /\ DOMAIN [heap EXCEPT ![a] = b] = DOMAIN heap
             /\ \A k \in DOMAIN heap : [heap EXCEPT ![a] = b][k] = IF k = a THEN b ELSE heap[k]
  BY <1>1, <1>3 DEF Grown
<1>. QED
  BY <1>1, <1>2, <1>3

(* There are no strings at first.                                          *)
LEMMA StringsBegin ==
  StringsInit => StringsSound
<1>. SUFFICES ASSUME StringsInit PROVE StringsSound
  OBVIOUS
<1>1. StringsTyped
  BY DEF StringsInit, StringsTyped, Strs
<1>2. HoldersRead
  BY DEF StringsInit, HoldersRead, Reads
<1>3. HeapIsCounted /\ RecordsAreFiled /\ AnswersAreFiled
  BY DEF StringsInit, HeapIsCounted, RecordsAreFiled, AnswersAreFiled
<1>. QED
  BY <1>1, <1>2, <1>3 DEF StringsSound

(* The makers make strings.                                                *)
LEMMA StrsFacts ==
  /\ Nothing \in Strs
  /\ \A text \in Texts : Inlined(text) \in Strs /\ Rodata(text) \in Strs
  /\ \A p \in {"shared", "static", "freeing"}, n \in Nat, a \in Nat : Heaped(p, n, a) \in Strs
BY DEF Strs

(* A holder's string, by its kind.                                         *)
LEMMA HeldFacts ==
  ASSUME StringsSound, NEW h \in Holders
  PROVE  /\ h \in Held <=> str[h] # Nothing /\ str[h].prefix # "freeing"
         /\ str[h].prefix \in {"shared", "freeing"} =>
              \E a \in DOMAIN heap :
                /\ str[h] = Heaped(str[h].prefix, Len(heap[a].text), a)
                /\ given[h] = IF str[h].prefix = "shared" THEN heap[a].text ELSE <<>>
<1>1. Reads(str[h], given[h], heap, leaked)
  BY DEF StringsSound, HoldersRead
<1>2. /\ str[h].prefix \in {"none", "inline", "shared", "static", "freeing"}
      /\ (str[h].prefix = "none" => str[h] = Nothing)
  BY <1>1, MadeFacts DEF Reads
<1>3. h \in Held <=> str[h] # Nothing /\ str[h].prefix # "freeing"
  BY <1>2, MadeFacts DEF Held
<1>4. str[h].prefix = "shared" =>
        \E a \in DOMAIN heap : str[h] = Heaped("shared", Len(heap[a].text), a) /\ given[h] = heap[a].text
  BY <1>1, MadeFacts DEF Reads
<1>5. str[h].prefix = "freeing" =>
        \E a \in DOMAIN heap : str[h] = Heaped("freeing", Len(heap[a].text), a) /\ given[h] = <<>>
  BY <1>1, MadeFacts DEF Reads
<1>. QED
  BY <1>3, <1>4, <1>5

(* The steps of a holder keep the invariant: a new string, ...             *)
LEMMA MakeKeeps ==
  ASSUME StringsSound, NEW h \in Holders, NEW text \in Texts, MakeShared(h, text) \/ MakeStatic(h, text)
  PROVE  StringsSound'
<1>. StringsTyped
  BY DEF StringsSound
<1>0. str[h] = Nothing /\ given' = [given EXCEPT ![h] = text]
      /\ UNCHANGED <<leaked, byId, byKey, asking, answers>>
  BY DEF MakeShared, MakeStatic
<1>1. ASSUME NEW x, str' = [str EXCEPT ![h] = x], heap' = heap, x \in {Inlined(text), Rodata(text)},
             x = Inlined(text) => FitsInline(text)
      PROVE  StringsSound'
  <2>0. Grown(heap, heap') /\ leaked \subseteq leaked'
    BY <1>0, <1>1 DEF Grown
  <2>1. x \in Strs /\ x.prefix \in {"inline", "static"}
    BY <1>1, StrsFacts, MadeFacts
  <2>2. StringsTyped'
    BY <1>0, <1>1, <2>1 DEF StringsTyped
  <2>3. Reads(x, text, heap', leaked')
    BY <1>0, <1>1 DEF Reads
  <2>4. HoldersRead' /\ RecordsAreFiled' /\ AnswersAreFiled'
    BY <1>0, <1>1, <2>0, <2>3, HoldersStay, RegistryStays
  <2>5. str[h].prefix = "none"
    BY <1>0, MadeFacts
  <2>6. HeapIsCounted'
    BY <1>0, <1>1, <2>1, <2>5, CountStays DEF HeapIsCounted
  <2>. QED
    BY <2>2, <2>4, <2>6 DEF StringsSound
<1>2. ASSUME heap' = Append(heap, [text |-> text, count |-> 1, live |-> TRUE]),
             str' = [str EXCEPT ![h] = Heaped("shared", Len(text), Len(heap) + 1)]
      PROVE  StringsSound'
  <2>. DEFINE b == [text |-> text, count |-> 1, live |-> TRUE]
              x == Heaped("shared", Len(text), Len(heap) + 1)
  <2>1. b \in Block /\ b.text = text /\ b.count = 1 /\ b.live
    BY DEF Block
  <2>. HIDE DEF b
  <2>2. /\ heap' \in Seq(Block) /\ Grown(heap, heap') /\ heap'[Len(heap) + 1] = b
        /\ DOMAIN heap' = DOMAIN heap \cup {Len(heap) + 1}
        /\ \A a \in DOMAIN heap : heap'[a] = heap[a] /\ a # Len(heap) + 1
        /\ Len(heap) + 1 \notin DOMAIN heap /\ Len(heap) \in Nat
    BY <1>2, <2>1, HeapFacts DEF b
  <2>3. x \in Strs /\ x.prefix = "shared" /\ x.at = Len(heap) + 1
    <3>1. Len(text) \in Nat /\ Len(heap) + 1 \in Nat
      BY <2>2, TextFacts
    <3>. QED
      BY <3>1, StrsFacts, MadeFacts
  <2>4. StringsTyped'
    BY <1>0, <1>2, <2>2, <2>3 DEF StringsTyped
  <2>5. Reads(x, text, heap', leaked')
    BY <2>1, <2>2 DEF Reads
  <2>6. HoldersRead' /\ RecordsAreFiled' /\ AnswersAreFiled'
    BY <1>0, <1>2, <2>2, <2>5, HoldersStay, RegistryStays
  <2>7. str[h].prefix = "none"
    BY <1>0, MadeFacts
  <2>8. ASSUME NEW a \in DOMAIN heap
        PROVE  Counted(heap'[a], a, leaked', str')
    BY <1>0, <1>2, <2>2, <2>3, <2>7, CountStays
  <2>. HIDE DEF x
  <2>9. Counted(b, Len(heap) + 1, leaked', str')
    <3>. DEFINE n == Len(heap) + 1
    <3>0. str \in [Holders -> Strs] /\ n \notin DOMAIN heap
      BY <2>2 DEF StringsTyped
    <3>. HIDE DEF n
    <3>1. Users(str, "shared", n) = {} /\ Users(str, "freeing", n) = {}
      BY <3>0, HeldFacts, MadeFacts DEF Users
    <3>2. Users(str', "shared", n) = {h} /\ Users(str', "freeing", n) = {}
      <4>1. str' = [str EXCEPT ![h] = x] /\ x.prefix = "shared" /\ x.at = n
        BY <1>2, <2>3 DEF x, n
      <4>2. Users(str', "shared", n) = Users(str, "shared", n) \cup {h}
        BY <3>0, <4>1 DEF Users
      <4>3. Users(str', "freeing", n) = Users(str, "freeing", n) \ {h}
        BY <3>0, <4>1 DEF Users
      <4>. QED
        BY <3>1, <4>2, <4>3
    <3>3. n \notin leaked'
      BY <1>0, <3>0 DEF StringsTyped
    <3>. QED
      BY <2>1, <3>2, <3>3, FS_Singleton DEF Counted, n
  <2>10. HeapIsCounted'
    BY <2>2, <2>8, <2>9 DEF HeapIsCounted
  <2>. QED
    BY <2>4, <2>6, <2>10 DEF StringsSound
<1>3. CASE MakeShared(h, text)
  BY <1>1, <1>2, <1>3 DEF MakeShared, Allocate
<1>4. CASE MakeStatic(h, text)
  <2>1. heap' = heap /\ str' = [str EXCEPT ![h] = IF FitsInline(text) THEN Inlined(text) ELSE Rodata(text)]
    BY <1>4 DEF MakeStatic
  <2>2. CASE FitsInline(text)
    BY <1>1, <2>1, <2>2
  <2>3. CASE ~FitsInline(text)
    <3>1. Rodata(text) # Inlined(text)
      <4>1. Rodata(text).prefix = "static" /\ Inlined(text).prefix = "inline"
        BY MadeFacts
      <4>. QED
        BY <4>1
    <3>. QED
      BY <1>1, <2>1, <2>3, <3>1
  <2>. QED
    BY <2>2, <2>3
<1>. QED
  BY <1>3, <1>4

(* A block with another count, or freed.                                   *)
LEMMA BlockFacts ==
  ASSUME StringsTyped, NEW a \in DOMAIN heap, NEW n \in Nat
  PROVE  /\ [heap[a] EXCEPT !.count = n] \in Block
         /\ [heap[a] EXCEPT !.count = n].text = heap[a].text
         /\ [heap[a] EXCEPT !.count = n].count = n
         /\ [heap[a] EXCEPT !.count = n].live = heap[a].live
         /\ [heap[a] EXCEPT !.live = FALSE] \in Block
         /\ [heap[a] EXCEPT !.live = FALSE].text = heap[a].text
         /\ [heap[a] EXCEPT !.live = FALSE].count = heap[a].count
         /\ ~[heap[a] EXCEPT !.live = FALSE].live
         /\ heap[a].count \in Nat /\ heap[a].text \in Texts
<1>1. heap[a] \in Block
  BY HeapFacts
<1>2. heap[a].count \in Nat /\ heap[a].text \in Texts
  BY <1>1 DEF Block
<1>3. /\ [heap[a] EXCEPT !.count = n] \in Block
      /\ [heap[a] EXCEPT !.count = n].text = heap[a].text
      /\ [heap[a] EXCEPT !.count = n].count = n
      /\ [heap[a] EXCEPT !.count = n].live = heap[a].live
  BY <1>1 DEF Block
<1>4. /\ [heap[a] EXCEPT !.live = FALSE] \in Block
      /\ [heap[a] EXCEPT !.live = FALSE].text = heap[a].text
      /\ [heap[a] EXCEPT !.live = FALSE].count = heap[a].count
      /\ ~[heap[a] EXCEPT !.live = FALSE].live
  BY <1>1 DEF Block
<1>. QED
  BY <1>2, <1>3, <1>4

(* The step touches no block but t ...                                     *)
Untouched(h, x, t) ==
  \A a \in DOMAIN heap \ {t} :
    /\ heap'[a] = heap[a] /\ (a \in leaked <=> a \in leaked')
    /\ x.prefix \in {"shared", "freeing"} => x.at # a
    /\ str[h].prefix \in {"shared", "freeing"} => str[h].at # a

(* ... and then it is the count of t that has to be shown.                 *)
LEMMA HeldChanges ==
  ASSUME StringsSound, NEW h \in Holders, NEW x \in Strs, NEW g \in Texts \cup {<<>>},
         str' = [str EXCEPT ![h] = x], given' = [given EXCEPT ![h] = g],
         heap' \in Seq(Block), Grown(heap, heap'), DOMAIN heap' = DOMAIN heap,
         leaked \subseteq leaked', leaked' \subseteq DOMAIN heap,
         UNCHANGED <<byId, byKey, asking, answers>>, Reads(x, g, heap', leaked'),
         NEW t, Untouched(h, x, t), t \in DOMAIN heap => Counted(heap'[t], t, leaked', str')
  PROVE  StringsSound'
<1>1. StringsTyped'
  BY DEF StringsSound, StringsTyped
<1>2. HoldersRead' /\ RecordsAreFiled' /\ AnswersAreFiled'
  BY HoldersStay, RegistryStays
<1>3. HeapIsCounted'
  <2>1. ASSUME NEW a \in DOMAIN heap, a # t PROVE Counted(heap'[a], a, leaked', str')
    BY <2>1, CountStays DEF Untouched
  <2>. QED
    BY <2>1 DEF HeapIsCounted
<1>. QED
  BY <1>1, <1>2, <1>3 DEF StringsSound

(* ... a clone, ...                                                        *)
LEMMA CloneKeeps ==
  ASSUME StringsSound, NEW h \in Holders, NEW into \in Holders, Clone(h, into)
  PROVE  StringsSound'
<1>0. StringsTyped /\ str[h] \in Strs /\ given[h] \in Texts \cup {<<>>}
  BY DEF StringsSound, StringsTyped
<1>1. /\ str[h] # Nothing /\ str[h].prefix # "freeing" /\ str[into].prefix = "none"
      /\ str' = [str EXCEPT ![into] = str[h]] /\ given' = [given EXCEPT ![into] = given[h]]
      /\ UNCHANGED <<leaked, byId, byKey, asking, answers>>
      /\ Reads(str[h], given[h], heap, leaked)
  BY HeldFacts, MadeFacts DEF Clone, StringsSound, HoldersRead
<1>2. CASE str[h].prefix # "shared"
  <2>1. heap' = heap
    BY <1>2 DEF Clone
  <2>2. \A t : Untouched(into, str[h], t)
    BY <1>1, <1>2, <2>1 DEF Untouched
  <2>3. Grown(heap, heap') /\ heap \in Seq(Block) /\ leaked \subseteq DOMAIN heap
    BY <1>0, <2>1 DEF Grown, StringsTyped
  <2>4. PICK t : t \notin DOMAIN heap
    BY <1>0, HeapFacts
  <2>. QED
    BY <1>0, <1>1, <2>1, <2>2, <2>3, <2>4, HeldChanges
<1>3. CASE str[h].prefix = "shared"
  <2>1. PICK a \in DOMAIN heap : str[h] = Heaped("shared", Len(heap[a].text), a)
        /\ given[h] = heap[a].text
    BY <1>3, HeldFacts
  <2>2. str[h].at = a
    BY <2>1, MadeFacts
  <2>. DEFINE b == [heap[a] EXCEPT !.count = heap[a].count + 1]
  <2>3. heap' = [heap EXCEPT ![a] = b]
    BY <1>3, <2>2 DEF Clone
  <2>4. /\ b \in Block /\ b.text = heap[a].text /\ b.count = heap[a].count + 1 /\ b.live = heap[a].live
        /\ heap[a].count \in Nat
    <3>1. heap[a].count \in Nat
      BY <1>0, BlockFacts
    <3>2. heap[a].count + 1 \in Nat
      BY <3>1
    <3>. QED
      BY <1>0, <3>1, <3>2, BlockFacts
  <2>. HIDE DEF b
  <2>5. /\ heap' \in Seq(Block) /\ Grown(heap, heap') /\ DOMAIN heap' = DOMAIN heap
        /\ \A k \in DOMAIN heap : heap'[k] = IF k = a THEN b ELSE heap[k]
    BY <1>0, <2>3, <2>4, HeapFacts
  <2>6. Reads(str[h], given[h], heap', leaked')
    BY <1>0, <1>1, <2>5, GrownFacts DEF StringsTyped
  <2>7. Counted(heap[a], a, leaked, str)
    BY DEF StringsSound, HeapIsCounted
  <2>8. /\ Users(str', "shared", a) = Users(str, "shared", a) \cup {into}
        /\ Users(str', "freeing", a) = Users(str, "freeing", a) \ {into}
        /\ h \in Users(str, "shared", a) /\ into \notin Users(str, "shared", a)
        /\ into \notin Users(str, "freeing", a)
    BY <1>0, <1>1, <1>3, <2>2 DEF Users, StringsTyped
  <2>9. Counted(heap'[a], a, leaked', str')
    <3>. DEFINE S == Users(str, "shared", a)
                F == Users(str, "freeing", a)
    <3>1. /\ IsFiniteSet(S) /\ Cardinality(S) \in Nat
      BY <1>0, UsersFacts DEF StringsTyped
    <3>2. Cardinality(Users(str', "shared", a)) = Cardinality(S) + 1
      BY <2>8, <3>1, FS_AddElement
    <3>3. F = {} /\ heap[a].live
      BY <2>7, <2>8 DEF Counted
    <3>4. Users(str', "freeing", a) = {} /\ Users(str', "shared", a) # {}
      BY <2>8, <3>3
    <3>5. /\ a \notin leaked => heap[a].count = Cardinality(S)
          /\ a \in leaked => heap[a].count > Cardinality(S)
      BY <2>7 DEF Counted
    <3>6. heap'[a] = b /\ leaked' = leaked
      BY <1>1, <2>5
    <3>. HIDE DEF S, F
    <3>7. b.live
      BY <2>4, <3>3, Zenon
    <3>8. /\ a \notin leaked => b.count = Cardinality(Users(str', "shared", a))
          /\ a \in leaked => b.count > Cardinality(Users(str', "shared", a))
      BY <2>4, <3>1, <3>2, <3>5
    <3>. QED
      BY <3>4, <3>6, <3>7, <3>8, Zenon DEF Counted
  <2>10. leaked \subseteq DOMAIN heap /\ leaked' = leaked
    BY <1>0, <1>1 DEF StringsTyped
  <2>11. Untouched(into, str[h], a)
    BY <1>1, <2>2, <2>5, <2>10 DEF Untouched
  <2>. DEFINE x == str[h]
              g == given[h]
  <2>12. /\ x \in Strs /\ g \in Texts \cup {<<>>} /\ Reads(x, g, heap', leaked')
         /\ str' = [str EXCEPT ![into] = x] /\ given' = [given EXCEPT ![into] = g]
         /\ Untouched(into, x, a)
    BY <1>0, <1>1, <2>6, <2>11
  <2>. HIDE DEF x, g
  <2>. QED
    BY <1>1, <2>5, <2>9, <2>10, <2>12, HeldChanges
<1>. QED
  BY <1>2, <1>3

(* ... a leak, ...                                                         *)
LEMMA LeakKeeps ==
  ASSUME StringsSound, NEW h \in Holders, Leak(h)
  PROVE  StringsSound'
<1>0. StringsTyped /\ heap \in Seq(Block) /\ str \in [Holders -> Strs]
      /\ given \in [Holders -> Texts \cup {<<>>}]
  BY DEF StringsSound, StringsTyped
<1>1. PICK a \in DOMAIN heap : str[h] = Heaped("shared", Len(heap[a].text), a) /\ given[h] = heap[a].text
  BY HeldFacts DEF Leak
<1>. DEFINE x == Heaped("static", Len(heap[a].text), a)
            g == given[h]
<1>2. /\ str' = [str EXCEPT ![h] = x] /\ given' = [given EXCEPT ![h] = g] /\ leaked' = leaked \cup {a}
      /\ heap' = heap /\ UNCHANGED <<byId, byKey, asking, answers>>
  <2>1. str' = [str EXCEPT ![h] = [str[h] EXCEPT !.prefix = "static"]]
    BY <1>0 DEF Leak
  <2>2. str[h].at = a /\ [str[h] EXCEPT !.prefix = "static"] = x
    BY <1>1, MadeFacts
  <2>. QED
    BY <1>0, <2>1, <2>2 DEF Leak
<1>3. /\ Len(heap[a].text) \in Nat /\ a \in Nat
  BY <1>0, HeapFacts, BlockFacts, TextFacts
<1>4. x \in Strs /\ x.prefix = "static" /\ x.at = a /\ str[h].prefix = "shared" /\ str[h].at = a
  BY <1>1, <1>3, StrsFacts, MadeFacts
<1>5. Reads(x, g, heap', leaked') /\ g \in Texts \cup {<<>>}
  BY <1>0, <1>1, <1>2 DEF Reads
<1>. HIDE DEF x, g
<1>6. Grown(heap, heap') /\ leaked \subseteq leaked' /\ leaked' \subseteq DOMAIN heap
      /\ DOMAIN heap' = DOMAIN heap
      /\ heap' \in Seq(Block)
  BY <1>0, <1>2 DEF Grown, StringsTyped
<1>7. Untouched(h, x, a)
  BY <1>2, <1>4 DEF Untouched
<1>8. Counted(heap'[a], a, leaked', str')
  <2>. DEFINE S == Users(str, "shared", a)
  <2>1. Users(str', "shared", a) = S \ {h} /\ h \in S
    BY <1>0, <1>2, <1>4 DEF Users
  <2>2. Users(str', "freeing", a) = {}
    BY <1>0, <1>2, <1>4, <2>1 DEF Users, StringsSound, HeapIsCounted, Counted
  <2>3. IsFiniteSet(S) /\ Cardinality(S) \in Nat
    BY <1>0, UsersFacts
  <2>4. Cardinality(Users(str', "shared", a)) = Cardinality(S) - 1
    BY <2>1, <2>3, FS_RemoveElement
  <2>5. /\ a \notin leaked => heap[a].count = Cardinality(S)
        /\ a \in leaked => heap[a].count > Cardinality(S)
        /\ heap[a].live
    BY <2>1 DEF StringsSound, HeapIsCounted, Counted
  <2>6. heap[a].count \in Nat
    BY <1>0, BlockFacts
  <2>. HIDE DEF S
  <2>7. a \in leaked' /\ heap'[a] = heap[a] /\ heap[a].count > Cardinality(Users(str', "shared", a))
    BY <1>2, <2>3, <2>4, <2>5, <2>6
  <2>. QED
    BY <2>2, <2>5, <2>7, Zenon DEF Counted
<1>. QED
  BY <1>2, <1>4, <1>5, <1>6, <1>7, <1>8, HeldChanges

(* ... a drop, ...                                                         *)
LEMMA DropKeeps ==
  ASSUME StringsSound, NEW h \in Holders, Drop(h)
  PROVE  StringsSound'
<1>0. StringsTyped /\ heap \in Seq(Block) /\ str \in [Holders -> Strs]
      /\ given \in [Holders -> Texts \cup {<<>>}]
      /\ leaked \subseteq DOMAIN heap
  BY DEF StringsSound, StringsTyped
<1>1. /\ str[h] # Nothing /\ str[h].prefix # "freeing" /\ given' = [given EXCEPT ![h] = <<>>]
      /\ UNCHANGED <<leaked, byId, byKey, asking, answers>>
  BY HeldFacts DEF Drop
<1>2. CASE str[h].prefix # "shared"
  <2>1. heap' = heap /\ str' = [str EXCEPT ![h] = Nothing]
    BY <1>2 DEF Drop
  <2>2. Nothing \in Strs /\ Nothing.prefix = "none" /\ Reads(Nothing, <<>>, heap', leaked')
    BY StrsFacts, MadeFacts DEF Reads
  <2>3. \A t : Untouched(h, Nothing, t)
    BY <1>1, <1>2, <2>1, <2>2 DEF Untouched
  <2>4. Grown(heap, heap')
    BY <2>1 DEF Grown
  <2>5. PICK t : t \notin DOMAIN heap
    BY <1>0, HeapFacts
  <2>. QED
    BY <1>0, <1>1, <2>1, <2>2, <2>3, <2>4, <2>5, HeldChanges
<1>3. CASE str[h].prefix = "shared"
  <2>1. PICK a \in DOMAIN heap : str[h] = Heaped("shared", Len(heap[a].text), a)
        /\ given[h] = heap[a].text
    BY <1>3, HeldFacts
  <2>2. str[h].at = a
    BY <2>1, MadeFacts
  <2>. DEFINE S == Users(str, "shared", a)
              F == Users(str, "freeing", a)
              c == heap[a].count
              b == [heap[a] EXCEPT !.count = c - 1]
              x == IF c <= 1 THEN Heaped("freeing", Len(heap[a].text), a) ELSE Nothing
  <2>3. /\ heap' = [heap EXCEPT ![a] = b]
        /\ str' = [str EXCEPT ![h] = IF c <= 1 THEN [str[h] EXCEPT !.prefix = "freeing"] ELSE Nothing]
    BY <1>0, <1>3, <2>2 DEF Drop
  <2>4. str' = [str EXCEPT ![h] = x]
    <3>1. [str[h] EXCEPT !.prefix = "freeing"] = Heaped("freeing", Len(heap[a].text), a)
      BY <2>1, MadeFacts
    <3>. QED
      BY <2>3, <3>1
  <2>5. /\ h \in S /\ IsFiniteSet(S) /\ Cardinality(S) \in Nat /\ c \in Nat
    <3>1. h \in S
      BY <1>3, <2>2 DEF Users
    <3>2. c \in Nat
      BY <1>0, BlockFacts
    <3>. QED
      BY <3>1, <3>2, UsersFacts
  <2>6. /\ a \notin leaked => c = Cardinality(S)
        /\ a \in leaked => c > Cardinality(S)
        /\ heap[a].live /\ F = {}
    BY <2>5 DEF StringsSound, HeapIsCounted, Counted
  <2>7. Cardinality(S \ {h}) = Cardinality(S) - 1 /\ IsFiniteSet(S \ {h})
    BY <2>5, FS_RemoveElement, FS_Subset
  <2>. HIDE DEF S
  <2>8. c \in Nat \ {0} /\ Cardinality(S) \in Nat \ {0} /\ (c <= 1 => a \notin leaked /\ S \ {h} = {})
    <3>1. Cardinality(S \ {h}) \in Nat
      BY <2>7, FS_CardinalityType
    <3>2. Cardinality(S) \in Nat \ {0} /\ c \in Nat \ {0}
      BY <2>5, <2>6, <2>7, <3>1
    <3>3. c <= 1 => a \notin leaked /\ Cardinality(S \ {h}) = 0
      BY <2>5, <2>6, <2>7, <3>2
    <3>. QED
      BY <2>7, <3>2, <3>3, FS_EmptySet
  <2>9. c > 1 /\ a \notin leaked => S \ {h} # {}
    <3>1. c > 1 /\ a \notin leaked => Cardinality(S \ {h}) # 0
      BY <2>5, <2>6, <2>7
    <3>. QED
      BY <3>1, FS_EmptySet
  <2>10. b \in Block /\ b.text = heap[a].text /\ b.count = c - 1 /\ b.live = heap[a].live
    <3>1. c - 1 \in Nat
      BY <2>8
    <3>. QED
      BY <1>0, <3>1, BlockFacts
  <2>. HIDE DEF b, c
  <2>11. /\ heap' \in Seq(Block) /\ Grown(heap, heap') /\ DOMAIN heap' = DOMAIN heap
         /\ \A k \in DOMAIN heap : heap'[k] = IF k = a THEN b ELSE heap[k]
    BY <1>0, <2>3, <2>10, HeapFacts
  <2>12. /\ x \in Strs /\ Reads(x, <<>>, heap', leaked')
         /\ (c <= 1 => x.prefix = "freeing" /\ x.at = a) /\ (~(c <= 1) => x.prefix = "none")
    <3>1. Len(heap[a].text) \in Nat /\ a \in Nat /\ heap'[a].text = heap[a].text
      BY <1>0, <2>10, <2>11, HeapFacts, BlockFacts, TextFacts
    <3>2. CASE c <= 1
      BY <2>11, <3>1, <3>2, StrsFacts, MadeFacts DEF Reads
    <3>3. CASE ~(c <= 1)
      BY <3>3, StrsFacts, MadeFacts DEF Reads
    <3>. QED
      BY <3>2, <3>3
  <2>. HIDE DEF x
  <2>13. Users(str', "shared", a) = S \ {h}
    BY <1>0, <2>4, <2>12 DEF Users, S
  <2>14. Users(str', "freeing", a) = IF c <= 1 THEN {h} ELSE {}
    <3>1. F = {}
      BY <2>6
    <3>2. \A k \in Holders : ~(str[k].prefix = "freeing" /\ str[k].at = a)
      BY <3>1 DEF F, Users
    <3>3. CASE c <= 1
      BY <1>0, <2>4, <2>12, <3>2, <3>3 DEF Users
    <3>4. CASE ~(c <= 1)
      BY <1>0, <2>4, <2>12, <3>2, <3>4 DEF Users
    <3>. QED
      BY <3>3, <3>4
  <2>15. Counted(heap'[a], a, leaked', str')
    <3>1. heap'[a] = b /\ leaked' = leaked
      BY <1>1, <2>11
    <3>2. /\ a \notin leaked => b.count = Cardinality(S \ {h})
          /\ a \in leaked => b.count > Cardinality(S \ {h})
      BY <2>5, <2>6, <2>7, <2>8, <2>10
    <3>3. b.live
      BY <2>6, <2>10, Zenon
    <3>4. a \in leaked \/ S \ {h} # {} \/ Users(str', "freeing", a) # {}
      BY <2>8, <2>9, <2>14
    <3>5. /\ \A f, g \in Users(str', "freeing", a) : f = g
          /\ Users(str', "freeing", a) # {} => S \ {h} = {} /\ a \notin leaked
      BY <2>8, <2>14
    <3>. QED
      BY <2>13, <3>1, <3>2, <3>3, <3>4, <3>5, Zenon DEF Counted
  <2>16. Untouched(h, x, a)
    BY <1>1, <1>3, <2>2, <2>11, <2>12 DEF Untouched
  <2>. QED
    BY <1>0, <1>1, <2>4, <2>11, <2>12, <2>15, <2>16, HeldChanges
<1>. QED
  BY <1>2, <1>3

(* ... and the free after the last drop.                                   *)
LEMMA DeallocKeeps ==
  ASSUME StringsSound, NEW h \in Holders, Dealloc(h)
  PROVE  StringsSound'
<1>0. StringsTyped /\ heap \in Seq(Block) /\ str \in [Holders -> Strs]
      /\ given \in [Holders -> Texts \cup {<<>>}]
      /\ leaked \subseteq DOMAIN heap /\ str[h].prefix = "freeing"
      /\ UNCHANGED <<leaked, byId, byKey, asking, answers>>
  BY DEF StringsSound, StringsTyped, Dealloc
<1>1. PICK a \in DOMAIN heap : str[h] = Heaped("freeing", Len(heap[a].text), a) /\ given[h] = <<>>
  BY <1>0, HeldFacts
<1>2. str[h].at = a
  BY <1>1, MadeFacts
<1>. DEFINE b == [heap[a] EXCEPT !.live = FALSE]
<1>3. heap' = [heap EXCEPT ![a] = b] /\ str' = [str EXCEPT ![h] = Nothing]
      /\ given' = [given EXCEPT ![h] = <<>>]
  BY <1>0, <1>1, <1>2 DEF Dealloc
<1>4. b \in Block /\ b.text = heap[a].text /\ b.count = heap[a].count /\ ~b.live
  BY <1>0, BlockFacts
<1>. HIDE DEF b
<1>5. /\ heap' \in Seq(Block) /\ Grown(heap, heap') /\ DOMAIN heap' = DOMAIN heap
      /\ \A k \in DOMAIN heap : heap'[k] = IF k = a THEN b ELSE heap[k]
  BY <1>0, <1>3, <1>4, HeapFacts
<1>6. Nothing \in Strs /\ Nothing.prefix = "none" /\ Reads(Nothing, <<>>, heap', leaked')
  BY StrsFacts, MadeFacts DEF Reads
<1>7. h \in Users(str, "freeing", a)
  BY <1>0, <1>2 DEF Users
<1>8. /\ \A f \in Users(str, "freeing", a) : f = h
      /\ Users(str, "shared", a) = {} /\ a \notin leaked
      /\ heap[a].count = Cardinality(Users(str, "shared", a))
  BY <1>7 DEF StringsSound, HeapIsCounted, Counted
<1>9. Users(str', "freeing", a) = {} /\ Users(str', "shared", a) = {}
  BY <1>0, <1>3, <1>6, <1>8 DEF Users
<1>10. Counted(heap'[a], a, leaked', str')
  <2>1. heap'[a] = b /\ leaked' = leaked
    BY <1>0, <1>5
  <2>. QED
    BY <1>4, <1>8, <1>9, <2>1, Zenon DEF Counted
<1>11. Untouched(h, Nothing, a)
  BY <1>0, <1>2, <1>5, <1>6 DEF Untouched
<1>. QED
  BY <1>0, <1>3, <1>5, <1>6, <1>10, <1>11, HeldChanges

(* A key nobody has is enrolled under a name that lasts.                   *)
LEMMA EnrolledFacts ==
  ASSUME StringsSound, NEW key \in KeySet, KnownAs(key) = {}, NEW name \in Strs,
         heap' \in Seq(Block), Grown(heap, heap'), leaked \subseteq leaked',
         Lasting(name, key.text, heap', leaked'),
         byId' = Append(byId, [id |-> Len(byId) + 1, venue |-> key.venue, name |-> name]),
         byKey' = byKey \cup {Len(byId) + 1},
         answers' = answers \cup {[key |-> key, id |-> Len(byId) + 1]}
  PROVE  byId' \in Seq(Inner) /\ RecordsAreFiled' /\ AnswersAreFiled'
<1>. DEFINE n == Len(byId) + 1
            new == [id |-> n, venue |-> key.venue, name |-> name]
<1>0. /\ byId \in Seq(Inner) /\ heap \in Seq(Block) /\ Len(byId) \in Nat /\ DOMAIN byId = 1 .. Len(byId)
      /\ key = Key(key.venue, key.text) /\ key.text \in Texts
      /\ key.venue \in {"binance_spot", "bitstamp"}
  BY DEF StringsSound, StringsTyped, KeySet, Key
<1>1. new \in Inner /\ new.id = n /\ new.venue = key.venue /\ new.name = name
  BY <1>0 DEF Inner
<1>2. /\ byId' \in Seq(Inner) /\ DOMAIN byId' = DOMAIN byId \cup {n} /\ byId'[n] = new
      /\ \A i \in DOMAIN byId : byId'[i] = byId[i] /\ i # n
  <2>. HIDE DEF new
  <2>. QED
    BY <1>0, <1>1 DEF new
<1>. HIDE DEF n, new
<1>3. TextOf(name, heap') = key.text
  <2>1. CASE name = Inlined(key.text) /\ FitsInline(key.text)
    BY <1>0, <2>1, TextOfFacts
  <2>2. ASSUME NEW a \in DOMAIN heap', name = Heaped("static", Len(key.text), a), heap'[a].text = key.text
        PROVE  TextOf(name, heap') = key.text
    <3>1. a # 0
      OBVIOUS
    <3>. QED
      BY <1>0, <2>2, <3>1, TextOfFacts
  <2>. QED
    BY <2>1, <2>2 DEF Lasting
<1>4. \A i \in DOMAIN byId : /\ Filed(byId[i], i, heap', leaked')
                             /\ TextOf(byId[i].name, heap') = TextOf(byId[i].name, heap)
  BY <1>0, GrownFacts DEF StringsSound, RecordsAreFiled
<1>5. Filed(new, n, heap', leaked')
  BY <1>0, <1>1 DEF Filed
<1>6. \A i \in DOMAIN byId : byId[i].venue # key.venue \/ TextOf(byId[i].name, heap) # key.text
  <2>1. \A i \in DOMAIN byId : Key(byId[i].venue, TextOf(byId[i].name, heap)) # key
    BY AsStrIsTextOf DEF KnownAs, StringsSound, RecordsAreFiled
  <2>. QED
    BY <1>0, <2>1
<1>7. RecordsAreFiled'
  <2>1. byKey' = DOMAIN byId'
    BY <1>2 DEF StringsSound, RecordsAreFiled, n
  <2>2. \A i \in DOMAIN byId' : Filed(byId'[i], i, heap', leaked')
    BY <1>2, <1>4, <1>5
  <2>3. ASSUME NEW i \in DOMAIN byId', NEW j \in DOMAIN byId', byId'[i].venue = byId'[j].venue,
               TextOf(byId'[i].name, heap') = TextOf(byId'[j].name, heap')
        PROVE  i = j
    <3>1. CASE i \in DOMAIN byId /\ j \in DOMAIN byId
      BY <1>2, <1>4, <2>3, <3>1 DEF StringsSound, RecordsAreFiled
    <3>2. CASE i \in DOMAIN byId /\ j = n
      BY <1>1, <1>2, <1>3, <1>4, <1>6, <2>3, <3>2
    <3>3. CASE i = n /\ j \in DOMAIN byId
      BY <1>1, <1>2, <1>3, <1>4, <1>6, <2>3, <3>3
    <3>. QED
      BY <1>2, <3>1, <3>2, <3>3
  <2>. QED
    BY <2>1, <2>2, <2>3 DEF RecordsAreFiled
<1>8. AnswersAreFiled'
  <2>. SUFFICES ASSUME NEW a \in answers'
                PROVE  /\ a.id \in DOMAIN byId'
                       /\ a.key = Key(byId'[a.id].venue, TextOf(byId'[a.id].name, heap'))
    BY DEF AnswersAreFiled
  <2>1. CASE a \in answers
    <3>1. a.id \in DOMAIN byId /\ a.key = Key(byId[a.id].venue, TextOf(byId[a.id].name, heap))
      BY <2>1 DEF StringsSound, AnswersAreFiled
    <3>. QED
      BY <1>2, <1>4, <3>1
  <2>2. CASE a = [key |-> key, id |-> n]
    BY <1>0, <1>1, <1>2, <1>3, <2>2
  <2>. QED
    BY <2>1, <2>2 DEF n
<1>. QED
  BY <1>2, <1>7, <1>8

(* The steps of a registrar keep it: what it finds ...                     *)
LEMMA InternReadKeeps ==
  ASSUME StringsSound, NEW r \in Registrars, NEW v \in {"binance_spot", "bitstamp"}, NEW text \in Texts,
         InternRead(r, v, text)
  PROVE  StringsSound'
<1>. DEFINE key == Key(v, text)
<1>1. key \in KeySet
  BY DEF Key, KeySet
<1>2. StringsTyped'
  BY <1>1 DEF InternRead, StringsSound, StringsTyped
<1>3. HoldersRead' /\ HeapIsCounted' /\ RecordsAreFiled'
  BY DEF InternRead, StringsSound, HoldersRead, HeapIsCounted, RecordsAreFiled
<1>4. AnswersAreFiled'
  <2>1. UNCHANGED <<heap, byId>>
    BY DEF InternRead
  <2>2. CASE answers' = answers
    BY <2>1, <2>2 DEF StringsSound, AnswersAreFiled
  <2>3. ASSUME NEW i \in KnownAs(key), answers' = answers \cup {[key |-> key, id |-> i]}
        PROVE  AnswersAreFiled'
    <3>1. i \in DOMAIN byId /\ key = Key(byId[i].venue, TextOf(byId[i].name, heap))
      BY AsStrIsTextOf DEF KnownAs, StringsSound, RecordsAreFiled
    <3>. HIDE DEF key
    <3>. QED
      BY <2>1, <2>3, <3>1 DEF StringsSound, AnswersAreFiled
  <2>. QED
    BY <2>2, <2>3 DEF InternRead, Answered
<1>. QED
  BY <1>2, <1>3, <1>4 DEF StringsSound

(* ... and what it looks for again under the write lock.                   *)
LEMMA InternWriteKeeps ==
  ASSUME StringsSound, NEW r \in Registrars, InternWrite(r)
  PROVE  StringsSound'
<1>. DEFINE key == asking[r]
<1>0. /\ StringsTyped /\ heap \in Seq(Block) /\ key \in KeySet /\ UNCHANGED <<str, given>>
      /\ asking' \in [Registrars -> {Nothing} \cup KeySet]
  BY DEF StringsSound, StringsTyped, InternWrite
<1>1. ASSUME NEW i \in KnownAs(key), answers' = answers \cup {[key |-> key, id |-> i]},
             UNCHANGED <<heap, leaked, byId, byKey>>
      PROVE  StringsSound'
  <2>1. StringsTyped' /\ HoldersRead' /\ HeapIsCounted' /\ RecordsAreFiled'
    BY <1>0, <1>1 DEF StringsSound, StringsTyped, HoldersRead, HeapIsCounted, RecordsAreFiled
  <2>2. i \in DOMAIN byId /\ key = Key(byId[i].venue, TextOf(byId[i].name, heap))
    BY AsStrIsTextOf DEF KnownAs, StringsSound, RecordsAreFiled
  <2>. HIDE DEF key
  <2>3. AnswersAreFiled'
    BY <1>1, <2>2 DEF StringsSound, AnswersAreFiled
  <2>. QED
    BY <2>1, <2>3 DEF StringsSound
<1>2. ASSUME KnownAs(key) = {}, NewInner(key)
      PROVE  StringsSound'
  <2>0. key.text \in Texts /\ Len(key.text) \in Nat
    BY <1>0, TextFacts DEF KeySet
  <2>. HIDE DEF key
  <2>1. CASE /\ FitsInline(key.text) /\ UNCHANGED <<heap, leaked>>
             /\ byId' = Append(byId, [id |-> Len(byId) + 1, venue |-> key.venue, name |-> Inlined(key.text)])
    <3>1. Inlined(key.text) \in Strs /\ Lasting(Inlined(key.text), key.text, heap', leaked')
      BY <2>0, <2>1, StrsFacts DEF Lasting
    <3>2. Grown(heap, heap') /\ heap' \in Seq(Block) /\ leaked \subseteq leaked'
      BY <1>0, <2>1 DEF Grown
    <3>3. byId' \in Seq(Inner) /\ RecordsAreFiled' /\ AnswersAreFiled'
      BY <1>0, <1>2, <2>1, <3>1, <3>2, EnrolledFacts DEF NewInner, Answered
    <3>4. StringsTyped' /\ HoldersRead' /\ HeapIsCounted'
      BY <1>0, <2>1, <3>3 DEF StringsSound, StringsTyped, HoldersRead, HeapIsCounted
    <3>. QED
      BY <3>3, <3>4 DEF StringsSound
  <2>2. CASE /\ Allocate(key.text) /\ leaked' = leaked \cup {Len(heap) + 1}
             /\ byId' = Append(byId, [id |-> Len(byId) + 1, venue |-> key.venue,
                                      name |-> Heaped("static", Len(key.text), Len(heap) + 1)])
    <3>. DEFINE b == [text |-> key.text, count |-> 1, live |-> TRUE]
                n == Len(heap) + 1
    <3>1. b \in Block /\ b.text = key.text /\ b.count = 1 /\ b.live
      BY <2>0 DEF Block
    <3>2. heap' = Append(heap, b)
      BY <2>2 DEF Allocate
    <3>. HIDE DEF b
    <3>3. /\ heap' \in Seq(Block) /\ Grown(heap, heap') /\ heap'[n] = b
          /\ DOMAIN heap' = DOMAIN heap \cup {n} /\ \A a \in DOMAIN heap : heap'[a] = heap[a] /\ a # n
          /\ n \notin DOMAIN heap /\ n \in Nat
      BY <1>0, <3>1, <3>2, HeapFacts
    <3>. HIDE DEF n
    <3>4. leaked' = leaked \cup {n} /\ leaked \subseteq DOMAIN heap
      BY <1>0, <2>2 DEF n, StringsTyped
    <3>5. Heaped("static", Len(key.text), n) \in Strs
          /\ Lasting(Heaped("static", Len(key.text), n), key.text, heap', leaked')
      BY <2>0, <3>1, <3>3, <3>4, StrsFacts DEF Lasting
    <3>6. byId' \in Seq(Inner) /\ RecordsAreFiled' /\ AnswersAreFiled'
      BY <1>0, <1>2, <2>2, <3>3, <3>4, <3>5, EnrolledFacts DEF NewInner, Answered, n
    <3>7. StringsTyped'
      BY <1>0, <3>3, <3>4, <3>6 DEF StringsTyped
    <3>8. HoldersRead'
      BY <1>0, <3>3, <3>4, GrownFacts DEF StringsSound, HoldersRead
    <3>9. Counted(b, n, leaked', str)
      <4>1. Users(str, "shared", n) = {} /\ Users(str, "freeing", n) = {}
        BY <1>0, <3>3, HeldFacts, MadeFacts DEF Users
      <4>2. Cardinality({}) = 0 /\ n \in leaked'
        BY <3>4, FS_EmptySet
      <4>3. b.count > Cardinality(Users(str, "shared", n))
        BY <3>1, <4>1, <4>2
      <4>. QED
        BY <3>1, <4>1, <4>2, <4>3, Zenon DEF Counted
    <3>10. ASSUME NEW a \in DOMAIN heap PROVE Counted(heap'[a], a, leaked', str)
      <4>1. Counted(heap[a], a, leaked, str) /\ (a \in leaked <=> a \in leaked')
        BY <3>3, <3>4 DEF StringsSound, HeapIsCounted
      <4>. QED
        BY <3>3, <4>1 DEF Counted
    <3>11. HeapIsCounted'
      BY <1>0, <3>3, <3>9, <3>10 DEF HeapIsCounted
    <3>. QED
      BY <3>6, <3>7, <3>8, <3>11 DEF StringsSound
  <2>. QED
    BY <1>2, <2>1, <2>2 DEF NewInner
<1>. QED
  BY <1>1, <1>2 DEF InternWrite, Answered

(* Every step keeps the invariant.                                         *)
LEMMA StringsKeep ==
  StringsSound /\ [HoldersNext \/ RegistrarsNext]_stringVars => StringsSound'
<1>. SUFFICES ASSUME StringsSound, [HoldersNext \/ RegistrarsNext]_stringVars PROVE StringsSound'
  OBVIOUS
<1>1. CASE UNCHANGED stringVars
  BY <1>1 DEF stringVars, StringsSound, StringsTyped, HoldersRead, HeapIsCounted,
             RecordsAreFiled, AnswersAreFiled
<1>2. CASE HoldersNext
  BY <1>2, MakeKeeps, CloneKeeps, LeakKeeps, DropKeeps, DeallocKeeps DEF HoldersNext
<1>3. CASE RegistrarsNext
  BY <1>3, InternReadKeeps, InternWriteKeeps DEF RegistrarsNext
<1>. QED
  BY <1>1, <1>2, <1>3

(* It holds of any number of holders and registrars, of any texts, at work *)
(* on one heap: more than the runs check, where holders and registrars do  *)
(* not meet.                                                               *)
THEOREM StringsInvariant ==
  Spec => []StringsSound
<1>1. Init => StringsSound
  BY InitOfParts, StringsBegin
<1>2. StringsSound /\ [Next]_structureVars => StringsSound'
  <2>. SUFFICES ASSUME StringsSound, [Next]_structureVars PROVE StringsSound'
    OBVIOUS
  <2>1. [HoldersNext \/ RegistrarsNext]_stringVars
    BY StepsOfParts DEF structureVars
  <2>. QED
    BY <2>1, StringsKeep
<1>. QED
  BY <1>1, <1>2, PTL DEF Spec

(* A string reads what it was made of for as long as it is held or on      *)
(* record, its memory is there exactly as long as somebody can reach it,   *)
(* and no string looks like None.                                          *)
THEOREM StringsStayWhole ==
  Spec => []StringsAreWhole
<1>1. StringsSound => StringsAreWhole
  <2>. SUFFICES ASSUME StringsSound PROVE StringsAreWhole
    OBVIOUS
  <2>0. StringsTyped /\ heap \in Seq(Block)
    BY DEF StringsSound, StringsTyped
  <2>1. ASSUME NEW h \in Held
        PROVE  /\ OnHeap(str[h]) => heap[str[h].at].live
               /\ AsStr(str[h]) = given[h]
               /\ str[h].prefix = "inline" => \E i \in Word .. 2 * Word - 1 : str[h].raw[i] # 0
    <3>0. h \in Holders /\ str[h].prefix \in {"inline", "shared", "static"}
      BY DEF Held
    <3>1. CASE str[h] = Inlined(given[h]) /\ given[h] \in Texts /\ FitsInline(given[h])
      <4>1. str[h].prefix = "inline" /\ AsStr(str[h]) = given[h]
        BY <3>1, MadeFacts, TextOfFacts, AsStrIsTextOf
      <4>2. str[h].raw = Padded(given[h])
        BY <3>1 DEF Inlined
      <4>. QED
        BY <3>1, <4>1, <4>2 DEF OnHeap, FitsInline
    <3>2. CASE str[h] = Rodata(given[h]) /\ given[h] \in Texts
      BY <3>2, MadeFacts, TextOfFacts, AsStrIsTextOf DEF OnHeap
    <3>3. ASSUME NEW a \in DOMAIN heap, NEW p \in {"shared", "static"},
                 str[h] = Heaped(p, Len(given[h]), a), heap[a].text = given[h], p = "static" => a \in leaked
          PROVE  /\ OnHeap(str[h]) => heap[str[h].at].live
                 /\ AsStr(str[h]) = given[h]
                 /\ str[h].prefix = "inline" => \E i \in Word .. 2 * Word - 1 : str[h].raw[i] # 0
      <4>1. str[h].prefix = p /\ str[h].at = a /\ p # "inline" /\ a # 0 /\ heap[a].text \in Texts
        <5>1. heap[a] \in Block /\ a # 0
          BY <2>0, HeapFacts
        <5>. QED
          BY <3>3, <5>1, MadeFacts DEF Block
      <4>2. AsStr(str[h]) = given[h]
        BY <3>3, <4>1, TextOfFacts, AsStrIsTextOf
      <4>3. a \in leaked \/ Users(str, "shared", a) # {}
        BY <3>0, <3>3, <4>1 DEF Users
      <4>4. heap[a].live
        BY <4>3 DEF StringsSound, HeapIsCounted, Counted
      <4>. QED
        BY <4>1, <4>2, <4>4
    <3>. QED
      BY <3>0, <3>1, <3>2, <3>3, MadeFacts DEF StringsSound, HoldersRead, Reads
  <2>2. ASSUME NEW i \in DOMAIN byId, OnHeap(byId[i].name)
        PROVE  heap[byId[i].name.at].live
    <3>1. PICK text \in Texts : Lasting(byId[i].name, text, heap, leaked)
      BY DEF StringsSound, RecordsAreFiled, Filed
    <3>2. PICK a \in DOMAIN heap : byId[i].name = Heaped("static", Len(text), a) /\ a \in leaked
      BY <2>2, <3>1, MadeFacts DEF Lasting, OnHeap
    <3>3. byId[i].name.at = a
      BY <3>2, MadeFacts
    <3>. QED
      BY <3>2, <3>3 DEF StringsSound, HeapIsCounted, Counted
  <2>3. ASSUME NEW a \in DOMAIN heap
        PROVE  ~heap[a].live <=> (a \notin leaked /\ \A h \in Holders :
                                    ~(str[h].prefix \in {"shared", "freeing"} /\ str[h].at = a))
    <3>1. heap[a].live <=> a \in leaked \/ Users(str, "shared", a) # {} \/ Users(str, "freeing", a) # {}
      BY DEF StringsSound, HeapIsCounted, Counted
    <3>2. Users(str, "shared", a) # {} \/ Users(str, "freeing", a) # {}
            <=> \E h \in Holders : str[h].prefix \in {"shared", "freeing"} /\ str[h].at = a
      BY DEF Users
    <3>. QED
      BY <3>1, <3>2
  <2>. QED
    BY <2>1, <2>2, <2>3 DEF StringsAreWhole
<1>. QED
  BY StringsInvariant, <1>1, PTL

(* Two registrars that ask for one instrument get one handle, and a handle *)
(* keeps the name it was asked by.                                         *)
THEOREM NamesHaveOneHandle ==
  Spec => []OneHandlePerName
<1>1. StringsSound => OneHandlePerName
  <2>. SUFFICES ASSUME StringsSound PROVE OneHandlePerName
    OBVIOUS
  <2>1. \A a \in answers : a.id \in DOMAIN byId /\ KeyOf(byId[a.id]) = a.key
    BY AsStrIsTextOf DEF StringsSound, AnswersAreFiled
  <2>2. \A i, j \in DOMAIN byId : KeyOf(byId[i]) = KeyOf(byId[j]) => i = j
    <3>. SUFFICES ASSUME NEW i \in DOMAIN byId, NEW j \in DOMAIN byId, KeyOf(byId[i]) = KeyOf(byId[j])
                  PROVE  i = j
      OBVIOUS
    <3>1. Key(byId[i].venue, TextOf(byId[i].name, heap)) = Key(byId[j].venue, TextOf(byId[j].name, heap))
      BY AsStrIsTextOf
    <3>2. \A v, w, t, u : Key(v, t) = Key(w, u) => v = w /\ t = u
      <4>1. \A v, t : Key(v, t).venue = v /\ Key(v, t).text = t
        BY DEF Key
      <4>. QED
        BY <4>1
    <3>. QED
      BY <3>1, <3>2 DEF StringsSound, RecordsAreFiled
  <2>3. \A i \in DOMAIN byId : byId[i].id = i
    BY DEF StringsSound, RecordsAreFiled, Filed
  <2>. QED
    BY <2>1, <2>2, <2>3 DEF OneHandlePerName, ById
<1>. QED
  BY StringsInvariant, <1>1, PTL

-----------------------------------------------------------------------------
(* The client *)

(* A venue with a symbol of it, ...                                        *)
Pair == [venue : Venues2, symbol : Symbols]

(* ... the pairs of a book, and ...                                        *)
Books == UNION {[1 .. k -> Pair] : k \in Nat}

(* ... a task of the client.                                               *)
Task == [idx : Nat, asked : Books, at : {"connecting", "streaming", "ended"}, book : Books]

(* What a server serves: books, and no pair in two places.                 *)
Carries(s) ==
  /\ s.all \in Numbering /\ DOMAIN s.instruments \subseteq Nat
  /\ \A i \in DOMAIN s.instruments : s.instruments[i] \in Books
  /\ \A i, j \in DOMAIN s.instruments :
       \A m \in DOMAIN s.instruments[i], n \in DOMAIN s.instruments[j] :
         s.instruments[i][m] = s.instruments[j][n] => i = j /\ m = n

(* The inductive invariant of a client: what it lists are books of some    *)
(* server, and a task that streams does so of the book it asked for.       *)
ClientSound ==
  /\ server.up => Carries(server)
  /\ \A i \in DOMAIN listing.instruments : i \in Nat /\ Named(listing, i) \in Books
  /\ tasks \in [DOMAIN tasks -> Task]
  /\ \A t \in DOMAIN tasks : tasks[t].at = "streaming" => tasks[t].book = tasks[t].asked

(* A venue is told by its tag.                                             *)
LEMMA ClaimedFacts ==
  ASSUME NEW pair \in Pair
  PROVE  Claimed(pair) = pair
BY DEF Pair, Claimed, ParseVenue, Venues2

(* A catalogue that is accepted is carried, one that is not keeps the      *)
(* server down.                                                            *)
LEMMA LoadFacts ==
  ASSUME NEW file \in Files, NEW numbering \in Numbering
  PROVE  IF Accepts(file) THEN Load(file, numbering).up /\ Carries(Load(file, numbering))
         ELSE ~Load(file, numbering).up
<1>1. ASSUME ~Accepts(file) PROVE ~Load(file, numbering).up
  BY <1>1 DEF Load, Down
<1>2. ASSUME Accepts(file) PROVE Load(file, numbering).up /\ Carries(Load(file, numbering))
  <2>. DEFINE s == Load(file, numbering)
              N == Cardinality(Venues2)
  <2>1. /\ s.up /\ s.all = numbering
        /\ s.instruments = [i \in DOMAIN file |-> [n \in DOMAIN file[i] |-> Claimed(file[i][n])]]
    BY <1>2 DEF Load
  <2>2. N \in Nat
    <3>1. Venues2 = {"binance_spot"} \cup {"bitstamp"}
      BY DEF Venues2
    <3>2. IsFiniteSet({"binance_spot"}) /\ IsFiniteSet({"bitstamp"})
      BY FS_Singleton
    <3>3. IsFiniteSet(Venues2)
      BY <3>1, <3>2, FS_Union
    <3>. QED
      BY <3>3, FS_CardinalityType
  <2>. HIDE DEF N
  <2>3. \A i \in DOMAIN file : \E k \in 0 .. N : file[i] \in [1 .. k -> RawPairs]
    <3>1. PICK k \in 0 .. MaxEntries : file \in [1 .. k -> UpTo(RawPairs, N)]
      BY DEF Files, UpTo, N
    <3>2. \A i \in DOMAIN file : file[i] \in UpTo(RawPairs, N)
      BY <3>1
    <3>. QED
      BY <3>2 DEF UpTo
  <2>4. ASSUME NEW i \in DOMAIN file, NEW m \in DOMAIN file[i]
        PROVE  <<i, m>> \in Places(file) /\ PairAt(file, <<i, m>>) = Claimed(file[i][m])
               /\ Claimed(file[i][m]) \in Pair
    <3>1. m \in 1 .. N /\ file[i][m] \in RawPairs
      BY <2>2, <2>3, <2>4
    <3>2. <<i, m>> \in Places(file)
      BY <2>4, <3>1 DEF Places, N
    <3>3. PairAt(file, <<i, m>>) = Claimed(file[i][m])
      BY DEF PairAt
    <3>4. Claimed(file[i][m]).venue \in Venues2
      BY <1>2, <3>2, <3>3 DEF Accepts, KnownVenues
    <3>. QED
      BY <3>1, <3>2, <3>3, <3>4 DEF Claimed, Pair, RawPairs
  <2>. HIDE DEF s
  <2>5. ASSUME NEW i \in DOMAIN s.instruments
        PROVE  s.instruments[i] \in Books
    <3>1. PICK k \in 0 .. N : file[i] \in [1 .. k -> RawPairs]
      BY <2>1, <2>3
    <3>2. i \in DOMAIN file /\ s.instruments[i] = [n \in DOMAIN file[i] |-> Claimed(file[i][n])]
          /\ DOMAIN file[i] = 1 .. k
      BY <2>1, <3>1
    <3>3. s.instruments[i] \in [1 .. k -> Pair]
      <4>1. \A n \in DOMAIN file[i] : Claimed(file[i][n]) \in Pair
        BY <2>4, <3>2
      <4>. QED
        BY <3>2, <4>1
    <3>. QED
      BY <2>2, <3>1, <3>3 DEF Books
  <2>6. ASSUME NEW i \in DOMAIN s.instruments, NEW j \in DOMAIN s.instruments,
               NEW m \in DOMAIN s.instruments[i], NEW n \in DOMAIN s.instruments[j],
               s.instruments[i][m] = s.instruments[j][n]
        PROVE  i = j /\ m = n
    <3>1. PairAt(file, <<i, m>>) = PairAt(file, <<j, n>>) /\ <<i, m>> \in Places(file)
          /\ <<j, n>> \in Places(file)
      BY <2>1, <2>4, <2>6
    <3>2. <<i, m>> = <<j, n>>
      BY <1>2, <3>1 DEF Accepts, OnePairOnce
    <3>. QED
      BY <3>2
  <2>. QED
    <3>1. \E k \in Nat : DOMAIN file = 1 .. k
      BY DEF Files, UpTo
    <3>. QED
      BY <2>1, <2>5, <2>6, <3>1 DEF Carries, s
<1>. QED
  BY <1>1, <1>2

(* What is listed are books.                                               *)
LEMMA EncodeFacts ==
  ASSUME NEW s, Carries(s), NEW i \in DOMAIN Encode(s).instruments
  PROVE  i \in Nat /\ Named(Encode(s), i) \in Books
<1>1. i \in DOMAIN s.instruments /\ s.instruments[i] \in Books /\ s.all \in Numbering
  BY DEF Encode, Carries
<1>2. PICK k \in Nat : s.instruments[i] \in [1 .. k -> Pair]
  BY <1>1 DEF Books
<1>3. Named(Encode(s), i) = [n \in 1 .. k |-> [venue |-> s.all[IdxOf(s.all, s.instruments[i][n].venue)],
                                               symbol |-> s.instruments[i][n].symbol]]
  BY <1>1, <1>2 DEF Named, Encode
<1>4. \A v \in Venues2 : s.all[IdxOf(s.all, v)] = v
  <2>. SUFFICES ASSUME NEW v \in Venues2 PROVE s.all[IdxOf(s.all, v)] = v
    OBVIOUS
  <2>1. \E n \in DOMAIN s.all : s.all[n] = v
    BY <1>1 DEF Numbering, Venues2
  <2>. QED
    BY <2>1 DEF IdxOf
<1>5. Named(Encode(s), i) \in [1 .. k -> Pair]
  BY <1>2, <1>3, <1>4 DEF Pair
<1>. QED
  BY <1>1, <1>5 DEF Books, Carries

(* It holds at first.                                                      *)
LEMMA ClientBegins ==
  ClientInit => ClientSound
<1>. SUFFICES ASSUME ClientInit PROVE ClientSound
  OBVIOUS
<1>1. server.up => Carries(server)
  BY LoadFacts DEF ClientInit
<1>2. \A i \in DOMAIN listing.instruments : i \in Nat /\ Named(listing, i) \in Books
  BY <1>1, EncodeFacts DEF ClientInit
<1>3. /\ tasks \in [DOMAIN tasks -> Task]
      /\ \A t \in DOMAIN tasks : tasks[t].at = "streaming" => tasks[t].book = tasks[t].asked
  BY DEF ClientInit
<1>. QED
  BY <1>1, <1>2, <1>3 DEF ClientSound

(* Pairs that match one by one are the same book.                          *)
LEMMA BooksAreEqual ==
  ASSUME NEW asked \in Books, NEW carried \in Books, PairsMatch(asked, carried)
  PROVE  asked = carried
<1>1. PICK k \in Nat : asked \in [1 .. k -> Pair]
  BY DEF Books
<1>2. PICK l \in Nat : carried \in [1 .. l -> Pair]
  BY DEF Books
<1>3. asked \in Seq(Pair) /\ carried \in Seq(Pair) /\ Len(asked) = k /\ Len(carried) = l
  BY <1>1, <1>2
<1>4. k = l
  BY <1>3 DEF PairsMatch
<1>5. \A n \in 1 .. k : asked[n] = carried[n]
  BY <1>1, ClaimedFacts DEF PairsMatch
<1>. QED
  BY <1>1, <1>2, <1>4, <1>5

(* What becomes of a task.                                                 *)
LEMMA TaskFacts ==
  ASSUME NEW task \in Task
  PROVE  /\ [task EXCEPT !.at = "ended"] \in Task /\ [task EXCEPT !.at = "ended"].at = "ended"
         /\ \A book \in Books :
              LET u == [task EXCEPT !.at = "streaming", !.book = book]
              IN  u \in Task /\ u.asked = task.asked /\ u.book = book
BY DEF Task

(* A step that leaves the server and the listing keeps the invariant by    *)
(* its tasks, ...                                                          *)
LEMMA ServerStays ==
  ASSUME ClientSound, UNCHANGED <<server, listing>>, tasks' \in [DOMAIN tasks' -> Task],
         \A t \in DOMAIN tasks' : tasks'[t].at = "streaming" => tasks'[t].book = tasks'[t].asked
  PROVE  ClientSound'
<1>1. (server.up => Carries(server))'
  BY DEF ClientSound, Carries
<1>2. (\A i \in DOMAIN listing.instruments : i \in Nat /\ Named(listing, i) \in Books)'
  BY DEF ClientSound, Named
<1>. QED
  BY <1>1, <1>2 DEF ClientSound

(* ... and one that keeps tasks as they are, by the listing.               *)
LEMMA TasksKept ==
  ASSUME ClientSound, NEW T, T \subseteq DOMAIN tasks, tasks' = [t \in T |-> tasks[t]], UNCHANGED <<server>>,
         listing' = listing \/ (server.up /\ listing' = Encode(server))
  PROVE  ClientSound'
<1>1. (\A i \in DOMAIN listing.instruments : i \in Nat /\ Named(listing, i) \in Books)'
  <2>1. CASE listing' = listing
    BY <2>1 DEF ClientSound, Named
  <2>2. CASE server.up /\ listing' = Encode(server)
    <3>1. \A i \in DOMAIN Encode(server).instruments : i \in Nat /\ Named(Encode(server), i) \in Books
      BY <2>2, EncodeFacts DEF ClientSound
    <3>2. PICK e : e = Encode(server)
      OBVIOUS
    <3>. QED
      BY <2>2, <3>1, <3>2 DEF Named
  <2>. QED
    BY <2>1, <2>2
<1>2. /\ tasks' \in [DOMAIN tasks' -> Task]
      /\ \A t \in DOMAIN tasks' : tasks'[t].at = "streaming" => tasks'[t].book = tasks'[t].asked
  BY DEF ClientSound
<1>. QED
  <2>1. (server.up => Carries(server))'
    BY DEF ClientSound, Carries
  <2>. QED
    BY <1>1, <1>2, <2>1 DEF ClientSound

(* Its steps keep the invariant: the server starts with another catalogue, *)
(* ...                                                                     *)
LEMMA RestartKeeps ==
  ASSUME ClientSound, server.up, NEW next \in Startable, Restart(next)
  PROVE  ClientSound'
<1>1. server' = next /\ UNCHANGED listing
      /\ tasks' = [t \in DOMAIN tasks |-> [tasks[t] EXCEPT !.at = "ended"]]
  BY DEF Restart
<1>2. Carries(next)
  BY LoadFacts DEF Startable
<1>3. /\ tasks' \in [DOMAIN tasks' -> Task]
      /\ \A t \in DOMAIN tasks' : tasks'[t].at = "streaming" => tasks'[t].book = tasks'[t].asked
  BY <1>1, TaskFacts DEF ClientSound
<1>. QED
  <2>1. (server.up => Carries(server))'
    BY <1>1, <1>2 DEF Carries
  <2>2. (\A i \in DOMAIN listing.instruments : i \in Nat /\ Named(listing, i) \in Books)'
    BY <1>1 DEF ClientSound, Named
  <2>. QED
    BY <1>3, <2>1, <2>2 DEF ClientSound

(* ... the client subscribes, ...                                          *)
LEMMA DoSubKeeps ==
  ASSUME ClientSound, NEW idx \in Nat, DoSub(idx)
  PROVE  ClientSound'
<1>1. UNCHANGED <<server, listing>>
  BY DEF DoSub
<1>2. CASE idx \notin DOMAIN listing.instruments /\ tasks' = StopSubscription
  BY <1>1, <1>2, TasksKept DEF StopSubscription, Without, Running
<1>3. CASE /\ idx \in DOMAIN listing.instruments
           /\ tasks' = [t \in (Running \ {subscription}) \cup {subs'} |->
                          IF t = subs' THEN New(idx) ELSE tasks[t]]
  <2>1. New(idx) \in Task /\ New(idx).at = "connecting"
    <3>1. Named(listing, idx) \in Books
      BY <1>3 DEF ClientSound
    <3>2. <<>> \in Books
      <4>1. <<>> \in [1 .. 0 -> Pair]
        OBVIOUS
      <4>. QED
        BY <4>1 DEF Books
    <3>. QED
      BY <3>1, <3>2 DEF New, Task
  <2>2. /\ tasks' \in [DOMAIN tasks' -> Task]
        /\ \A t \in DOMAIN tasks' : tasks'[t].at = "streaming" => tasks'[t].book = tasks'[t].asked
    BY <1>3, <2>1 DEF ClientSound, Running
  <2>. QED
    BY <1>1, <2>2, ServerStays
<1>. QED
  BY <1>2, <1>3 DEF DoSub

(* ... its task is answered, breaks or reports.                            *)
LEMMA TaskKeeps ==
  ASSUME ClientSound, NEW t \in Running, Subscribed(t) \/ StreamBreaks(t) \/ Report(t)
  PROVE  ClientSound'
<1>0. t \in DOMAIN tasks /\ tasks[t] \in Task /\ tasks \in [DOMAIN tasks -> Task]
  BY DEF Running, ClientSound
<1>1. UNCHANGED <<server, listing>>
  BY DEF Subscribed, StreamBreaks, Report
<1>2. ASSUME NEW u \in Task, tasks' = [tasks EXCEPT ![t] = u], u.at = "streaming" => u.book = u.asked
      PROVE  ClientSound'
  <2>1. /\ tasks' \in [DOMAIN tasks' -> Task]
        /\ \A k \in DOMAIN tasks' : tasks'[k].at = "streaming" => tasks'[k].book = tasks'[k].asked
    BY <1>0, <1>2 DEF ClientSound
  <2>. QED
    BY <1>1, <2>1, ServerStays
<1>3. CASE Subscribed(t)
  <2>. DEFINE idx == tasks[t].idx
  <2>1. CASE ~server.up \/ Refusal(idx, tasks[t].asked) # "none"
    <3>1. tasks' = [tasks EXCEPT ![t] = [tasks[t] EXCEPT !.at = "ended"]]
      BY <1>0, <1>3, <2>1 DEF Subscribed
    <3>. QED
      BY <1>0, <1>2, <3>1, TaskFacts
  <2>2. CASE server.up /\ Refusal(idx, tasks[t].asked) = "none"
    <3>1. tasks' = [tasks EXCEPT ![t] = [tasks[t] EXCEPT !.at = "streaming", !.book = server.instruments[idx]]]
      BY <1>0, <1>3, <2>2 DEF Subscribed
    <3>2. idx \in DOMAIN server.instruments /\ PairsMatch(tasks[t].asked, server.instruments[idx])
      BY <2>2 DEF Refusal
    <3>3. server.instruments[idx] \in Books /\ tasks[t].asked \in Books
      BY <1>0, <2>2, <3>2 DEF ClientSound, Carries, Task
    <3>4. tasks[t].asked = server.instruments[idx]
      BY <3>2, <3>3, BooksAreEqual
    <3>. QED
      BY <1>0, <1>2, <3>1, <3>3, <3>4, TaskFacts
  <2>. QED
    BY <2>1, <2>2
<1>4. CASE StreamBreaks(t)
  <2>1. tasks' = [tasks EXCEPT ![t] = [tasks[t] EXCEPT !.at = "ended"]]
    BY <1>0, <1>4 DEF StreamBreaks
  <2>. QED
    BY <1>0, <1>2, <2>1, TaskFacts
<1>5. CASE Report(t)
  BY <1>1, <1>5, TasksKept DEF Report, Without, Running
<1>. QED
  BY <1>3, <1>4, <1>5

(* Every step keeps the invariant.                                         *)
LEMMA ClientKeeps ==
  ClientSound /\ [ClientNext]_clientVars => ClientSound'
<1>. SUFFICES ASSUME ClientSound, [ClientNext]_clientVars PROVE ClientSound'
  OBVIOUS
<1>0. ASSUME UNCHANGED <<server, listing, tasks>> PROVE ClientSound'
  BY <1>0, ServerStays DEF ClientSound
<1>1. CASE UNCHANGED clientVars
  BY <1>0, <1>1 DEF clientVars
<1>2. CASE HandleStreamEnded
  BY <1>0, <1>2 DEF HandleStreamEnded
<1>3. CASE DoCatalogue \/ Unsub
  <2>1. tasks' = [t \in DOMAIN tasks \ {subscription} |-> tasks[t]] /\ server' = server
        /\ (listing' = listing \/ (server.up /\ listing' = Encode(server)))
    BY <1>3 DEF DoCatalogue, Unsub, StopSubscription, Without, Running
  <2>. QED
    BY <2>1, TasksKept
<1>4. ASSUME server.up, NEW next \in Startable, Restart(next) PROVE ClientSound'
  BY <1>4, RestartKeeps
<1>5. ASSUME NEW idx \in 1 .. MaxEntries, DoSub(idx) PROVE ClientSound'
  BY <1>5, DoSubKeeps
<1>6. ASSUME NEW venue \in Spellings, NEW symbol \in Symbols, Start(venue, symbol) PROVE ClientSound'
  BY <1>6, DoSubKeeps DEF Start, ClientSound
<1>7. ASSUME NEW t \in Running, Subscribed(t) \/ StreamBreaks(t) \/ Report(t) PROVE ClientSound'
  BY <1>7, TaskKeeps
<1>. QED
  BY <1>1, <1>2, <1>3, <1>4, <1>5, <1>6, <1>7 DEF ClientNext

(* ... in the machine that has a client.                                   *)
ClientInvariant == IF machine = "client" THEN ClientSound ELSE ParkedClient

(* So it holds.                                                            *)
LEMMA ClientStays == Spec => []ClientInvariant
<1>1. Init => ClientInvariant
  BY ClientBegins DEF Init, ClientInvariant
<1>2. ClientInvariant /\ [Next]_structureVars => ClientInvariant'
  <2>. SUFFICES ASSUME ClientInvariant, [Next]_structureVars PROVE ClientInvariant'
    OBVIOUS
  <2>. USE DEF ClientInvariant
  <2>1. machine' = machine /\ (machine # "client" => UNCHANGED clientVars)
    BY DEF Next, FeedsNext, ClientsNext, structureVars
  <2>2. CASE machine = "client"
    <3>1. [ClientNext]_clientVars
      BY StepsOfParts DEF structureVars
    <3>. QED
      BY <2>1, <2>2, <3>1, ClientKeeps
  <2>3. CASE machine # "client"
    BY <2>1, <2>3 DEF ParkedClient, clientVars
  <2>. QED
    BY <2>2, <2>3
<1>. QED
  BY <1>1, <1>2, PTL DEF Spec

(* A client streams the book it picked by its name in a listing, whatever  *)
(* became of the server and its catalogue since; or not at all.            *)
THEOREM ClientsGetWhatTheyPicked ==
  Spec => []PicksWhatItNamed
<1>1. ClientSound => PicksWhatItNamed
  BY DEF ClientSound, Carries, PicksWhatItNamed, Running
<1>2. ParkedClient => PicksWhatItNamed
  BY DEF ParkedClient, Down, PicksWhatItNamed, Running
<1>3. ClientInvariant => PicksWhatItNamed
  BY <1>1, <1>2 DEF ClientInvariant
<1>. QED
  BY ClientStays, <1>3, PTL

-----------------------------------------------------------------------------
(* The snapshot fetches *)

(* What names a task, a task, and what a slot knows of its fetch.          *)
TaskName == [sym : Routed, gen : Nat]
FetchTask == [sym : Routed, gen : Nat, at : {"starting", "asking", "telling"}, told : BOOLEAN]
Boot == [gen : Nat, kept : BOOLEAN, refetches : Nat, phase : {"buffering", "waiting", "ready"}]

FetchesTyped ==
  /\ socketOf \in [Routed -> Sockets] /\ socket \in [Sockets -> {"up", "down", "gone"}]
  /\ boots \in [Routed -> Boot] /\ spawned \subseteq FetchTask
  /\ line \in Seq(TaskName) /\ inbox \in [Sockets -> Seq(TaskName)]

(* A symbol has one task to a generation.                                  *)
TasksAreOne == \A f, g \in spawned : Name(f) = Name(g) => f = g

(* One that was told to stop is of an attempt that is over; of the others, *)
(* the slot has a handle, or its connection is gone.                       *)
TaskIsOwned(f) ==
  /\ f.gen <= boots[f.sym].gen
  /\ f.told => f.gen < boots[f.sym].gen
  /\ f.told \/ Wanted(f) \/ socket[socketOf[f.sym]] = "gone"
TasksAreOwned == \A f \in spawned : TaskIsOwned(f)

(* Whoever is in the line is asking, once.                                 *)
LineIsAsking ==
  /\ \A i \in DOMAIN line : \E f \in spawned : Name(f) = line[i] /\ f.at = "asking"
  /\ \A i, j \in DOMAIN line : line[i] = line[j] => i = j

(* A connection's channel carries its own symbols' answers.                *)
InboxIsOwn ==
  \A c \in Sockets : \A i \in DOMAIN inbox[c] :
    socketOf[inbox[c][i].sym] = c /\ inbox[c][i].gen <= boots[inbox[c][i].sym].gen

(* The fetch a slot waits for runs, or its answer is in the channel.       *)
Now(s) == [sym |-> s, gen |-> boots[s].gen]
Runs(s) == \E f \in spawned : Name(f) = Now(s)
Answers(s) == {i \in DOMAIN inbox[socketOf[s]] : inbox[socketOf[s]][i] = Now(s)}
OneComes(s) ==
  /\ \A i, j \in Answers(s) : i = j
  /\ ~(Runs(s) /\ Answers(s) # {})
  /\ boots[s].kept <=> Runs(s) \/ Answers(s) # {}
OneIsComing == \A s \in Routed : socket[socketOf[s]] # "gone" => OneComes(s)

(* The inductive invariant of the fetches.                                 *)
FetchesSound == FetchesTyped /\ TasksAreOne /\ TasksAreOwned /\ LineIsAsking /\ InboxIsOwn /\ OneIsComing

(* What a task is.                                                         *)
LEMMA FetchFacts ==
  ASSUME FetchesTyped, NEW f \in spawned
  PROVE  /\ f \in FetchTask /\ f.sym \in Routed /\ f.gen \in Nat /\ f.told \in BOOLEAN
         /\ Name(f) \in TaskName /\ Name(f).sym = f.sym /\ Name(f).gen = f.gen
         /\ socketOf[f.sym] \in Sockets /\ boots[f.sym] \in Boot /\ boots[f.sym].gen \in Nat
BY DEF FetchesTyped, FetchTask, Name, TaskName, Boot

(* What is in a channel.                                                   *)
LEMMA SentFacts ==
  ASSUME FetchesTyped, NEW c \in Sockets
  PROVE  \A i \in DOMAIN inbox[c] :
           inbox[c][i] \in TaskName /\ inbox[c][i].sym \in Routed /\ inbox[c][i].gen \in Nat
<1>1. inbox[c] \in Seq(TaskName)
  BY DEF FetchesTyped
<1>2. \A i \in DOMAIN inbox[c] : inbox[c][i] \in TaskName
  BY <1>1
<1>. QED
  BY <1>2 DEF TaskName

(* Two are of one name if they are of one symbol and one generation.       *)
LEMMA NamesAre ==
  ASSUME NEW f, NEW g
  PROVE  /\ Name(f) = Name(g) <=> f.sym = g.sym /\ f.gen = g.gen
         /\ \A s : Name(f) = Now(s) <=> f.sym = s /\ f.gen = boots[s].gen
BY DEF Name, Now

(* The initial state.                                                      *)
LEMMA FetchesBegin == FetchesInit => FetchesSound
<1>. SUFFICES ASSUME FetchesInit PROVE FetchesSound
  OBVIOUS
<1>1. FetchesTyped
  BY EmptySeq DEF FetchesInit, FetchesTyped, Boot, Attempt
<1>2. TasksAreOne /\ TasksAreOwned /\ LineIsAsking
  BY DEF FetchesInit, TasksAreOne, TasksAreOwned, LineIsAsking
<1>3. InboxIsOwn
  BY DEF FetchesInit, InboxIsOwn
<1>4. OneIsComing
  <2>. SUFFICES ASSUME NEW s \in Routed PROVE OneComes(s)
    BY DEF OneIsComing
  <2>1. ~Runs(s) /\ Answers(s) = {} /\ boots[s].kept = FALSE
    BY DEF FetchesInit, Runs, Answers, Attempt
  <2>. QED
    BY <2>1 DEF OneComes
<1>. QED
  BY <1>1, <1>2, <1>3, <1>4 DEF FetchesSound

(* Leaving the line.                                                       *)
LEMMA LeavesOnce ==
  ASSUME LineIsAsking, line \in Seq(TaskName), NEW n
  PROVE  /\ LeaveLine(n) \in Seq(TaskName)
         /\ \A i \in DOMAIN LeaveLine(n) :
              /\ LeaveLine(n)[i] # n
              /\ \E k \in DOMAIN line : LeaveLine(n)[i] = line[k]
         /\ \A i, j \in DOMAIN LeaveLine(n) : LeaveLine(n)[i] = LeaveLine(n)[j] => i = j
<1>1. CASE \A i \in DOMAIN line : line[i] # n
  BY <1>1, Zenon DEF LeaveLine, LineIsAsking
<1>2. CASE \E i \in DOMAIN line : line[i] = n
  <2>. DEFINE k == CHOOSE i \in DOMAIN line : line[i] = n
              t == WithoutAt(line, k)
  <2>1. LeaveLine(n) = t
    BY <1>2 DEF LeaveLine, WithoutAt
  <2>2. k \in DOMAIN line /\ line[k] = n
    BY <1>2, Zenon
  <2>3. k \in 1 .. Len(line) /\ DOMAIN line = 1 .. Len(line) /\ Len(line) \in Nat
    BY <2>2
  <2>. HIDE DEF k
  <2>4. t \in Seq(TaskName) /\ Len(t) = Len(line) - 1
        /\ \A i \in 1 .. Len(t) : t[i] = IF i < k THEN line[i] ELSE line[i + 1]
    BY <2>3, WithoutOne
  <2>5. DOMAIN t = 1 .. Len(t) /\ Len(t) \in Nat
    BY <2>4
  <2>. HIDE DEF t
  <2>. DEFINE u(i) == IF i < k THEN i ELSE i + 1
  <2>6. \A i \in 1 .. Len(t) : u(i) \in 1 .. Len(line) /\ u(i) # k /\ t[i] = line[u(i)]
    BY <2>3, <2>4
  <2>7. \A i, j \in 1 .. Len(t) : u(i) = u(j) => i = j
    BY <2>3, <2>4
  <2>. HIDE DEF u
  <2>8. \A i, j \in 1 .. Len(line) : line[i] = line[j] => i = j
    BY <2>3 DEF LineIsAsking
  <2>9. \A i \in DOMAIN t : t[i] # n /\ \E m \in DOMAIN line : t[i] = line[m]
    <3>. SUFFICES ASSUME NEW i \in 1 .. Len(t) PROVE t[i] # n /\ \E m \in DOMAIN line : t[i] = line[m]
      BY <2>5
    <3>1. u(i) \in DOMAIN line /\ u(i) # k /\ t[i] = line[u(i)]
      BY <2>3, <2>6
    <3>2. line[u(i)] # line[k]
      BY <2>3, <2>8, <3>1
    <3>. QED
      BY <2>2, <3>1, <3>2
  <2>10. \A i, j \in DOMAIN t : t[i] = t[j] => i = j
    <3>. SUFFICES ASSUME NEW i \in 1 .. Len(t), NEW j \in 1 .. Len(t), t[i] = t[j] PROVE i = j
      BY <2>5
    <3>1. u(i) = u(j)
      BY <2>6, <2>8
    <3>. QED
      BY <2>7, <3>1
  <2>. QED
    BY <2>1, <2>4, <2>9, <2>10
<1>. QED
  BY <1>1, <1>2

(* A task moves on without leaving: nothing else is about where it is.     *)
LEMMA MovesOn ==
  ASSUME FetchesSound, NEW f \in spawned, NEW g \in FetchTask,
         Name(g) = Name(f), g.told = f.told, spawned' = (spawned \ {f}) \cup {g},
         UNCHANGED <<socketOf, socket, boots, inbox>>
  PROVE  TasksAreOne' /\ TasksAreOwned' /\ InboxIsOwn' /\ OneIsComing'
<1>0. FetchesTyped
  BY DEF FetchesSound
<1>1. f.sym = g.sym /\ f.gen = g.gen
  BY NamesAre
<1>2. TasksAreOne'
  BY DEF FetchesSound, TasksAreOne, Name
<1>3. TasksAreOwned'
  <2>1. TaskIsOwned(f) /\ \A x \in spawned : TaskIsOwned(x)
    BY DEF FetchesSound, TasksAreOwned
  <2>2. TaskIsOwned(g)
    BY <1>1, <2>1 DEF TaskIsOwned, Wanted
  <2>3. \A x : TaskIsOwned(x) => TaskIsOwned(x)'
    BY DEF TaskIsOwned, Wanted
  <2>. QED
    BY <2>1, <2>2, <2>3 DEF TasksAreOwned
<1>4. InboxIsOwn'
  BY DEF FetchesSound, InboxIsOwn
<1>5. OneIsComing'
  <2>1. \A s \in Routed : Answers(s)' = Answers(s) /\ Now(s)' = Now(s)
    BY DEF Answers, Now
  <2>2. \A s \in Routed : Runs(s)' <=> Runs(s)
    BY <2>1 DEF Runs, Name
  <2>. QED
    BY <2>1, <2>2 DEF FetchesSound, OneIsComing, OneComes
<1>. QED
  BY <1>2, <1>3, <1>4, <1>5

(* A task that calls acquire is last in the line.                          *)
LEMMA AcquireKeeps ==
  ASSUME FetchesSound, NEW f \in spawned, Acquire(f)
  PROVE  FetchesSound'
<1>. DEFINE g == [f EXCEPT !.at = "asking"]
<1>0. FetchesTyped
  BY DEF FetchesSound
<1>1. g \in FetchTask /\ Name(g) = Name(f) /\ g.told = f.told /\ g.at = "asking" /\ Name(f) \in TaskName
  BY <1>0, FetchFacts DEF FetchTask, Name
<1>2. spawned' = (spawned \ {f}) \cup {g} /\ line' = Append(line, Name(f)) /\ f.at = "starting"
      /\ UNCHANGED <<socketOf, socket, boots, inbox>>
  BY DEF Acquire
<1>. HIDE DEF g
<1>3. TasksAreOne' /\ TasksAreOwned' /\ InboxIsOwn' /\ OneIsComing'
  BY <1>1, <1>2, MovesOn
<1>4. FetchesTyped'
  BY <1>0, <1>1, <1>2 DEF FetchesTyped
<1>5. LineIsAsking'
  <2>1. \A i \in DOMAIN line : line[i] # Name(f) /\ \E x \in spawned' : Name(x) = line[i] /\ x.at = "asking"
    BY <1>2 DEF FetchesSound, LineIsAsking, TasksAreOne
  <2>2. line \in Seq(TaskName)
    BY <1>0 DEF FetchesTyped
  <2>3. \A i \in DOMAIN line' :
          (i \in DOMAIN line /\ line'[i] = line[i]) \/ (i = Len(line) + 1 /\ line'[i] = Name(f))
    BY <1>1, <1>2, <2>2
  <2>4. g \in spawned'
    BY <1>2
  <2>. QED
    BY <1>1, <2>1, <2>3, <2>4 DEF FetchesSound, LineIsAsking
<1>. QED
  BY <1>3, <1>4, <1>5 DEF FetchesSound

(* One whose request is answered leaves it ...                             *)
LEMMA RespondsKeeps ==
  ASSUME FetchesSound, NEW f \in spawned, Responds(f)
  PROVE  FetchesSound'
<1>. DEFINE g == [f EXCEPT !.at = "telling"]
<1>0. FetchesTyped /\ LineIsAsking /\ line \in Seq(TaskName)
  BY DEF FetchesSound, FetchesTyped
<1>1. g \in FetchTask /\ Name(g) = Name(f) /\ g.told = f.told
  BY <1>0, FetchFacts DEF FetchTask, Name
<1>2. spawned' = (spawned \ {f}) \cup {g} /\ line' = LeaveLine(Name(f))
      /\ UNCHANGED <<socketOf, socket, boots, inbox>>
  BY DEF Responds
<1>. HIDE DEF g
<1>3. TasksAreOne' /\ TasksAreOwned' /\ InboxIsOwn' /\ OneIsComing'
  BY <1>1, <1>2, MovesOn
<1>6. /\ line' \in Seq(TaskName)
      /\ \A i \in DOMAIN line' : line'[i] # Name(f) /\ \E k \in DOMAIN line : line'[i] = line[k]
      /\ \A i, j \in DOMAIN line' : line'[i] = line'[j] => i = j
  BY <1>0, <1>2, LeavesOnce
<1>4. FetchesTyped'
  BY <1>0, <1>1, <1>2, <1>6 DEF FetchesTyped
<1>5. LineIsAsking'
  BY <1>0, <1>2, <1>6 DEF LineIsAsking
<1>. QED
  BY <1>3, <1>4, <1>5 DEF FetchesSound

(* A task that is gone, and its place in the line: if a slot waited for    *)
(* it, its answer must have come.                                          *)
LEMMA TaskGoes ==
  ASSUME FetchesSound, NEW f \in spawned, spawned' = spawned \ {f}, line' = LeaveLine(Name(f)),
         UNCHANGED <<socketOf, socket, boots>>
  PROVE  /\ spawned' \subseteq FetchTask /\ line' \in Seq(TaskName)
         /\ TasksAreOne' /\ TasksAreOwned' /\ LineIsAsking'
         /\ \A s \in Routed : Runs(s)' <=> Runs(s) /\ Name(f) # Now(s)
<1>0. FetchesTyped /\ LineIsAsking /\ line \in Seq(TaskName) /\ TasksAreOne
  BY DEF FetchesSound, FetchesTyped
<1>1. /\ line' \in Seq(TaskName)
      /\ \A i \in DOMAIN line' : line'[i] # Name(f) /\ \E k \in DOMAIN line : line'[i] = line[k]
      /\ \A i, j \in DOMAIN line' : line'[i] = line'[j] => i = j
  BY <1>0, LeavesOnce
<1>2. spawned' \subseteq FetchTask
  BY <1>0 DEF FetchesTyped
<1>3. TasksAreOne'
  BY <1>0 DEF TasksAreOne
<1>4. TasksAreOwned'
  <2>1. \A x : TaskIsOwned(x) => TaskIsOwned(x)'
    BY DEF TaskIsOwned, Wanted
  <2>. QED
    BY <2>1 DEF FetchesSound, TasksAreOwned
<1>5. LineIsAsking'
  BY <1>0, <1>1 DEF LineIsAsking
<1>6. \A s \in Routed : Runs(s)' <=> Runs(s) /\ Name(f) # Now(s)
  <2>1. \A s : Now(s)' = Now(s)
    BY DEF Now
  <2>. QED
    BY <1>0, <2>1 DEF Runs, TasksAreOne
<1>. QED
  BY <1>1, <1>2, <1>3, <1>4, <1>5, <1>6

(* ... an aborted one too, and no slot waits for it: it was told to stop   *)
(* when its attempt was over ...                                           *)
LEMMA AbortTakesKeeps ==
  ASSUME FetchesSound, NEW f \in spawned, AbortTakes(f)
  PROVE  FetchesSound'
<1>0. FetchesTyped
  BY DEF FetchesSound
<1>1. f.told /\ spawned' = spawned \ {f} /\ line' = LeaveLine(Name(f))
      /\ UNCHANGED <<socketOf, socket, boots, inbox>>
  BY DEF AbortTakes
<1>2. /\ spawned' \subseteq FetchTask /\ line' \in Seq(TaskName)
      /\ TasksAreOne' /\ TasksAreOwned' /\ LineIsAsking'
      /\ \A s \in Routed : Runs(s)' <=> Runs(s) /\ Name(f) # Now(s)
  BY <1>1, TaskGoes
<1>3. FetchesTyped'
  BY <1>0, <1>1, <1>2 DEF FetchesTyped
<1>4. InboxIsOwn'
  BY <1>1 DEF FetchesSound, InboxIsOwn
<1>5. OneIsComing'
  <2>1. \A s \in Routed : Name(f) # Now(s)
    <3>1. f.gen < boots[f.sym].gen /\ f.gen \in Nat /\ boots[f.sym].gen \in Nat
      BY <1>0, <1>1, FetchFacts DEF FetchesSound, TasksAreOwned, TaskIsOwned
    <3>. QED
      BY <3>1, NamesAre
  <2>2. \A s \in Routed : Answers(s)' = Answers(s)
    BY <1>1 DEF Answers, Now
  <2>. QED
    BY <1>1, <1>2, <2>1, <2>2 DEF FetchesSound, OneIsComing, OneComes
<1>. QED
  BY <1>2, <1>3, <1>4, <1>5 DEF FetchesSound

(* ... and one that has told, which is what its slot waits for, or         *)
(* nothing.                                                                *)
LEMMA TellKeeps ==
  ASSUME FetchesSound, NEW f \in spawned, Tell(f)
  PROVE  FetchesSound'
<1>. DEFINE c == socketOf[f.sym]
            n == Name(f)
<1>0. /\ FetchesTyped /\ c \in Sockets /\ inbox[c] \in Seq(TaskName) /\ n \in TaskName
      /\ n.sym = f.sym /\ n.gen = f.gen /\ f.gen <= boots[f.sym].gen
  <2>1. FetchesTyped /\ f.gen <= boots[f.sym].gen
    BY DEF FetchesSound, TasksAreOwned, TaskIsOwned
  <2>. QED
    BY <2>1, FetchFacts DEF FetchesTyped
<1>1. /\ spawned' = spawned \ {f} /\ line' = LeaveLine(n) /\ UNCHANGED <<socketOf, socket, boots>>
      /\ \/ socket[c] = "gone" /\ inbox' = inbox
         \/ socket[c] # "gone" /\ inbox' = [inbox EXCEPT ![c] = Append(@, n)]
  BY DEF Tell
<1>2. /\ spawned' \subseteq FetchTask /\ line' \in Seq(TaskName)
      /\ TasksAreOne' /\ TasksAreOwned' /\ LineIsAsking'
      /\ \A s \in Routed : Runs(s)' <=> Runs(s) /\ n # Now(s)
  BY <1>1, TaskGoes
<1>3. Runs(f.sym) \/ n # Now(f.sym)
  BY DEF Runs
<1>. HIDE DEF c, n
<1>4. inbox' \in [Sockets -> Seq(TaskName)] /\ \A d \in Sockets : d # c => inbox'[d] = inbox[d]
  <2>1. Append(inbox[c], n) \in Seq(TaskName) /\ inbox \in [Sockets -> Seq(TaskName)]
    BY <1>0 DEF FetchesTyped
  <2>. HIDE DEF TaskName
  <2>. QED
    BY <1>0, <1>1, <2>1
<1>5. socket[c] # "gone" => /\ inbox'[c] = Append(inbox[c], n) /\ Len(inbox[c]) \in Nat
                            /\ DOMAIN inbox[c] = 1 .. Len(inbox[c])
                            /\ DOMAIN inbox'[c] = 1 .. Len(inbox[c]) + 1
                            /\ \A i \in 1 .. Len(inbox[c]) : inbox'[c][i] = inbox[c][i]
                            /\ inbox'[c][Len(inbox[c]) + 1] = n
  BY <1>0, <1>1 DEF FetchesTyped
<1>6. FetchesTyped'
  BY <1>0, <1>1, <1>2, <1>4 DEF FetchesTyped
<1>7. InboxIsOwn'
  <2>. SUFFICES ASSUME NEW d \in Sockets, NEW i \in DOMAIN inbox'[d]
                PROVE  socketOf[inbox'[d][i].sym] = d /\ inbox'[d][i].gen <= boots[inbox'[d][i].sym].gen
    BY <1>1 DEF InboxIsOwn
  <2>1. CASE i \in DOMAIN inbox[d] /\ inbox'[d][i] = inbox[d][i]
    BY <2>1 DEF FetchesSound, InboxIsOwn
  <2>2. CASE d = c /\ inbox'[d][i] = n
    BY <1>0, <2>2 DEF c
  <2>3. (i \in DOMAIN inbox[d] /\ inbox'[d][i] = inbox[d][i]) \/ (d = c /\ inbox'[d][i] = n)
    BY <1>1, <1>4, <1>5
  <2>. QED
    BY <2>1, <2>2, <2>3
<1>8. OneIsComing'
  <2>. SUFFICES ASSUME NEW s \in Routed, socket[socketOf[s]] # "gone" PROVE OneComes(s)'
    BY <1>1 DEF OneIsComing
  <2>0. socket[socketOf[s]] # "gone"
    OBVIOUS
  <2>1. OneComes(s) /\ socketOf[s] \in Sockets
    BY <1>0 DEF FetchesSound, OneIsComing, FetchesTyped
  <2>2. Now(s)' = Now(s) /\ boots'[s].kept = boots[s].kept
    BY <1>1 DEF Now
  <2>3. CASE n = Now(s)
    <3>1. f.sym = s /\ c = socketOf[s] /\ Runs(s)
      BY <2>3, NamesAre DEF n, c, Runs
    <3>2. Answers(s) = {} /\ boots[s].kept
      BY <2>1, <3>1 DEF OneComes
    <3>3. Answers(s)' = {Len(inbox[c]) + 1}
      <4>1. Answers(s)' = {i \in 1 .. Len(inbox[c]) + 1 : inbox'[c][i] = n}
        BY <1>1, <1>5, <2>2, <2>3, <2>0, <3>1 DEF Answers
      <4>2. \A i \in 1 .. Len(inbox[c]) : inbox[c][i] # n
        BY <1>5, <2>0, <2>3, <3>1, <3>2 DEF Answers
      <4>3. \A i \in 1 .. Len(inbox[c]) : inbox'[c][i] # n
        BY <1>5, <2>0, <3>1, <4>2
      <4>. QED
        BY <1>5, <2>0, <3>1, <4>1, <4>3
    <3>. QED
      BY <1>2, <2>2, <2>3, <3>2, <3>3 DEF OneComes
  <2>4. CASE n # Now(s)
    <3>1. Answers(s)' = Answers(s)
      <4>1. CASE socketOf[s] = c
        BY <1>1, <1>5, <2>2, <2>4, <4>1 DEF Answers
      <4>2. CASE socketOf[s] # c
        BY <1>1, <1>4, <2>1, <2>2, <4>2 DEF Answers
      <4>. QED
        BY <4>1, <4>2
    <3>. QED
      BY <1>2, <2>1, <2>2, <2>4, <3>1 DEF OneComes
  <2>. QED
    BY <2>3, <2>4
<1>. QED
  BY <1>2, <1>6, <1>7, <1>8 DEF FetchesSound

(* A fetch is spawned for an attempt that has none: the slot has its       *)
(* handle, and what it waits for is the new task.                          *)
LEMMA Spawns ==
  ASSUME FetchesSound, NEW s \in Routed, ~Runs(s), spawned' = Spawned(s, boots[s].gen),
         boots' \in [Routed -> Boot], boots'[s].kept, \A r \in Routed : boots'[r].gen = boots[r].gen,
         \A r \in Routed \ {s} : boots'[r] = boots[r],
         UNCHANGED <<socketOf, socket, line>>
  PROVE  /\ spawned' \subseteq FetchTask /\ TasksAreOne' /\ TasksAreOwned' /\ LineIsAsking'
         /\ \A r \in Routed : /\ Now(r)' = Now(r)
                              /\ Runs(r)' <=> Runs(r) \/ r = s
<1>g. PICK g : g = [sym |-> s, gen |-> boots[s].gen, at |-> "starting", told |-> FALSE]
  OBVIOUS
<1>0. FetchesTyped /\ TasksAreOne /\ TasksAreOwned /\ LineIsAsking
  BY DEF FetchesSound
<1>1. g \in FetchTask /\ Name(g) = Now(s) /\ g.sym = s /\ g.gen = boots[s].gen /\ g.told = FALSE
      /\ boots[s].gen \in Nat
  BY <1>g, <1>0 DEF FetchTask, Name, Now, FetchesTyped, Boot
<1>2. spawned' = spawned \cup {g}
  BY <1>g DEF Spawned
<1>3. spawned' \subseteq FetchTask
  BY <1>0, <1>1, <1>2 DEF FetchesTyped
<1>4. TasksAreOne'
  BY <1>0, <1>1, <1>2 DEF TasksAreOne, Runs
<1>5. TasksAreOwned'
  <2>1. \A x \in spawned : TaskIsOwned(x)'
    <3>. SUFFICES ASSUME NEW x \in spawned PROVE TaskIsOwned(x)'
      OBVIOUS
    <3>1. TaskIsOwned(x) /\ x.sym \in Routed
      BY <1>0, FetchFacts DEF TasksAreOwned
    <3>2. boots'[x.sym].gen = boots[x.sym].gen /\ (boots[x.sym].kept => boots'[x.sym].kept)
      BY <3>1
    <3>. QED
      BY <3>1, <3>2 DEF TaskIsOwned, Wanted
  <2>2. TaskIsOwned(g)'
    BY <1>1 DEF TaskIsOwned, Wanted
  <2>. QED
    BY <1>2, <2>1, <2>2 DEF TasksAreOwned
<1>6. LineIsAsking'
  BY <1>0, <1>2 DEF LineIsAsking
<1>7. \A r \in Routed : Now(r)' = Now(r)
  BY DEF Now
<1>8. \A r \in Routed : Runs(r)' <=> Runs(r) \/ r = s
  <2>1. \A r \in Routed : Name(g) = Now(r) <=> r = s
    BY <1>1, NamesAre DEF Now
  <2>. QED
    BY <1>2, <1>7, <2>1 DEF Runs
<1>. QED
  BY <1>3, <1>4, <1>5, <1>6, <1>7, <1>8

(* The first diff of an attempt finds it without a fetch.                  *)
LEMMA FirstDiffKeeps ==
  ASSUME FetchesSound, NEW s \in Routed, FirstDiff(s)
  PROVE  FetchesSound'
<1>0. FetchesTyped /\ socketOf[s] \in Sockets /\ boots[s] \in Boot
  BY DEF FetchesSound, FetchesTyped
<1>1. /\ socket[socketOf[s]] = "up" /\ boots[s].kept = FALSE
      /\ spawned' = Spawned(s, boots[s].gen) /\ UNCHANGED <<socketOf, socket, line, inbox>>
      /\ boots' = [boots EXCEPT ![s].kept = TRUE, ![s].phase = "waiting"]
  BY DEF FirstDiff, Serves, Attempt
<1>2. OneComes(s)
  BY <1>1 DEF FetchesSound, OneIsComing
<1>3. ~Runs(s) /\ Answers(s) = {}
  BY <1>1, <1>2 DEF OneComes
<1>4. /\ boots' \in [Routed -> Boot] /\ boots'[s].kept
      /\ \A r \in Routed : boots'[r].gen = boots[r].gen
      /\ \A r \in Routed \ {s} : boots'[r] = boots[r]
  BY <1>0, <1>1 DEF FetchesTyped, Boot
<1>5. /\ spawned' \subseteq FetchTask /\ TasksAreOne' /\ TasksAreOwned' /\ LineIsAsking'
      /\ \A r \in Routed : Now(r)' = Now(r) /\ (Runs(r)' <=> Runs(r) \/ r = s)
  BY <1>1, <1>3, <1>4, Spawns
<1>6. FetchesTyped'
  BY <1>0, <1>1, <1>4, <1>5 DEF FetchesTyped
<1>7. InboxIsOwn'
  <2>1. \A c \in Sockets : \A i \in DOMAIN inbox[c] : inbox[c][i].sym \in Routed
    BY <1>0, SentFacts
  <2>. QED
    BY <1>1, <1>4, <2>1 DEF FetchesSound, InboxIsOwn
<1>8. OneIsComing'
  <2>. SUFFICES ASSUME NEW r \in Routed, socket[socketOf[r]] # "gone" PROVE OneComes(r)'
    BY <1>1 DEF OneIsComing
  <2>1. OneComes(r) /\ Answers(r)' = Answers(r)
    BY <1>1, <1>5 DEF FetchesSound, OneIsComing, Answers
  <2>. QED
    BY <1>3, <1>4, <1>5, <2>1 DEF OneComes
<1>. QED
  BY <1>5, <1>6, <1>7, <1>8 DEF FetchesSound

(* Those whose slots are reset were told to stop, the others were not.     *)
LEMMA ToldFacts ==
  ASSUME FetchesTyped, NEW S
  PROVE  /\ \A g \in Told(S) :
              g \in FetchTask /\ \E f \in spawned :
                /\ g.sym = f.sym /\ g.gen = f.gen /\ g.at = f.at
                /\ g.told <=> f.told \/ (f.sym \in S /\ f.gen = boots[f.sym].gen)
                /\ g = IF f.sym \in S /\ f.gen = boots[f.sym].gen THEN [f EXCEPT !.told = TRUE] ELSE f
         /\ \A f \in spawned : \E g \in Told(S) : g.sym = f.sym /\ g.gen = f.gen /\ g.at = f.at
<1>. DEFINE g(f) == IF f.sym \in S /\ f.gen = boots[f.sym].gen THEN [f EXCEPT !.told = TRUE] ELSE f
<1>1. Told(S) = {g(f) : f \in spawned}
  BY DEF Told
<1>2. ASSUME NEW f \in spawned
      PROVE  /\ g(f) \in FetchTask /\ g(f).sym = f.sym /\ g(f).gen = f.gen /\ g(f).at = f.at
             /\ g(f).told <=> f.told \/ (f.sym \in S /\ f.gen = boots[f.sym].gen)
  <2>1. f \in FetchTask
    BY FetchFacts
  <2>2. CASE f.sym \in S /\ f.gen = boots[f.sym].gen
    BY <2>1, <2>2 DEF FetchTask
  <2>3. CASE ~(f.sym \in S /\ f.gen = boots[f.sym].gen)
    BY <2>1, <2>3
  <2>. QED
    BY <2>2, <2>3
<1>3. \A f \in spawned : g(f) = IF f.sym \in S /\ f.gen = boots[f.sym].gen THEN [f EXCEPT !.told = TRUE] ELSE f
  OBVIOUS
<1>. HIDE DEF g
<1>. QED
  BY <1>1, <1>2, <1>3

(* Slots that are reset start a generation nothing is of yet.              *)
LEMMA Resets ==
  ASSUME FetchesSound, NEW S, S \subseteq Routed, ResetAll(S), UNCHANGED <<socketOf, line>>,
         \A c \in Sockets : socket'[c] = "gone" <=> socket[c] = "gone"
  PROVE  /\ boots' \in [Routed -> Boot] /\ spawned' \subseteq FetchTask
         /\ TasksAreOne' /\ TasksAreOwned' /\ LineIsAsking'
         /\ \A r \in Routed \ S : boots'[r] = boots[r] /\ (Runs(r)' <=> Runs(r))
         /\ \A r \in S : boots'[r].gen = boots[r].gen + 1 /\ boots'[r].kept = FALSE /\ ~Runs(r)'
<1>0. FetchesTyped /\ TasksAreOne /\ TasksAreOwned /\ LineIsAsking
  BY DEF FetchesSound
<1>1. /\ spawned' = Told(S)
      /\ boots' = [r \in Routed |-> IF r \in S THEN Attempt(boots[r].gen + 1) ELSE boots[r]]
  BY DEF ResetAll
<1>2. /\ boots' \in [Routed -> Boot] /\ \A r \in Routed \ S : boots'[r] = boots[r]
      /\ \A r \in S : boots'[r].gen = boots[r].gen + 1 /\ boots'[r].kept = FALSE
      /\ \A r \in Routed : boots[r].gen \in Nat
  <2>1. \A r \in Routed : boots[r] \in Boot /\ boots[r].gen \in Nat /\ boots[r].gen + 1 \in Nat
    BY <1>0 DEF FetchesTyped, Boot
  <2>2. \A k \in Nat : Attempt(k) \in Boot /\ Attempt(k).gen = k /\ Attempt(k).kept = FALSE
    BY DEF Attempt, Boot
  <2>. QED
    BY <1>1, <2>1, <2>2
<1>3. /\ \A g \in spawned' :
           g \in FetchTask /\ \E f \in spawned :
             /\ g.sym = f.sym /\ g.gen = f.gen /\ g.at = f.at
             /\ g.told <=> f.told \/ (f.sym \in S /\ f.gen = boots[f.sym].gen)
             /\ g = IF f.sym \in S /\ f.gen = boots[f.sym].gen THEN [f EXCEPT !.told = TRUE] ELSE f
      /\ \A f \in spawned : \E g \in spawned' : g.sym = f.sym /\ g.gen = f.gen /\ g.at = f.at
  BY <1>0, <1>1, ToldFacts
<1>4. TasksAreOne'
  <2>. SUFFICES ASSUME NEW g \in spawned', NEW h \in spawned', g.sym = h.sym, g.gen = h.gen PROVE g = h
    BY NamesAre DEF TasksAreOne, Name
  <2>1. PICK f \in spawned :
          /\ g.sym = f.sym /\ g.gen = f.gen
          /\ g = IF f.sym \in S /\ f.gen = boots[f.sym].gen THEN [f EXCEPT !.told = TRUE] ELSE f
    BY <1>3
  <2>2. PICK e \in spawned :
          /\ h.sym = e.sym /\ h.gen = e.gen
          /\ h = IF e.sym \in S /\ e.gen = boots[e.sym].gen THEN [e EXCEPT !.told = TRUE] ELSE e
    BY <1>3
  <2>3. e = f
    <3>0. e.sym = f.sym /\ e.gen = f.gen
      BY <2>1, <2>2, Zenon
    <3>1. Name(e) = Name(f)
      BY <3>0, NamesAre
    <3>. QED
      BY <1>0, <3>1 DEF TasksAreOne
  <2>. QED
    BY <2>1, <2>2, <2>3
<1>5. TasksAreOwned'
  <2>. SUFFICES ASSUME NEW g \in spawned' PROVE TaskIsOwned(g)'
    BY DEF TasksAreOwned
  <2>1. PICK f \in spawned : /\ g.sym = f.sym /\ g.gen = f.gen
                             /\ g.told <=> f.told \/ (f.sym \in S /\ f.gen = boots[f.sym].gen)
    BY <1>3
  <2>2. /\ TaskIsOwned(f) /\ f.sym \in Routed /\ f.gen \in Nat /\ boots[f.sym].gen \in Nat
        /\ socketOf[f.sym] \in Sockets
    BY <1>0, FetchFacts DEF TasksAreOwned
  <2>3. socket'[socketOf[f.sym]] = "gone" <=> socket[socketOf[f.sym]] = "gone"
    BY <2>2
  <2>4. CASE f.sym \in S
    BY <1>2, <2>1, <2>2, <2>3, <2>4 DEF TaskIsOwned, Wanted
  <2>5. CASE f.sym \notin S
    <3>1. boots'[f.sym] = boots[f.sym]
      BY <1>2, <2>2, <2>5
    <3>. QED
      BY <2>1, <2>2, <2>3, <2>5, <3>1 DEF TaskIsOwned, Wanted
  <2>. QED
    BY <2>4, <2>5
<1>6. LineIsAsking'
  <2>. SUFFICES ASSUME NEW i \in DOMAIN line PROVE \E g \in spawned' : Name(g) = line[i] /\ g.at = "asking"
    BY <1>0 DEF LineIsAsking
  <2>1. PICK f \in spawned : Name(f) = line[i] /\ f.at = "asking"
    BY <1>0 DEF LineIsAsking
  <2>2. PICK g \in spawned' : g.sym = f.sym /\ g.gen = f.gen /\ g.at = f.at
    BY <1>3
  <2>. QED
    BY <2>1, <2>2, NamesAre
<1>7. \A r \in Routed \ S : Runs(r)' <=> Runs(r)
  <2>. SUFFICES ASSUME NEW r \in Routed \ S PROVE Runs(r)' <=> Runs(r)
    OBVIOUS
  <2>1. Runs(r) <=> \E f \in spawned : f.sym = r /\ f.gen = boots[r].gen
    BY NamesAre DEF Runs
  <2>2. Runs(r)' <=> \E f \in spawned' : f.sym = r /\ f.gen = boots'[r].gen
    BY DEF Runs, Name, Now
  <2>3. boots'[r].gen = boots[r].gen
    BY <1>2
  <2>. QED
    BY <1>3, <2>1, <2>2, <2>3
<1>8. \A r \in S : ~Runs(r)'
  <2>. SUFFICES ASSUME NEW r \in S, NEW g \in spawned', g.sym = r, g.gen = boots'[r].gen PROVE FALSE
    BY DEF Runs, Name, Now
  <2>1. PICK f \in spawned : g.sym = f.sym /\ g.gen = f.gen
    BY <1>3
  <2>2. f.gen <= boots[r].gen /\ f.gen \in Nat /\ boots[r].gen \in Nat
    BY <1>0, <2>1, FetchFacts DEF TasksAreOwned, TaskIsOwned
  <2>. QED
    BY <1>2, <2>1, <2>2
<1>. QED
  BY <1>2, <1>3, <1>4, <1>5, <1>6, <1>7, <1>8

(* ... so of the channels it is enough that nothing is added to them.      *)
LEMMA ResetKeeps ==
  ASSUME FetchesSound, NEW S, S \subseteq Routed, ResetAll(S), UNCHANGED <<socketOf, line, inbox>>,
         socket' \in [Sockets -> {"up", "down", "gone"}],
         \A c \in Sockets : socket'[c] = "gone" <=> socket[c] = "gone"
  PROVE  FetchesSound'
<1>0. FetchesTyped
  BY DEF FetchesSound
<1>1. /\ boots' \in [Routed -> Boot] /\ spawned' \subseteq FetchTask
      /\ TasksAreOne' /\ TasksAreOwned' /\ LineIsAsking'
      /\ \A r \in Routed \ S : boots'[r] = boots[r] /\ (Runs(r)' <=> Runs(r))
      /\ \A r \in S : boots'[r].gen = boots[r].gen + 1 /\ boots'[r].kept = FALSE /\ ~Runs(r)'
  BY Resets
<1>2. FetchesTyped'
  BY <1>0, <1>1 DEF FetchesTyped
<1>3. \A r \in Routed : boots[r].gen \in Nat /\ boots[r].gen <= boots'[r].gen
  <2>1. \A r \in Routed : boots[r].gen \in Nat
    BY <1>0 DEF FetchesTyped, Boot
  <2>. QED
    BY <1>1, <2>1
<1>4. InboxIsOwn'
  <2>. SUFFICES ASSUME NEW c \in Sockets, NEW i \in DOMAIN inbox[c]
                PROVE  socketOf[inbox[c][i].sym] = c /\ inbox[c][i].gen <= boots'[inbox[c][i].sym].gen
    BY DEF InboxIsOwn
  <2>1. inbox[c][i].sym \in Routed /\ inbox[c][i].gen \in Nat
    BY <1>0, SentFacts
  <2>2. boots'[inbox[c][i].sym].gen \in Nat
    BY <1>2, <2>1 DEF FetchesTyped, Boot
  <2>. QED
    BY <1>3, <2>1, <2>2 DEF FetchesSound, InboxIsOwn
<1>5. OneIsComing'
  <2>. SUFFICES ASSUME NEW r \in Routed, socket'[socketOf[r]] # "gone" PROVE OneComes(r)'
    BY DEF OneIsComing
  <2>0. socketOf[r] \in Sockets /\ OneComes(r)
    BY <1>0 DEF FetchesSound, FetchesTyped, OneIsComing
  <2>1. CASE r \in S
    <3>1. \A i \in DOMAIN inbox[socketOf[r]] : inbox[socketOf[r]][i] # Now(r)'
      <4>. SUFFICES ASSUME NEW i \in DOMAIN inbox[socketOf[r]], inbox[socketOf[r]][i] = Now(r)' PROVE FALSE
        OBVIOUS
      <4>1. inbox[socketOf[r]][i].sym = r /\ inbox[socketOf[r]][i].gen = boots[r].gen + 1
        BY <1>1, <2>1 DEF Now
      <4>2. inbox[socketOf[r]][i].gen <= boots[r].gen
        BY <2>0, <4>1 DEF FetchesSound, InboxIsOwn
      <4>. QED
        BY <1>3, <4>1, <4>2
    <3>2. Answers(r)' = {}
      BY <3>1 DEF Answers
    <3>. QED
      BY <1>1, <2>1, <3>2 DEF OneComes
  <2>2. CASE r \notin S
    <3>1. Answers(r)' = Answers(r)
      BY <1>1, <2>2 DEF Answers, Now
    <3>. QED
      BY <1>1, <2>0, <2>2, <3>1 DEF OneComes
  <2>. QED
    BY <2>1, <2>2
<1>. QED
  BY <1>1, <1>2, <1>4, <1>5 DEF FetchesSound

(* A slot starts over ...                                                  *)
LEMMA ResyncedKeeps ==
  ASSUME FetchesSound, NEW s \in Routed, Resynced(s)
  PROVE  FetchesSound'
<1>1. socket \in [Sockets -> {"up", "down", "gone"}]
  BY DEF FetchesSound, FetchesTyped
<1>2. {s} \subseteq Routed /\ ResetAll({s}) /\ UNCHANGED <<socketOf, socket, line, inbox>>
  BY DEF Resynced
<1>. QED
  BY <1>1, <1>2, ResetKeeps

(* ... all those of a connection do when it has a socket again ...         *)
LEMMA SocketOpensKeeps ==
  ASSUME FetchesSound, NEW c \in Sockets, SocketOpens(c)
  PROVE  FetchesSound'
<1>1. socket \in [Sockets -> {"up", "down", "gone"}]
  BY DEF FetchesSound, FetchesTyped
<1>2. /\ On(c) \subseteq Routed /\ ResetAll(On(c)) /\ UNCHANGED <<socketOf, line, inbox>>
      /\ socket[c] = "down" /\ socket' = [socket EXCEPT ![c] = "up"]
  BY DEF SocketOpens, On
<1>3. /\ socket' \in [Sockets -> {"up", "down", "gone"}]
      /\ \A d \in Sockets : socket'[d] = "gone" <=> socket[d] = "gone"
  BY <1>1, <1>2
<1>. QED
  BY <1>2, <1>3, ResetKeeps

(* ... not when it loses one.                                              *)
LEMMA SocketDiesKeeps ==
  ASSUME FetchesSound, NEW c \in Sockets, SocketDies(c)
  PROVE  FetchesSound'
<1>0. FetchesTyped
  BY DEF FetchesSound
<1>1. /\ socket[c] = "up" /\ socket' = [socket EXCEPT ![c] = "down"]
      /\ UNCHANGED <<socketOf, boots, spawned, line, inbox>>
  BY DEF SocketDies
<1>2. FetchesTyped' /\ \A d \in Sockets : socket'[d] = "gone" <=> socket[d] = "gone"
  BY <1>0, <1>1 DEF FetchesTyped
<1>3. TasksAreOne' /\ LineIsAsking' /\ InboxIsOwn'
  BY <1>1 DEF FetchesSound, TasksAreOne, LineIsAsking, InboxIsOwn
<1>4. \A s \in Routed : socket'[socketOf[s]] = "gone" <=> socket[socketOf[s]] = "gone"
  BY <1>0, <1>2 DEF FetchesTyped
<1>5. TasksAreOwned'
  <2>. SUFFICES ASSUME NEW f \in spawned PROVE TaskIsOwned(f)'
    BY <1>1 DEF TasksAreOwned
  <2>1. TaskIsOwned(f) /\ f.sym \in Routed
    BY <1>0, FetchFacts DEF FetchesSound, TasksAreOwned
  <2>. QED
    BY <1>1, <1>4, <2>1 DEF TaskIsOwned, Wanted
<1>6. OneIsComing'
  <2>1. \A s \in Routed : OneComes(s)' <=> OneComes(s)
    BY <1>1 DEF OneComes, Runs, Answers, Now
  <2>. QED
    BY <1>1, <1>4, <2>1 DEF FetchesSound, OneIsComing
<1>. QED
  BY <1>2, <1>3, <1>5, <1>6 DEF FetchesSound

(* With the connection the answers are gone, and nothing is waited for.    *)
LEMMA ConnectionGoesKeeps ==
  ASSUME FetchesSound, NEW c \in Sockets, ConnectionGoes(c)
  PROVE  FetchesSound'
<1>0. FetchesTyped
  BY DEF FetchesSound
<1>1. /\ socket' = [socket EXCEPT ![c] = "gone"] /\ inbox' = [inbox EXCEPT ![c] = <<>>]
      /\ UNCHANGED <<socketOf, boots, spawned, line>>
  BY DEF ConnectionGoes
<1>2. /\ socket' \in [Sockets -> {"up", "down", "gone"}]
      /\ \A d \in Sockets : socket'[d] = IF d = c THEN "gone" ELSE socket[d]
  BY <1>0, <1>1 DEF FetchesTyped
<1>3. /\ inbox' \in [Sockets -> Seq(TaskName)]
      /\ \A d \in Sockets : inbox'[d] = IF d = c THEN <<>> ELSE inbox[d]
  <2>1. <<>> \in Seq(TaskName) /\ inbox \in [Sockets -> Seq(TaskName)]
    BY <1>0, EmptySeq DEF FetchesTyped
  <2>. QED
    BY <1>1, <2>1
<1>4. FetchesTyped'
  BY <1>0, <1>1, <1>2, <1>3 DEF FetchesTyped
<1>5. TasksAreOne' /\ LineIsAsking'
  BY <1>1 DEF FetchesSound, TasksAreOne, LineIsAsking
<1>6. InboxIsOwn'
  BY <1>1, <1>3 DEF FetchesSound, InboxIsOwn
<1>7. TasksAreOwned'
  <2>. SUFFICES ASSUME NEW f \in spawned PROVE TaskIsOwned(f)'
    BY <1>1 DEF TasksAreOwned
  <2>1. TaskIsOwned(f) /\ socketOf[f.sym] \in Sockets
    BY <1>0, FetchFacts DEF FetchesSound, TasksAreOwned
  <2>. QED
    BY <1>1, <1>2, <2>1 DEF TaskIsOwned, Wanted
<1>8. OneIsComing'
  <2>. SUFFICES ASSUME NEW s \in Routed, socket'[socketOf[s]] # "gone" PROVE OneComes(s)'
    BY <1>1 DEF OneIsComing
  <2>1. socketOf[s] \in Sockets /\ socketOf[s] # c /\ socket[socketOf[s]] # "gone"
    BY <1>0, <1>1, <1>2 DEF FetchesTyped
  <2>2. OneComes(s) /\ inbox'[socketOf[s]] = inbox[socketOf[s]]
    BY <1>3, <2>1 DEF FetchesSound, OneIsComing
  <2>. QED
    BY <1>1, <2>2 DEF OneComes, Runs, Answers, Now
<1>. QED
  BY <1>4, <1>5, <1>6, <1>7, <1>8 DEF FetchesSound

(* The first of a channel is taken ...                                     *)
LEMMA HeadIsTaken ==
  ASSUME FetchesTyped, NEW c \in Sockets, inbox[c] # <<>>, inbox' = [inbox EXCEPT ![c] = Tail(@)]
  PROVE  /\ inbox' \in [Sockets -> Seq(TaskName)]
         /\ 1 \in DOMAIN inbox[c] /\ Head(inbox[c]) = inbox[c][1]
         /\ \A d \in Sockets : d # c => inbox'[d] = inbox[d]
         /\ \A i \in DOMAIN inbox'[c] :
              i + 1 \in DOMAIN inbox[c] /\ inbox'[c][i] = inbox[c][i + 1] /\ i \in Int
         /\ \A i \in DOMAIN inbox[c] : i # 1 => i - 1 \in DOMAIN inbox'[c] /\ i - 1 + 1 = i /\ i \in Int
<1>1. inbox \in [Sockets -> Seq(TaskName)] /\ inbox[c] \in Seq(TaskName)
  BY DEF FetchesTyped
<1>2. /\ Tail(inbox[c]) \in Seq(TaskName) /\ Len(Tail(inbox[c])) = Len(inbox[c]) - 1
      /\ Len(inbox[c]) \in Nat \ {0}
      /\ \A i \in 1 .. Len(inbox[c]) - 1 : Tail(inbox[c])[i] = inbox[c][i + 1]
      /\ DOMAIN inbox[c] = 1 .. Len(inbox[c]) /\ DOMAIN Tail(inbox[c]) = 1 .. Len(Tail(inbox[c]))
      /\ Head(inbox[c]) = inbox[c][1]
  BY <1>1
<1>3. /\ inbox' \in [Sockets -> Seq(TaskName)] /\ inbox'[c] = Tail(inbox[c])
      /\ \A d \in Sockets : d # c => inbox'[d] = inbox[d]
  BY <1>1, <1>2
<1>. QED
  BY <1>2, <1>3

(* ... and what a slot waits for is still there, or it was that.           *)
LEMMA AnswersShift ==
  ASSUME FetchesTyped, NEW c \in Sockets, inbox[c] # <<>>, inbox' = [inbox EXCEPT ![c] = Tail(@)],
         NEW r \in Routed, socketOf' = socketOf, Now(r)' = Now(r), \A i, j \in Answers(r) : i = j
  PROVE  /\ Head(inbox[c]) = Now(r) /\ socketOf[r] = c => Answers(r)' = {} /\ Answers(r) # {}
         /\ Head(inbox[c]) # Now(r) \/ socketOf[r] # c =>
              /\ Answers(r)' = {} <=> Answers(r) = {}
              /\ \A i, j \in Answers(r)' : i = j
<1>1. /\ 1 \in DOMAIN inbox[c] /\ Head(inbox[c]) = inbox[c][1]
      /\ \A d \in Sockets : d # c => inbox'[d] = inbox[d]
      /\ \A i \in DOMAIN inbox'[c] : i + 1 \in DOMAIN inbox[c] /\ inbox'[c][i] = inbox[c][i + 1] /\ i \in Int
      /\ \A i \in DOMAIN inbox[c] : i # 1 => i - 1 \in DOMAIN inbox'[c] /\ i - 1 + 1 = i /\ i \in Int
  BY HeadIsTaken
<1>2. socketOf[r] \in Sockets
  BY DEF FetchesTyped
<1>3. CASE socketOf[r] # c
  <2>1. Answers(r)' = Answers(r)
    BY <1>1, <1>2, <1>3 DEF Answers
  <2>. QED
    BY <1>3, <2>1
<1>4. CASE socketOf[r] = c
  <2>1. /\ \A i : i \in Answers(r) <=> i \in DOMAIN inbox[c] /\ inbox[c][i] = Now(r)
        /\ \A i : i \in Answers(r)' <=> i \in DOMAIN inbox'[c] /\ inbox'[c][i] = Now(r)
    BY <1>4 DEF Answers
  <2>2. \A i \in Answers(r)' : i + 1 \in Answers(r) /\ i \in Int /\ i \in DOMAIN inbox'[c]
    BY <1>1, <2>1
  <2>3. 1 \in Answers(r) <=> Head(inbox[c]) = Now(r)
    BY <1>1, <2>1
  <2>4. \A i \in Answers(r) : i # 1 => i - 1 \in Answers(r)'
    BY <1>1, <2>1
  <2>5. \A i \in Answers(r)' : i + 1 # 1
    <3>1. \A i \in DOMAIN inbox'[c] : i # 0
      <4>1. inbox' \in [Sockets -> Seq(TaskName)]
        BY HeadIsTaken
      <4>2. inbox'[c] \in Seq(TaskName)
        BY <4>1
      <4>. QED
        BY <4>2
    <3>. QED
      BY <2>2, <3>1
  <2>6. \A i, j \in Answers(r)' : i = j
    BY <2>2
  <2>. QED
    BY <1>4, <2>2, <2>3, <2>4, <2>5, <2>6
<1>. QED
  BY <1>3, <1>4

(* What is in the channels was in them before.                             *)
LEMMA ChannelsShrink ==
  ASSUME FetchesSound, NEW c \in Sockets, inbox[c] # <<>>, inbox' = [inbox EXCEPT ![c] = Tail(@)],
         socketOf' = socketOf, boots' \in [Routed -> Boot],
         \A r \in Routed : boots[r].gen <= boots'[r].gen
  PROVE  /\ InboxIsOwn'
         /\ \A r \in Routed : boots[r].gen < boots'[r].gen => Answers(r)' = {}
<1>0. FetchesTyped
  BY DEF FetchesSound
<1>1. \A d \in Sockets : \A i \in DOMAIN inbox'[d] : \E k \in DOMAIN inbox[d] : inbox'[d][i] = inbox[d][k]
  <2>. SUFFICES ASSUME NEW d \in Sockets, NEW i \in DOMAIN inbox'[d]
                PROVE  \E k \in DOMAIN inbox[d] : inbox'[d][i] = inbox[d][k]
    OBVIOUS
  <2>1. CASE d = c
    <3>1. i + 1 \in DOMAIN inbox[c] /\ inbox'[c][i] = inbox[c][i + 1]
      BY <1>0, <2>1, HeadIsTaken
    <3>. QED
      BY <2>1, <3>1
  <2>2. CASE d # c
    <3>1. inbox'[d] = inbox[d]
      BY <1>0, <2>2, HeadIsTaken
    <3>. QED
      BY <3>1
  <2>. QED
    BY <2>1, <2>2
<1>2. \A r \in Routed : boots[r].gen \in Nat /\ boots'[r].gen \in Nat
  BY <1>0 DEF FetchesTyped, Boot
<1>3. \A d \in Sockets : \A i \in DOMAIN inbox'[d] :
         /\ inbox'[d][i].sym \in Routed /\ inbox'[d][i].gen \in Nat /\ socketOf[inbox'[d][i].sym] = d
         /\ inbox'[d][i].gen <= boots[inbox'[d][i].sym].gen
  BY <1>0, <1>1, SentFacts DEF FetchesSound, InboxIsOwn
<1>4. InboxIsOwn'
  <2>. SUFFICES ASSUME NEW d \in Sockets, NEW i \in DOMAIN inbox'[d]
                PROVE  socketOf[inbox'[d][i].sym] = d /\ inbox'[d][i].gen <= boots'[inbox'[d][i].sym].gen
    BY DEF InboxIsOwn
  <2>. DEFINE n == inbox'[d][i]
  <2>1. n.sym \in Routed /\ n.gen \in Nat /\ socketOf[n.sym] = d /\ n.gen <= boots[n.sym].gen
    BY <1>3
  <2>. HIDE DEF n
  <2>2. n.gen <= boots'[n.sym].gen
    BY <1>2, <2>1
  <2>. QED
    BY <2>1, <2>2 DEF n
<1>5. ASSUME NEW r \in Routed, boots[r].gen < boots'[r].gen
      PROVE  Answers(r)' = {}
  <2>. SUFFICES ASSUME NEW i \in DOMAIN inbox'[socketOf[r]], inbox'[socketOf[r]][i] = Now(r)' PROVE FALSE
    BY DEF Answers
  <2>1. socketOf[r] \in Sockets
    BY <1>0 DEF FetchesTyped
  <2>2. Now(r)'.sym = r /\ Now(r)'.gen = boots'[r].gen
    BY DEF Now
  <2>3. boots'[r].gen <= boots[r].gen
    BY <1>3, <2>1, <2>2
  <2>. QED
    BY <1>2, <1>5, <2>3
<1>. QED
  BY <1>4, <1>5

(* A snapshot that is taken is the only answer to its slot, or none of     *)
(* its business; the others are where they were.                           *)
LEMMA TakeSnapshotKeeps ==
  ASSUME FetchesSound, NEW c \in Sockets, TakeSnapshot(c)
  PROVE  FetchesSound'
<1>s. PICK s : s = Head(inbox[c]).sym
  OBVIOUS
<1>0. FetchesTyped /\ OneIsComing
  BY DEF FetchesSound
<1>1. /\ socket[c] = "up" /\ inbox[c] # <<>> /\ inbox' = [inbox EXCEPT ![c] = Tail(@)]
      /\ UNCHANGED <<socketOf, socket, line>>
      /\ \/ Head(inbox[c]).gen # boots[s].gen /\ UNCHANGED <<boots, spawned>>
         \/ /\ Head(inbox[c]).gen = boots[s].gen
            /\ \/ /\ boots' = [boots EXCEPT ![s].phase = "ready", ![s].kept = FALSE]
                  /\ UNCHANGED spawned
               \/ Recovers(s)
  BY <1>s DEF TakeSnapshot
<1>2. Head(inbox[c]) \in TaskName /\ s \in Routed /\ socketOf[s] = c
      /\ Head(inbox[c]) = [sym |-> s, gen |-> Head(inbox[c]).gen]
  <2>1. 1 \in DOMAIN inbox[c] /\ Head(inbox[c]) = inbox[c][1]
    BY <1>0, <1>1, HeadIsTaken
  <2>2. Head(inbox[c]) \in TaskName /\ s \in Routed /\ socketOf[s] = c
    BY <1>s, <1>0, <2>1, SentFacts DEF FetchesSound, InboxIsOwn
  <2>. QED
    BY <1>s, <2>2 DEF TaskName
<1>3. inbox' \in [Sockets -> Seq(TaskName)]
  BY <1>0, <1>1, HeadIsTaken
<1>4. \A r \in Routed : socket[socketOf[r]] # "gone" => OneComes(r)
  BY <1>0 DEF OneIsComing
<1>5. OneComes(s)
  BY <1>1, <1>2, <1>4
<1>6. \A r \in Routed : boots[r] \in Boot /\ boots[r].gen \in Nat
  BY <1>0 DEF FetchesTyped, Boot
<1>7. ASSUME NEW r \in Routed, OneComes(r), Now(r)' = Now(r), Head(inbox[c]) # Now(r),
             boots'[r].kept = boots[r].kept, Runs(r)' <=> Runs(r)
      PROVE  OneComes(r)'
  <2>1. /\ Answers(r)' = {} <=> Answers(r) = {}
        /\ \A i, j \in Answers(r)' : i = j
    BY <1>0, <1>1, <1>7, AnswersShift DEF OneComes
  <2>. QED
    BY <1>7, <2>1 DEF OneComes
<1>8. CASE Head(inbox[c]).gen # boots[s].gen /\ UNCHANGED <<boots, spawned>>
  <2>1. FetchesTyped' /\ TasksAreOne' /\ TasksAreOwned' /\ LineIsAsking'
    BY <1>0, <1>1, <1>3, <1>8 DEF FetchesTyped, FetchesSound, TasksAreOne, TasksAreOwned, TaskIsOwned, Wanted,
                                  LineIsAsking
  <2>2. InboxIsOwn'
    <3>1. boots' \in [Routed -> Boot] /\ \A r \in Routed : boots[r].gen <= boots'[r].gen
      BY <1>6, <1>8, <2>1 DEF FetchesTyped
    <3>. QED
      BY <1>1, <3>1, ChannelsShrink
  <2>3. OneIsComing'
    <3>. SUFFICES ASSUME NEW r \in Routed, socket[socketOf[r]] # "gone" PROVE OneComes(r)'
      BY <1>1 DEF OneIsComing
    <3>1. Now(r)' = Now(r) /\ boots'[r].kept = boots[r].kept /\ (Runs(r)' <=> Runs(r))
      BY <1>8 DEF Now, Runs
    <3>2. Head(inbox[c]) # Now(r)
      BY <1>2, <1>8 DEF Now
    <3>. QED
      BY <1>4, <1>7, <3>1, <3>2
  <2>. QED
    BY <2>1, <2>2, <2>3 DEF FetchesSound
<1>9. ASSUME Head(inbox[c]).gen = boots[s].gen
      PROVE  /\ Head(inbox[c]) = Now(s) /\ Answers(s) # {} /\ ~Runs(s) /\ boots[s].kept
             /\ Now(s)' = Now(s) => Answers(s)' = {}
             /\ \A r \in Routed \ {s} : Head(inbox[c]) # Now(r)
  <2>1. Head(inbox[c]) = Now(s) /\ \A r \in Routed \ {s} : Head(inbox[c]) # Now(r)
    BY <1>2, <1>9 DEF Now
  <2>2. Answers(s) # {}
    <3>1. 1 \in DOMAIN inbox[c] /\ Head(inbox[c]) = inbox[c][1]
      BY <1>0, <1>1, HeadIsTaken
    <3>. QED
      BY <1>2, <2>1, <3>1 DEF Answers
  <2>3. Now(s)' = Now(s) => Answers(s)' = {}
    BY <1>0, <1>1, <1>2, <1>5, <2>1, AnswersShift DEF OneComes
  <2>. QED
    BY <1>5, <2>1, <2>2, <2>3 DEF OneComes
<1>10. CASE /\ Head(inbox[c]).gen = boots[s].gen
            /\ boots' = [boots EXCEPT ![s].phase = "ready", ![s].kept = FALSE] /\ UNCHANGED spawned
  <2>1. /\ boots' \in [Routed -> Boot] /\ boots'[s].kept = FALSE
        /\ \A r \in Routed : boots'[r].gen = boots[r].gen
        /\ \A r \in Routed \ {s} : boots'[r] = boots[r]
    BY <1>0, <1>2, <1>6, <1>10 DEF FetchesTyped, Boot
  <2>2. FetchesTyped' /\ TasksAreOne' /\ LineIsAsking'
    BY <1>0, <1>1, <1>3, <1>10, <2>1 DEF FetchesTyped, FetchesSound, TasksAreOne, LineIsAsking
  <2>3. \A r \in Routed : Now(r)' = Now(r) /\ (Runs(r)' <=> Runs(r))
    BY <1>10, <2>1 DEF Now, Runs
  <2>4. TasksAreOwned'
    <3>. SUFFICES ASSUME NEW f \in spawned PROVE TaskIsOwned(f)'
      BY <1>10 DEF TasksAreOwned
    <3>1. TaskIsOwned(f) /\ f.sym \in Routed
      BY <1>0, FetchFacts DEF FetchesSound, TasksAreOwned
    <3>2. ~(f.sym = s /\ f.gen = boots[s].gen)
      BY <1>9, <1>10, NamesAre DEF Runs
    <3>3. Wanted(f) => Wanted(f)'
      BY <1>1, <2>1, <3>1, <3>2 DEF Wanted
    <3>. QED
      BY <1>1, <2>1, <3>1, <3>3 DEF TaskIsOwned
  <2>5. InboxIsOwn'
    <3>1. \A r \in Routed : boots[r].gen <= boots'[r].gen
      BY <1>6, <2>1
    <3>. QED
      BY <1>1, <2>1, <3>1, ChannelsShrink
  <2>6. OneIsComing'
    <3>. SUFFICES ASSUME NEW r \in Routed, socket[socketOf[r]] # "gone" PROVE OneComes(r)'
      BY <1>1 DEF OneIsComing
    <3>1. CASE r = s
      BY <1>9, <1>10, <2>1, <2>3, <3>1 DEF OneComes
    <3>2. CASE r # s
      BY <1>4, <1>7, <1>9, <1>10, <2>1, <2>3, <3>2
    <3>. QED
      BY <3>1, <3>2
  <2>. QED
    BY <2>2, <2>4, <2>5, <2>6 DEF FetchesSound
<1>11. CASE /\ Head(inbox[c]).gen = boots[s].gen
            /\ boots' = [boots EXCEPT ![s].refetches = @ + 1] /\ spawned' = Spawned(s, boots[s].gen)
  <2>0. ~Runs(s) /\ boots[s].kept
    BY <1>9, <1>11
  <2>1. /\ boots' \in [Routed -> Boot] /\ boots'[s].kept /\ \A r \in Routed : boots'[r].gen = boots[r].gen
        /\ \A r \in Routed \ {s} : boots'[r] = boots[r]
    <3>. DEFINE b == [boots[s] EXCEPT !.refetches = @ + 1]
    <3>1. boots[s] \in Boot /\ boots \in [Routed -> Boot]
      BY <1>0, <1>2, <1>6 DEF FetchesTyped
    <3>2. boots[s].refetches + 1 \in Nat
      BY <3>1 DEF Boot
    <3>3. b \in Boot /\ b.gen = boots[s].gen /\ b.kept = boots[s].kept
      BY <3>1, <3>2 DEF Boot
    <3>4. boots' = [boots EXCEPT ![s] = b]
      BY <1>11
    <3>. HIDE DEF b
    <3>. QED
      BY <1>2, <2>0, <3>1, <3>3, <3>4
  <2>2. /\ spawned' \subseteq FetchTask /\ TasksAreOne' /\ TasksAreOwned' /\ LineIsAsking'
        /\ \A r \in Routed : Now(r)' = Now(r) /\ (Runs(r)' <=> Runs(r) \/ r = s)
    BY <1>1, <1>2, <1>11, <2>0, <2>1, Spawns
  <2>3. FetchesTyped'
    BY <1>0, <1>1, <1>3, <2>1, <2>2 DEF FetchesTyped
  <2>4. InboxIsOwn'
    <3>1. \A r \in Routed : boots[r].gen <= boots'[r].gen
      BY <1>6, <2>1
    <3>. QED
      BY <1>1, <2>1, <3>1, ChannelsShrink
  <2>5. OneIsComing'
    <3>. SUFFICES ASSUME NEW r \in Routed, socket[socketOf[r]] # "gone" PROVE OneComes(r)'
      BY <1>1 DEF OneIsComing
    <3>1. CASE r = s
      BY <1>9, <1>11, <2>1, <2>2, <3>1 DEF OneComes
    <3>2. CASE r # s
      BY <1>4, <1>7, <1>9, <1>11, <2>1, <2>2, <3>2
    <3>. QED
      BY <3>1, <3>2
  <2>. QED
    BY <2>2, <2>3, <2>4, <2>5 DEF FetchesSound
<1>12. CASE Head(inbox[c]).gen = boots[s].gen /\ ResetAll({s})
  <2>1. /\ boots' \in [Routed -> Boot] /\ spawned' \subseteq FetchTask
        /\ TasksAreOne' /\ TasksAreOwned' /\ LineIsAsking'
        /\ \A r \in Routed \ {s} : boots'[r] = boots[r] /\ (Runs(r)' <=> Runs(r))
        /\ boots'[s].gen = boots[s].gen + 1 /\ boots'[s].kept = FALSE /\ ~Runs(s)'
    <3>1. {s} \subseteq Routed /\ \A d \in Sockets : socket'[d] = "gone" <=> socket[d] = "gone"
      BY <1>1, <1>2
    <3>. QED
      BY <1>1, <1>12, <3>1, Resets
  <2>2. FetchesTyped'
    BY <1>0, <1>1, <1>3, <2>1 DEF FetchesTyped
  <2>3. \A r \in Routed : boots[r].gen <= boots'[r].gen /\ boots[s].gen < boots'[s].gen
    BY <1>2, <1>6, <2>1
  <2>4. InboxIsOwn' /\ Answers(s)' = {}
    BY <1>1, <1>2, <2>1, <2>3, ChannelsShrink
  <2>5. OneIsComing'
    <3>. SUFFICES ASSUME NEW r \in Routed, socket[socketOf[r]] # "gone" PROVE OneComes(r)'
      BY <1>1 DEF OneIsComing
    <3>1. CASE r = s
      BY <2>1, <2>4, <3>1 DEF OneComes
    <3>2. CASE r # s
      <4>1. Now(r)' = Now(r)
        BY <2>1, <3>2 DEF Now
      <4>. QED
        BY <1>4, <1>7, <1>9, <1>12, <2>1, <3>2, <4>1
    <3>. QED
      BY <3>1, <3>2
  <2>. QED
    BY <2>1, <2>2, <2>4, <2>5 DEF FetchesSound
<1>. QED
  BY <1>1, <1>8, <1>10, <1>11, <1>12 DEF Recovers

(* Every step keeps the invariant.                                         *)
LEMMA FetchesKeep ==
  ASSUME FetchesSound, [FetchesNext]_fetchesVars
  PROVE  FetchesSound'
<1>1. CASE UNCHANGED fetchesVars
  <2>1. UNCHANGED <<socketOf, socket, boots, spawned, line, inbox>>
    BY <1>1 DEF fetchesVars
  <2>2. FetchesTyped' /\ TasksAreOne' /\ LineIsAsking' /\ InboxIsOwn'
    BY <2>1 DEF FetchesSound, FetchesTyped, TasksAreOne, LineIsAsking, InboxIsOwn
  <2>3. TasksAreOwned'
    BY <2>1 DEF FetchesSound, TasksAreOwned, TaskIsOwned, Wanted
  <2>4. OneIsComing'
    BY <2>1 DEF FetchesSound, OneIsComing, OneComes, Runs, Answers, Now
  <2>. QED
    BY <2>2, <2>3, <2>4 DEF FetchesSound
<1>2. ASSUME NEW f \in spawned, Acquire(f) \/ Responds(f) \/ Tell(f) \/ AbortTakes(f)
      PROVE  FetchesSound'
  BY <1>2, AcquireKeeps, RespondsKeeps, TellKeeps, AbortTakesKeeps
<1>3. ASSUME NEW s \in Routed, FirstDiff(s) \/ Resynced(s)
      PROVE  FetchesSound'
  BY <1>3, FirstDiffKeeps, ResyncedKeeps
<1>4. ASSUME NEW c \in Sockets, TakeSnapshot(c) \/ SocketDies(c) \/ SocketOpens(c) \/ ConnectionGoes(c)
      PROVE  FetchesSound'
  BY <1>4, TakeSnapshotKeeps, SocketDiesKeeps, SocketOpensKeeps, ConnectionGoesKeeps
<1>. QED
  BY <1>1, <1>2, <1>3, <1>4 DEF FetchesNext

(* A set whose elements are all the same counts at most one.               *)
LEMMA AtMostOneCounts ==
  ASSUME NEW S, \A x, y \in S : x = y
  PROVE  Cardinality(S) = IF S = {} THEN 0 ELSE 1
<1>1. CASE S = {}
  BY <1>1, FS_EmptySet
<1>2. CASE S # {}
  <2>1. PICK x \in S : S = {x}
    BY <1>2
  <2>. QED
    BY <1>2, <2>1, FS_Singleton
<1>. QED
  BY <1>1, <1>2

(* What the invariant is for.                                              *)
LEMMA SoundFetchesGoRound ==
  ASSUME FetchesSound
  PROVE  PermitsGoRound
<1>1. \A n \in Granted : \E f \in spawned : Name(f) = n /\ f.at = "asking"
  BY DEF FetchesSound, LineIsAsking, Granted
<1>2. \A f \in spawned : f.told \/ Wanted(f) \/ socket[socketOf[f.sym]] = "gone"
  BY DEF FetchesSound, TasksAreOwned, TaskIsOwned
<1>3. ASSUME NEW s \in Routed, socket[socketOf[s]] # "gone"
      PROVE  Cardinality({f \in spawned : f.sym = s /\ Wanted(f)})
               + Cardinality({i \in DOMAIN inbox[socketOf[s]] :
                                inbox[socketOf[s]][i] = [sym |-> s, gen |-> boots[s].gen]})
             = IF boots[s].kept THEN 1 ELSE 0
  <2>. DEFINE own == {f \in spawned : f.sym = s /\ Wanted(f)}
  <2>1. OneComes(s)
    BY <1>3 DEF FetchesSound, OneIsComing
  <2>2. \A f \in own : Name(f) = Now(s) /\ f \in spawned /\ boots[s].kept
    BY NamesAre DEF Wanted
  <2>3. \A f, g \in own : f = g
    BY <2>2 DEF FetchesSound, TasksAreOne
  <2>4. own # {} <=> Runs(s)
    <3>1. \A f \in spawned : Name(f) = Now(s) /\ boots[s].kept => f \in own
      BY <1>3, NamesAre DEF Wanted
    <3>. QED
      BY <2>1, <2>2, <3>1 DEF Runs, OneComes
  <2>. HIDE DEF own
  <2>5. Cardinality(own) = IF Runs(s) THEN 1 ELSE 0
    BY <2>3, <2>4, AtMostOneCounts
  <2>6. Cardinality(Answers(s)) = IF Answers(s) # {} THEN 1 ELSE 0
    BY <2>1, AtMostOneCounts DEF OneComes
  <2>7. Cardinality(own) + Cardinality(Answers(s)) = IF boots[s].kept THEN 1 ELSE 0
    BY <2>1, <2>5, <2>6 DEF OneComes
  <2>. QED
    BY <2>7 DEF own, Answers, Now
<1>. QED
  BY <1>1, <1>2, <1>3 DEF PermitsGoRound

(* A permit is held by a request under way and by nothing else, what is    *)
(* under way is wanted, told to stop or an orphan of its connection, and   *)
(* the fetch a symbol waits for is there once, for any symbols and         *)
(* sockets, any number of permits, room in the channels, and refetches.    *)
THEOREM PermitsAlwaysGoRound ==
  Spec => []PermitsGoRound
<1>1. Init => FetchesSound
  BY FetchesBegin DEF Init
<1>2. FetchesSound /\ [Next]_structureVars => FetchesSound'
  <2>. SUFFICES ASSUME FetchesSound, [Next]_structureVars PROVE FetchesSound'
    OBVIOUS
  <2>1. [FetchesNext]_fetchesVars
    BY StepsOfParts DEF structureVars
  <2>. QED
    BY <2>1, FetchesKeep
<1>3. FetchesSound => PermitsGoRound
  BY SoundFetchesGoRound
<1>. QED
  BY <1>1, <1>2, <1>3, PTL DEF Spec

-----------------------------------------------------------------------------
(* The replies of Binance *)

(* The types of what is known of a reply of Binance.                       *)
ReplyTyped ==
  /\ bnReply.said \subseteq ReplyKeys \X Found
  /\ bnReply.id \in BOOLEAN /\ bnReply.code \in BOOLEAN
  /\ bnReply.rejected \in BOOLEAN /\ bnReply.failed \in BOOLEAN
  /\ DOMAIN bnReply = {"said", "id", "code", "rejected", "failed"}

(* The inductive invariant of a reply.                                     *)
RepliesSound == ReplyTyped /\ RepliesAreHeard

(* It holds of no reply, ...                                               *)
LEMMA NoReplyIsHeard ==
  ASSUME NEW r, r = NoReply
  PROVE  /\ r.rejected = \E k \in {"code", "error"}, v \in Found \ {"null"} : <<k, v>> \in r.said
         /\ r.code = \E k \in {"code", "error"}, v \in Found : <<k, v>> \in r.said /\ HasCode(v)
         /\ r.id = (<<"id", "number">> \in r.said)
<1>1. r.said = {} /\ r.rejected = FALSE /\ r.code = FALSE /\ r.id = FALSE
  BY DEF NoReply
<1>2. \A x : x \notin r.said
  BY <1>1
<1>3. (\E k \in {"code", "error"}, v \in Found \ {"null"} : <<k, v>> \in r.said) = FALSE
  BY <1>2
<1>4. (\E k \in {"code", "error"}, v \in Found : <<k, v>> \in r.said /\ HasCode(v)) = FALSE
  BY <1>2
<1>5. (<<"id", "number">> \in r.said) = FALSE
  BY <1>2
<1>. QED
  BY <1>1, <1>3, <1>4, <1>5

(* ... hence at first.                                                     *)
LEMMA RepliesBegin ==
  bnReply = NoReply => RepliesSound
<1>. SUFFICES ASSUME bnReply = NoReply PROVE RepliesSound
  OBVIOUS
<1>1. /\ bnReply.said = {} /\ ~bnReply.id /\ ~bnReply.code /\ ~bnReply.rejected /\ ~bnReply.failed
      /\ bnReply.id \in BOOLEAN /\ bnReply.code \in BOOLEAN
      /\ bnReply.rejected \in BOOLEAN /\ bnReply.failed \in BOOLEAN
  BY DEF NoReply
<1>2. DOMAIN bnReply = {"said", "id", "code", "rejected", "failed"}
  BY DEF NoReply
<1>3. ReplyTyped
  BY <1>1, <1>2 DEF ReplyTyped
<1>4. RepliesAreHeard
  BY NoReplyIsHeard DEF RepliesAreHeard
<1>. QED
  BY <1>3, <1>4 DEF RepliesSound

(* What a key with its value makes of it.                                  *)
LEMMA AfterKeyFacts ==
  ASSUME ReplyTyped, NEW key \in ReplyKeys, NEW v \in Found
  PROVE  LET r == AfterKey(bnReply, key, v)
             reads == key = "id" /\ v \in {"null", "number"}
             rejects == key \in {"code", "error"} /\ v # "null"
         IN  /\ r.said = bnReply.said
             /\ r.id = IF reads THEN v = "number" ELSE bnReply.id
             /\ r.rejected = (rejects \/ bnReply.rejected)
             /\ r.code = ((rejects /\ HasCode(v)) \/ bnReply.code)
             /\ r.failed = (key = "data" \/ (key = "id" /\ ~reads) \/ bnReply.failed)
             /\ DOMAIN r = DOMAIN bnReply
<1>1. CASE key = "id" /\ v \in {"null", "number"}
  <2>1. AfterKey(bnReply, key, v) = [bnReply EXCEPT !.id = (v = "number")]
    BY <1>1 DEF AfterKey
  <2>. QED
    BY <1>1, <2>1 DEF ReplyTyped
<1>2. CASE key \in {"code", "error"} /\ v # "null"
  <2>1. AfterKey(bnReply, key, v) = [bnReply EXCEPT !.rejected = TRUE, !.code = @ \/ HasCode(v)]
    BY <1>2 DEF AfterKey
  <2>. QED
    BY <1>2, <2>1 DEF ReplyTyped
<1>3. CASE key = "data" \/ (key = "id" /\ v \notin {"null", "number"})
  <2>1. AfterKey(bnReply, key, v) = [bnReply EXCEPT !.failed = TRUE]
    BY <1>3 DEF AfterKey
  <2>. QED
    BY <1>3, <2>1 DEF ReplyTyped
<1>4. CASE key \in {"code", "error", "result"} /\ (key = "result" \/ v = "null")
  <2>1. AfterKey(bnReply, key, v) = bnReply
    BY <1>4 DEF AfterKey
  <2>. QED
    BY <1>4, <2>1 DEF ReplyTyped
<1>. QED
  BY <1>1, <1>2, <1>3, <1>4 DEF ReplyKeys

(* The decoder reads one more key ...                                      *)
LEMMA SayKeeps ==
  ASSUME RepliesSound, NEW key \in ReplyKeys, NEW v \in Found, Say(key, v)
  PROVE  RepliesSound'
<1>. DEFINE r == AfterKey(bnReply, key, v)
<1>1. ReplyTyped /\ RepliesAreHeard /\ ~bnReply.failed
  BY DEF RepliesSound, Say
<1>2. bnReply' = [r EXCEPT !.said = @ \cup {<<key, v>>}]
  BY DEF Say
<1>3. \A x \in Found : <<key, x>> \notin bnReply.said
  BY DEF Say
<1>4. /\ r.said = bnReply.said
      /\ r.id = IF key = "id" /\ v \in {"null", "number"} THEN v = "number" ELSE bnReply.id
      /\ r.rejected = ((key \in {"code", "error"} /\ v # "null") \/ bnReply.rejected)
      /\ r.code = ((key \in {"code", "error"} /\ v # "null" /\ HasCode(v)) \/ bnReply.code)
      /\ r.failed = (key = "data" \/ (key = "id" /\ v \notin {"null", "number"}))
      /\ DOMAIN r = {"said", "id", "code", "rejected", "failed"}
  BY <1>1, AfterKeyFacts DEF ReplyTyped
<1>. HIDE DEF r
<1>5. /\ bnReply'.said = bnReply.said \cup {<<key, v>>}
      /\ bnReply'.id = r.id /\ bnReply'.rejected = r.rejected
      /\ bnReply'.code = r.code /\ bnReply'.failed = r.failed
      /\ DOMAIN bnReply' = DOMAIN r
  BY <1>2, <1>4
<1>6. ReplyTyped'
  <2>1. bnReply'.said \subseteq ReplyKeys \X Found
    BY <1>1, <1>5 DEF ReplyTyped
  <2>2. r.id \in BOOLEAN
    BY <1>1, <1>4, Zenon DEF ReplyTyped
  <2>3. r.rejected \in BOOLEAN
    BY <1>1, <1>4, Zenon DEF ReplyTyped
  <2>4. r.code \in BOOLEAN
    BY <1>1, <1>4, Zenon DEF ReplyTyped
  <2>5. r.failed \in BOOLEAN
    BY <1>1, <1>4, Zenon DEF ReplyTyped
  <2>. QED
    BY <1>4, <1>5, <2>1, <2>2, <2>3, <2>4, <2>5, Zenon DEF ReplyTyped
<1>7. ~bnReply'.failed => RepliesAreHeard'
  <2>. SUFFICES ASSUME ~bnReply'.failed
                PROVE /\ bnReply'.rejected =
                           \E k \in {"code", "error"}, x \in Found \ {"null"} : <<k, x>> \in bnReply'.said
                      /\ bnReply'.code =
                           \E k \in {"code", "error"}, x \in Found : <<k, x>> \in bnReply'.said /\ HasCode(x)
                      /\ bnReply'.id = (<<"id", "number">> \in bnReply'.said)
    BY DEF RepliesAreHeard
  <2>1. bnReply'.rejected = \E k \in {"code", "error"}, x \in Found \ {"null"} : <<k, x>> \in bnReply'.said
    BY <1>1, <1>4, <1>5 DEF RepliesAreHeard, ReplyTyped
  <2>2. bnReply'.code = \E k \in {"code", "error"}, x \in Found : <<k, x>> \in bnReply'.said /\ HasCode(x)
    BY <1>1, <1>4, <1>5 DEF RepliesAreHeard, ReplyTyped, HasCode
  <2>3. bnReply'.id = (<<"id", "number">> \in bnReply'.said)
    <3>1. bnReply.id = (<<"id", "number">> \in bnReply.said)
      BY <1>1 DEF RepliesAreHeard
    <3>2. CASE key = "id"
      <4>1. v \in {"null", "number"}
        BY <1>4, <1>5, <3>2
      <4>2. bnReply'.id = (v = "number")
        BY <1>4, <1>5, <3>2, <4>1
      <4>3. <<"id", "number">> \notin bnReply.said
        BY <1>3, <3>2 DEF Found
      <4>4. (<<"id", "number">> \in bnReply'.said) = (v = "number")
        BY <1>5, <3>2, <4>3
      <4>. QED
        BY <4>2, <4>4
    <3>3. CASE key # "id"
      <4>1. bnReply'.id = bnReply.id
        BY <1>4, <1>5, <3>3
      <4>2. <<key, v>> # <<"id", "number">>
        BY <3>3
      <4>. QED
        BY <1>5, <3>1, <4>1, <4>2
    <3>. QED
      BY <3>2, <3>3
  <2>. QED
    BY <2>1, <2>2, <2>3
<1>. QED
  BY <1>6, <1>7 DEF RepliesSound, RepliesAreHeard

(* ... and the rest starts over or leaves it.                              *)
LEMMA RepliesKeep ==
  RepliesSound /\ [BnNext]_bnVars => RepliesSound'
<1>. SUFFICES ASSUME RepliesSound, [BnNext]_bnVars PROVE RepliesSound'
  OBVIOUS
<1>1. bnReply' = bnReply => RepliesSound'
  BY DEF RepliesSound, ReplyTyped, RepliesAreHeard
<1>2. \/ UNCHANGED bnReply
      \/ EndReply
      \/ \E v \in Found, key \in ReplyKeys : Say(key, v)
  BY DEF BnNext, bnVars, BnMiss, BnFrame, EnvelopeFails, EnterBody, BodyFails, ReadFirst, ReadLast,
         ReadLevel, CloseArray, EndBody, EndFrame, ReadArray, BnResync, BnSnapshot, SnapshotKey,
         SnapshotFails, SnapshotEnds
<1>3. ASSUME EndReply PROVE RepliesSound'
  <2>1. bnReply' = NoReply
    BY <1>3 DEF EndReply
  <2>2. /\ bnReply'.said = {} /\ ~bnReply'.id /\ ~bnReply'.code /\ ~bnReply'.rejected /\ ~bnReply'.failed
        /\ bnReply'.id \in BOOLEAN /\ bnReply'.code \in BOOLEAN
        /\ bnReply'.rejected \in BOOLEAN /\ bnReply'.failed \in BOOLEAN
    BY <2>1 DEF NoReply
  <2>3. DOMAIN bnReply' = {"said", "id", "code", "rejected", "failed"}
    BY <2>1 DEF NoReply
  <2>4. ReplyTyped'
    BY <2>2, <2>3 DEF ReplyTyped
  <2>5. RepliesAreHeard'
    BY <2>1, NoReplyIsHeard DEF RepliesAreHeard
  <2>. QED
    BY <2>4, <2>5 DEF RepliesSound
<1>. QED
  BY <1>1, <1>2, <1>3, SayKeeps

(* A refusal by Binance is heard, its code read and its request known, in  *)
(* whatever order the keys of the reply come.                              *)
THEOREM AllRepliesAreHeard ==
  Spec => []RepliesAreHeard
<1>1. Init => RepliesSound
  BY RepliesBegin, InitOfParts DEF BnInit
<1>2. RepliesSound /\ [Next]_structureVars => RepliesSound'
  BY RepliesKeep, StepsOfParts DEF structureVars, bnVars
<1>3. RepliesSound => RepliesAreHeard
  BY DEF RepliesSound
<1>. QED
  BY <1>1, <1>2, <1>3, PTL DEF Spec

-----------------------------------------------------------------------------
(* The map *)

(* The inductive invariant of BookProofs, in the machine that has a   *)
(* map.                                                                    *)
MapInvariant == IF machine = "map" THEN MapSound ELSE ParkedMap

(* It holds ...                                                            *)
LEMMA MapStays == Spec => []MapInvariant
<1>1. Init => MapInvariant
  BY MapBegins DEF Init, MapInvariant
<1>2. MapInvariant /\ [Next]_structureVars => MapInvariant'
  <2>. SUFFICES ASSUME MapInvariant, [Next]_structureVars PROVE MapInvariant'
    OBVIOUS
  <2>. USE DEF MapInvariant
  <2>1. machine' = machine /\ (machine # "map" => UNCHANGED mapVars)
    BY DEF Next, FeedsNext, ClientsNext, structureVars
  <2>2. CASE machine = "map"
    <3>1. [MapNext]_mapVars
      BY StepsOfParts DEF structureVars
    <3>. QED
      BY <2>1, <2>2, <3>1, MapKeeps
  <2>3. CASE machine # "map"
    BY <2>1, <2>3 DEF ParkedMap, mapVars
  <2>. QED
    BY <2>2, <2>3
<1>. QED
  BY <1>1, <1>2, PTL DEF Spec

(* ... so, for any capacity, keys and values, the array of uninitialized   *)
(* cells is a sorted map that evicts its worst: at rest every insert,      *)
(* remove and clone_from does what the plain map does, and a batch that is *)
(* dropped, leaked or cut short leaves a whole map and no cell read before *)
(* it was written.                                                         *)
THEOREM MapsArePlain ==
  Spec => []MapIsPlainMap
<1>1. ParkedMap => MapIsPlainMap
  BY DEF ParkedMap, MapIsPlainMap, BatchIsExact, Free
<1>2. MapInvariant => MapIsPlainMap
  BY <1>1, SoundMapIsPlain DEF MapInvariant
<1>. QED
  BY MapStays, <1>2, PTL

-----------------------------------------------------------------------------
(* The book *)

(* A side that spills its window to a deque and refills it from there, and *)
(* publishes its top only when a batch may have changed it, is a plain map *)
(* from keys to levels whose best PUBLISHED are published at the end of    *)
(* every batch, for any window, prices and quantities; and the window holds *)
(* the best of them whenever some are deeper.                              *)
THEOREM BookImplementsPlain == Spec => ImplementsPlainBook
<1>1. Init => BookSound /\ Plain!PlainInit
  BY InitOfParts, BookBegins
<1>2. BookSound /\ [Next]_structureVars => BookSound' /\ [Plain!PlainNext]_(Plain!plainVars)
  <2>1. [Next]_structureVars => [BookNext]_bookVars
    BY StepsOfParts DEF structureVars
  <2>. QED
    BY <2>1, BookKeeps
<1>. QED
  BY <1>1, <1>2, SoundBookHolds, PTL DEF Spec, ImplementsPlainBook, Plain!PlainSpec
=============================================================================

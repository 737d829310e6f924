------------------------------ MODULE Strings ------------------------------
(***************************************************************************)
(* SharedString (core_lib/src/shared_string.rs), which every name in the   *)
(* program is held in, and the registry of instruments that names are      *)
(* interned into for ever (core_lib/src/instrument.rs).                    *)
(*                                                                         *)
(* A string is one of three things told apart by two bits of its length:   *)
(* inlined, shared and counted, or static.  Dropping a counted one is two  *)
(* steps, the decrement and the release of the memory, and other threads   *)
(* run between them.                                                       *)
(***************************************************************************)
EXTENDS Integers, Sequences, FiniteSets

CONSTANTS Word,       \* bytes of the header and of the data word: 8
          Holders,    \* bound: the places a string is held in
          Registrars, \* the connector tasks that register listings
          MaxAllocs,  \* bound: strings put on the heap
          MaxCount    \* bound: what a Counter gets to

ASSUME StringsAssumption == Word \in Nat \ {0, 1} /\ IsFiniteSet(Holders)

VARIABLES heap,    \* the allocations so far: text, Counter, and if still there
          str,     \* holder -> the string in it
          given,   \* history: holder -> what its string was made of
          leaked,  \* history: the allocations given away with leak
          byId,    \* Table.by_id
          byKey,   \* Table.by_key
          asking,  \* registrar -> the intern() it is in, past its first look
          answers  \* history: what intern() returned, for what

stringVars == <<heap, str, given, leaked, byId, byKey, asking, answers>>

-----------------------------------------------------------------------------
(* A string in memory *)

(* Bound: the texts that are tried, the longest that can be inlined, with  *)
(* and without a tail of NULs, and one that is longer.                     *)
Text(n, b) == [i \in 1 .. n |-> IF i < Word THEN 2 ELSE b]
Texts == {Text(2 * Word - 1, 0), Text(2 * Word - 1, 2), Text(2 * Word, 2)}

(* The sixteen bytes of handle_small_or: the text one byte in, ones around *)
(* it.                                                                     *)
Padded(text) == [i \in 0 .. 2 * Word - 1 |-> IF i \in DOMAIN text THEN text[i] ELSE 1]

(* Slip: whatever is short is inlined.                                     *)
FitsInlineByLength(text) == Len(text) < 2 * Word

(* The second word is a NonZeroU64: a text that would leave it zero cannot *)
(* be inlined, short as it is.                                             *)
FitsInline(text) ==
  /\ Len(text) < 2 * Word
  /\ \E i \in Word .. 2 * Word - 1 : Padded(text)[i] # 0

Nothing == [prefix |-> "none"]
Inlined(text) == [prefix |-> "inline", len |-> Len(text), raw |-> Padded(text)]
Rodata(text) == [prefix |-> "static", len |-> Len(text), at |-> 0, raw |-> text]
Heaped(prefix, len, at) == [prefix |-> prefix, len |-> len, at |-> at, raw |-> <<>>]

(* as_str: the length and the prefix say where the bytes are.              *)
AsStr(s) ==
  IF s.prefix = "inline" THEN [i \in 1 .. s.len |-> s.raw[i]]
  ELSE LET bytes == IF s.at = 0 THEN s.raw ELSE heap[s.at].text
       IN SubSeq(bytes, 1, s.len)

OnHeap(s) == s.prefix \in {"shared", "static"} /\ s.at # 0
Held == {h \in Holders : str[h].prefix \in {"inline", "shared", "static"}}

-----------------------------------------------------------------------------
(* What is done with strings *)

Allocate(text) == heap' = Append(heap, [text |-> text, count |-> 1, live |-> TRUE])

(* From<&str>.                                                             *)
MakeShared(h, text) ==
  /\ str[h] = Nothing
  /\ \/ FitsInline(text) /\ str' = [str EXCEPT ![h] = Inlined(text)] /\ UNCHANGED heap
     \/ /\ ~FitsInline(text) /\ Len(heap) < MaxAllocs
        /\ Allocate(text)
        /\ str' = [str EXCEPT ![h] = Heaped("shared", Len(text), Len(heap) + 1)]
  /\ given' = [given EXCEPT ![h] = text]
  /\ UNCHANGED <<leaked, byId, byKey, asking, answers>>

(* from_static_str.                                                        *)
MakeStatic(h, text) ==
  /\ str[h] = Nothing
  /\ str' = [str EXCEPT ![h] = IF FitsInline(text) THEN Inlined(text) ELSE Rodata(text)]
  /\ given' = [given EXCEPT ![h] = text]
  /\ UNCHANGED <<heap, leaked, byId, byKey, asking, answers>>

Clone(h, into) ==
  /\ h \in Held /\ str[into] = Nothing
  /\ str[h].prefix = "shared" => heap[str[h].at].count < MaxCount
  /\ str' = [str EXCEPT ![into] = str[h]]
  /\ heap' = IF str[h].prefix = "shared" THEN [heap EXCEPT ![str[h].at].count = @ + 1] ELSE heap
  /\ given' = [given EXCEPT ![into] = given[h]]
  /\ UNCHANGED <<leaked, byId, byKey, asking, answers>>

(* leak keeps the count it held, so the others never bring it to zero.     *)
Leak(h) ==
  /\ h \in Held
  /\ str[h].prefix = "shared"
  /\ str' = [str EXCEPT ![h].prefix = "static"]
  /\ leaked' = leaked \cup {str[h].at}
  /\ UNCHANGED <<heap, given, byId, byKey, asking, answers>>

(* The fetch_sub of a drop: the one that finds 1 is to release the memory. *)
Drop(h) ==
  /\ h \in Held
  /\ LET last == str[h].prefix = "shared" /\ heap[str[h].at].count <= 1
     IN str' = [str EXCEPT ![h] = IF last THEN [@ EXCEPT !.prefix = "freeing"] ELSE Nothing]
  /\ heap' = IF str[h].prefix = "shared" THEN [heap EXCEPT ![str[h].at].count = @ - 1] ELSE heap
  /\ given' = [given EXCEPT ![h] = <<>>]
  /\ UNCHANGED <<leaked, byId, byKey, asking, answers>>

Dealloc(h) ==
  /\ str[h].prefix = "freeing"
  /\ heap' = [heap EXCEPT ![str[h].at].live = FALSE]
  /\ str' = [str EXCEPT ![h] = Nothing]
  /\ UNCHANGED <<given, leaked, byId, byKey, asking, answers>>

-----------------------------------------------------------------------------
(* The registry of instruments *)

Key(venue, text) == [venue |-> venue, text |-> text]
KeyOf(inner) == Key(inner.venue, AsStr(inner.name))
KnownAs(key) == {i \in byKey : KeyOf(byId[i]) = key}
ById(id) == byId[id]
Answered(key, id) == answers' = answers \cup {[key |-> key, id |-> id]}

(* intern: the look under the read lock, which most calls end with.        *)
InternRead(r, venue, text) ==
  /\ asking[r] = Nothing
  /\ LET key == Key(venue, text)
     IN \/ KnownAs(key) = {} /\ asking' = [asking EXCEPT ![r] = key] /\ UNCHANGED answers
        \/ \E i \in KnownAs(key) : Answered(key, i) /\ UNCHANGED asking
  /\ UNCHANGED <<heap, str, given, leaked, byId, byKey>>

(* A real miss: a new record, whose name is leaked and whose id is its     *)
(* place.                                                                  *)
NewInner(key) ==
  /\ LET id == Len(byId) + 1
         inner(name) == [id |-> id, venue |-> key.venue, name |-> name]
     IN /\ \/ /\ FitsInline(key.text)
              /\ byId' = Append(byId, inner(Inlined(key.text)))
              /\ UNCHANGED <<heap, leaked>>
           \/ /\ ~FitsInline(key.text)
              /\ Allocate(key.text)
              /\ leaked' = leaked \cup {Len(heap) + 1}
              /\ byId' = Append(byId, inner(Heaped("static", Len(key.text), Len(heap) + 1)))
        /\ byKey' = byKey \cup {id}
        /\ Answered(key, id)

(* Slip: nobody looks again once the write lock is held.                   *)
InternWriteUnchecked(r) ==
  /\ asking[r] # Nothing
  /\ NewInner(asking[r])
  /\ asking' = [asking EXCEPT ![r] = Nothing]
  /\ UNCHANGED <<str, given>>

(* Under the write lock, looked for again: another registration may have   *)
(* raced this one to it.                                                   *)
InternWrite(r) ==
  /\ asking[r] # Nothing
  /\ \/ KnownAs(asking[r]) = {} /\ NewInner(asking[r])
     \/ /\ \E i \in KnownAs(asking[r]) : Answered(asking[r], i)
        /\ UNCHANGED <<heap, leaked, byId, byKey>>
  /\ asking' = [asking EXCEPT ![r] = Nothing]
  /\ UNCHANGED <<str, given>>

-----------------------------------------------------------------------------
StringsInit ==
  /\ heap = <<>> /\ leaked = {}
  /\ str = [h \in Holders |-> Nothing] /\ given = [h \in Holders |-> <<>>]
  /\ byId = <<>> /\ byKey = {} /\ answers = {}
  /\ asking = [r \in Registrars |-> Nothing]

(* The holders and the registrars share no string, so either group is      *)
(* looked at without the other.                                            *)
HoldersNext ==
  \E h \in Holders : \/ \E text \in Texts : MakeShared(h, text) \/ MakeStatic(h, text)
                     \/ \E into \in Holders : Clone(h, into)
                     \/ Leak(h) \/ Drop(h) \/ Dealloc(h)

RegistrarsNext ==
  \E r \in Registrars :
    \/ \E v \in {"binance_spot", "bitstamp"}, text \in Texts : InternRead(r, v, text)
    \/ InternWrite(r)

-----------------------------------------------------------------------------
(* Properties *)

(* Whoever holds a string, a record of the registry for ever, reads the    *)
(* text it was made of, out of memory that is still there; and memory is   *)
(* given back once nobody can reach it, never while somebody can.  No      *)
(* string is ever the one bit pattern that Option<SharedString> reads as   *)
(* None.                                                                   *)
StringsAreWhole ==
  /\ \A h \in Held : OnHeap(str[h]) => heap[str[h].at].live
  /\ \A h \in Held : AsStr(str[h]) = given[h]
  /\ \A h \in Held : str[h].prefix = "inline" => \E i \in Word .. 2 * Word - 1 : str[h].raw[i] # 0
  /\ \A i \in DOMAIN byId : OnHeap(byId[i].name) => heap[byId[i].name.at].live
  /\ \A a \in DOMAIN heap :
       ~heap[a].live <=> (a \notin leaked /\ \A h \in Holders :
                            ~(str[h].prefix \in {"shared", "freeing"} /\ str[h].at = a))

(* Two handles are equal exactly when they name the same symbol on the     *)
(* same venue, however many registrations raced, and the id of one leads   *)
(* back to it: addresses stand in for names everywhere else.               *)
OneHandlePerName ==
  /\ \A a, b \in answers : a.id = b.id <=> a.key = b.key
  /\ \A a \in answers : a.id \in DOMAIN byId /\ ById(a.id).id = a.id /\ KeyOf(ById(a.id)) = a.key
=============================================================================

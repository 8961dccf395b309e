---------------------------- MODULE ChannelText ----------------------------
(***************************************************************************)
(* What the channels crate does to text: strip_invisible of                *)
(* gooseclaw-safety, moderate and chunk_text of moderation.rs.             *)
(*                                                                         *)
(* Data.  A text is a sequence of code points, each a model value with the *)
(* number of bytes it takes; a pattern or the URL of a host is a sequence  *)
(* of code points that a text may contain.                                 *)
(***************************************************************************)
EXTENDS Naturals, Sequences, SequencesExt

CONSTANTS
  Chars,               \* code points
  Bytes,               \* len_utf8 of each
  Invisible,           \* those strip_invisible removes
  Whitespace, Alphanumeric,
  TRIFECTA_PATTERNS, INJECTION_PATTERNS,
  ForeignUrls,         \* URLs whose host is not on URL_HOST_ALLOWLIST
  MAX_MESSAGE_BYTES

ASSUME CharsAssumption ==
  /\ Invisible \cup Whitespace \cup Alphanumeric \subseteq Chars
  /\ Bytes \in [Chars -> 1 .. 4]

ASSUME MaxAssumption == MAX_MESSAGE_BYTES \in Nat

\* String::len counts bytes.
SizeOf(text) == FoldLeft(LAMBDA n, c : n + Bytes[c], 0, text)

OccursAt(p, text, i) ==
  i + Len(p) - 1 <= Len(text) /\ SubSeq(text, i, i + Len(p) - 1) = p

HasPattern(text, patterns) ==
  \E p \in patterns : \E i \in DOMAIN text : OccursAt(p, text, i)

\* has_url looks at the beginning of a token, what is not alphanumeric trimmed.
BeginsToken(text, i) ==
  \A j \in 1 .. i - 1 :
    text[j] \in Alphanumeric => \E k \in j .. i - 1 : text[k] \in Whitespace

has_url(text) ==
  \E u \in ForeignUrls : \E i \in DOMAIN text :
    OccursAt(u, text, i) /\ BeginsToken(text, i)

\* The elements of s that are in T, in order.
Kept(s, T) ==
  FoldLeft(LAMBDA kept, x : IF x \in T THEN Append(kept, x) ELSE kept, << >>, s)

strip_invisible(text) == Kept(text, Chars \ Invisible)

Reasons == {"Oversized", "Trifecta", "InjectionPattern", "ExfilUrl"}

moderate(text) ==
  IF SizeOf(text) > MAX_MESSAGE_BYTES            THEN "Oversized"
  ELSE IF HasPattern(text, TRIFECTA_PATTERNS)    THEN "Trifecta"
  ELSE IF HasPattern(text, INJECTION_PATTERNS)   THEN "InjectionPattern"
  ELSE IF has_url(text)                          THEN "ExfilUrl"
  ELSE "Admit"

----------------------------------------------------------------------------
(* chunk_text: one fold over the code points, with the finished chunks in  *)
(* out and the current one in cur.                                         *)

OverflowsByOne(cur, c, limit) == SizeOf(cur) > limit   \* faulty: off by one

Overflows(cur, c, limit) == SizeOf(cur) + Bytes[c] > limit

Chunked(acc, c, limit) ==
  IF Overflows(acc.cur, c, limit)
    THEN [out |-> Append(acc.out, acc.cur), cur |-> <<c>>]
    ELSE [acc EXCEPT !.cur = Append(@, c)]

NotFlushed(end) == end.out                    \* faulty: last chunk forgotten

Flushed(end) == IF end.cur = << >> THEN end.out ELSE Append(end.out, end.cur)

chunk_text(text, limit) ==
  Flushed(FoldLeft(LAMBDA acc, c : Chunked(acc, c, limit),
                   [out |-> << >>, cur |-> << >>], text))
=============================================================================

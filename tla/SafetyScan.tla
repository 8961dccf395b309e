----------------------------- MODULE SafetyScan -----------------------------
(***************************************************************************)
(* The scanners of gooseclaw-safety and the ApprovalRenderer of            *)
(* gooseclaw-channels as operators on texts (ChannelText).                 *)
(*                                                                         *)
(* Data.  Lower is to_lowercase, code point by code point.  The evidence   *)
(* of a leak is the prefix of its kind and "[REDACTED]", which is one code *)
(* point here.                                                             *)
(***************************************************************************)
EXTENDS ChannelText

CONSTANTS
  Lower,               \* [Chars -> Chars]
  OVERRIDE_MARKERS,    \* lower-case texts
  LeakKinds,           \* the prefixes "nsec1" and "sk-"
  LeakLength,          \* the bytes a leak exceeds: 20 and 16
  REDACTED,
  Open, Close, Space   \* "[", "]" and " "

ASSUME LowerAssumption == Lower \in [Chars -> Chars]

ASSUME FormatAssumption == {Open, Close, Space} \subseteq Chars

to_lowercase(text) == [i \in DOMAIN text |-> Lower[text[i]]]

NothingInvisible(text) == FALSE                \* faulty: no check

contains_invisible(text) == Len(text) # Len(strip_invisible(text))

MarkersIn(text) == {p \in OVERRIDE_MARKERS : HasPattern(text, {p})}

scan_injection(text) ==
  {[pattern |-> p, severity |-> "Medium"] : p \in MarkersIn(to_lowercase(text))}
    \cup (IF contains_invisible(text)
            THEN {[pattern |-> << >>, severity |-> "High"]} ELSE {})

----------------------------------------------------------------------------
\* split_whitespace: the tokens of a text, as <<first, last>>.
Tokens(text) ==
  {t \in (DOMAIN text) \X (DOMAIN text) :
     /\ t[1] <= t[2]
     /\ \A i \in t[1] .. t[2] : text[i] \notin Whitespace
     /\ t[1] = 1 \/ text[t[1] - 1] \in Whitespace
     /\ t[2] = Len(text) \/ text[t[2] + 1] \in Whitespace}

TokenAt(text, t) == SubSeq(text, t[1], t[2])

Evidence(prefix) == Append(prefix, REDACTED)

\* The evidence of "nsec1" takes 15 bytes, that of "sk-" 13.
ASSUME LeakAssumption ==
  /\ LeakKinds \subseteq Seq(Chars) /\ REDACTED \in Chars
  /\ LeakLength \in [LeakKinds -> Nat]
  /\ \A p \in LeakKinds : SizeOf(Evidence(p)) <= LeakLength[p]

AnyLength(token, prefix) == TRUE               \* faulty: no threshold

LongEnough(token, prefix) == SizeOf(token) > LeakLength[prefix]

\* The tokens that leak, each with its kind.
Leaks(text) ==
  {f \in Tokens(text) \X LeakKinds :
     /\ OccursAt(f[2], TokenAt(text, f[1]), 1)
     /\ LongEnough(TokenAt(text, f[1]), f[2])}

scan_leaks(text) ==
  {[at |-> f[1], kind |-> f[2], redacted |-> Evidence(f[2])] : f \in Leaks(text)}

----------------------------------------------------------------------------
\* ApprovalRenderer::render: what the human reads.  The payload is not in it.
Concatenated(actor, summary) == actor \o summary               \* faulty

Formatted(actor, summary) == <<Open>> \o actor \o <<Close, Space>> \o summary

render(action) ==
  Formatted(strip_invisible(action.actor), strip_invisible(action.summary))

----------------------------------------------------------------------------
\* Hiding a marker does not avoid a warning: a text whose visible part, in
\* lower case, contains an override marker always gets one, for the marker
\* or for what hides it (Sanitizer scans the raw text).
HiddenMarkersFlagged(text) ==
  MarkersIn(to_lowercase(strip_invisible(text))) # {} => scan_injection(text) # {}

\* "The redacted field NEVER contains the secret": the evidence of a finding
\* never contains the token it was found in, although the evidence repeats
\* the token's beginning.
RedactedHidesToken(text) ==
  \A f \in scan_leaks(text) :
    ~ HasPattern(f.redacted, {TokenAt(text, f.at)})

\* Two actions that read the same to the human have the same visible actor
\* and the same visible summary, as long as no actor contains a bracket.
RenderDistinguishes(a, b) ==
  /\ Close \notin {a.actor[i] : i \in DOMAIN a.actor}
  /\ Close \notin {b.actor[i] : i \in DOMAIN b.actor}
  /\ render(a) = render(b)
  => /\ strip_invisible(a.actor) = strip_invisible(b.actor)
     /\ strip_invisible(a.summary) = strip_invisible(b.summary)
=============================================================================

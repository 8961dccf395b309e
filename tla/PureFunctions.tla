--------------------------- MODULE PureFunctions ---------------------------
(***************************************************************************)
(* The stateless parts of the crates, each applied to every input of a     *)
(* bounded set: the encoding of actions (ActionEncoding), rank fusion      *)
(* (RankFusion), the scanners and the approval renderer (SafetyScan) and   *)
(* the scripted approval cases (RedTeam).  A behaviour chooses one input;  *)
(* the invariants are the properties those modules state, at that input.   *)
(***************************************************************************)
EXTENDS ActionEncoding, RankFusion, SafetyScan, RedTeam

CONSTANTS
  ByteStrings,     \* bound: fields of actions
  Docs,            \* bound: documents
  Texts,           \* bound: scanned texts
  ReadTexts,       \* bound: actors and summaries shown to a human
  NoInput

ASSUME InputsAssumption ==
  /\ ByteStrings \subseteq Bytestring /\ Docs \subseteq Nat
  /\ Texts \subseteq Seq(Chars) /\ ReadTexts \subseteq Seq(Chars)

\* What a store supplies: the first ranks, a document at most once in a list.
RankLists ==
  {[i \in DOMAIN ds |-> [doc_id |-> ds[i], rank |-> i]] :
     ds \in {s \in SeqOf(Docs, MaxRank) : IsInjective(s)}}

HashedActions ==
  [actor : ByteStrings, summary : ByteStrings, payload : ByteStrings]

ReadActions == [actor : ReadTexts, summary : ReadTexts]

VARIABLES kind, input

pureVars == <<kind, input>>

PureInit == kind = "none" /\ input = NoInput

Choose(k, inputs) ==
  /\ kind = "none"
  /\ kind' = k
  /\ input' \in inputs

ChooseHashed == Choose("hashed", HashedActions)

ChooseRanks == Choose("ranks", RankLists \X RankLists)

ChooseText == Choose("text", Texts)

ChooseRead == Choose("read", ReadActions)

ChooseClock == Choose("clock", [1 .. 5 -> Times])

PureNext ==
  ChooseHashed \/ ChooseRanks \/ ChooseText \/ ChooseRead \/ ChooseClock

PureSpec == PureInit /\ [][PureNext]_pureVars

----------------------------------------------------------------------------
\* The hash input of an action is no other action's (ActionRequest::hash,
\* gate.rs:37), for actors and summaries without zero bytes.
HashBinds ==
  kind = "hashed" => \A b \in HashedActions : HashBindsAction(input, b)

\* fuse (gooseclaw-knowledge/src/lib.rs:43) does not depend on which list
\* comes first, and puts what both lists found before what one list found.
FusionIsFair ==
  kind = "ranks" =>
    FusionIsSymmetric(input[1], input[2]) /\ AgreementWins(input[1], input[2])

\* scan_injection (gooseclaw-safety/src/lib.rs:91) has a warning for every
\* text in which a marker is visible, hidden in the raw text or not, and
\* scan_leaks (lib.rs:123) never returns the secret it found.
ScansHold ==
  kind = "text" => HiddenMarkersFlagged(input) /\ RedactedHidesToken(input)

\* ApprovalRenderer::render (gooseclaw-channels/src/lib.rs:81) reads
\* differently for different visible actors or summaries.
SummariesDiffer ==
  kind = "read" => \A b \in ReadActions : RenderDistinguishes(input, b)

\* approval_defenses (redteam.rs:147) gets the outcomes it asserts.
Defended == kind = "clock" => DefensesHold(input)
=============================================================================

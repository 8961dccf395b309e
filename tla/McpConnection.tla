--------------------------- MODULE McpConnection ---------------------------
(***************************************************************************)
(* McpConnection of gooseclaw-knowledge (mcp.rs): the era probe, the       *)
(* legacy handshake and the calls after it, over two byte streams.         *)
(*                                                                         *)
(* Data.  A request is its id and method.  The bytes of an answer are one  *)
(* line, which may reach the client in one piece ("whole") or in two: a    *)
(* "head" and then its "rest", or, from a server that writes the newline   *)
(* separately, the complete text and then the "newline".  The pipe to the   *)
(* server holds PipeRoom messages it has not read; a write waits for room.  *)
(***************************************************************************)
EXTENDS Naturals, Sequences, FiniteSets

CONSTANTS
  MaxCalls,     \* bound: calls after the handshake
  MaxNotices,   \* bound: notifications the server sends
  PipeRoom      \* unread messages the pipe to the server has room for

ASSUME BoundsAssumption ==
  MaxCalls \in Nat /\ MaxNotices \in Nat /\ PipeRoom \in Nat \ {0}

VARIABLES
  (* the server and the streams *)
  alive,     \* the server process runs
  requests,  \* ids it has yet to read, 0 for a notification
  partial,   \* the line it is in the middle of writing, if any
  wire,      \* pieces of lines the client has yet to read
  notices,
  (* the connection *)
  pc,        \* see Stages
  written,   \* the message of this stage is in the pipe
  next_id,
  line,      \* what read_line has of an unfinished line, if anything
  era,
  (* history, indexed by request id *)
  answers,   \* what the server said
  got,       \* what roundtrip returned
  tears      \* timeouts that lost the beginning of a line

server == <<alive, requests, partial, wire, notices>>
client == <<pc, written, next_id, line, era, got, tears>>
vars == <<server, client, answers>>

\* connect's two roundtrips and its notification, and the calls of an owner.
Stages ==
  {"probing", "initializing", "notifying", "ready", "calling", "failed"}

DualAware == {"discovered", "unsupported"}

\* What a server may answer to the request with this id: the first is
\* server/discover, the second initialize, the others are tool calls.
Sayable(id) ==
  CASE id = 1 -> DualAware \cup {"error"}
    [] id = 2 -> {"legacy_version", "other_version", "no_version", "error"}
    [] OTHER -> {"result", "error"}

Says ==
  DualAware \cup {"legacy_version", "other_version", "no_version", "result",
                  "error"}

Notice == [id |-> 0, says |-> "notice"]

Message == [id : Nat \ {0}, says : Says] \cup {Notice}

Nothing == [part |-> "nothing"]

\* ends: how the line a head begins will end.
Head1(m, end) == [part |-> "head", msg |-> m, ends |-> end]
Whole(m) == [part |-> "whole", msg |-> m]
Ending(end) == [part |-> end]

Heads == [part : {"head"}, msg : Message, ends : {"rest", "newline"}]

Pieces ==
  [part : {"whole"}, msg : Message] \cup Heads
    \cup [part : {"rest", "newline"}]

Errors == {"timeout", "transport", "protocol"}

TypeOK ==
  /\ alive \in BOOLEAN
  /\ requests \in Seq(Nat)
  /\ partial \in Heads \cup {Nothing}
  /\ wire \in Seq(Pieces)
  /\ notices \in Nat
  /\ pc \in Stages /\ written \in BOOLEAN
  /\ next_id \in Nat
  /\ line \in Heads \cup {Nothing}
  /\ era \in {"legacy", "dual"}
  /\ answers \in Seq(Says \cup {"none"})
  /\ got \in Seq(Says \cup Errors \cup {"waiting"})
  /\ DOMAIN answers = 1 .. next_id /\ DOMAIN got = 1 .. next_id
  /\ tears \in Nat

\* connect has sent the probe.
Init ==
  /\ alive = TRUE
  /\ requests = <<1>> /\ partial = Nothing /\ wire = << >>
  /\ notices = 0
  /\ pc = "probing" /\ written = TRUE
  /\ next_id = 1
  /\ line = Nothing
  /\ era = "legacy"
  /\ answers = <<"none">> /\ got = <<"waiting">>
  /\ tears = 0

----------------------------------------------------------------------------
(* The server.                                                             *)

\* It writes a line: at once, or its beginning only.
Write(m) ==
  /\ partial = Nothing
  /\ \/ wire' = Append(wire, Whole(m)) /\ UNCHANGED partial
     \/ \E end \in {"rest", "newline"} :
          wire' = Append(wire, Head1(m, end)) /\ partial' = Head1(m, end)

Answer ==
  /\ alive /\ requests # << >> /\ Head(requests) # 0
  /\ \E says \in Sayable(Head(requests)) :
       /\ Write([id |-> Head(requests), says |-> says])
       /\ answers' = [answers EXCEPT ![Head(requests)] = says]
  /\ requests' = Tail(requests)
  /\ UNCHANGED <<alive, notices, client>>

\* A notification, or a request it does not answer.
Ignore ==
  /\ alive /\ requests # << >>
  /\ requests' = Tail(requests)
  /\ UNCHANGED <<alive, partial, wire, notices, answers, client>>

FinishLine ==
  /\ alive /\ partial # Nothing
  /\ wire' = Append(wire, Ending(partial.ends))
  /\ partial' = Nothing
  /\ UNCHANGED <<alive, requests, notices, answers, client>>

Notify ==
  /\ alive /\ notices < MaxNotices
  /\ Write(Notice)
  /\ notices' = notices + 1
  /\ UNCHANGED <<alive, requests, answers, client>>

\* The process ends; what it has written can still be read.
Die ==
  /\ alive
  /\ alive' = FALSE
  /\ requests' = << >> /\ partial' = Nothing
  /\ UNCHANGED <<wire, notices, answers, client>>

----------------------------------------------------------------------------
(* roundtrip                                                               *)

InRoundtrip == pc \in {"probing", "initializing", "calling"}

\* roundtrip has sent its request and reads lines.
Waiting == InRoundtrip /\ written

SameId == next_id                             \* faulty: ids not advanced

NextId == next_id + 1

\* A roundtrip begins; known: what the earlier ones returned.
Begin(stage, known) ==
  /\ pc' = stage /\ written' = FALSE
  /\ next_id' = NextId
  /\ answers' = Append(answers, "none")
  /\ got' = Append(known, "waiting")

ProbeFatal(outcome) == outcome \notin Errors  \* faulty: ? after the probe

ProbeSettles(outcome) == TRUE

AnyVersion(outcome) ==                        \* faulty: version not compared
  outcome \in {"legacy_version", "other_version"}

Negotiated(outcome) == outcome = "legacy_version"

\* The roundtrip in progress returns; connect, or its caller, goes on.
Finish(outcome) ==
  LET known == [got EXCEPT ![next_id] = outcome] IN
  IF pc = "probing" /\ ProbeSettles(outcome)
    THEN /\ era' = IF outcome \in DualAware THEN "dual" ELSE "legacy"
         /\ Begin("initializing", known)
    ELSE /\ pc' = IF pc = "calling" THEN "ready"
                 ELSE IF pc = "initializing" /\ Negotiated(outcome)
                 THEN "notifying" ELSE "failed"
         /\ written' = FALSE
         /\ got' = known
         /\ UNCHANGED <<next_id, era, answers>>

\* send_value, outside the timeout: write_all waits until there is room.
SendMessage ==
  /\ pc \notin {"ready", "failed"} /\ ~ written
  /\ alive /\ Len(requests) < PipeRoom
  /\ IF pc = "notifying"
       THEN requests' = Append(requests, 0) /\ pc' = "ready" /\ UNCHANGED written
       ELSE requests' = Append(requests, next_id) /\ written' = TRUE /\ UNCHANGED pc
  /\ UNCHANGED <<alive, partial, wire, notices, next_id, line, era, got, tears,
                 answers>>

\* send_value to a server that has ended.
SendFails ==
  /\ pc \notin {"ready", "failed"} /\ ~ written /\ ~ alive
  /\ IF pc = "notifying"
       THEN pc' = "failed" /\ UNCHANGED <<written, next_id, era, answers, got>>
       ELSE Finish("transport")
  /\ UNCHANGED <<server, line, tears>>

AnyId(m) == m # Notice                        \* faulty: ids not compared

IsMine(m) == m.id = next_id

SkipFails == Finish("protocol")               \* faulty: other ids an error

Skip == UNCHANGED <<pc, written, next_id, era, answers, got>>

\* A complete line holds the message m.
Take(m) == IF IsMine(m) THEN Finish(m.says) ELSE Skip

\* read_line gets a piece.
Read ==
  LET p == Head(wire) IN
  /\ Waiting /\ wire # << >>
  /\ wire' = Tail(wire)
  /\ line' = IF p.part = "head" THEN p ELSE Nothing
  /\ IF p.part = "whole" THEN Take(p.msg)
     ELSE IF p.part = "head" THEN UNCHANGED <<pc, written, next_id, era, answers, got>>
     ELSE IF line # Nothing THEN Take(line.msg)
     ELSE IF p.part = "newline"                    \* an empty line: skipped
       THEN UNCHANGED <<pc, written, next_id, era, answers, got>>
     ELSE Finish("protocol")                       \* the end of a lost line
  /\ UNCHANGED <<alive, requests, partial, notices, tears>>

\* End of file: an unfinished line is parsed as it is.
Eof ==
  /\ Waiting /\ ~ alive /\ wire = << >>
  /\ line' = Nothing
  /\ IF line = Nothing THEN Finish("transport")
     ELSE IF line.ends = "rest" THEN Finish("protocol")
     ELSE Take(line.msg)
  /\ UNCHANGED <<server, tears>>

NoTimeout == FALSE                            \* faulty: no timeout

TimeoutElapses == Waiting

\* PROBE_TIMEOUT or CALL_TIMEOUT.  read_line's buffer goes with the future.
Timeout ==
  /\ TimeoutElapses
  /\ Finish("timeout")
  /\ tears' = tears + (IF line = Nothing THEN 0 ELSE 1)
  /\ line' = Nothing
  /\ UNCHANGED server

\* The owner of a connection calls a tool, also after a call has failed.
Call ==
  /\ pc = "ready" /\ next_id < MaxCalls + 2
  /\ Begin("calling", got)
  /\ UNCHANGED <<server, line, era, tears>>

Next ==
  \/ Answer \/ Ignore \/ FinishLine \/ Notify \/ Die
  \/ SendMessage \/ SendFails \/ Read \/ Eof \/ Timeout \/ Call

Spec == Init /\ [][Next]_vars

\* tokio polls the roundtrip and its timer; nothing is asked of the server.
FairSpec ==
  Spec /\ WF_vars(SendMessage \/ SendFails \/ Read \/ Eof \/ Timeout)

----------------------------------------------------------------------------
\* What a roundtrip returns is what the server said to that very request,
\* however late earlier answers come (mcp.rs:203-205).
OwnAnswers ==
  \A id \in DOMAIN got : got[id] \in Says => got[id] = answers[id]

\* A connection is handed out only if the server agreed to the version it
\* asked for, in answer to this connection's initialize; and the era it carries
\* is what the server itself said to the probe, unless that was lost or late.
HandshakeIsAgreed ==
  pc \in {"notifying", "ready", "calling"} =>
    /\ answers[2] = "legacy_version"
    /\ era = "dual" => answers[1] \in DualAware
    /\ era = "legacy" => answers[1] \notin DualAware \/ got[1] \in Errors

\* A server that writes well-formed lines costs its client a call only where a
\* timeout fell into the middle of a line: the stream is in step again after
\* at most one failed roundtrip per tear (or at the end of file).
OneFailurePerTear ==
  Cardinality({id \in DOMAIN got : got[id] = "protocol"})
    <= tears + (IF alive THEN 0 ELSE 1)

\* "ANY other error or a timeout marks a legacy server -> initialize handshake"
\* (mcp.rs:5-6): whatever becomes of the probe, connect fails only for what
\* became of initialize, a dead server, or a tear in the probe's answer.
ConnectFailsForAReason ==
  pc = "failed" =>
    \/ ~ alive
    \/ next_id = 2 /\ got[2] \in (Sayable(2) \ {"legacy_version"}) \cup {"timeout"}
    \/ next_id = 2 /\ got[2] = "protocol" /\ got[1] = "timeout" /\ tears = 1

\* A roundtrip whose request is in the pipe returns, also from a server that
\* answers nothing or writes half a line.
AwaitedRoundtripsReturn == \A n \in 1 .. (MaxCalls + 2) :
  (Waiting /\ next_id = n) ~> ~ (Waiting /\ next_id = n)

\* "Times out per call" (mcp.rs:175): every roundtrip returns, also from a
\* server that no longer reads.
RoundtripsReturn == \A n \in 1 .. (MaxCalls + 2) :
  (InRoundtrip /\ next_id = n) ~> ~ (InRoundtrip /\ next_id = n)
=============================================================================

---------------------------- MODULE VaultClient ----------------------------
(***************************************************************************)
(* The federation client of gooseclaw-knowledge: VaultClient::read and     *)
(* ::write over one MCP connection, against Alfred (the vault server), a   *)
(* human who edits notes, and outages.                                     *)
(*                                                                         *)
(* An operation holds &mut self, so there is one at a time; everything     *)
(* else may happen at its await points, which are where an action ends:    *)
(* the connect factory with its handshake, and each tool call.             *)
(*                                                                         *)
(* Data.  A note is the sequence of its authors, so its length is the      *)
(* version token and its last element the content.  Human edits are author *)
(* Human; the k-th vault_write the client sends is author k.               *)
(***************************************************************************)
EXTENDS Integers, Sequences, FiniteSets

CONSTANTS
  Paths,      \* the notes of the vault
  MaxEdits,   \* bound: human edits of existing notes, all notes together
  MaxWrites,  \* bound: vault_write calls the client sends
  MaxLate,    \* bound: an operation starts when fewer requests than this wait
  NoEntry     \* the cache has nothing for a note

ASSUME BoundsAssumption ==
  MaxEdits \in Nat /\ MaxWrites \in Nat /\ MaxLate \in Nat \ {0}

Human == 0
Authors == Nat

VARIABLES
  (* Alfred and the pipes *)
  log,      \* per note, the authors of its versions
  up,       \* Alfred runs
  inbox,    \* requests on the current connection Alfred has yet to handle
  wire,     \* answers on the current connection the client has yet to read
  limbo,    \* vault_writes of dropped connections, still to be handled
  (* the fields of VaultClient *)
  conn,     \* "none", "live", or "dead": its peer is gone, unnoticed
  cache,
  offline,
  needs_revalidation,
  (* the operation in progress *)
  op,
  (* history *)
  sent,     \* the vault_writes sent, with what became of each
  shown     \* per note, the version the caller saw last

server == <<log, up, limbo>>
pipes == <<inbox, wire>>
fields == <<conn, cache, offline, needs_revalidation>>
vars == <<server, pipes, fields, op, sent, shown>>

Request ==
  [tool : {"vault_read", "vault_write"}, path : Paths, wid : Nat,
   expected : Nat, late : BOOLEAN]

Answer ==
  [kind : {"note", "written", "conflict", "refused", "garbled"},
   version : Nat, content : Authors, late : BOOLEAN]

Entry == [content : Authors, version : Nat, fresh : BOOLEAN]

ASSUME NoEntryAssumption == NoEntry \notin Entry

Purposes == {"read", "revalidate", "write", "refetch"}

\* "reconnecting" is maybe_reconnect, "connecting" is ensure_conn inside
\* read_live, the others are the tool call in progress.
Idle == [pc |-> "idle"]
InOp(pc, kind, p) == [pc |-> pc, kind |-> kind, path |-> p]

Op ==
  {Idle} \cup
  [pc : {"reconnecting", "connecting"} \cup Purposes,
   kind : {"read", "write"}, path : Paths]

Sent ==
  [path : Paths, expected : Nat, seen : Nat, revalidated : BOOLEAN,
   outcome : {"pending", "written", "conflict", "muted", "protocol"}]

TypeOK ==
  /\ log \in [Paths -> Seq(Authors)]
  /\ up \in BOOLEAN
  /\ inbox \in Seq(Request) /\ wire \in Seq(Answer)
  /\ limbo \subseteq Request
  /\ conn \in {"none", "live", "dead"}
  /\ cache \in [Paths -> Entry \cup {NoEntry}]
  /\ offline \in BOOLEAN /\ needs_revalidation \in BOOLEAN
  /\ op \in Op
  /\ sent \in Seq(Sent)
  /\ shown \in [Paths -> Nat]

Init ==
  /\ log \in [Paths -> {<< >>, <<Human>>}]
  /\ up \in BOOLEAN
  /\ inbox = << >> /\ wire = << >> /\ limbo = {}
  /\ conn = "none"
  /\ cache = [p \in Paths |-> NoEntry]
  /\ offline = FALSE /\ needs_revalidation = FALSE
  /\ op = Idle
  /\ sent = << >>
  /\ shown = [p \in Paths |-> 0]

----------------------------------------------------------------------------
(* Alfred, the human, outages and time.                                    *)

\* The human's edits of notes that were there already.
HumanEdits ==
  {e \in Paths \X (2 .. MaxEdits + MaxWrites + 1) :
     e[2] \in DOMAIN log[e[1]] /\ log[e[1]][e[2]] = Human}

HumanEdit(p) ==
  /\ log[p] = << >> \/ Cardinality(HumanEdits) < MaxEdits
  /\ log' = [log EXCEPT ![p] = Append(@, Human)]
  /\ UNCHANGED <<up, limbo, pipes, fields, op, sent, shown>>

AcceptsAny(r) == TRUE                         \* faulty: versions not compared

\* vault_write: compare the expected version with the current one, and append.
Accepts(r) == Len(log[r.path]) = r.expected

Stored(r) ==
  IF r.tool = "vault_write" /\ Accepts(r)
    THEN [log EXCEPT ![r.path] = Append(@, r.wid)]
    ELSE log

Reply(kind, r, version, content) ==
  [kind |-> kind, version |-> version, content |-> content, late |-> r.late]

AnswerTo(r) ==
  LET n == Len(log[r.path]) IN
  CASE r.tool = "vault_read" /\ n > 0 ->
         Reply("note", r, n, log[r.path][n])
    [] r.tool = "vault_read" /\ n = 0 -> Reply("refused", r, 0, Human)
    [] r.tool = "vault_write" /\ Accepts(r) ->
         Reply("written", r, n + 1, r.wid)
    [] OTHER -> Reply("conflict", r, n, Human)

\* Alfred handles the next request; the line it answers with may be unreadable.
Handle ==
  /\ up /\ conn = "live" /\ inbox # << >>
  /\ log' = Stored(Head(inbox))
  /\ inbox' = Tail(inbox)
  /\ \/ wire' = Append(wire, AnswerTo(Head(inbox)))
     \/ wire' = Append(wire, Reply("garbled", Head(inbox), 0, Human))
  /\ UNCHANGED <<up, limbo, fields, op, sent, shown>>

\* A write the client gave up on is handled all the same.
HandleAbandoned(r) ==
  /\ up
  /\ log' = Stored(r)
  /\ limbo' = limbo \ {r}
  /\ UNCHANGED <<up, pipes, fields, op, sent, shown>>

\* Alfred dies: unhandled requests are lost, answers maybe.
Crash ==
  /\ up
  /\ up' = FALSE
  /\ inbox' = << >> /\ limbo' = {}
  /\ wire' \in {wire, << >>}
  /\ conn' = IF conn = "live" THEN "dead" ELSE conn
  /\ UNCHANGED <<log, cache, offline, needs_revalidation, op, sent, shown>>

Restart ==
  /\ ~ up
  /\ up' = TRUE
  /\ UNCHANGED <<log, limbo, pipes, fields, op, sent, shown>>

\* Whether CacheEntry::fresh holds.
FreshCopy(p) == IF cache[p] = NoEntry THEN FALSE ELSE cache[p].fresh

\* CACHE_TTL passes for an entry.
Expire(p) ==
  /\ FreshCopy(p)
  /\ cache' = [cache EXCEPT ![p].fresh = FALSE]
  /\ UNCHANGED <<server, pipes, conn, offline, needs_revalidation, op, sent,
                 shown>>
----------------------------------------------------------------------------
(* Pieces of the client's own code.                                        *)

Send(r, q) == inbox' = IF conn' = "live" THEN Append(q, r) ELSE q

\* A vault_read call made for this purpose, on the pipe q.
CallRead(purpose, kind, p, q) ==
  /\ op' = InOp(purpose, kind, p)
  /\ Send([tool |-> "vault_read", path |-> p, wid |-> 0, expected |-> 0,
           late |-> FALSE], q)

CallWrite(p, q, expected, revalidated) ==
  /\ op' = InOp("write", "write", p)
  /\ sent' = Append(sent, [path |-> p, expected |-> expected,
                           seen |-> shown[p], revalidated |-> revalidated,
                           outcome |-> "pending"])
  /\ Send([tool |-> "vault_write", path |-> p, wid |-> Len(sent) + 1,
           expected |-> expected, late |-> FALSE], q)

Return == op' = Idle

Show(p, version) == shown' = [shown EXCEPT ![p] = version]

Resolve(outcome) == sent' = [sent EXCEPT ![Len(sent)].outcome = outcome]

RememberUnstamped(p, content, version) ==     \* faulty: fetched_at not set
  cache' = [cache EXCEPT ![p] = [content |-> content, version |-> version]]

Remember(p, content, version) ==
  cache' = [cache EXCEPT ![p] = [content |-> content, version |-> version,
                                 fresh |-> TRUE]]

AsLate(s) == [i \in DOMAIN s |-> [s[i] EXCEPT !.late = TRUE]]

\* The unhandled vault_writes of a connection that is being dropped.
Abandoned ==
  IF conn = "live"
    THEN {AsLate(inbox)[i] : i \in {j \in DOMAIN inbox :
                                      inbox[j].tool = "vault_write"}}
    ELSE {}

mark_offline ==
  /\ offline' = TRUE
  /\ conn' = "none"
  /\ inbox' = << >> /\ wire' = << >>
  /\ limbo' = limbo \cup Abandoned

\* read's error path: the cached copy flagged stale, or the error.
ReturnStaleOrError(p) ==
  /\ Return
  /\ IF cache[p] # NoEntry THEN Show(p, cache[p].version) ELSE UNCHANGED shown

\* read, once maybe_reconnect has left the client online; q is the pipe.
ReadOnline(p, q) ==
  \/ /\ FreshCopy(p)
     /\ Return /\ Show(p, cache[p].version) /\ inbox' = q
  \/ /\ ~ FreshCopy(p)
     /\ IF conn' = "none"
          THEN op' = InOp("connecting", "read", p) /\ inbox' = q
          ELSE CallRead("read", "read", p, q)
     /\ UNCHANGED shown

NeedsNoRevalidation == FALSE                  \* faulty: O5 rule dropped

MustRevalidate == needs_revalidation'

\* write, once maybe_reconnect has left the client online.
WriteOnline(p, q) ==
  \/ /\ MustRevalidate
     /\ CallRead("revalidate", "write", p, q)
     /\ UNCHANGED sent
  \/ /\ ~ MustRevalidate /\ cache[p] = NoEntry      \* MustReadFirst
     /\ Return /\ inbox' = q
     /\ UNCHANGED sent
  \/ /\ ~ MustRevalidate /\ cache[p] # NoEntry
     /\ CallWrite(p, q, cache[p].version, FALSE)

----------------------------------------------------------------------------
(* Starting an operation, and connecting.                                  *)

MayStart == op = Idle /\ Len(inbox) < MaxLate

StartRead(p) ==
  /\ MayStart
  /\ UNCHANGED fields
  /\ IF offline
       THEN op' = InOp("reconnecting", "read", p) /\ UNCHANGED <<inbox, shown>>
       ELSE ReadOnline(p, inbox)
  /\ UNCHANGED <<server, wire, sent>>

StartWrite(p) ==
  /\ MayStart /\ Len(sent) < MaxWrites
  /\ UNCHANGED fields
  /\ IF offline
       THEN op' = InOp("reconnecting", "write", p) /\ UNCHANGED <<inbox, sent>>
       ELSE WriteOnline(p, inbox)
  /\ UNCHANGED <<server, wire, shown>>

Armed == needs_revalidation \/ offline

\* ensure_conn succeeds, from maybe_reconnect or from read_live.
Connected ==
  /\ op.pc \in {"reconnecting", "connecting"}
  /\ up
  /\ conn' = "live" /\ offline' = FALSE
  /\ needs_revalidation' = Armed
  /\ wire' = << >>
  /\ CASE op.pc = "connecting" ->
             CallRead("read", "read", op.path, << >>) /\ UNCHANGED <<sent, shown>>
       [] op.pc = "reconnecting" /\ op.kind = "read" ->
             ReadOnline(op.path, << >>) /\ UNCHANGED sent
       [] OTHER ->
             WriteOnline(op.path, << >>) /\ UNCHANGED shown
  /\ UNCHANGED <<server, cache>>

\* The factory or the handshake fails.  A write is refused as Muted.
NotConnected ==
  /\ op.pc \in {"reconnecting", "connecting"}
  /\ mark_offline
  /\ IF op.kind = "read" THEN ReturnStaleOrError(op.path)
     ELSE Return /\ UNCHANGED shown
  /\ UNCHANGED <<log, up, cache, needs_revalidation, sent>>

----------------------------------------------------------------------------
(* A tool call in progress: the lines that arrive, and how it can fail.    *)

Calling == op.pc \in Purposes

AnyAnswer(a) == TRUE                          \* faulty: id not compared

IsMine(a) == ~ a.late

Arrived(kind) ==
  Calling /\ wire # << >> /\ Head(wire).kind = kind /\ IsMine(Head(wire))

\* A line with another id, the late answer to a call that timed out.
SkipLine ==
  /\ Calling /\ wire # << >>
  /\ Head(wire).kind # "garbled" /\ ~ IsMine(Head(wire))
  /\ wire' = Tail(wire)
  /\ UNCHANGED <<server, inbox, fields, op, sent, shown>>

\* read_live returns: to the caller, to write's revalidation, or to
\* try_write's re-fetch after a CONFLICT.
ReceiveNote ==
  LET a == Head(wire)  p == op.path IN
  /\ Arrived("note") /\ op.pc # "write"
  /\ wire' = Tail(wire)
  /\ UNCHANGED <<conn, offline>>
  /\ Remember(p, a.content, a.version)
  /\ CASE op.pc = "read" ->
             /\ Return /\ Show(p, a.version)
             /\ UNCHANGED <<inbox, needs_revalidation, sent>>
       [] op.pc = "revalidate" ->
             /\ needs_revalidation' = FALSE
             /\ CallWrite(p, inbox, a.version, TRUE)
             /\ UNCHANGED shown
       [] OTHER ->
             /\ Return /\ Show(p, a.version) /\ Resolve("conflict")
             /\ UNCHANGED <<inbox, needs_revalidation>>
  /\ UNCHANGED <<server>>

CacheUntouched(version) == UNCHANGED cache    \* faulty: copy not replaced

CacheWritten(version) == Remember(op.path, Len(sent), version)

ReceiveWritten ==
  /\ Arrived("written") /\ op.pc = "write"
  /\ wire' = Tail(wire)
  /\ CacheWritten(Head(wire).version)
  /\ Show(op.path, Head(wire).version)
  /\ Resolve("written")
  /\ Return
  /\ UNCHANGED <<server, inbox, conn, offline, needs_revalidation>>

Forget(p) == [cache EXCEPT ![p] = NoEntry]

\* CONFLICT: discard the local copy and re-fetch.
ReceiveConflict ==
  /\ Arrived("conflict") /\ op.pc = "write"
  /\ wire' = Tail(wire)
  /\ UNCHANGED <<conn, offline, needs_revalidation>>
  /\ cache' = Forget(op.path)
  /\ CallRead("refetch", "write", op.path, inbox)
  /\ UNCHANGED <<server, sent, shown>>

ObligationMet == FALSE        \* faulty: cleared before the read that meets it

StillObliged == needs_revalidation

\* The call ends in an error.  A failed revalidation leaves through the ? of
\* client.rs:260, past mark_offline: the connection stays, and whatever is
\* still on it will be late.
FailCall(outcome, rest) ==
  /\ CASE op.pc = "read" ->
             /\ mark_offline /\ ReturnStaleOrError(op.path)
             /\ UNCHANGED <<needs_revalidation, sent>>
       [] op.pc = "revalidate" ->
             /\ Return
             /\ needs_revalidation' = StillObliged
             /\ inbox' = AsLate(inbox) /\ wire' = AsLate(rest)
             /\ UNCHANGED <<limbo, conn, offline, sent, shown>>
       [] OTHER ->
             /\ mark_offline /\ Return /\ Resolve(outcome)
             /\ UNCHANGED <<needs_revalidation, shown>>
  /\ UNCHANGED <<log, up, cache>>

\* An unreadable line, whosever answer it was.
ReceiveGarbled ==
  /\ Calling /\ wire # << >> /\ Head(wire).kind = "garbled"
  /\ FailCall("protocol", Tail(wire))

\* is_error without CONFLICT, for instance a note that does not exist.
ReceiveRefused ==
  /\ Arrived("refused")
  /\ FailCall("protocol", Tail(wire))

Eof ==
  /\ Calling /\ conn = "dead" /\ wire = << >>
  /\ FailCall("muted", << >>)

CallMayTimeOut == Calling /\ conn = "live" /\ wire = << >>

\* CALL_TIMEOUT: every line that had arrived has been read by then.
Timeout ==
  /\ CallMayTimeOut
  /\ FailCall("muted", << >>)

----------------------------------------------------------------------------
ClientStep ==
  \/ Connected \/ NotConnected
  \/ SkipLine \/ ReceiveNote \/ ReceiveWritten \/ ReceiveConflict
  \/ ReceiveGarbled \/ ReceiveRefused \/ Eof \/ Timeout

Next ==
  \/ \E p \in Paths : HumanEdit(p) \/ Expire(p)
  \/ Handle
  \/ \E r \in limbo : HandleAbandoned(r)
  \/ Crash \/ Restart
  \/ \E p \in Paths : StartRead(p) \/ StartWrite(p)
  \/ ClientStep

Spec == Init /\ [][Next]_vars

\* The executor polls the operation in progress until it returns, and tokio's
\* timeout and the connect factory do return; nothing is asked of Alfred.
FairSpec == Spec /\ WF_vars(ClientStep)

\* A caller that keeps writing, and an Alfred that comes back.
WritingSpec ==
  FairSpec /\ WF_vars(\E p \in Paths : StartWrite(p)) /\ WF_vars(Restart)
----------------------------------------------------------------------------
(* Safety *)

\* A cached copy is a version the vault really had, content and token
\* together: no interleaving of late answers, conflicts and reconnects pairs
\* one note's content with another's token, or a content with a wrong token.
CacheIsPast ==
  \A p \in Paths :
    cache[p] # NoEntry =>
      /\ cache[p].version \in DOMAIN log[p]
      /\ log[p][cache[p].version] = cache[p].content

\* A write fetched this version of the note itself, and failed before its
\* caller was told.
Fetched(w, p, version) ==
  /\ w.path = p /\ w.expected = version /\ w.revalidated
  /\ w.outcome \in {"muted", "protocol"}

\* A write offers the token of the copy its caller read (client.rs:5-6), unless
\* the client re-read the note for this write, or for an earlier one that failed.
OffersVersionSeen ==
  \A w \in DOMAIN sent :
    sent[w].expected # sent[w].seen =>
      \/ sent[w].revalidated
      \/ \E v \in 1 .. w - 1 : Fetched(sent[v], sent[w].path, sent[w].expected)

\* The caller's view of a note never goes back to an older version, though
\* copies are served from cache, live, stale and after conflicts.
MonotonicReads == [][\A p \in Paths : shown'[p] >= shown[p]]_vars

\* The register's view of a write.
AsIssued(w) ==
  [path |-> w.path, expected |-> w.expected,
   verdict |-> CASE w.outcome = "pending" -> "open"
                 [] w.outcome = "written" -> "written"
                 [] w.outcome = "conflict" -> "conflict"
                 [] OTHER -> "unknown"]

Issued(s) == [v \in DOMAIN s |-> AsIssued(s[v])]

Register == INSTANCE VaultRegister WITH writes <- Issued(sent)

\* The client, the connections it drops and Alfred together implement the
\* register: a write is applied at most once and on the version it names, and
\* what the caller is told of it is true.
ImplementsRegister == Register!Spec

----------------------------------------------------------------------------
(* What the contract says, and the code does not do.                       *)

\* client.rs:12-16: while Alfred is offline "writes go MUTE", and a write after
\* that is "the first write after a reconnect".  So once Alfred is back for
\* good, a connection whose peer is gone does not stay in use.
DeadConnectionNoticed ==
  <>[]up =>
    ((conn = "dead" /\ needs_revalidation) ~> (conn # "dead"))
=============================================================================

# A verification of GooseClaw

TLA+ models of the Rust crates under `src/crates`, TLC runs that check them on
small instances, and TLAPS proofs for every value of the constants: every safety
property of every passing run is a theorem.  Paths below are relative to the repository;
`gate.rs:184` means line 184 of that file.

- [1. The system](#1-the-system): components, state, operations, interactions
- [2. What is hard in it, and what makes it correct](#2-what-is-hard-in-it-and-what-makes-it-correct)
- [3. The modules and the code](#3-the-modules-and-the-code)
- [4. The runs](#4-the-runs)
- [5. Where the code and its documents differ](#5-where-the-code-and-its-documents-differ)
- [6. The proofs](#6-the-proofs)
- [7. Not modelled](#7-not-modelled)
- [8. Plan](#8-plan)

## 1. The system

GooseClaw is a "core" crate that owns decisions and durable state, and satellite
crates that call it.  Goose (the agent) and Alfred (the server of a vault of
notes) are separate processes spoken to over stdio.  At this commit the library
crates are complete seams, and the only binaries are a spike and a probe that
tie them together.

| Component | State it keeps | Operations | Talks to |
|---|---|---|---|
| Rule-9 gate, `gooseclaw/src/gate.rs` | `pending` action hashes, `used_nonces`, the `audit` log, the signer allowlist; all in memory | `submit`, `decide`, `deny`, `submit_and_decide`, `audit_log` | the system clock; callers hold `PendingAction` handles |
| Session store, `gooseclaw/src/session.rs` | one append-only JSONL file per session | `append`, `load` | the file system |
| Subprocess supervisor, `gooseclaw/src/supervise.rs` | none (the child's handles go to the caller) | `spawn_jsonrpc` | the operating system |
| ACP spike, `gooseclaw/src/bin/acp_spike.rs` | a gate and a session store behind mutexes, a counter | permission handler, notification handler, prompt flow | goose, gate, session store |
| Channel sessions, `gooseclaw-channels/src/lib.rs` | an allowlist and a gate | `on_inbound`, `request_human_decision` | gate, sanitizer |
| Relay channel, `gooseclaw-channels/src/nostr_relay.rs` | an outbox | `drain`, `queue_approved` | a relay transport (a trait), allowlist, moderation |
| Moderation, `gooseclaw-channels/src/moderation.rs` | none | `moderate`, `chunk_text` | |
| Safety scanners, `gooseclaw-safety/src/lib.rs` | none | `strip_invisible`, `scan_injection`, `scan_leaks` | |
| Payments gate, `gooseclaw-payments/src/lib.rs` | spending caps and a gate | `request_spend` | gate |
| Federation client, `gooseclaw-knowledge/src/client.rs` | a connection, a cache with a TTL, `offline`, `needs_revalidation` | `read`, `write`, `probe_offline` | MCP connection, Alfred |
| MCP connection, `gooseclaw-knowledge/src/mcp.rs` | a buffered reader, a writer, `next_id`, the server's era | `connect`, `roundtrip`, `call_tool` | a server process |
| Rank fusion, `gooseclaw-knowledge/src/lib.rs` | none | `rrf` | |
| Nostr custody, `gooseclaw-nostr/src/lib.rs` | none | `sign_event` (always refuses) | |
| Skill leases, `gooseclaw-skills/src/lib.rs` | an immutable list of leases | lookup | |

The interactions that matter:

- **calls by value and by borrow.**  Every caller of the gate holds it in a field
  of type `G: GateCaller`; the trait is implemented for `Rule9Gate` itself and for
  nothing that could be shared.  A refused `submit_and_decide` drops the only
  handle of an action that stays pending.
- **messages.**  Requests and answers of the MCP connection are lines on two
  pipes; ids pair them.  A call that times out leaves its answer in the pipe.
- **shared state.**  Appends of different tasks meet in one session file without a
  lock.  The vault is shared with humans who edit it at any time.
- **callbacks.**  ACP requests run in a handler beside the prompt that caused them.

## 2. What is hard in it, and what makes it correct

| Component | Hard behaviour | What must hold |
|---|---|---|
| Gate | early returns before a burn; two handles of one action; a handle dropped by a refusal; a clock that steps back | every grant is backed by a message its allowlisted signer made about that very action; a nonce is granted once; grants never exceed submissions; a refused call spends nothing |
| Gate callers | one gate per caller; a restart forgets nonces | a refused request leaves exactly its action pending; each caller grants a nonce at most once per life of the process |
| Federation client | late answers on a kept connection; writes applied though unanswered; copies from before an outage; conflict followed by an outage | cached content and token belong together; callers never see a note run backwards; a write replaces only the version it names |
| MCP connection | timeouts in mid-line, late probe answers, a server that dies in a line, a full pipe | an answer is never taken for another's; a torn line costs one call |
| ACP spike | two handlers for equal tool calls beside the prompt and its timer; nonces made from a clock; a store that refuses goose's session id; `process::exit` at any point | tools run as often as the gate granted them; one handler never takes the other's pending entry; every answer is explained by the record written before it |
| Stateless parts | fields of a hash input that are not length-prefixed; scores of two lists; markers hidden by invisible code points | encodings bind; fusion is fair; what is hidden is flagged, what is secret is not shown |
| Session store | torn lines, short writes of two appenders | a load that succeeds is complete, and extends earlier loads |
| Relay channel | invisible code points, a batch with bad messages, a failure in mid-message, duplicates after a retry | every message is reported; nothing hidden is admitted; the recipient reads only approved texts |

`PROJECT.json` lists the hazards one by one, each with its line and the properties
that would catch it going wrong.

## 3. The modules and the code

| Module | Models | Used by |
|---|---|---|
| `GateOps` | the operations of `Rule9Gate` as functions on a gate record | `Rule9Gate`, `GateCallers`, `AcpSpike`, `RedTeam` |
| `Rule9Gate` | one gate, its handles, signing humans, the clock | `MCRule9Gate` |
| `ApprovalLedger` | abstract: a grant spends one submission and one fresh signed message | refined by `Rule9Gate` |
| `Rule9Gate_proofs` | its theorems | |
| `GateCallers` | channel sessions and the payments gate, each over its own gate, and restarts | `MCGateCallers` |
| `GateCallers_proofs` | its theorems | |
| `AcpSpike` | the prompt flow, the permission and notification handlers, the record, goose | `MCAcpSpike` |
| `AcpSpike_proofs` | its theorems | |
| `VaultClient` | `VaultClient::read` and `write`, Alfred, outages, human edits | `VaultOutages`, `MCVaultClient` |
| `VaultOutages` | the same with a history of its outages, and what a reconnect promises | `MCVaultOutages` |
| `VaultClient_proofs` | the theorems of both, the refinement among them | |
| `VaultRegister` | abstract: a note is an append-only register with conditional writes | refined by `VaultClient` |
| `McpConnection` | probe, handshake and calls, byte streams included | `MCMcpConnection` |
| `McpConnection_proofs` | ids, answers and the handshake; torn lines and why `connect` fails | |
| `SessionStore` | `append` and `load` on one file | `MCSessionStore` |
| `SessionStore_proofs` | its theorems | |
| `ChannelText` | `strip_invisible`, `moderate`, `chunk_text` as operators | `RelayChannel`, `SafetyScan` |
| `RelayChannel` | `drain`, `queue_approved`, a failing transport, a recipient | `MCRelayChannel` |
| `ActionEncoding` | the bytes that are hashed and the bytes that are signed | `PureFunctions` |
| `RankFusion` | `rrf_score` and `fuse` | `PureFunctions` |
| `SafetyScan` | the injection and leak scanners, the approval renderer | `PureFunctions` |
| `RedTeam` | `approval_defenses` over `GateOps` | `PureFunctions` |
| `PureFunctions` | chooses one input for one of the four | `MCPureFunctions` |
| `Channels_proofs` | theorems about `RelayChannel` and `PureFunctions`, which share `ChannelText` | |
| `SequenceFacts` | induction over sequences; what `FoldLeft` and `FlattenSeq` compute | `SessionStore_proofs`, `Channels_proofs` |

Definitions marked `faulty` in a comment are mistakes the code could have made;
nothing in a specification uses them.  Each stands for one checked property: put
in place of the definition that follows it, it makes TLC report the property.

### The gate (`GateOps`, `Rule9Gate`)

`gate` is the Rust struct; `handles` are the live `PendingAction` values.  The
struct's methods take `&mut self`, so a call is one atomic step; between the two
readings of the clock in `decide` (`gate.rs:171` and `:188`) the clock may move,
which is why the date of a record is a choice.  `DecideOutcome` has the early
returns in the order of the code.  Abstracted: an action is its hash, a signature
is the message it was made for and the key that made it, or `Garbled`.  A presenter
may combine any made signature with any other key, nonce and expiry.  The history
variables `evidence` (which message backs a record) and `submissions` are what
properties compare the gate with.

### Callers (`GateCallers`)

`gates` is one gate per caller, as in the types of `ChannelSession` and
`PaymentGate`.  `RequestSpend` has the per-spend cap in front of the gate
(`gooseclaw-payments/src/lib.rs:65`).  `Restart` is `Rule9Gate::new` at every caller;
signed messages survive it because their holders do.

### The federation client (`VaultClient`)

An operation holds `&mut self`, so there is one at a time (`op`), and an action ends
where the code awaits: at the connect factory and at each tool call.  Between two
actions Alfred may handle requests, die and come back, humans may edit, entries may
expire.  `needs_revalidation`, `offline`, `cache` and `conn` are the fields of the
struct; `inbox` and `wire` are the two pipes of its connection; `limbo` holds the
writes of connections it dropped, which Alfred may still handle.  A note is the
sequence of its authors: its length is the version token, its last element the
content.  That a version identifies content is Alfred's contract, taken from the fake
server of `tests/federation.rs`; so is the CONFLICT answer.  Ids are abstracted to
`late`, set when a call is given up on a connection that is kept; `McpConnection`
has the ids themselves.  In `VaultClient` a request fits into the pipe.

`VaultOutages` adds two history variables in a module of their own: `away`, the human
edits made while the client was offline (creations of notes left out: nobody has read
those before), and `owed`, that the client was offline and has sent no `vault_write`
since.  They restrain no step, so that what O5 says of the first write after a
reconnect is compared with what happened, not with the flags of the code.

### The MCP connection (`McpConnection`)

`pc` is where `connect` or a call is; a roundtrip first writes its request
(`SendMessage`, outside the timeout, as in `mcp.rs:184`) and then reads pieces of
lines.  `line` is the `String` that `read_line` fills, which a timeout drops together
with what has been read (`mcp.rs:188`); its rest then reads as a line of its own.  A
line is read whole, or in two pieces of which the second is either needed to parse it
(`rest`) or only its newline, so that a torn line leaves garbage or a blank line.
The server is external: it may answer anything its method allows, late or never,
notify, and die in the middle of a line.

### The session store (`SessionStore`)

A line is three pieces: a beginning of the JSON text, its rest, the newline.
`WriteSome` is one `write(2)` in append mode, so pieces of two appends may interleave.
`WriteFails` and `Crash` leave what was written.  `LoadOk` is the `?` of
`session.rs:82`: every non-empty line must parse.  `Parses` assumes that a line with
pieces of two events never does.  The code parses bytes, and there is one exception:
a write of a single byte, the `{` of an event, landing inside a string of another
event whose rest follows, makes a line that parses with an altered detail.
`LoadIsComplete` and `HistoryOnlyGrows` hold but for that.

### The relay channel (`ChannelText`, `RelayChannel`)

A text is a sequence of code points with their sizes in bytes; patterns and URLs are
short sequences.  `has_url` keeps the detail that only the beginning of a token
counts.  `Drain` is one action because `drain` borrows the channel; `queue_approved`
is one action per chunk because the transport may fail at each.  The recipient
(external) reassembles by index and total.  Letter case is abstracted.

### The ACP spike (`AcpSpike`)

`flow` is where `main`'s future is; a handler goes through `HandlerSteps` once for
each permission request.  Handlers may run side by side with each other and with the
flow, so an action ends where another task may come in: at every lock that is taken
or given back, at every `record`, at the answer.  This is more than the code may do:
the handler's body has no `await` (`acp_spike.rs:168-231`), so that two of them
interleave only if the ACP crate runs handlers on several threads.  `gate_lock` is the mutex around the
gate, held from `submit` to the end of the block of `acp_spike.rs:186-193`; in between the
handler reads the clock three times, for the nonce, for the expiry and in `decide`,
and each reading is a choice.  Goose is external: it may offer any options, answer or
not, end its turn early, and runs tools as an answer entitles it to.  Two requests for
equal tool calls are the same action: the JSON-RPC id does not go into the hash.  The
rest of the request does (`acp_spike.rs:181-185`), so in the code equal calls with
other options are two actions; the model, which tells them apart by the call alone,
has them share a pending entry more often.  `record` writes under the session id of the moment and drops errors
(`acp_spike.rs:66`); a session id that makes no file name fails for good, hence
`unwritable`.  `AcpSpike` instantiates `GateOps`, so its gate is the one of `Rule9Gate`.

### The stateless parts (`ActionEncoding`, `RankFusion`, `SafetyScan`, `RedTeam`)

These modules hold operators and, at their end, what must hold of them.
`PureFunctions` gives them a behaviour: its first step chooses one input of one kind.
Scores of `RankFusion` are exact fractions, multiples of `1/Scale`, where the code has
floating-point numbers.  `RedTeam` runs the five scripted cases of
`approval_defenses` for every clock that may be read meanwhile; its last assertion, on
a rendered summary (`redteam.rs:186-194`), is left out.

## 4. The runs

Passing runs, with what they show and why the bounds are enough:

| Run | Bounds | Shows |
|---|---|---|
| `Rule9Gate` | three keys (allowlisted and decodable, decodable only, allowlisted only), 2 actions, 2 nonces, 2 times, 2 handles, 2 signed messages, 2 submissions per action, a monotonic clock | authorised, single-use, bounded and unexpired grants; bounded denials; usable approvals stay usable; refinement of `ApprovalLedger` |
| `GateCallers` | one channel and the payments gate, 2 amounts around the cap, 2 nonces, 2 signed messages, 2 requests per caller and action, 1 restart | the pending set is what was last refused; no caller grants a nonce twice in one life |
| `VaultClient` | 2 notes, 1 human edit of an existing note (creation is free), 2 writes, 1 waiting request at the start of an operation | cache, tokens, monotonic reads, revalidation of the first write after an outage, refinement of `VaultRegister`; no deadlock |
| `McpConnection` | 2 calls after the handshake, 1 notification, room for 2 unread messages | answers never mixed up, handshake agreed, one failed call per tear, and the calls that wait for an answer return |
| `SessionStore` | 2 writers, 4 appends, 2 faults | a load that succeeds is complete and extends those before it |
| `RelayChannel` | 2 inbound messages of 7 texts and 2 senders, 2 sends of 6 texts, a chunk limit of 5 bytes and a cap of 10 | reports, admitted text, reassembly, chunk sizes |
| `AcpSpike` | 1 tool call, 3 option lists, 2 requests, 2 nonces, readings 0 and 2 of the clock with a validity of 1, 1 update, 2 runs of the tool | tools run as granted, refusals come from the clock, the record explains the answers, the process ends |
| `PureFunctions` | byte strings up to 2, rank lists over 4 documents up to 3, texts up to 4 code points, 3 times at 5 calls | the hash input binds, fusion is fair, scanners hold, summaries differ, the scripted cases fail for their own reasons |

Two of everything suffices for the confusions at stake (another action's signature,
another note's token, the previous call's answer, the other writer's piece, the other
handler's pending entry); the third element, where there is one, is the case in
between.  A second submission, a second write and a second send are needed for reuse
after a refusal, retry after a failure, and a late request beside a new one.  One
restart, outage or tear can follow any step, also another one where the bound is two.
What the bounds leave out, the proofs of section 6 cover: any number of restarts, of
handlers, of outages and of torn lines, and a clock that steps back.  One case of
`OffersVersionSeen`, a token that an earlier, failed write fetched, takes three writes
to reach and is met by the proof only.

Deadlock is switched off where the environment may simply stop (bounded messages,
submissions, events); `VaultClient` is checked for deadlock.

Violated by what the code does, one property each, quoted from a document or comment:

| Run | Property | |
|---|---|---|
| `VaultClientEditWins` | `HumanEditWins` | the first write after an outage overwrites an edit made during it |
| `VaultClientDead` | `DeadConnectionNoticed` | a caller that only writes keeps a dead connection for ever |
| `McpConnectionHangs` | `RoundtripsReturn` | a request that does not fit into the pipe is awaited without limit |
| `SessionStoreTorn` | `RecordCanBeLoaded` | a torn line makes the record unloadable |

**Fairness.**  `McpConnection!FairSpec`: weak fairness of the client's own steps, the
tokio executor polling the task and its timer; nothing is asked of the server, which
may stop answering, reading, or writing in mid-line.  `VaultClient!FairSpec` is the
same for an operation in progress.  `WritingSpec` adds a caller that keeps writing and
an Alfred that is started again, without which a connection nobody uses proves
nothing.  `AcpSpike!FairSpec`: weak fairness of the prompt flow, its 180-second timer
included, and of every handler, all of which tokio polls; nothing is asked of goose.

## 5. Where the code and its documents differ

With a run (see `PROJECT.json`, findings): the four above.  In short:

1. `client.rs:17` says a human's edit during an outage "wins (CONFLICT path)"; the
   first write after a reconnect re-reads the note and offers the token it just read
   (`client.rs:260`), so there is no conflict.  In the counterexample a caller reads
   version 1, the next read times out, the human edits the note while the client is
   offline, and the caller's write is accepted on top of version 2.
2. `client.rs:260` returns with `?` past `mark_offline`; a dead connection is never
   replaced while `needs_revalidation` is set and only writes are made.
3. `mcp.rs:175` says "Times out per call"; the write of the request is outside the
   timeout (`mcp.rs:184`).
4. `specification.md:73` promises a durable session state that is replayed; after a
   torn line `load` returns an error for the whole session.

Seen while modelling, without a run of their own.  In the gate and its callers:

- `gate.rs:3` says "exactly one gate, owned here in core"; the callers' types hold gates
  by value (`gooseclaw-payments/src/lib.rs:55`), so single use is per caller and life:
  `ReplaysBounded` is the bound that holds.
- `ActionNotPending` is worded "was never submitted" (`gate.rs:93`), but is also what a
  second decision of a decided action gets.
- `SpendingCaps` has a daily cap that `request_spend` never reads; `specification.md:106`
  asks for "per-period caps".  The cap that is read is per spend.
- `used_nonces`, `pending` and `audit` only grow.
- What a human reads in an approval leaves out the payload, and is ambiguous when an
  actor contains "]".
- The expired case of the red-team suite needs a clock after 1970.

In the federation client:

- `write` reports `Muted` on a timeout and says "the write did not happen"
  (`client.rs:273`), though Alfred may apply it later.
- A refused read (a note that does not exist) marks the client offline
  (`client.rs:190`), so `needs_revalidation`, "set when a connection is (re)established
  after an outage" (`client.rs:109`), is also set when Alfred was never away.
- The contract has writes carry the version "from the read that produced the local
  copy" (`client.rs:5`).  A revalidation whose write then fails leaves its token in the
  cache though no caller saw that version, and a later write may offer it, once
  another note's write has cleared `needs_revalidation`.
- A note that does not exist can be neither read nor, for want of a version, written:
  `MustReadFirst` (`client.rs:265`).
- A copy is fresh for `CACHE_TTL` from its receipt (`client.rs:241`), however long it
  waited in the pipe.

In the channels:

- `nostr_relay.rs:9` says that with an offline signer "nothing is sent"; chunks before
  the failure have been sent.

In the ACP spike:

- The reports of the spike say that it never selects allow_always
  (`docs/audit/2026-10-27-phase1-acp-spike/pr-body.md:28`); where goose offers no
  allow_once, the first option there is gets selected (`acp_spike.rs:203`), be it an
  allow_always or a rejection.
- Exit code 0 is documented as a "full round-trip" (`acp_spike.rs:17`), and is also what
  a turn without any permission request, or with nothing but refusals, ends with.
- The comment of the nonce generator says time and counter; there is no counter
  (`acp_spike.rs:92`), so two requests read at one instant share a nonce, and the second
  is refused.
- `session.rs:28` asks for details that are "sanitized, redacted"; the handler records
  the raw request (`acp_spike.rs:175`).
- The session id is recorded in its `Debug` form; where that makes no file name,
  every later event is lost without notice (`acp_spike.rs:66`).
- Only the prompt has a timeout; `initialize` and `session/new` wait for ever.

## 6. The proofs

Each theorem holds for every value of the constants that satisfies the named
assumptions of its modules: sets of anything for keys, nonces, actions, callers,
notes, requests, any numbers for the bounds, times that are natural numbers, special
values that are none of the ordinary ones.

| Module | Theorem | Says |
|---|---|---|
| `Rule9Gate_proofs` | `TypeCorrect` | `TypeOK` |
| | `GrantInvariant` | the inductive invariant `GrantInv` |
| | `GrantsAreAuthorised`, `GrantsAreSingleUse` | `GrantAuthorised`, `SingleUse` |
| | `BurnedNoncesAreGranted` | `BurnedAreGranted` |
| | `GrantsBoundedBySubmissions`, `DenialsAreBounded` | `OneGrantPerSubmission`, `DenialsBounded` |
| | `GrantsRespectExpiry` | `MonotonicClock => ExpiryRespected` |
| | `GateImplementsLedger` | the gate refines `ApprovalLedger` |
| | `UsableApprovalsStayUsable` | `ApprovalStaysUsable` |
| `GateCallers_proofs` | `TypeCorrect` | its `TypeOK` |
| | `PendingLastRefused`, `ReplaysAreBounded` | `PendingIsLastRefused`, `ReplaysBounded` |
| `VaultClient_proofs` | `TypeCorrect`, `InvariantHolds` | `TypeOK`, the inductive invariant `Inv` |
| | `CacheHoldsVersions`, `TokensWereRead` | `CacheIsPast`, `OffersVersionSeen` |
| | `ReadsAreMonotonic`, `OutagesAreRevalidated` | `MonotonicReads`, `RevalidatesFirst` |
| | `ClientImplementsRegister` | the client refines `VaultRegister` |
| `McpConnection_proofs` | `ConnectionInvariant`, `TypeCorrect` | the inductive invariant `Inv`, `TypeOK` |
| | `AnswersAreOwn`, `HandshakesAreAgreed` | `OwnAnswers`, `HandshakeIsAgreed` |
| | `FramingInvariant` | the stream is in frame, failures are paid for by tears |
| | `TearsCostOneFailure`, `ConnectFailsWithReason` | `OneFailurePerTear`, `ConnectFailsForAReason` |
| `AcpSpike_proofs` | `TypeCorrect` | `TypeOK` |
| | `RunsAreWithinGrants`, `RefusalsComeFromTheClock` | `RunsAreGranted`, `RefusedByClockOnly` |
| | `RecordExplainsAnswers` | `AnswersAreRecorded` |
| `SessionStore_proofs` | `StoreCorrect` | the inductive invariant `StoreInv` |
| | `EveryLoadIsComplete`, `EveryHistoryGrows` | `LoadIsComplete`, `HistoryOnlyGrows` |
| `Channels_proofs` | `TypeCorrect` | `TypeOK` of `RelayChannel` |
| | `ChunksMakeText`, `ChunksFitLimit` | what `chunk_text` computes of every text |
| | `OutboundCorrect`, `InboundCorrect` | the inductive invariants `OutboundInv`, `InboundInv` |
| | `EveryReceivedWasApproved`, `EverySentIsReceived`, `EveryChunkFits` | `ReceivedWasApproved`, `SentIsReceived`, `ChunksFit` |
| | `EveryMessageReported`, `EveryAdmittedReadsClean` | `EverythingReported`, `AdmittedReadsClean` |
| | `EveryHashBinds`, `MessageIsInjective` | `HashBinds`; equal messages, equal fields |
| | `EverySummaryDiffers`, `EveryScanHolds` | `SummariesDiffer`, `ScansHold` |
| | `FuseIsSymmetric`, `EveryFusionIsFair` | one half of it for all lists, `FusionIsFair` |
| | `EveryDefenseHolds` | `Defended` |

**The gate.**  `SingleUse` is not inductive: a step that grants needs to know that its
nonce, which the gate has not burned, is no earlier grant's.  That is
`BurnedAreGranted`, which in turn needs evidence and log in step (`GrantAuthorised`).
`GrantInv` is the conjunction of the three with `TypeOK`.  `StepShape` reduces the seven
actions to three effects on log, nonces and evidence (quiet, one grant, one denial),
and the invariants are proved shape by shape.  The bounds and the refinement count with
the cardinality theorems of the library; the refinement's budget is natural because of
`OneGrantPerSubmission`, and denials count together with the live handles.
`ExpiryRespected` carries a stronger invariant: no record is dated after the clock.
The callers need one more fact (`ReplayInv`): what was granted in this life is burned
at that caller's gate, and no grant is of a later life.

**The federation client.**  `Inv` says of the operation in progress that the pipes hold
at most one request or answer of its own beside late lines (`PipesInv`), and that the
answer tells a version of its note no older than the one shown last.  Cached copies
are such versions too (`CacheInv`), and a token nobody was shown was fetched for a
write that failed or is in progress (`TokenInv`).  Logs only grow, so all of this
survives edits, crashes and abandoned writes.  `RevalidatesFirst` is about the history
of `VaultOutages`, whose behaviours are `VaultClient`'s (`OutagesObserve`); its
invariant is `OwedInv`: as long as a revalidation is owed, the client is offline or
its flag is set.

**The refinement.**  The register's log is the vault's and its writes are those sent.
A `vault_write` is in at most one place: on the live connection, among the abandoned
ones, or in a log; and until it is in a log, no author of the log is it.  `WritesInv`
says so, and that an answer "written" on its way names the version after the one
expected, a "conflict" a write that is in no log.  Then `Handle` and
`HandleAbandoned` are the register's `Apply` or a stutter, sending a write is `Issue`,
and what ends a write is `Learn`.

**The connection.**  `Inv` relates the ids on the pipes to the history of what the
server said to each request: requests are numbered and answered at most once
(`RequestsInv`), every piece of a line carries what was said to its id (`WireInv`), and a
roundtrip returned only that (`AnswersInv`); `StageInv` ties the era to the probe.  For
torn lines, `Framed` describes the stream to the client: heads are followed by their
endings, but for one orphaned ending in front after a timeout and one unfinished line at
the server's end.  Each is a debt, and failures plus debts never exceed tears plus
one for the server's end (`CountInv`).

**The spike.**  `LockInv`: between `submit` and the end of `decide` the handler holds
the mutex and its action is pending, so only the nonce or the expiry can refuse it.
`RecordInv`: where a handler is, the record has what it wrote.  `CountInv`: approved
requests of a tool call are as many as its grants, and its runs are no more than the
requests whose allow_once goose has used, or an allow_always was given.

**Folds.**  What `load`, `drain`, `chunk_text`, `strip_invisible` and `fuse` compute are
folds, and what the theorems say of them holds for sequences of any length.
`SequenceFacts` proves that `FoldLeft` of the community modules, a function
recursive over a set of indices, gives the start for the empty sequence and one step
more for one element more (`FoldLaws`).  The induction theorems of the library take the
predicate as an operator parameter, which the provers cannot instantiate; here it is a
set of numbers or of sequences, and `WFMin` of the library gives the least number
outside it (`InductionOnNat`, `InductionOnSeq`).

**The session store.**  `LoadIsComplete` speaks of the moments when the file can be
loaded; its reason holds at all moments.  `StoreInv`: the beginning of an event is at
most once in the file together with what its append has still to write, it is in the
file when the append has returned, and the file has pieces of events given to `append`
only.  By induction over the file, a piece that is once in it is in one line and no
other (`LinesPlace`); a line that parses has the beginning of its event and of no other
(`ParsedLine`).  `HistoryOnlyGrows` needs to remember where a loaded list came from:
from a beginning of today's file, whose lines go on as the first lines of any longer
file (`LinesPersist`).

**The relay channel.**  Neither property of the recipient is inductive: a last chunk
could complete any text.  `OutboundInv` says of a call in progress that what is still
to be sent is the end of the chunks of its text, and what the recipient is putting
together is their beginning.  That the whole is the text is `ChunksMakeText`: by
induction over the text, the finished chunks and the current one make up what has been
read.  `SentIsReceived` counts copies and calls; since a call gets its outcome only
after the last chunk arrived, the invariant counts it as soon as nothing is left to
send.  `InboundInv` says that the report accounts for the drained messages one by one,
which each turn of the loop of `drain` keeps.

**The stateless parts.**  A behaviour holds one input, so each property is a lemma
about one input.  Zero-free fields are found again in the hash input by the position
of the first two zero bytes, and a rendered actor by that of the first bracket; the
message has fields of fixed length.  A scan of a text without invisible code points
is a scan of its visible part.  A token that leaks takes more bytes than the evidence.
Scores of the two lists add up (`ScoresAdd`), so that the order of the lists does not
matter, and a document of both lists has two scores of at least `1/(2k+1)` where one of
a single list has at most `1/(k+1)`.  The sort is specified by the number of hits
before each hit; the order is total and the hits finitely many, so each rank is taken
once (`SortedRanks`) and a greater score means an earlier place.

**Assumptions.**  The constants' assumptions say what a bound, a set or a special value
is.  Three have content: `ScaleAssumption`, that `Scale` has an exact score for each rank
up to `MaxRank` (the code rounds to a double; the proofs are about exact fractions);
`LeakAssumption`, that the text shown for a leak takes no more bytes than the threshold
of its kind (15 of 20 and 13 of 16); and `VectorAssumption`, the keys and actions of the
scripted cases.

Only model-checked: liveness (`AwaitedRoundtripsReturn`, `SpikeEnds`, the violated
liveness properties), which is out of the proof system's reach as `ENABLED` is, and
deadlock freedom of `VaultClient`.  The findings are counterexamples and need no
proof.  Operators that the provers do not unfold are kept out of the models proved
about: `Kept` and `Lines` are folds where `SelectSeq` or a parse would do, and
`Sorted` and `Accumulate` are function constructors.

## 7. Not modelled

- SHA-256 and Ed25519: a hash is as good as its input, a signature is the message it
  was made for;
- loss of power (`append` does not sync); the file of the model keeps what was written;
- the age of cached copies: `CACHE_TTL` may pass at any time;
- the lists of patterns, JSON and log formatting, the table of texts of the red-team
  suite;
- the subprocess supervisor (one call that configures and spawns a process), the core
  crate's façade (constants and a scheduler without jobs), Nostr custody (always
  refuses), skill leases (a lookup in an immutable list), the federation probe (a
  script over the client) and the release scripts: no state of their own, or nothing
  that runs beside anything else.

## 8. Plan

Done: gate, callers, federation client, MCP connection, session store, relay channel,
ACP spike, the stateless parts; theorems for every safety property and both
refinements.

Left, in this order:

1. The composition of `AcpSpike` with `SessionStore`, so that a record is torn by the
   `process::exit` of the spike itself.
2. An abstract specification of the session store (a log that only grows, read whole or
   not at all) and of the relay's outbound side (texts delivered at least once), which
   `StoreInv` and `OutboundInv` already suffice to refine.

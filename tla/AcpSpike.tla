------------------------------ MODULE AcpSpike ------------------------------
(***************************************************************************)
(* The ACP spike (crates/gooseclaw/src/bin/acp_spike.rs): one prompt sent  *)
(* to goose, and the handlers of the permission requests goose makes while *)
(* it works on it.  Handlers, the prompt flow and the transport share the  *)
(* process through mutexes and may run side by side.  (The handlers' body  *)
(* has no await, so they do so only if the ACP crate has them on several   *)
(* threads; the model allows it.)                                          *)
(*                                                                         *)
(* Goose is external.  It may answer or refuse each call, send updates     *)
(* from the moment its session is open, ask permission during the turn,    *)
(* end the turn at any time, and fall silent.  It runs a tool call once    *)
(* for a delivered "allow_once" and, after an "allow_always", as often as  *)
(* it likes without asking.                                                *)
(*                                                                         *)
(* Data.  The action of a request is its tool call.  The code hashes the   *)
(* whole request, without the JSON-RPC id, so of equal calls with other    *)
(* options it makes two actions, which share less than here.  An append is *)
(* one step here (SessionStore has its writes); it fails for a session     *)
(* whose file cannot be opened, and record drops the error.                *)
(***************************************************************************)
EXTENDS Integers, Sequences, FiniteSets, SequencesExt

CONSTANTS
  ToolCalls,
  OptionLists,     \* the lists of option kinds goose may offer
  TestKey,         \* the allowlisted test signer
  Nonces,          \* readings of the clock in nanoseconds, hashed
  Readings,        \* readings of the clock in seconds
  Validity,        \* seconds an approval is good for (120 in the code)
  Garbled, NoSigner, NoRequest, Nobody,
  MaxRequests,     \* bound: permission requests in the turn
  MaxUpdates,      \* bound: session/update notifications
  MaxRuns          \* bound: runs of one tool call

OptionKinds == {"allow_once", "allow_always", "reject_once", "reject_always"}

ASSUME OptionsAssumption == OptionLists \subseteq Seq(OptionKinds)

ASSUME ClockAssumption == Readings \subseteq Nat /\ Validity \in Nat

ASSUME BoundsAssumption ==
  MaxRequests \in Nat /\ MaxUpdates \in Nat /\ MaxRuns \in Nat

Requests == 1 .. MaxRequests

Request == [call : ToolCalls, options : OptionLists]

ASSUME NobodyAssumption == NoRequest \notin Request /\ Nobody \notin Requests

INSTANCE GateOps WITH
  Pubkeys <- {TestKey}, AllowlistedSigners <- {TestKey},
  DecodableKeys <- {TestKey}, Actions <- ToolCalls,
  Times <- Readings \cup {t + Validity : t \in Readings}

VARIABLES
  (* the prompt flow *)
  flow,        \* where main is
  exit_code,   \* of the process, or -1
  (* SpikeState *)
  gate, gate_lock,       \* the gate and the handler that holds its mutex
  permission_requests,
  session_id,
  files,       \* what the session store has, per session id
  unwritable,  \* the session ids that are no file name here
  (* the permission handlers *)
  asked,       \* what each request asks
  handler,     \* where its handler is
  decision,    \* what the gate said
  answer,      \* what the handler answered
  (* goose *)
  delivered,   \* the requests whose answer goose has
  ran,         \* the requests whose allow_once goose has used
  runs,        \* how often each tool call ran
  updates

mainVars == <<flow, exit_code>>
lockVars == <<gate, gate_lock>>
handlerVars == <<asked, handler, decision, answer>>
gooseVars == <<delivered, ran, runs>>
vars == <<mainVars, lockVars, permission_requests, session_id, files,
          unwritable, handlerVars, gooseVars, updates>>

SessionIds == {"acp-spike", "goose"}

\* of says which request an event is about, 0 if none.
SessionEvent ==
  [kind : {"SessionCreated", "PromptSent", "ToolCallRequested",
           "GateDecision", "TurnComplete", "Error"},
   of : Requests \cup {0}, approved : BOOLEAN]

Flow ==
  {"initialize", "new_session", "opened", "adopted", "created", "prompting",
   "finished", "exited"}

HandlerSteps ==
  {"none", "requested", "submitted", "decided", "recorded",
   "answered"}

TypeOK ==
  /\ flow \in Flow /\ exit_code \in -1 .. 2
  /\ flow = "exited" <=> exit_code # -1
  /\ gate \in Gate /\ gate_lock \in Requests \cup {Nobody}
  /\ permission_requests \in 0 .. MaxRequests
  /\ session_id \in SessionIds
  /\ files \in [SessionIds -> Seq(SessionEvent)]
  /\ unwritable \subseteq SessionIds
  /\ asked \in [Requests -> Request \cup {NoRequest}]
  /\ handler \in [Requests -> HandlerSteps]
  /\ decision \in [Requests -> GateError \cup {"Approved", "none"}]
  /\ answer \in [Requests -> OptionKinds \cup {"Cancelled", "none"}]
  /\ delivered \subseteq Requests /\ ran \subseteq Requests
  /\ runs \in [ToolCalls -> 0 .. MaxRuns]
  /\ updates \in 0 .. MaxUpdates

Init ==
  /\ flow = "initialize" /\ exit_code = -1
  /\ gate = NewGate /\ gate_lock = Nobody
  /\ permission_requests = 0
  /\ session_id = "acp-spike"
  /\ files = [s \in SessionIds |-> << >>]
  /\ unwritable \in SUBSET {"goose"}
  /\ asked = [r \in Requests |-> NoRequest]
  /\ handler = [r \in Requests |-> "none"]
  /\ decision = [r \in Requests |-> "none"]
  /\ answer = [r \in Requests |-> "none"]
  /\ delivered = {} /\ ran = {}
  /\ runs = [c \in ToolCalls |-> 0]
  /\ updates = 0
----------------------------------------------------------------------------
\* SpikeState::record, under the session id of the moment.
record(event) ==
  files' = IF session_id \in unwritable THEN files
           ELSE [files EXCEPT ![session_id] = Append(@, event)]

Event(kind, r, approved) == [kind |-> kind, of |-> r, approved |-> approved]

Running == flow # "exited"

Exit(code) == flow' = "exited" /\ exit_code' = code

----------------------------------------------------------------------------
(* The prompt flow                                                         *)

FlowUnchanged ==
  UNCHANGED <<unwritable, lockVars, permission_requests, handlerVars,
              gooseVars, updates>>

\* goose answers initialize, then session/new.
Answered ==
  /\ \/ flow = "initialize" /\ flow' = "new_session"
     \/ flow = "new_session" /\ flow' = "opened"
  /\ UNCHANGED <<exit_code, session_id, files>>
  /\ FlowUnchanged

\* Either of them fails, or goose goes away at any time: the ? of the flow, or
\* connect_with itself, leads to exit code 1.
TransportFails ==
  /\ Running /\ flow # "finished"
  /\ Exit(1)
  /\ UNCHANGED <<session_id, files>>
  /\ FlowUnchanged

AdoptSession ==
  /\ flow = "opened"
  /\ flow' = "adopted"
  /\ session_id' = "goose"
  /\ UNCHANGED <<exit_code, files>>
  /\ FlowUnchanged

RecordCreated ==
  /\ flow = "adopted"
  /\ flow' = "created"
  /\ record(Event("SessionCreated", 0, FALSE))
  /\ UNCHANGED <<exit_code, session_id>>
  /\ FlowUnchanged

PromptWhenOpened == flow \in {"opened", "created"}   \* faulty: id set too late

ReadyToPrompt == flow = "created"

SendPrompt ==
  /\ ReadyToPrompt
  /\ flow' = "prompting"
  /\ record(Event("PromptSent", 0, FALSE))
  /\ UNCHANGED <<exit_code, session_id>>
  /\ FlowUnchanged

\* goose ends its turn, with requests still in the handlers' hands or not.
PromptComplete ==
  /\ flow = "prompting"
  /\ flow' = "finished"
  /\ record(Event("TurnComplete", 0, FALSE))
  /\ UNCHANGED <<exit_code, session_id>>
  /\ FlowUnchanged

\* The prompt fails, or 180 seconds are over: process::exit(2), wherever the
\* handlers are.
PromptFails ==
  /\ flow = "prompting"
  /\ Exit(2)
  /\ record(Event("Error", 0, FALSE))
  /\ UNCHANGED session_id
  /\ FlowUnchanged

\* The summary reads the audit log under the gate's mutex.
Summarize ==
  /\ flow = "finished" /\ gate_lock = Nobody
  /\ Exit(0)
  /\ UNCHANGED <<session_id, files>>
  /\ FlowUnchanged

----------------------------------------------------------------------------
(* A permission request and its handler                                    *)

HandlerUnchanged ==
  UNCHANGED <<mainVars, session_id, unwritable, gooseVars, updates>>

At(r, step) == Running /\ handler[r] = step

GoTo(r, step) == handler' = [handler EXCEPT ![r] = step]

\* goose asks, during the turn; the handler counts and records the request.
RecordRequest(r, request) ==
  /\ flow = "prompting" /\ At(r, "none") /\ GoTo(r, "requested")
  /\ \A q \in 1 .. r - 1 : asked[q] # NoRequest
  /\ asked' = [asked EXCEPT ![r] = request]
  /\ permission_requests' = permission_requests + 1
  /\ record(Event("ToolCallRequested", r, FALSE))
  /\ HandlerUnchanged
  /\ UNCHANGED <<lockVars, decision, answer>>

NoMutex == TRUE                               \* faulty: a lock for each call

MutexFree == gate_lock = Nobody

Submit(r) ==
  /\ At(r, "requested") /\ GoTo(r, "submitted")
  /\ MutexFree
  /\ gate_lock' = r
  /\ gate' = SubmitTo(gate, asked[r].call)
  /\ HandlerUnchanged
  /\ UNCHANGED <<permission_requests, files, asked, decision, answer>>

\* What the test key signs at reading s of the clock.
human_sign(call, nonce, s) ==
  [pubkey |-> TestKey, nonce |-> nonce, expires_at_unix |-> s + Validity,
   signature |-> [signer |-> TestKey, action |-> call, nonce |-> nonce,
                  expires_at_unix |-> s + Validity]]

ReleasedIfGranted(outcome) ==                 \* faulty: kept by a refusal
  IF outcome = "Approved" THEN Nobody ELSE gate_lock

Released(outcome) == Nobody

\* human_sign and decide, the guard dropped at the end of the block.  The clock
\* is read for the nonce, for the expiry and again by decide.
Decide(r) ==
  /\ At(r, "submitted") /\ GoTo(r, "decided")
  /\ \E nonce \in Nonces, s, t \in Readings :
       LET call == asked[r].call
           approval == human_sign(call, nonce, s)
           outcome == DecideOutcome(gate, call, approval, t)
       IN  /\ decision' = [decision EXCEPT ![r] = outcome]
           /\ gate' = IF outcome = "Approved"
                        THEN AfterGrant(gate, call, approval, t)
                        ELSE AfterRefusal(gate, approval)
           /\ gate_lock' = Released(outcome)
  /\ HandlerUnchanged
  /\ UNCHANGED <<permission_requests, files, asked, answer>>

RecordDecision(r) ==
  /\ At(r, "decided") /\ GoTo(r, "recorded")
  /\ record(Event("GateDecision", r, decision[r] = "Approved"))
  /\ HandlerUnchanged
  /\ UNCHANGED <<lockVars, permission_requests, asked, decision, answer>>

FirstOption(options) == Head(options)         \* faulty: no preference

\* The first allow_once, or else the first option there is.
Preferred(options) ==
  IF Contains(options, "allow_once") THEN "allow_once" ELSE Head(options)

SelectedWhateverDecided(r) ==                 \* faulty: decision not looked at
  asked[r].options # << >>

Selects(r) == decision[r] = "Approved" /\ asked[r].options # << >>

RespondsUnrecorded(r) ==                      \* faulty: answer before record
  At(r, "decided") \/ At(r, "recorded")

ReadyToRespond(r) == At(r, "recorded")

Respond(r) ==
  /\ ReadyToRespond(r) /\ GoTo(r, "answered")
  /\ answer' = [answer EXCEPT ![r] =
       IF Selects(r) THEN Preferred(asked[r].options) ELSE "Cancelled"]
  /\ HandlerUnchanged
  /\ UNCHANGED <<lockVars, permission_requests, files, asked, decision>>

----------------------------------------------------------------------------
(* goose and the transport                                                 *)

GooseUnchanged ==
  UNCHANGED <<mainVars, lockVars, permission_requests, session_id, unwritable,
              handlerVars>>

\* The notification handler records each update.
Update ==
  /\ Running /\ updates < MaxUpdates
  /\ flow \notin {"initialize", "new_session"}
  /\ updates' = updates + 1
  /\ record(Event("ToolCallRequested", 0, FALSE))
  /\ GooseUnchanged
  /\ UNCHANGED gooseVars

\* A response is queued for the transport; it is lost if the process exits
\* before it is written.
Deliver(r) ==
  /\ At(r, "answered") /\ r \notin delivered
  /\ delivered' = delivered \cup {r}
  /\ GooseUnchanged
  /\ UNCHANGED <<files, ran, runs, updates>>

MayRun(c) ==
  \E r \in delivered :
    /\ asked[r].call = c
    /\ \/ answer[r] = "allow_once" /\ r \notin ran /\ ran' = ran \cup {r}
       \/ answer[r] = "allow_always" /\ UNCHANGED ran

RunTool(c) ==
  /\ Running /\ runs[c] < MaxRuns
  /\ MayRun(c)
  /\ runs' = [runs EXCEPT ![c] = @ + 1]
  /\ GooseUnchanged
  /\ UNCHANGED <<files, delivered, updates>>

----------------------------------------------------------------------------
\* The steps of the client that wait for nobody but a mutex or a timer.
FlowStep ==
  \/ AdoptSession \/ RecordCreated \/ SendPrompt \/ PromptFails \/ Summarize

HandlerStep(r) == Submit(r) \/ Decide(r) \/ RecordDecision(r) \/ Respond(r)

Next ==
  \/ Answered \/ TransportFails \/ PromptComplete
  \/ FlowStep
  \/ \E r \in Requests, request \in Request : RecordRequest(r, request)
  \/ \E r \in Requests : HandlerStep(r) \/ Deliver(r)
  \/ Update
  \/ \E c \in ToolCalls : RunTool(c)

Spec == Init /\ [][Next]_vars

\* tokio polls the flow with its timer, and every handler.
FairSpec ==
  /\ Spec
  /\ WF_vars(FlowStep)
  /\ \A r \in Requests : WF_vars(HandlerStep(r))

----------------------------------------------------------------------------
GrantsOf(c) ==
  {i \in DOMAIN gate.audit :
     gate.audit[i].action = c /\ gate.audit[i].decision = "Approved"}

\* A tool call runs no more often than the gate has granted it, whatever goose
\* asks twice, answers cross and clocks do; the one way round the gate is an
\* allow_always chosen where goose offered no allow_once (acp_spike.rs:198-203).
RunsAreGranted ==
  \A c \in ToolCalls :
    runs[c] > Cardinality(GrantsOf(c)) =>
      \E r \in delivered :
        /\ asked[r].call = c
        /\ answer[r] = "allow_always"
        /\ ~ Contains(asked[r].options, "allow_once")

\* submit, human_sign and decide share one lock (acp_spike.rs:186-193), so the
\* only requests refused are those whose nonce equals a granted one's, the
\* clock having been read twice alike, or whose clock jumped past the expiry:
\* handlers of equal tool calls never take each other's pending entry.
RefusedByClockOnly ==
  \A r \in Requests :
    decision[r] \in GateError =>
      \/ decision[r] = "Expired"
      \/ /\ decision[r] = "NonceReused"
         /\ \E q \in Requests \ {r} : decision[q] = "Approved"

\* The record is written ahead of the answer.  Where its file can be written,
\* every answer goose has, and so every tool it ran, is explained in the record of
\* goose's session by the request and the decision, in this order, wherever
\* process::exit or a timeout cut the handlers off.
AnswersAreRecorded ==
  "goose" \notin unwritable =>
    \A r \in delivered : \E i, j \in DOMAIN files["goose"] :
      /\ i < j
      /\ files["goose"][i] = Event("ToolCallRequested", r, FALSE)
      /\ files["goose"][j] = Event("GateDecision", r, decision[r] = "Approved")

\* Once the prompt is sent the process ends, whatever goose does: the timeout
\* of acp_spike.rs:265 covers a silent goose, and no handler keeps the mutex
\* the summary needs.
SpikeEnds == flow = "prompting" ~> flow = "exited"
=============================================================================

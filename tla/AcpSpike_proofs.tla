--------------------------- MODULE AcpSpike_proofs ---------------------------
(***************************************************************************)
(* Theorems about AcpSpike, for every set of tool calls, option lists,     *)
(* nonces and clock readings and any number of permission requests.        *)
(*                                                                         *)
(* Most steps do nothing to the handlers but perhaps write to the record;  *)
(* lemma StepShape sets these apart from the seven that do.                *)
(***************************************************************************)
EXTENDS AcpSpike, FiniteSetTheorems, TLAPS

\* The flow has told SpikeState the id of goose's session.
Adopted == flow \in {"adopted", "created", "prompting", "finished"}

\* A step of the prompt flow, an update, or nothing.
Aside ==
  /\ UNCHANGED <<unwritable, lockVars, handlerVars, gooseVars>>
  /\ permission_requests' = permission_requests
  /\ session_id' \in {session_id, "goose"}
  /\ Adopted' => Adopted \/ session_id' = "goose"
  /\ \/ files' = files
     \/ \E e \in SessionEvent : record(e)

LEMMA EventTyped ==
  ASSUME NEW k \in {"SessionCreated", "PromptSent", "ToolCallRequested",
                    "GateDecision", "TurnComplete", "Error"},
         NEW r \in Requests \cup {0}, NEW b \in BOOLEAN
  PROVE  Event(k, r, b) \in SessionEvent
  BY DEF Event, SessionEvent

LEMMA StepShape ==
  ASSUME TypeOK, [Next]_vars
  PROVE  \/ Aside
         \/ \E r \in Requests, request \in Request : RecordRequest(r, request)
         \/ \E r \in Requests : \/ Submit(r) \/ Decide(r) \/ RecordDecision(r)
                                \/ Respond(r) \/ Deliver(r)
         \/ \E c \in ToolCalls : RunTool(c)
<1>1. CASE Answered \/ TransportFails \/ AdoptSession \/ Summarize
           \/ UNCHANGED vars
  BY <1>1 DEF Answered, TransportFails, AdoptSession, Summarize, vars, mainVars,
     lockVars, handlerVars, gooseVars, FlowUnchanged, Exit, Adopted, Aside, TypeOK
<1>2. CASE RecordCreated \/ SendPrompt \/ PromptComplete \/ PromptFails
  <2>1. /\ Event("SessionCreated", 0, FALSE) \in SessionEvent
        /\ Event("PromptSent", 0, FALSE) \in SessionEvent
        /\ Event("TurnComplete", 0, FALSE) \in SessionEvent
        /\ Event("Error", 0, FALSE) \in SessionEvent
    BY EventTyped
  <2>2. \E e \in SessionEvent : record(e)
    BY <1>2, <2>1 DEF RecordCreated, SendPrompt, PromptComplete, PromptFails
  <2> QED
    BY <1>2, <2>2 DEF RecordCreated, SendPrompt, ReadyToPrompt, PromptComplete,
       PromptFails, FlowUnchanged, Exit, Adopted, Aside
<1>3. CASE Update
  <2>1. Event("ToolCallRequested", 0, FALSE) \in SessionEvent
    BY EventTyped
  <2> QED
    BY <1>3, <2>1 DEF Update, GooseUnchanged, mainVars, Adopted, Aside
<1> QED
  BY <1>1, <1>2, <1>3 DEF Next, FlowStep, HandlerStep

\* Recording appends to one file, and to goose's while its id is the current
\* one and can be a file name.
LEMMA RecordEffect ==
  ASSUME TypeOK, NEW e \in SessionEvent, record(e)
  PROVE  /\ files' \in [SessionIds -> Seq(SessionEvent)]
         /\ files'["goose"] \in {files["goose"], Append(files["goose"], e)}
         /\ session_id = "goose" /\ "goose" \notin unwritable =>
              files'["goose"] = Append(files["goose"], e)
<1>1. session_id \in SessionIds /\ "goose" \in SessionIds
        /\ files \in [SessionIds -> Seq(SessionEvent)]
  BY DEF TypeOK, SessionIds
<1>2. Append(files[session_id], e) \in Seq(SessionEvent)
  BY <1>1
<1> QED
  BY <1>1, <1>2 DEF record

LEMMA OutcomeTyped ==
  ASSUME NEW g, NEW act, NEW ap, NEW t
  PROVE  DecideOutcome(g, act, ap, t) \in GateError \cup {"Approved"}
  BY DEF DecideOutcome, GateError

\* The nonce and the audit record of a grant are well formed.
LEMMA GrantTyped ==
  ASSUME NEW g \in Gate, NEW call \in ToolCalls, NEW nonce \in Nonces,
         NEW s \in Readings, NEW t \in Readings
  PROVE  LET h == AfterGrant(g, call, human_sign(call, nonce, s), t)
             r == Record(t, call, "Approved", TestKey)
         IN  /\ h \in Gate
             /\ h.pending = g.pending \ {call}
             /\ h.used_nonces = g.used_nonces \cup {nonce}
             /\ h.audit = Append(g.audit, r)
             /\ r \in AuditRecord /\ r.action = call
             /\ r.decision = "Approved"
<1> DEFINE r == Record(t, call, "Approved", TestKey)
<1>1. r \in AuditRecord /\ r.action = call /\ r.decision = "Approved"
  BY DEF Record, AuditRecord
<1>2. human_sign(call, nonce, s).nonce = nonce
        /\ human_sign(call, nonce, s).pubkey = TestKey
  BY DEF human_sign
<1> HIDE DEF r
<1>3. Append(g.audit, r) \in Seq(AuditRecord)
  BY <1>1 DEF Gate
<1>4. AfterGrant(g, call, human_sign(call, nonce, s), t)
        = [g EXCEPT !.used_nonces = @ \cup {nonce}, !.pending = @ \ {call},
                    !.audit = Append(@, r)]
  BY <1>2 DEF AfterGrant, r
<1>5. LET h == AfterGrant(g, call, human_sign(call, nonce, s), t)
      IN  /\ h \in Gate
          /\ h.pending = g.pending \ {call}
          /\ h.used_nonces = g.used_nonces \cup {nonce}
          /\ h.audit = Append(g.audit, r)
  BY <1>3, <1>4 DEF Gate
<1> QED
  BY <1>1, <1>5 DEF r

----------------------------------------------------------------------------
(* Type correctness                                                        *)

\* Requests are numbered as goose makes them, and each has its handler.
AskedInv ==
  \A r \in Requests :
    /\ asked[r] # NoRequest <=> r <= permission_requests
    /\ handler[r] = "none" <=> asked[r] = NoRequest

TypeInv == TypeOK /\ AskedInv

LEMMA AskedTyped ==
  ASSUME TypeInv, NEW r \in Requests, handler[r] # "none"
  PROVE  /\ asked[r] \in Request
         /\ asked[r].call \in ToolCalls
         /\ asked[r].options \in Seq(OptionKinds)
  BY OptionsAssumption DEF TypeInv, TypeOK, AskedInv, Request

LEMMA PreferredTyped ==
  ASSUME NEW options \in Seq(OptionKinds), options # << >>
  PROVE  /\ Preferred(options) \in OptionKinds
         /\ Preferred(options) = "allow_always"
              => ~ Contains(options, "allow_once")
<1>1. Head(options) \in OptionKinds
  OBVIOUS
<1> QED
  BY <1>1 DEF Preferred, OptionKinds

\* What Decide(r) does, from the reading that signs to the one that decides.
DecidedAs(r, nonce, s, t) ==
  LET call == asked[r].call
      outcome == DecideOutcome(gate, call, human_sign(call, nonce, s), t)
  IN  /\ nonce \in Nonces /\ s \in Readings /\ t \in Readings
      /\ decision' = [decision EXCEPT ![r] = outcome]
      /\ \/ /\ outcome = "Approved"
            /\ gate' = AfterGrant(gate, call, human_sign(call, nonce, s), t)
         \/ outcome \in GateError /\ gate' = gate

LEMMA DecideShape ==
  ASSUME NEW r \in Requests, Decide(r)
  PROVE  \E nonce, s, t : DecidedAs(r, nonce, s, t)
<1>1. PICK nonce \in Nonces, s \in Readings, t \in Readings :
        LET call == asked[r].call
            approval == human_sign(call, nonce, s)
            outcome == DecideOutcome(gate, call, approval, t)
        IN  /\ decision' = [decision EXCEPT ![r] = outcome]
            /\ gate' = IF outcome = "Approved"
                         THEN AfterGrant(gate, call, approval, t)
                         ELSE AfterRefusal(gate, approval)
            /\ gate_lock' = Released(outcome)
  BY DEF Decide
<1> DEFINE call == asked[r].call
           outcome == DecideOutcome(gate, call, human_sign(call, nonce, s), t)
<1>2. outcome \in GateError \cup {"Approved"}
  BY OutcomeTyped
<1>3. outcome = "Approved" =>
        gate' = AfterGrant(gate, call, human_sign(call, nonce, s), t)
  BY <1>1
<1>4. outcome # "Approved" => gate' = gate
  BY <1>1 DEF AfterRefusal
<1>5. decision' = [decision EXCEPT ![r] = outcome]
  BY <1>1
<1>6. DecidedAs(r, nonce, s, t)
  BY <1>2, <1>3, <1>4, <1>5 DEF DecidedAs
<1> QED
  BY <1>6

\* The parts of TypeOK that the prompt flow and the record write.
FlowTyped ==
  /\ flow \in Flow /\ exit_code \in -1 .. 2
  /\ flow = "exited" <=> exit_code # -1
  /\ updates \in 0 .. MaxUpdates

FilesTyped ==
  session_id \in SessionIds /\ files \in [SessionIds -> Seq(SessionEvent)]

LEMMA FlowKept == TypeOK /\ [Next]_vars => FlowTyped'
<1> SUFFICES ASSUME TypeOK, [Next]_vars PROVE FlowTyped'
  OBVIOUS
<1>1. CASE UNCHANGED <<mainVars, updates>>
  BY <1>1 DEF mainVars, TypeOK, FlowTyped
<1>2. CASE Answered \/ TransportFails \/ PromptComplete \/ FlowStep
  <2>1. updates' = updates
    BY <1>2 DEF Answered, TransportFails, PromptComplete, FlowStep,
       AdoptSession, RecordCreated, SendPrompt, PromptFails, Summarize,
       FlowUnchanged
  <2>2. \/ /\ flow # "exited" /\ exit_code' = exit_code
           /\ flow' \in Flow \ {"exited"}
        \/ Exit(0) \/ Exit(1) \/ Exit(2)
    <3>1. CASE TransportFails \/ PromptFails \/ Summarize
      BY <3>1 DEF TransportFails, PromptFails, Summarize
    <3>2. CASE Answered \/ PromptComplete \/ AdoptSession \/ RecordCreated
               \/ SendPrompt
      BY <3>2 DEF Answered, PromptComplete, AdoptSession, RecordCreated,
         SendPrompt, ReadyToPrompt, Flow
    <3> QED
      BY <1>2, <3>1, <3>2 DEF FlowStep
  <2>3. CASE Exit(0) \/ Exit(1) \/ Exit(2)
    BY <2>1, <2>3 DEF Exit, TypeOK, FlowTyped, Flow
  <2>4. CASE /\ flow # "exited" /\ exit_code' = exit_code
             /\ flow' \in Flow \ {"exited"}
    BY <2>1, <2>4 DEF TypeOK, FlowTyped
  <2> QED
    BY <2>2, <2>3, <2>4
<1>3. CASE Update
  BY <1>3, BoundsAssumption
     DEF Update, GooseUnchanged, mainVars, TypeOK, FlowTyped
<1>4. ASSUME NEW r \in Requests, NEW request \in Request,
             RecordRequest(r, request)
      PROVE  UNCHANGED <<mainVars, updates>>
  BY <1>4 DEF RecordRequest, HandlerUnchanged
<1>5. ASSUME NEW r \in Requests, HandlerStep(r) \/ Deliver(r)
      PROVE  UNCHANGED <<mainVars, updates>>
  BY <1>5 DEF HandlerStep, Submit, Decide, RecordDecision, Respond,
     HandlerUnchanged, Deliver, GooseUnchanged
<1>6. ASSUME NEW c \in ToolCalls, RunTool(c)
      PROVE  UNCHANGED <<mainVars, updates>>
  BY <1>6 DEF RunTool, GooseUnchanged
<1> QED
  BY <1>1, <1>2, <1>3, <1>4, <1>5, <1>6 DEF Next, vars

\* What a handler writes to the record.
LEMMA FilesKept == TypeOK /\ [Next]_vars => FilesTyped'
<1> SUFFICES ASSUME TypeOK, [Next]_vars PROVE FilesTyped'
  OBVIOUS
<1>0. FilesTyped /\ "goose" \in SessionIds
  BY DEF TypeOK, FilesTyped, SessionIds
<1>1. CASE UNCHANGED <<session_id, files>>
  BY <1>0, <1>1 DEF FilesTyped
<1>2. ASSUME NEW e \in SessionEvent, record(e), session_id' = session_id
      PROVE  FilesTyped'
  BY <1>0, <1>2, RecordEffect DEF FilesTyped
<1>3. CASE Aside
  <2>1. session_id' \in SessionIds
    BY <1>0, <1>3 DEF Aside, FilesTyped
  <2> QED
    BY <1>0, <1>3, <2>1, RecordEffect DEF Aside, FilesTyped
<1>4. ASSUME NEW r \in Requests, NEW request \in Request,
             RecordRequest(r, request)
      PROVE  FilesTyped'
  <2>1. Event("ToolCallRequested", r, FALSE) \in SessionEvent
    BY EventTyped
  <2> QED
    BY <1>2, <1>4, <2>1 DEF RecordRequest, HandlerUnchanged
<1>5. ASSUME NEW r \in Requests, RecordDecision(r)
      PROVE  FilesTyped'
  <2>1. Event("GateDecision", r, decision[r] = "Approved") \in SessionEvent
    BY EventTyped
  <2> QED
    BY <1>2, <1>5, <2>1 DEF RecordDecision, HandlerUnchanged
<1>6. ASSUME NEW r \in Requests,
             Submit(r) \/ Decide(r) \/ Respond(r) \/ Deliver(r)
      PROVE  UNCHANGED <<session_id, files>>
  BY <1>6 DEF Submit, Decide, Respond, HandlerUnchanged, Deliver, GooseUnchanged
<1>7. ASSUME NEW c \in ToolCalls, RunTool(c)
      PROVE  UNCHANGED <<session_id, files>>
  BY <1>7 DEF RunTool, GooseUnchanged
<1> QED
  BY <1>1, <1>3, <1>4, <1>5, <1>6, <1>7, StepShape

\* Requests are numbered as goose makes them and each has its handler
\* (acp_spike.rs:168-169); with this the types are inductive.
THEOREM TypeInvariant == Spec => []TypeInv
<1>1. Init => TypeInv
  <2> SUFFICES ASSUME Init PROVE TypeInv
    OBVIOUS
  <2>1. NewGate \in Gate
    BY DEF NewGate, Gate
  <2>2. TypeOK
    BY <2>1, BoundsAssumption DEF Init, TypeOK, Flow, SessionIds, HandlerSteps
  <2>3. AskedInv
    BY BoundsAssumption DEF Init, AskedInv, Requests
  <2> QED
    BY <2>2, <2>3 DEF TypeInv
<1>2. TypeInv /\ [Next]_vars => TypeInv'
  <2> SUFFICES ASSUME TypeInv, [Next]_vars PROVE TypeInv'
    OBVIOUS
  <2>0. TypeOK /\ AskedInv /\ permission_requests \in 0 .. MaxRequests
    BY DEF TypeInv, TypeOK
  <2>1. FlowTyped'
    BY <2>0, FlowKept
  <2>2. FilesTyped'
    BY <2>0, FilesKept
  <2>3. CASE Aside
    BY <2>0, <2>1, <2>2, <2>3 DEF Aside, lockVars, handlerVars, gooseVars,
       TypeInv, TypeOK, AskedInv, FlowTyped, FilesTyped
  <2>4. ASSUME NEW r \in Requests, NEW request \in Request,
               RecordRequest(r, request)
        PROVE  TypeInv'
    <3>1. r = permission_requests + 1
      <4>1. \A q \in Requests : q < r => q <= permission_requests
        BY <2>0, <2>4 DEF RecordRequest, AskedInv, Requests
      <4>2. ~ (r <= permission_requests)
        BY <2>0, <2>4 DEF RecordRequest, At, AskedInv
      <4>3. r - 1 \in Requests \/ r = 1
        BY BoundsAssumption DEF Requests
      <4> QED
        BY <2>0, <4>1, <4>2, <4>3, BoundsAssumption DEF Requests
    <3>2. /\ asked' = [asked EXCEPT ![r] = request]
          /\ handler' = [handler EXCEPT ![r] = "requested"]
          /\ permission_requests' = permission_requests + 1
          /\ UNCHANGED <<unwritable, lockVars, decision, answer, gooseVars>>
      BY <2>4 DEF RecordRequest, GoTo, HandlerUnchanged
    <3>3. /\ permission_requests' \in 0 .. MaxRequests
          /\ asked' \in [Requests -> Request \cup {NoRequest}]
          /\ handler' \in [Requests -> HandlerSteps]
      BY <2>0, <3>1, <3>2, BoundsAssumption DEF TypeOK, HandlerSteps, Requests
    <3>4. AskedInv'
      <4> SUFFICES ASSUME NEW q \in Requests
                   PROVE  /\ asked'[q] # NoRequest <=> q <= permission_requests'
                          /\ handler'[q] = "none" <=> asked'[q] = NoRequest
        BY DEF AskedInv
      <4>1. CASE q = r
        <5>1. asked'[q] = request /\ handler'[q] = "requested"
          BY <2>0, <3>2, <4>1 DEF TypeOK
        <5> QED
          BY <3>1, <3>2, <4>1, <5>1, NobodyAssumption DEF Requests
      <4>2. CASE q # r
        <5>1. asked'[q] = asked[q] /\ handler'[q] = handler[q]
          BY <2>0, <3>2, <4>2 DEF TypeOK
        <5> QED
          BY <2>0, <3>1, <3>2, <4>2, <5>1 DEF AskedInv, Requests
      <4> QED
        BY <4>1, <4>2
    <3> QED
      BY <2>0, <2>1, <2>2, <3>2, <3>3, <3>4
         DEF TypeInv, TypeOK, FlowTyped, FilesTyped, lockVars, gooseVars
  <2>5. ASSUME NEW r \in Requests, Submit(r) PROVE TypeInv'
    <3>1. asked[r].call \in ToolCalls
      BY <2>5, AskedTyped DEF Submit, At
    <3>2. SubmitTo(gate, asked[r].call) \in Gate
      BY <2>0, <3>1 DEF SubmitTo, Gate, TypeOK
    <3> QED
      BY <2>0, <2>1, <2>2, <2>5, <3>2
         DEF Submit, At, GoTo, HandlerUnchanged, gooseVars, TypeInv, TypeOK,
             AskedInv, FlowTyped, FilesTyped, HandlerSteps
  <2>6. ASSUME NEW r \in Requests, Decide(r) PROVE TypeInv'
    <3>1. PICK nonce, s, t : DecidedAs(r, nonce, s, t)
      BY <2>6, DecideShape
    <3>2. asked[r].call \in ToolCalls
      BY <2>6, AskedTyped DEF Decide, At
    <3>3. gate' \in Gate
      <4>1. CASE gate' = gate
        BY <2>0, <4>1 DEF TypeOK
      <4>2. CASE gate' = AfterGrant(gate, asked[r].call,
                                    human_sign(asked[r].call, nonce, s), t)
        BY <2>0, <3>1, <3>2, <4>2, GrantTyped DEF DecidedAs, TypeOK
      <4> QED
        BY <3>1, <4>1, <4>2 DEF DecidedAs
    <3>4. decision' \in [Requests -> GateError \cup {"Approved", "none"}]
      BY <2>0, <3>1 DEF DecidedAs, TypeOK
    <3>5. gate_lock' \in Requests \cup {Nobody}
      BY <2>6 DEF Decide, Released
    <3>6. /\ handler' = [handler EXCEPT ![r] = "decided"]
          /\ handler[r] = "submitted"
          /\ UNCHANGED <<permission_requests, asked, answer, unwritable,
                         gooseVars>>
      BY <2>6 DEF Decide, At, GoTo, HandlerUnchanged
    <3> QED
      BY <2>0, <2>1, <2>2, <3>3, <3>4, <3>5, <3>6
         DEF gooseVars, TypeInv, TypeOK,
             AskedInv, FlowTyped, FilesTyped, HandlerSteps
  <2>7. ASSUME NEW r \in Requests, RecordDecision(r) PROVE TypeInv'
    BY <2>0, <2>1, <2>2, <2>7
       DEF RecordDecision, At, GoTo, HandlerUnchanged, lockVars, gooseVars,
           TypeInv, TypeOK, AskedInv, FlowTyped, FilesTyped, HandlerSteps
  <2>8. ASSUME NEW r \in Requests, Respond(r) PROVE TypeInv'
    <3>1. At(r, "recorded") /\ GoTo(r, "answered")
      BY <2>8 DEF Respond, ReadyToRespond
    <3>2. asked[r].options \in Seq(OptionKinds)
      BY <3>1, AskedTyped DEF At
    <3>3. (IF Selects(r) THEN Preferred(asked[r].options) ELSE "Cancelled")
            \in OptionKinds \cup {"Cancelled", "none"}
      BY <3>2, PreferredTyped DEF Selects
    <3>4. answer' \in [Requests -> OptionKinds \cup {"Cancelled", "none"}]
      BY <2>0, <2>8, <3>3 DEF Respond, TypeOK
    <3> QED
      BY <2>0, <2>1, <2>2, <2>8, <3>1, <3>4
         DEF Respond, At, GoTo, HandlerUnchanged, lockVars, gooseVars,
             TypeInv, TypeOK, AskedInv, FlowTyped, FilesTyped, HandlerSteps
  <2>9. ASSUME NEW r \in Requests, Deliver(r) PROVE TypeInv'
    BY <2>0, <2>1, <2>2, <2>9
       DEF Deliver, GooseUnchanged, lockVars, handlerVars, TypeInv, TypeOK,
           AskedInv, FlowTyped, FilesTyped
  <2>10. ASSUME NEW c \in ToolCalls, RunTool(c) PROVE TypeInv'
    <3>1. ran' \subseteq Requests
      BY <2>0, <2>10 DEF RunTool, MayRun, TypeOK
    <3>2. runs' \in [ToolCalls -> 0 .. MaxRuns]
      BY <2>0, <2>10, BoundsAssumption DEF RunTool, TypeOK
    <3> QED
      BY <2>0, <2>1, <2>2, <2>10, <3>1, <3>2
         DEF RunTool, GooseUnchanged, lockVars, handlerVars, TypeInv, TypeOK,
             AskedInv, FlowTyped, FilesTyped
  <2> QED
    BY <2>0, <2>3, <2>4, <2>5, <2>6, <2>7, <2>8, <2>9, <2>10, StepShape
<1> QED
  BY <1>1, <1>2, PTL DEF Spec

\* For every value of the constants, the state of the spike keeps its types.
THEOREM TypeCorrect == Spec => []TypeOK
  BY TypeInvariant, PTL DEF TypeInv

----------------------------------------------------------------------------
(* What each handler has done so far                                       *)

Undecided == {"none", "requested", "submitted"}

HandlerOk(r) ==
  /\ handler[r] \in Undecided => decision[r] = "none"
  /\ handler[r] # "answered" => answer[r] = "none"
  /\ r \in delivered => handler[r] = "answered"
  /\ answer[r] \in OptionKinds =>
       /\ decision[r] = "Approved"
       /\ answer[r] = "allow_always"
            => ~ Contains(asked[r].options, "allow_once")
  /\ r \in ran => r \in delivered /\ answer[r] = "allow_once"

HandlerInv == \A r \in Requests : HandlerOk(r)

\* A step that leaves a request and its handler alone.
LEMMA HandlerOkFrame ==
  ASSUME NEW q \in Requests, HandlerOk(q),
         handler'[q] = handler[q], decision'[q] = decision[q],
         answer'[q] = answer[q], asked'[q] = asked[q],
         q \in delivered' <=> q \in delivered, q \in ran' => q \in ran
  PROVE  HandlerOk(q)'
  BY DEF HandlerOk

\* A handler answers once it has decided, and selects an option only when
\* the gate approved (acp_spike.rs:194-217).
THEOREM HandlerInvariant == Spec => []HandlerInv
<1>1. Init => HandlerInv
  BY DEF Init, HandlerInv, HandlerOk, Undecided, OptionKinds
<1>2. TypeInv /\ HandlerInv /\ [Next]_vars => HandlerInv'
  <2> SUFFICES ASSUME TypeInv, HandlerInv, [Next]_vars, NEW q \in Requests
               PROVE  HandlerOk(q)'
    BY DEF HandlerInv
  <2>0. /\ TypeOK /\ HandlerOk(q)
        /\ "none" \notin OptionKinds /\ "Cancelled" \notin OptionKinds
    BY DEF TypeInv, HandlerInv, OptionKinds
  <2>1. CASE Aside
    BY <2>0, <2>1, HandlerOkFrame DEF Aside, handlerVars, gooseVars
  <2>2. ASSUME NEW r \in Requests, NEW request \in Request,
               RecordRequest(r, request)
        PROVE  HandlerOk(q)'
    <3>1. /\ handler[r] = "none"
          /\ handler' = [handler EXCEPT ![r] = "requested"]
          /\ asked' = [asked EXCEPT ![r] = request]
          /\ UNCHANGED <<decision, answer, delivered, ran>>
      BY <2>2 DEF RecordRequest, At, GoTo, HandlerUnchanged, gooseVars
    <3>2. CASE q = r
      BY <2>0, <3>1, <3>2 DEF TypeOK, HandlerOk, Undecided
    <3>3. CASE q # r
      BY <2>0, <3>1, <3>3, HandlerOkFrame DEF TypeOK
    <3> QED
      BY <3>2, <3>3
  <2>3. ASSUME NEW r \in Requests, Submit(r) PROVE HandlerOk(q)'
    <3>1. /\ handler[r] = "requested"
          /\ handler' = [handler EXCEPT ![r] = "submitted"]
          /\ UNCHANGED <<asked, decision, answer, delivered, ran>>
      BY <2>3 DEF Submit, At, GoTo, HandlerUnchanged, gooseVars
    <3> QED
      BY <2>0, <3>1 DEF TypeOK, HandlerOk, Undecided
  <2>4. ASSUME NEW r \in Requests, Decide(r) PROVE HandlerOk(q)'
    <3>1. /\ handler[r] = "submitted"
          /\ handler' = [handler EXCEPT ![r] = "decided"]
          /\ UNCHANGED <<asked, answer, delivered, ran>>
      BY <2>4 DEF Decide, At, GoTo, HandlerUnchanged, gooseVars
    <3>2. PICK nonce, s, t : DecidedAs(r, nonce, s, t)
      BY <2>4, DecideShape
    <3>3. \A p \in Requests : p # r => decision'[p] = decision[p]
      BY <2>0, <3>2 DEF DecidedAs, TypeOK
    <3>4. CASE q = r
      BY <2>0, <3>1, <3>4 DEF TypeOK, HandlerOk, Undecided
    <3>5. CASE q # r
      BY <2>0, <3>1, <3>3, <3>5, HandlerOkFrame DEF TypeOK
    <3> QED
      BY <3>4, <3>5
  <2>5. ASSUME NEW r \in Requests, RecordDecision(r) PROVE HandlerOk(q)'
    <3>1. /\ handler[r] = "decided"
          /\ handler' = [handler EXCEPT ![r] = "recorded"]
          /\ UNCHANGED <<asked, decision, answer, delivered, ran>>
      BY <2>5 DEF RecordDecision, At, GoTo, HandlerUnchanged, gooseVars
    <3> QED
      BY <2>0, <3>1 DEF TypeOK, HandlerOk, Undecided
  <2>6. ASSUME NEW r \in Requests, Respond(r) PROVE HandlerOk(q)'
    <3>1. /\ handler[r] = "recorded"
          /\ handler' = [handler EXCEPT ![r] = "answered"]
          /\ answer' = [answer EXCEPT ![r] =
               IF Selects(r) THEN Preferred(asked[r].options) ELSE "Cancelled"]
          /\ UNCHANGED <<asked, decision, delivered, ran>>
      BY <2>6 DEF Respond, ReadyToRespond, At, GoTo, HandlerUnchanged, gooseVars
    <3>2. asked[r].options \in Seq(OptionKinds)
      BY <3>1, AskedTyped
    <3>3. CASE q = r
      <4>1. answer'[r] =
              IF Selects(r) THEN Preferred(asked[r].options) ELSE "Cancelled"
        BY <2>0, <3>1 DEF TypeOK
      <4>2. handler'[r] = "answered"
        BY <2>0, <3>1 DEF TypeOK
      <4>3. r \notin delivered /\ r \notin ran
        BY <2>0, <3>1, <3>3 DEF HandlerOk
      <4>4. Selects(r) =>
              /\ decision[r] = "Approved"
              /\ Preferred(asked[r].options) = "allow_always"
                   => ~ Contains(asked[r].options, "allow_once")
        BY <3>2, PreferredTyped DEF Selects
      <4> QED
        BY <2>0, <3>1, <3>3, <4>1, <4>2, <4>3, <4>4 DEF HandlerOk, Undecided
    <3>4. CASE q # r
      BY <2>0, <3>1, <3>4, HandlerOkFrame DEF TypeOK
    <3> QED
      BY <3>3, <3>4
  <2>7. ASSUME NEW r \in Requests, Deliver(r) PROVE HandlerOk(q)'
    <3>1. /\ handler[r] = "answered" /\ delivered' = delivered \cup {r}
          /\ UNCHANGED <<asked, handler, decision, answer, ran>>
      BY <2>7 DEF Deliver, At, GooseUnchanged, handlerVars
    <3> QED
      BY <2>0, <3>1 DEF HandlerOk
  <2>8. ASSUME NEW c \in ToolCalls, RunTool(c) PROVE HandlerOk(q)'
    <3>1. UNCHANGED <<asked, handler, decision, answer, delivered>>
      BY <2>8 DEF RunTool, GooseUnchanged, handlerVars
    <3>2. \E r \in delivered :
            \/ answer[r] = "allow_once" /\ ran' = ran \cup {r}
            \/ ran' = ran
      BY <2>8 DEF RunTool, MayRun
    <3> QED
      BY <2>0, <3>1, <3>2 DEF HandlerOk
  <2> QED
    BY <2>0, <2>1, <2>2, <2>3, <2>4, <2>5, <2>6, <2>7, <2>8, StepShape
<1> QED
  BY <1>1, <1>2, TypeInvariant, PTL DEF Spec

----------------------------------------------------------------------------
(* One handler at a time in the gate                                       *)

LockOk(r) ==
  /\ handler[r] = "submitted" <=> gate_lock = r
  /\ handler[r] = "submitted" => asked[r].call \in gate.pending

ReasonOk(r) ==
  decision[r] \in GateError =>
    \/ decision[r] = "Expired"
    \/ /\ decision[r] = "NonceReused"
       /\ \E q \in Requests \ {r} : decision[q] = "Approved"

LockInv ==
  /\ \A r \in Requests : LockOk(r) /\ ReasonOk(r)
  /\ \A n \in gate.used_nonces : \E q \in Requests : decision[q] = "Approved"

\* Between submit and decide the action is pending, and the test key is known
\* and signs the right message: two refusals are left (gate.rs:165-182).
LEMMA RefusedFor ==
  ASSUME NEW g, NEW call \in g.pending, NEW nonce, NEW s, NEW t,
         DecideOutcome(g, call, human_sign(call, nonce, s), t) \in GateError
  PROVE  LET outcome == DecideOutcome(g, call, human_sign(call, nonce, s), t)
         IN  \/ outcome = "Expired"
             \/ outcome = "NonceReused" /\ nonce \in g.used_nonces
<1> DEFINE ap == human_sign(call, nonce, s)
<1>1. /\ ap.pubkey = TestKey /\ ap.nonce = nonce
      /\ ap.signature = Message(call, ap)
  BY DEF human_sign, Message
<1> HIDE DEF ap
<1>2. /\ ~ NotPending(g, call) /\ SignerAllowlisted(ap)
      /\ ap.pubkey \in {TestKey} /\ SignatureVerifies(call, ap)
  BY <1>1 DEF NotPending, SignerAllowlisted, SignatureVerifies, VerifiedBytes
<1>3. DecideOutcome(g, call, ap, t)
        = IF ExpiredAt(ap, t) THEN "Expired"
          ELSE IF NonceUsed(g, ap) THEN "NonceReused" ELSE "Approved"
  BY <1>2 DEF DecideOutcome
<1>4. NonceUsed(g, ap) => nonce \in g.used_nonces
  BY <1>1 DEF NonceUsed
<1>5. "Approved" \notin GateError
  BY DEF GateError
<1>6. DecideOutcome(g, call, ap, t) \in GateError
  BY DEF ap
<1>7. \/ DecideOutcome(g, call, ap, t) = "Expired"
      \/ /\ DecideOutcome(g, call, ap, t) = "NonceReused"
         /\ nonce \in g.used_nonces
  BY <1>3, <1>4, <1>5, <1>6
<1> QED
  BY <1>7 DEF ap

\* The gate's mutex keeps submit and decide together (acp_spike.rs:186-193).
THEOREM LockInvariant == Spec => []LockInv
<1>1. Init => LockInv
  BY NobodyAssumption DEF Init, NewGate, LockInv, LockOk, ReasonOk, GateError
<1>2. TypeInv /\ HandlerInv /\ LockInv /\ [Next]_vars => LockInv'
  <2> SUFFICES ASSUME TypeInv, HandlerInv, LockInv, [Next]_vars
               PROVE  LockInv'
    OBVIOUS
  <2>0. /\ TypeOK
        /\ \A r \in Requests : LockOk(r) /\ ReasonOk(r) /\ HandlerOk(r)
        /\ \A n \in gate.used_nonces :
             \E q \in Requests : decision[q] = "Approved"
        /\ Nobody \notin Requests
    BY NobodyAssumption DEF TypeInv, LockInv, HandlerInv
  <2>1. CASE Aside
    BY <2>0, <2>1 DEF Aside, handlerVars, lockVars, LockInv, LockOk, ReasonOk
  <2>2. ASSUME NEW r \in Requests, NEW request \in Request,
               RecordRequest(r, request)
        PROVE  LockInv'
    <3>1. /\ handler[r] = "none"
          /\ handler' = [handler EXCEPT ![r] = "requested"]
          /\ asked' = [asked EXCEPT ![r] = request]
          /\ UNCHANGED <<decision, gate, gate_lock>>
      BY <2>2 DEF RecordRequest, At, GoTo, HandlerUnchanged, lockVars
    <3>2. \A q \in Requests : LockOk(q)'
      BY <2>0, <3>1 DEF LockOk, TypeOK
    <3> QED
      BY <2>0, <3>1, <3>2 DEF LockInv, ReasonOk
  <2>3. ASSUME NEW r \in Requests, Submit(r) PROVE LockInv'
    <3>1. /\ handler[r] = "requested" /\ gate_lock = Nobody
          /\ handler' = [handler EXCEPT ![r] = "submitted"]
          /\ gate_lock' = r
          /\ gate' = SubmitTo(gate, asked[r].call)
          /\ UNCHANGED <<asked, decision>>
      BY <2>3 DEF Submit, MutexFree, At, GoTo, HandlerUnchanged
    <3>2. /\ gate'.pending = gate.pending \cup {asked[r].call}
          /\ gate'.used_nonces = gate.used_nonces
      BY <2>0, <3>1 DEF SubmitTo, TypeOK, Gate
    <3>3. \A q \in Requests : LockOk(q)'
      BY <2>0, <3>1, <3>2 DEF LockOk, TypeOK
    <3> QED
      BY <2>0, <3>1, <3>2, <3>3 DEF LockInv, ReasonOk
  <2>4. ASSUME NEW r \in Requests, Decide(r) PROVE LockInv'
    <3>1. /\ handler[r] = "submitted"
          /\ handler' = [handler EXCEPT ![r] = "decided"]
          /\ gate_lock' = Nobody
          /\ UNCHANGED asked
      BY <2>4 DEF Decide, At, GoTo, HandlerUnchanged, Released
    <3>2. PICK nonce, s, t : DecidedAs(r, nonce, s, t)
      BY <2>4, DecideShape
    <3> DEFINE call == asked[r].call
               outcome == DecideOutcome(gate, call,
                                        human_sign(call, nonce, s), t)
    <3>3. call \in gate.pending /\ call \in ToolCalls
      BY <2>0, <3>1, AskedTyped DEF LockOk
    <3>4. decision[r] = "none"
      BY <2>0, <3>1 DEF HandlerOk, Undecided
    <3>5. decision' = [decision EXCEPT ![r] = outcome]
      BY <3>2 DEF DecidedAs
    <3>6. \A q \in Requests : LockOk(q)'
      BY <2>0, <3>1 DEF LockOk, TypeOK
    <3>7. outcome \in GateError =>
            \/ outcome = "Expired"
            \/ outcome = "NonceReused" /\ nonce \in gate.used_nonces
      BY <3>3, RefusedFor
    <3>8. CASE outcome = "Approved"
      <4> HIDE DEF outcome, call
      <4>1. decision'[r] = "Approved"
        BY <2>0, <3>5, <3>8 DEF TypeOK
      <4>2. \A q \in Requests : q # r => decision'[q] = decision[q]
        BY <2>0, <3>5 DEF TypeOK
      <4>3. \A q \in Requests : ReasonOk(q)'
        BY <2>0, <3>4, <4>1, <4>2 DEF ReasonOk, GateError
      <4> QED
        BY <3>6, <4>1, <4>3 DEF LockInv
    <3>9. CASE outcome \in GateError
      <4>1. gate' = gate
        BY <3>2, <3>9 DEF DecidedAs, GateError
      <4> HIDE DEF outcome, call
      <4>2. decision'[r] = outcome
        BY <2>0, <3>5 DEF TypeOK
      <4>3. \A q \in Requests : q # r => decision'[q] = decision[q]
        BY <2>0, <3>5 DEF TypeOK
      <4>4. \A q \in Requests :
              decision[q] = "Approved" => q # r /\ decision'[q] = "Approved"
        BY <3>4, <4>3
      <4>5. ReasonOk(r)'
        BY <2>0, <3>7, <3>9, <4>2, <4>4 DEF ReasonOk
      <4>6. \A q \in Requests : q # r => ReasonOk(q)'
        BY <2>0, <4>3, <4>4 DEF ReasonOk
      <4> QED
        BY <2>0, <3>6, <4>1, <4>4, <4>5, <4>6 DEF LockInv
    <3> QED
      BY <3>2, <3>8, <3>9 DEF DecidedAs
  <2>5. ASSUME NEW r \in Requests, NEW step \in {"recorded", "answered"},
               handler[r] # "submitted",
               handler' = [handler EXCEPT ![r] = step],
               UNCHANGED <<gate, gate_lock, asked, decision>>
        PROVE  LockInv'
    <3>1. \A q \in Requests : LockOk(q)'
      BY <2>0, <2>5 DEF LockOk, TypeOK
    <3> QED
      BY <2>0, <2>5, <3>1 DEF LockInv, ReasonOk
  <2>6. ASSUME NEW r \in Requests, RecordDecision(r) \/ Respond(r)
        PROVE  LockInv'
    BY <2>5, <2>6 DEF RecordDecision, Respond, ReadyToRespond, At, GoTo,
       HandlerUnchanged, lockVars
  <2>7. ASSUME UNCHANGED <<gate, gate_lock, asked, decision, handler>>
        PROVE  LockInv'
    BY <2>0, <2>7 DEF LockInv, LockOk, ReasonOk
  <2>8. ASSUME NEW r \in Requests, Deliver(r) PROVE LockInv'
    BY <2>7, <2>8 DEF Deliver, GooseUnchanged, lockVars, handlerVars
  <2>9. ASSUME NEW c \in ToolCalls, RunTool(c) PROVE LockInv'
    BY <2>7, <2>9 DEF RunTool, GooseUnchanged, lockVars, handlerVars
  <2> QED
    BY <2>0, <2>1, <2>2, <2>3, <2>4, <2>6, <2>8, <2>9, StepShape
<1> QED
  BY <1>1, <1>2, TypeInvariant, HandlerInvariant, PTL DEF Spec

\* For every value of the constants and any number of handlers side by side:
\* submit, human_sign and decide under one lock are refused for the clock only
\* (acp_spike.rs:186-193).
THEOREM RefusalsComeFromTheClock == Spec => []RefusedByClockOnly
<1>1. LockInv => RefusedByClockOnly
  BY DEF LockInv, ReasonOk, RefusedByClockOnly
<1> QED
  BY <1>1, LockInvariant, PTL

----------------------------------------------------------------------------
(* The record is written ahead of the answer                               *)

\* Events of goose's session are kept where they are.
LEMMA RecordGrows ==
  ASSUME TypeOK, [Next]_vars
  PROVE  \A i \in DOMAIN files["goose"] :
           i \in DOMAIN files'["goose"] /\ files'["goose"][i] = files["goose"][i]
<1>0. files["goose"] \in Seq(SessionEvent)
  BY DEF TypeOK, SessionIds
<1>1. ASSUME NEW e \in SessionEvent, record(e)
      PROVE  \A i \in DOMAIN files["goose"] :
               i \in DOMAIN files'["goose"] /\ files'["goose"][i] = files["goose"][i]
  <2>1. files'["goose"] \in {files["goose"], Append(files["goose"], e)}
    BY <1>1, RecordEffect
  <2>2. \A i \in DOMAIN files["goose"] :
          /\ i \in DOMAIN Append(files["goose"], e)
          /\ Append(files["goose"], e)[i] = files["goose"][i]
    BY <1>0
  <2> QED
    BY <2>1, <2>2
<1>2. CASE files' = files
  BY <1>2
<1>3. CASE Aside
  BY <1>1, <1>2, <1>3 DEF Aside
<1>4. ASSUME NEW r \in Requests, NEW request \in Request,
             RecordRequest(r, request)
      PROVE  \E e \in SessionEvent : record(e)
  <2>1. Event("ToolCallRequested", r, FALSE) \in SessionEvent
    BY EventTyped
  <2> QED
    BY <1>4, <2>1 DEF RecordRequest
<1>5. ASSUME NEW r \in Requests, RecordDecision(r)
      PROVE  \E e \in SessionEvent : record(e)
  <2>1. Event("GateDecision", r, decision[r] = "Approved") \in SessionEvent
    BY EventTyped
  <2> QED
    BY <1>5, <2>1 DEF RecordDecision
<1>6. ASSUME NEW r \in Requests,
             Submit(r) \/ Decide(r) \/ Respond(r) \/ Deliver(r)
      PROVE  files' = files
  BY <1>6 DEF Submit, Decide, Respond, Deliver
<1>7. ASSUME NEW c \in ToolCalls, RunTool(c)
      PROVE  files' = files
  BY <1>7 DEF RunTool
<1> QED
  BY <1>1, <1>2, <1>3, <1>4, <1>5, <1>6, <1>7, StepShape

RequestAt(r, i) == files["goose"][i] = Event("ToolCallRequested", r, FALSE)

DecisionAt(r, j) ==
  files["goose"][j] = Event("GateDecision", r, decision[r] = "Approved")

RecordOk(r) ==
  /\ handler[r] # "none" => session_id = "goose"
  /\ "goose" \notin unwritable /\ handler[r] # "none" =>
       \E i \in DOMAIN files["goose"] : RequestAt(r, i)
  /\ "goose" \notin unwritable /\ handler[r] \in {"recorded", "answered"} =>
       \E i, j \in DOMAIN files["goose"] :
         i < j /\ RequestAt(r, i) /\ DecisionAt(r, j)

RecordInv ==
  /\ Adopted => session_id = "goose"
  /\ \A r \in Requests : RecordOk(r)

\* A step that leaves a handler where it is, or moves it on without recording.
LEMMA RecordOkFrame ==
  ASSUME TypeOK, [Next]_vars, NEW q \in Requests, RecordOk(q),
         unwritable' = unwritable, session_id' \in {session_id, "goose"},
         handler'[q] # "none" => handler[q] # "none",
         handler'[q] \in {"recorded", "answered"} =>
           /\ handler[q] \in {"recorded", "answered"}
           /\ decision'[q] = decision[q]
  PROVE  RecordOk(q)'
<1>1. \A i \in DOMAIN files["goose"] :
        i \in DOMAIN files'["goose"] /\ files'["goose"][i] = files["goose"][i]
  BY RecordGrows
<1> QED
  BY <1>1 DEF RecordOk, RequestAt, DecisionAt

\* Handlers record the request and the decision before they answer, in the
\* session goose named before the prompt was sent (acp_spike.rs:167-258).
THEOREM RecordInvariant == Spec => []RecordInv
<1>1. Init => RecordInv
  BY DEF Init, RecordInv, RecordOk, Adopted
<1>2. TypeInv /\ RecordInv /\ [Next]_vars => RecordInv'
  <2> SUFFICES ASSUME TypeInv, RecordInv, [Next]_vars
               PROVE  RecordInv'
    OBVIOUS
  <2>0. /\ TypeOK /\ \A r \in Requests : RecordOk(r)
        /\ Adopted => session_id = "goose"
        /\ files["goose"] \in Seq(SessionEvent)
    BY DEF TypeInv, RecordInv, TypeOK, SessionIds
  <2>1. CASE Aside
    <3>1. /\ UNCHANGED <<unwritable, handler, decision>>
          /\ session_id' \in {session_id, "goose"}
          /\ Adopted' => Adopted \/ session_id' = "goose"
      BY <2>1 DEF Aside, handlerVars
    <3>2. \A q \in Requests : RecordOk(q)'
      BY <2>0, <3>1, RecordOkFrame
    <3> QED
      BY <2>0, <3>1, <3>2 DEF RecordInv
  <2>2. ASSUME NEW r \in Requests, NEW request \in Request,
               RecordRequest(r, request)
        PROVE  RecordInv'
    <3> DEFINE e == Event("ToolCallRequested", r, FALSE)
    <3>1. /\ flow = "prompting" /\ flow' = flow
          /\ handler' = [handler EXCEPT ![r] = "requested"]
          /\ UNCHANGED <<unwritable, session_id, decision>>
          /\ record(e)
      BY <2>2 DEF RecordRequest, GoTo, HandlerUnchanged, mainVars
    <3>2. e \in SessionEvent
      BY EventTyped
    <3>3. session_id = "goose"
      BY <2>0, <3>1 DEF Adopted
    <3>4. "goose" \notin unwritable =>
            files'["goose"] = Append(files["goose"], e)
      <4> HIDE DEF e
      <4> QED
        BY <2>0, <3>1, <3>2, <3>3, RecordEffect
    <3>5. "goose" \notin unwritable =>
            \E i \in DOMAIN files'["goose"] : files'["goose"][i] = e
      <4> HIDE DEF e
      <4>1. LET f == Append(files["goose"], e) IN
            Len(f) \in DOMAIN f /\ f[Len(f)] = e
        BY <2>0, <3>2
      <4> QED
        BY <3>4, <4>1
    <3>6. RecordOk(r)'
      <4>1. handler'[r] = "requested"
        BY <2>0, <3>1 DEF TypeOK
      <4> QED
        BY <3>1, <3>3, <3>5, <4>1 DEF RecordOk, RequestAt
    <3>7. \A q \in Requests : q # r => RecordOk(q)'
      BY <2>0, <3>1, RecordOkFrame DEF TypeOK
    <3> QED
      BY <3>1, <3>3, <3>6, <3>7 DEF RecordInv
  <2>3. ASSUME NEW r \in Requests, RecordDecision(r) PROVE RecordInv'
    <3> DEFINE e == Event("GateDecision", r, decision[r] = "Approved")
    <3>1. /\ handler[r] = "decided"
          /\ handler' = [handler EXCEPT ![r] = "recorded"]
          /\ UNCHANGED <<flow, unwritable, session_id, decision>>
          /\ record(e)
      BY <2>3 DEF RecordDecision, At, GoTo, HandlerUnchanged, mainVars
    <3>2. e \in SessionEvent
      BY EventTyped
    <3>3. session_id = "goose"
      BY <2>0, <3>1 DEF RecordOk
    <3>4. "goose" \notin unwritable =>
            files'["goose"] = Append(files["goose"], e)
      <4> HIDE DEF e
      <4> QED
        BY <2>0, <3>1, <3>2, <3>3, RecordEffect
    <3>5. "goose" \notin unwritable =>
            \E i, j \in DOMAIN files'["goose"] :
              i < j /\ RequestAt(r, i)' /\ files'["goose"][j] = e
      <4> SUFFICES ASSUME "goose" \notin unwritable
                   PROVE  \E i, j \in DOMAIN files'["goose"] :
                            i < j /\ RequestAt(r, i)' /\ files'["goose"][j] = e
        OBVIOUS
      <4>1. PICK i \in DOMAIN files["goose"] : RequestAt(r, i)
        BY <2>0, <3>1 DEF RecordOk
      <4> DEFINE j == Len(files["goose"]) + 1
      <4> HIDE DEF e
      <4>2. /\ i \in DOMAIN files'["goose"] /\ j \in DOMAIN files'["goose"]
            /\ i < j /\ files'["goose"][i] = files["goose"][i]
            /\ files'["goose"][j] = e
        BY <2>0, <3>2, <3>4, <4>1
      <4> HIDE DEF j
      <4> QED
        BY <4>1, <4>2 DEF RequestAt
    <3>6. RecordOk(r)'
      <4>1. handler'[r] = "recorded"
        BY <2>0, <3>1 DEF TypeOK
      <4> QED
        BY <3>1, <3>3, <3>5, <4>1 DEF RecordOk, DecisionAt
    <3>7. \A q \in Requests : q # r => RecordOk(q)'
      BY <2>0, <3>1, RecordOkFrame DEF TypeOK
    <3> QED
      BY <2>0, <3>1, <3>6, <3>7 DEF RecordInv, Adopted
  <2>4. ASSUME UNCHANGED <<flow, unwritable, session_id>>,
               \A q \in Requests :
                 /\ handler'[q] # "none" => handler[q] # "none"
                 /\ handler'[q] \in {"recorded", "answered"} =>
                      /\ handler[q] \in {"recorded", "answered"}
                      /\ decision'[q] = decision[q]
        PROVE  RecordInv'
    <3>1. \A q \in Requests : RecordOk(q)'
      BY <2>0, <2>4, RecordOkFrame
    <3> QED
      BY <2>0, <2>4, <3>1 DEF RecordInv, Adopted
  <2>5. ASSUME NEW r \in Requests, Submit(r) PROVE RecordInv'
    BY <2>0, <2>4, <2>5
       DEF Submit, At, GoTo, HandlerUnchanged, mainVars, TypeOK
  <2>6. ASSUME NEW r \in Requests, Decide(r) PROVE RecordInv'
    <3>1. PICK nonce, s, t : DecidedAs(r, nonce, s, t)
      BY <2>6, DecideShape
    <3>2. \A q \in Requests : q # r => decision'[q] = decision[q]
      BY <2>0, <3>1 DEF DecidedAs, TypeOK
    <3>3. /\ handler[r] = "submitted"
          /\ handler' = [handler EXCEPT ![r] = "decided"]
          /\ UNCHANGED <<flow, unwritable, session_id>>
      BY <2>6 DEF Decide, At, GoTo, HandlerUnchanged, mainVars
    <3> QED
      BY <2>0, <2>4, <3>2, <3>3 DEF TypeOK
  <2>7. ASSUME NEW r \in Requests, Respond(r) PROVE RecordInv'
    BY <2>0, <2>4, <2>7
       DEF Respond, ReadyToRespond, At, GoTo, HandlerUnchanged, mainVars, TypeOK
  <2>8. ASSUME NEW r \in Requests, Deliver(r) PROVE RecordInv'
    BY <2>4, <2>8 DEF Deliver, GooseUnchanged, handlerVars, mainVars
  <2>9. ASSUME NEW c \in ToolCalls, RunTool(c) PROVE RecordInv'
    BY <2>4, <2>9 DEF RunTool, GooseUnchanged, handlerVars, mainVars
  <2> QED
    BY <2>0, <2>1, <2>2, <2>3, <2>5, <2>6, <2>7, <2>8, <2>9, StepShape
<1> QED
  BY <1>1, <1>2, TypeInvariant, PTL DEF Spec

\* For every value of the constants: every answer goose has is explained by the
\* record of its session, however the process ends (acp_spike.rs:167-224).
THEOREM RecordExplainsAnswers == Spec => []AnswersAreRecorded
<1>1. TypeInv /\ HandlerInv /\ RecordInv => AnswersAreRecorded
  <2> SUFFICES ASSUME TypeInv, HandlerInv, RecordInv, "goose" \notin unwritable,
                      NEW r \in delivered
               PROVE  \E i, j \in DOMAIN files["goose"] :
                        i < j /\ RequestAt(r, i) /\ DecisionAt(r, j)
    BY DEF AnswersAreRecorded, RequestAt, DecisionAt
  <2>1. r \in Requests
    BY DEF TypeInv, TypeOK
  <2> QED
    BY <2>1 DEF HandlerInv, HandlerOk, RecordInv, RecordOk
<1> QED
  BY <1>1, TypeInvariant, HandlerInvariant, RecordInvariant, PTL

----------------------------------------------------------------------------
(* A run of a tool spends a grant                                          *)

ApprovedFor(c) ==
  {r \in Requests : decision[r] = "Approved" /\ asked[r].call = c}

RanFor(c) == {r \in ran : asked[r].call = c}

\* The way round: an allow_always where no allow_once was offered.
Bypassed(c) ==
  \E r \in delivered :
    /\ asked[r].call = c
    /\ answer[r] = "allow_always"
    /\ ~ Contains(asked[r].options, "allow_once")

CountInv ==
  \A c \in ToolCalls :
    /\ Cardinality(ApprovedFor(c)) = Cardinality(GrantsOf(c))
    /\ Bypassed(c) \/ runs[c] <= Cardinality(RanFor(c))

LEMMA FiniteRequests ==
  ASSUME TypeOK, NEW c \in ToolCalls
  PROVE  /\ IsFiniteSet(ApprovedFor(c)) /\ Cardinality(ApprovedFor(c)) \in Nat
         /\ IsFiniteSet(RanFor(c)) /\ Cardinality(RanFor(c)) \in Nat
<1>1. IsFiniteSet(Requests)
  BY FS_Interval, BoundsAssumption DEF Requests
<1>2. ApprovedFor(c) \subseteq Requests /\ RanFor(c) \subseteq Requests
  BY DEF ApprovedFor, RanFor, TypeOK
<1>3. IsFiniteSet(ApprovedFor(c)) /\ IsFiniteSet(RanFor(c))
  BY <1>1, <1>2, FS_Subset
<1> QED
  BY <1>3, FS_CardinalityType

LEMMA GrantsOfEvolve ==
  ASSUME TypeOK, NEW c \in ToolCalls
  PROVE  /\ Cardinality(GrantsOf(c)) \in Nat
         /\ gate'.audit = gate.audit => GrantsOf(c)' = GrantsOf(c)
         /\ \A a \in AuditRecord :
              /\ a.decision = "Approved"
              /\ gate'.audit = Append(gate.audit, a)
              => Cardinality(GrantsOf(c)')
                   = Cardinality(GrantsOf(c)) + (IF a.action = c THEN 1 ELSE 0)
<1> DEFINE n == Len(gate.audit)
<1>0. gate.audit \in Seq(AuditRecord) /\ n \in Nat /\ DOMAIN gate.audit = 1 .. n
  BY DEF TypeOK, Gate
<1>1. GrantsOf(c) \subseteq 1 .. n
  BY <1>0 DEF GrantsOf
<1>2. IsFiniteSet(GrantsOf(c)) /\ Cardinality(GrantsOf(c)) \in Nat
  <2>1. IsFiniteSet(1 .. n)
    BY <1>0, FS_Interval
  <2>2. IsFiniteSet(GrantsOf(c))
    BY <1>1, <2>1, FS_Subset
  <2> QED
    BY <2>2, FS_CardinalityType
<1>3. gate'.audit = gate.audit => GrantsOf(c)' = GrantsOf(c)
  BY DEF GrantsOf
<1>4. ASSUME NEW a \in AuditRecord, a.decision = "Approved",
             gate'.audit = Append(gate.audit, a)
      PROVE  Cardinality(GrantsOf(c)')
               = Cardinality(GrantsOf(c)) + (IF a.action = c THEN 1 ELSE 0)
  <2>1. /\ DOMAIN gate'.audit = 1 .. n + 1
        /\ \A i \in 1 .. n : gate'.audit[i] = gate.audit[i]
        /\ gate'.audit[n + 1] = a
    BY <1>0, <1>4
  <2> HIDE DEF n
  <2>2. GrantsOf(c)'
          = IF a.action = c THEN GrantsOf(c) \cup {n + 1} ELSE GrantsOf(c)
    <3>1. 1 .. n + 1 = (1 .. n) \cup {n + 1}
      BY <1>0
    <3> QED
      BY <1>0, <1>4, <2>1, <3>1 DEF GrantsOf
  <2>3. n + 1 \notin GrantsOf(c)
    BY <1>0, <1>1
  <2>4. Cardinality(GrantsOf(c) \cup {n + 1}) = Cardinality(GrantsOf(c)) + 1
    BY <1>2, <2>3, FS_AddElement
  <2> QED
    BY <1>2, <2>2, <2>4
<1> QED
  BY <1>2, <1>3, <1>4

\* Approved requests and granting audit records are equally many, and each
\* allow_once goose uses is one of them.
THEOREM CountInvariant == Spec => []CountInv
<1>1. Init => CountInv
  <2> SUFFICES ASSUME Init, NEW c \in ToolCalls
               PROVE  /\ Cardinality(ApprovedFor(c)) = Cardinality(GrantsOf(c))
                      /\ runs[c] <= Cardinality(RanFor(c))
    BY DEF CountInv
  <2>1. ApprovedFor(c) = {} /\ GrantsOf(c) = {} /\ RanFor(c) = {}
          /\ runs[c] = 0
    BY DEF Init, NewGate, ApprovedFor, GrantsOf, RanFor
  <2> QED
    BY <2>1, FS_EmptySet
<1>2. TypeInv /\ HandlerInv /\ CountInv /\ [Next]_vars => CountInv'
  <2> SUFFICES ASSUME TypeInv, HandlerInv, CountInv, [Next]_vars,
                      NEW c \in ToolCalls
               PROVE  /\ Cardinality(ApprovedFor(c)') = Cardinality(GrantsOf(c)')
                      /\ Bypassed(c)' \/ runs'[c] <= Cardinality(RanFor(c)')
    BY DEF CountInv
  <2> DEFINE Granted == Cardinality(ApprovedFor(c)') = Cardinality(GrantsOf(c)')
             Spent == Bypassed(c)' \/ runs'[c] <= Cardinality(RanFor(c)')
  <2>0. /\ TypeOK /\ \A r \in Requests : HandlerOk(r)
        /\ Cardinality(ApprovedFor(c)) = Cardinality(GrantsOf(c))
        /\ Bypassed(c) \/ runs[c] <= Cardinality(RanFor(c))
        /\ delivered \subseteq Requests /\ ran \subseteq Requests
    BY DEF TypeInv, HandlerInv, CountInv, TypeOK
  \* Steps that leave decisions and the audit log alone.
  <2>1. ASSUME gate'.audit = gate.audit, decision' = decision, asked' = asked
        PROVE  Granted
    <3>1. GrantsOf(c)' = GrantsOf(c)
      BY <2>0, <2>1, GrantsOfEvolve
    <3>2. ApprovedFor(c)' = ApprovedFor(c)
      BY <2>1 DEF ApprovedFor
    <3> QED
      BY <2>0, <3>1, <3>2
  \* Steps in which no tool runs.
  <2>2. ASSUME runs' = runs, ran' = ran, delivered \subseteq delivered',
               \A r \in delivered : answer'[r] = answer[r],
               \A r \in delivered : asked'[r] = asked[r]
        PROVE  Spent
    <3>1. RanFor(c)' = RanFor(c)
      BY <2>0, <2>2 DEF RanFor, HandlerOk
    <3>2. Bypassed(c) => Bypassed(c)'
      BY <2>2 DEF Bypassed
    <3> QED
      BY <2>0, <2>2, <3>1, <3>2
  <2>3. CASE Aside
    BY <2>1, <2>2, <2>3 DEF Aside, lockVars, handlerVars, gooseVars
  <2>4. ASSUME NEW r \in Requests, NEW request \in Request,
               RecordRequest(r, request)
        PROVE  Granted /\ Spent
    <3>1. /\ handler[r] = "none" /\ asked' = [asked EXCEPT ![r] = request]
          /\ UNCHANGED <<gate, decision, answer, delivered, ran, runs>>
      BY <2>4 DEF RecordRequest, At, HandlerUnchanged, lockVars, gooseVars
    <3>2. decision[r] = "none" /\ r \notin delivered
      BY <2>0, <3>1 DEF HandlerOk, Undecided
    <3>3. \A q \in Requests : q # r => asked'[q] = asked[q]
      BY <2>0, <3>1 DEF TypeOK
    <3>4. ApprovedFor(c)' = ApprovedFor(c)
      BY <3>1, <3>2, <3>3 DEF ApprovedFor
    <3>5. GrantsOf(c)' = GrantsOf(c)
      BY <2>0, <3>1, GrantsOfEvolve
    <3>6. Spent
      BY <2>0, <2>2, <3>1, <3>2, <3>3
    <3> QED
      BY <2>0, <3>4, <3>5, <3>6
  <2>5. ASSUME NEW r \in Requests, Submit(r) PROVE Granted /\ Spent
    <3>1. /\ gate' = SubmitTo(gate, asked[r].call)
          /\ UNCHANGED <<asked, decision, answer, delivered, ran, runs>>
      BY <2>5 DEF Submit, HandlerUnchanged, gooseVars
    <3>2. gate'.audit = gate.audit
      BY <2>0, <3>1 DEF SubmitTo, TypeOK, Gate
    <3> QED
      BY <2>1, <2>2, <3>1, <3>2
  <2>6. ASSUME NEW r \in Requests, Decide(r) PROVE Granted /\ Spent
    <3>1. /\ handler[r] = "submitted"
          /\ UNCHANGED <<asked, answer, delivered, ran, runs>>
      BY <2>6 DEF Decide, At, HandlerUnchanged, gooseVars
    <3>2. PICK nonce, s, t : DecidedAs(r, nonce, s, t)
      BY <2>6, DecideShape
    <3> DEFINE call == asked[r].call
               outcome == DecideOutcome(gate, call,
                                        human_sign(call, nonce, s), t)
    <3>3. decision' = [decision EXCEPT ![r] = outcome]
      BY <3>2 DEF DecidedAs
    <3>4. decision[r] = "none" /\ call \in ToolCalls
      BY <2>0, <3>1, AskedTyped DEF HandlerOk, Undecided
    <3>5. Spent
      BY <2>2, <3>1
    <3>6. CASE outcome \in GateError
      <4>1. gate' = gate
        BY <3>2, <3>6 DEF DecidedAs, GateError
      <4> HIDE DEF outcome, call
      <4>2. ApprovedFor(c)' = ApprovedFor(c)
        BY <2>0, <3>1, <3>3, <3>4, <3>6 DEF ApprovedFor, TypeOK, GateError
      <4>3. GrantsOf(c)' = GrantsOf(c)
        BY <2>0, <4>1, GrantsOfEvolve
      <4> QED
        BY <2>0, <3>5, <4>2, <4>3
    <3>7. CASE outcome = "Approved"
      <4> DEFINE a == Record(t, call, "Approved", TestKey)
      <4>1. /\ gate'.audit = Append(gate.audit, a)
            /\ a \in AuditRecord /\ a.action = call /\ a.decision = "Approved"
        BY <2>0, <3>2, <3>4, <3>7, GrantTyped DEF DecidedAs, GateError, TypeOK
      <4> HIDE DEF a
      <4>2. Cardinality(GrantsOf(c)')
              = Cardinality(GrantsOf(c)) + (IF call = c THEN 1 ELSE 0)
        BY <2>0, <4>1, GrantsOfEvolve
      <4>3. r \notin ApprovedFor(c)
        BY <3>4 DEF ApprovedFor
      <4>4. ApprovedFor(c)'
              = IF call = c THEN ApprovedFor(c) \cup {r} ELSE ApprovedFor(c)
        <5> HIDE DEF outcome
        <5> QED
          BY <2>0, <3>1, <3>3, <3>4, <3>7 DEF ApprovedFor, TypeOK
      <4>5. /\ Cardinality(ApprovedFor(c) \cup {r})
                 = Cardinality(ApprovedFor(c)) + 1
            /\ Cardinality(ApprovedFor(c)) \in Nat
        BY <2>0, <4>3, FiniteRequests, FS_AddElement
      <4> HIDE DEF call, outcome
      <4> QED
        BY <2>0, <3>5, <4>2, <4>4, <4>5
    <3> QED
      BY <3>2, <3>6, <3>7 DEF DecidedAs
  <2>7. ASSUME NEW r \in Requests, RecordDecision(r) PROVE Granted /\ Spent
    BY <2>1, <2>2, <2>7
       DEF RecordDecision, HandlerUnchanged, lockVars, gooseVars
  <2>8. ASSUME NEW r \in Requests, Respond(r) PROVE Granted /\ Spent
    <3>1. /\ handler[r] = "recorded"
          /\ \A q \in Requests : q # r => answer'[q] = answer[q]
          /\ UNCHANGED <<gate, asked, decision, delivered, ran, runs>>
      BY <2>0, <2>8 DEF Respond, ReadyToRespond, At, HandlerUnchanged,
         lockVars, gooseVars, TypeOK
    <3>2. r \notin delivered
      BY <2>0, <3>1 DEF HandlerOk
    <3> QED
      BY <2>0, <2>1, <2>2, <3>1, <3>2
  <2>9. ASSUME NEW r \in Requests, Deliver(r) PROVE Granted /\ Spent
    BY <2>1, <2>2, <2>9 DEF Deliver, GooseUnchanged, lockVars, handlerVars
  <2>10. ASSUME NEW d \in ToolCalls, RunTool(d) PROVE Granted /\ Spent
    <3>1. /\ runs' = [runs EXCEPT ![d] = @ + 1] /\ MayRun(d)
          /\ UNCHANGED <<gate, asked, decision, answer, delivered>>
      BY <2>10 DEF RunTool, GooseUnchanged, lockVars, handlerVars
    <3>2. Granted
      BY <2>1, <3>1
    <3>3. PICK r \in delivered :
            /\ asked[r].call = d
            /\ \/ answer[r] = "allow_once" /\ r \notin ran /\ ran' = ran \cup {r}
               \/ answer[r] = "allow_always" /\ ran' = ran
      BY <3>1 DEF MayRun
    <3>4. Bypassed(c)' <=> Bypassed(c)
      BY <3>1 DEF Bypassed
    <3>5. /\ runs[c] \in Nat /\ Cardinality(RanFor(c)) \in Nat
          /\ runs'[c] = runs[c] + (IF c = d THEN 1 ELSE 0)
      BY <2>0, <3>1, FiniteRequests DEF TypeOK
    <3>6. CASE answer[r] = "allow_once" /\ r \notin ran /\ ran' = ran \cup {r}
      <4>1. r \notin RanFor(c)
        BY <3>6 DEF RanFor
      <4>2. RanFor(c)' = IF c = d THEN RanFor(c) \cup {r} ELSE RanFor(c)
        BY <3>1, <3>3, <3>6 DEF RanFor
      <4>3. Cardinality(RanFor(c) \cup {r}) = Cardinality(RanFor(c)) + 1
        BY <2>0, <4>1, FiniteRequests, FS_AddElement
      <4> QED
        BY <2>0, <3>2, <3>4, <3>5, <4>2, <4>3
    <3>7. CASE answer[r] = "allow_always" /\ ran' = ran
      <4>1. ~ Contains(asked[r].options, "allow_once")
        BY <2>0, <3>7 DEF HandlerOk, OptionKinds
      <4>2. c = d => Bypassed(c)
        BY <3>3, <3>7, <4>1 DEF Bypassed
      <4>3. RanFor(c)' = RanFor(c)
        BY <3>1, <3>7 DEF RanFor
      <4> QED
        BY <2>0, <3>2, <3>4, <3>5, <4>2, <4>3
    <3> QED
      BY <3>3, <3>6, <3>7
  <2> QED
    BY <2>0, <2>3, <2>4, <2>5, <2>6, <2>7, <2>8, <2>9, <2>10, StepShape
<1> QED
  BY <1>1, <1>2, TypeInvariant, HandlerInvariant, PTL DEF Spec

\* For every value of the constants: goose runs a tool call no more often than
\* the gate granted it, the fallback to an allow_always apart
\* (acp_spike.rs:186-217).
THEOREM RunsAreWithinGrants == Spec => []RunsAreGranted
<1>1. TypeInv /\ HandlerInv /\ CountInv => RunsAreGranted
  <2> SUFFICES ASSUME TypeInv, HandlerInv, CountInv, NEW c \in ToolCalls,
                      runs[c] > Cardinality(GrantsOf(c))
               PROVE  Bypassed(c)
    BY DEF RunsAreGranted, Bypassed
  <2>1. TypeOK /\ ran \subseteq Requests
    BY DEF TypeInv, TypeOK
  <2>2. RanFor(c) \subseteq ApprovedFor(c)
    BY <2>1 DEF RanFor, ApprovedFor, HandlerInv, HandlerOk, OptionKinds
  <2>3. /\ Cardinality(RanFor(c)) <= Cardinality(ApprovedFor(c))
        /\ Cardinality(RanFor(c)) \in Nat /\ Cardinality(ApprovedFor(c)) \in Nat
    BY <2>1, <2>2, FiniteRequests, FS_Subset
  <2>4. runs[c] \in Nat
    BY <2>1 DEF TypeOK
  <2> QED
    BY <2>3, <2>4 DEF CountInv
<1> QED
  BY <1>1, TypeInvariant, HandlerInvariant, CountInvariant, PTL
=============================================================================

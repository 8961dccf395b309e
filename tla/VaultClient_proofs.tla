------------------------- MODULE VaultClient_proofs -------------------------
(***************************************************************************)
(* Theorems about VaultClient and its outages, for every set of notes and  *)
(* any number of edits, writes, outages and late answers: invariants,      *)
(* action properties, and that it implements VaultRegister.                *)
(*                                                                         *)
(* A vault_write is in at most one place: on the live connection, among    *)
(* the abandoned ones, or in a log.  WritesInv says so, and which answers  *)
(* may be on the way in each case; every step then is one of the register, *)
(* or leaves its two variables alone.                                      *)
(***************************************************************************)
EXTENDS VaultOutages, SequenceTheorems, TLAPS

----------------------------------------------------------------------------
(* The invariant                                                           *)

\* A write in progress is the last one sent, and open.
OpInv ==
  op.pc \in {"write", "refetch"} =>
    /\ Len(sent) >= 1
    /\ sent[Len(sent)].path = op.path /\ sent[Len(sent)].outcome = "pending"

\* The requests q hold nothing but late ones and, perhaps, that of the
\* operation in progress.
Asks(o, n, r) ==
  /\ o.pc \in Purposes /\ r.path = o.path
  /\ IF o.pc = "write" THEN r.tool = "vault_write" /\ r.wid = n
     ELSE r.tool = "vault_read"

\* A version of the note whose log is l, no older than the one shown last.
IsVersion(l, last, version, content) ==
  /\ version \in 1 .. Len(l) /\ l[version] = content
  /\ version >= last

\* An answer to the operation in progress tells it a version of its note.
Tells(o, n, l, last, a) ==
  /\ o.pc \in Purposes
  /\ a.kind = "note" =>
       o.pc # "write" /\ IsVersion(l, last, a.version, a.content)
  /\ a.kind = "written" => IsVersion(l, last, a.version, n)

RequestInv == \A i \in 1 .. Len(inbox) :
  ~ inbox[i].late => Asks(op, Len(sent), inbox[i])

AnswerInv == \A i \in 1 .. Len(wire) :
  ~ wire[i].late =>
    Tells(op, Len(sent), log[op.path], shown[op.path], wire[i])

\* There is one request or answer of the operation in progress at most.
SingleInv ==
  /\ \A i, j \in 1 .. Len(inbox) : ~ inbox[i].late /\ ~ inbox[j].late => i = j
  /\ \A i, j \in 1 .. Len(wire) : ~ wire[i].late /\ ~ wire[j].late => i = j
  /\ \A i \in 1 .. Len(inbox), j \in 1 .. Len(wire) : inbox[i].late \/ wire[j].late

PipesInv == RequestInv /\ AnswerInv /\ SingleInv

CacheInv == \A p \in Paths :
  /\ shown[p] <= Len(log[p])
  /\ cache[p] # NoEntry =>
       IsVersion(log[p], shown[p], cache[p].version, cache[p].content)

\* A token that no caller was shown was fetched for a write.
TokenInv == \A p \in Paths :
  cache[p] # NoEntry /\ cache[p].version # shown[p] =>
    \E v \in 1 .. Len(sent) :
      \/ Fetched(sent[v], p, cache[p].version)
      \/ /\ v = Len(sent) /\ op.pc = "write" /\ op.path = p
         /\ sent[v].expected = cache[p].version /\ sent[v].revalidated

Inv ==
  TypeOK /\ OpInv /\ PipesInv /\ CacheInv /\ TokenInv /\ OffersVersionSeen

LEMMA InitInv == Init => Inv
<1> SUFFICES ASSUME Init PROVE Inv
  OBVIOUS
<1>1. TypeOK
  <2>1. log \in [Paths -> Seq(Authors)]
    <3>1. << >> \in Seq(Authors) /\ <<Human>> \in Seq(Authors)
      BY DEF Authors, Human
    <3> QED
      BY <3>1 DEF Init
  <2>2. /\ inbox \in Seq(Request) /\ wire \in Seq(Answer)
        /\ limbo \subseteq Request /\ sent \in Seq(Sent)
    BY EmptySeq DEF Init
  <2>3. op \in Op /\ cache \in [Paths -> Entry \cup {NoEntry}]
          /\ shown \in [Paths -> Nat]
    BY DEF Init, Op
  <2> QED
    BY <2>1, <2>2, <2>3 DEF Init, TypeOK
<1>2. /\ inbox = << >> /\ wire = << >> /\ sent = << >> /\ op = Idle
      /\ cache = [p \in Paths |-> NoEntry] /\ shown = [p \in Paths |-> 0]
  BY DEF Init
<1>3. \A p \in Paths : 0 <= Len(log[p])
  BY <1>1, LenProperties DEF TypeOK
<1> QED
  BY <1>1, <1>2, <1>3 DEF Inv, OpInv, Idle, PipesInv, RequestInv, AnswerInv,
     SingleInv, CacheInv, TokenInv, OffersVersionSeen

----------------------------------------------------------------------------
(* Sequences                                                               *)

LEMMA Lengths ==
  ASSUME TypeOK
  PROVE  /\ Len(inbox) \in Nat /\ Len(wire) \in Nat /\ Len(sent) \in Nat
         /\ DOMAIN sent = 1 .. Len(sent)
         /\ \A i \in 1 .. Len(inbox) : inbox[i] \in Request
         /\ \A i \in 1 .. Len(wire) : wire[i] \in Answer
         /\ \A i \in 1 .. Len(sent) : sent[i] \in Sent
         /\ \A p \in Paths : /\ log[p] \in Seq(Authors) /\ Len(log[p]) \in Nat
                             /\ DOMAIN log[p] = 1 .. Len(log[p])
  BY LenProperties, ElementOfSeq DEF TypeOK

LEMMA LateRequests ==
  ASSUME NEW s \in Seq(Request)
  PROVE  /\ AsLate(s) \in Seq(Request) /\ Len(AsLate(s)) = Len(s)
         /\ \A i \in 1 .. Len(s) : AsLate(s)[i].late
<1>1. DOMAIN s = 1 .. Len(s) /\ Len(s) \in Nat
        /\ \A i \in 1 .. Len(s) : s[i] \in Request
  BY LenProperties, ElementOfSeq
<1>2. \A r \in Request : /\ [r EXCEPT !.late = TRUE] \in Request
                         /\ [r EXCEPT !.late = TRUE].late
  BY DEF Request
<1>3. /\ AsLate(s) \in [1 .. Len(s) -> Request]
      /\ \A i \in 1 .. Len(s) : AsLate(s)[i].late
  BY <1>1, <1>2 DEF AsLate
<1>4. AsLate(s) \in Seq(Request) /\ Len(AsLate(s)) = Len(s)
  BY <1>1, <1>3
<1> QED
  BY <1>3, <1>4

LEMMA LateAnswers ==
  ASSUME NEW s \in Seq(Answer)
  PROVE  /\ AsLate(s) \in Seq(Answer) /\ Len(AsLate(s)) = Len(s)
         /\ \A i \in 1 .. Len(s) : AsLate(s)[i].late
<1>1. DOMAIN s = 1 .. Len(s) /\ Len(s) \in Nat
        /\ \A i \in 1 .. Len(s) : s[i] \in Answer
  BY LenProperties, ElementOfSeq
<1>2. \A r \in Answer : /\ [r EXCEPT !.late = TRUE] \in Answer
                        /\ [r EXCEPT !.late = TRUE].late
  BY DEF Answer
<1>3. /\ AsLate(s) \in [1 .. Len(s) -> Answer]
      /\ \A i \in 1 .. Len(s) : AsLate(s)[i].late
  BY <1>1, <1>2 DEF AsLate
<1>4. AsLate(s) \in Seq(Answer) /\ Len(AsLate(s)) = Len(s)
  BY <1>1, <1>3
<1> QED
  BY <1>3, <1>4

\* What is left of a pipe when its first element is gone.
LEMMA TailElements ==
  ASSUME NEW S, NEW s \in Seq(S), s # << >>
  PROVE  /\ Tail(s) \in Seq(S) /\ Len(Tail(s)) \in Nat
         /\ Head(s) = s[1] /\ 1 \in 1 .. Len(s) /\ Head(s) \in S
         /\ \A i \in 1 .. Len(Tail(s)) :
              /\ i + 1 \in 1 .. Len(s) /\ i + 1 # 1
              /\ Tail(s)[i] = s[i + 1]
<1>1. /\ Tail(s) \in Seq(S) /\ Len(Tail(s)) = Len(s) - 1
      /\ \A i \in 1 .. Len(Tail(s)) : Tail(s)[i] = s[i + 1]
      /\ Head(s) \in S /\ Head(s) = s[1] /\ Len(s) \in Nat \ {0}
  BY HeadTailProperties, EmptySeq
<1> QED
  BY <1>1

----------------------------------------------------------------------------
(* Types                                                                   *)

LEMMA OpTyped ==
  ASSUME TypeOK, op.pc \in {"reconnecting", "connecting"} \cup Purposes
  PROVE  op.path \in Paths /\ op.kind \in {"read", "write"} /\ op # Idle
  BY DEF TypeOK, Op, Idle, Purposes

LEMMA InOpTyped ==
  ASSUME NEW pc \in {"reconnecting", "connecting"} \cup Purposes,
         NEW kind \in {"read", "write"}, NEW p \in Paths
  PROVE  InOp(pc, kind, p) \in Op
  BY DEF InOp, Op

LEMMA SendTyped ==
  ASSUME NEW q \in Seq(Request), NEW r \in Request, Send(r, q)
  PROVE  inbox' \in Seq(Request)
  BY AppendProperties DEF Send

LEMMA CallReadTyped ==
  ASSUME NEW purpose \in Purposes, NEW kind \in {"read", "write"},
         NEW p \in Paths, NEW q \in Seq(Request), CallRead(purpose, kind, p, q)
  PROVE  op' \in Op /\ inbox' \in Seq(Request)
<1> DEFINE r == [tool |-> "vault_read", path |-> p, wid |-> 0, expected |-> 0,
                 late |-> FALSE]
<1>1. r \in Request
  BY DEF Request
<1>2. Send(r, q) /\ op' = InOp(purpose, kind, p)
  BY DEF CallRead
<1> HIDE DEF r
<1> QED
  BY <1>1, <1>2, SendTyped, InOpTyped

LEMMA CallWriteTyped ==
  ASSUME TypeOK, NEW p \in Paths, NEW q \in Seq(Request), NEW expected \in Nat,
         NEW revalidated \in BOOLEAN, CallWrite(p, q, expected, revalidated)
  PROVE  op' \in Op /\ inbox' \in Seq(Request) /\ sent' \in Seq(Sent)
<1> DEFINE r == [tool |-> "vault_write", path |-> p, wid |-> Len(sent) + 1,
                 expected |-> expected, late |-> FALSE]
           w == [path |-> p, expected |-> expected, seen |-> shown[p],
                 revalidated |-> revalidated, outcome |-> "pending"]
<1>1. r \in Request
  BY Lengths DEF Request
<1>2. w \in Sent
  BY DEF Sent, TypeOK
<1>3. Send(r, q) /\ op' = InOp("write", "write", p) /\ sent' = Append(sent, w)
  BY DEF CallWrite
<1>4. op' \in Op
  BY <1>3, InOpTyped DEF Purposes
<1> HIDE DEF r, w
<1> QED
  BY <1>1, <1>2, <1>3, <1>4, SendTyped, AppendProperties DEF TypeOK

LEMMA ReturnTyped ==
  ASSUME Return
  PROVE  op' \in Op
  BY DEF Return, Op

LEMMA EntryTyped ==
  ASSUME TypeOK, NEW p \in Paths, cache[p] # NoEntry
  PROVE  cache[p] \in Entry /\ cache[p].version \in Nat
  BY DEF TypeOK, Entry

LEMMA ShowTyped ==
  ASSUME TypeOK, NEW p \in Paths, NEW version \in Nat, Show(p, version)
  PROVE  shown' \in [Paths -> Nat]
  BY DEF Show, TypeOK

LEMMA ResolveTyped ==
  ASSUME TypeOK, NEW outcome \in {"written", "conflict", "muted", "protocol"},
         Resolve(outcome)
  PROVE  sent' \in Seq(Sent) /\ Len(sent') = Len(sent)
<1>1. CASE Len(sent) \in 1 .. Len(sent)
  <2>1. sent[Len(sent)] \in Sent
    BY <1>1, Lengths
  <2>2. [sent[Len(sent)] EXCEPT !.outcome = outcome] \in Sent
    BY <2>1 DEF Sent
  <2>3. sent' = [sent EXCEPT ![Len(sent)] =
                   [sent[Len(sent)] EXCEPT !.outcome = outcome]]
    BY <1>1, Lengths DEF Resolve
  <2> QED
    BY <1>1, <2>2, <2>3, ExceptSeq DEF TypeOK
<1>2. CASE Len(sent) \notin 1 .. Len(sent)
  <2>1. sent' = sent
    BY <1>2, Lengths DEF Resolve, TypeOK
  <2> QED
    BY <2>1 DEF TypeOK
<1> QED
  BY <1>1, <1>2

LEMMA RememberTyped ==
  ASSUME TypeOK, NEW p \in Paths, NEW content \in Authors, NEW version \in Nat,
         Remember(p, content, version)
  PROVE  cache' \in [Paths -> Entry \cup {NoEntry}]
<1>1. [content |-> content, version |-> version, fresh |-> TRUE] \in Entry
  BY DEF Entry
<1> QED
  BY <1>1 DEF Remember, TypeOK

LEMMA ReadOnlineTyped ==
  ASSUME TypeOK, NEW p \in Paths, NEW q \in Seq(Request), ReadOnline(p, q)
  PROVE  op' \in Op /\ inbox' \in Seq(Request) /\ shown' \in [Paths -> Nat]
<1>1. CASE /\ FreshCopy(p) /\ Return /\ Show(p, cache[p].version) /\ inbox' = q
  <2>1. cache[p].version \in Nat
    BY <1>1, EntryTyped DEF FreshCopy
  <2> QED
    BY <1>1, <2>1, ReturnTyped, ShowTyped
<1>2. CASE /\ UNCHANGED shown
           /\ \/ op' = InOp("connecting", "read", p) /\ inbox' = q
              \/ CallRead("read", "read", p, q)
  BY <1>2, InOpTyped, CallReadTyped DEF TypeOK, Purposes
<1> QED
  BY <1>1, <1>2 DEF ReadOnline

LEMMA WriteOnlineTyped ==
  ASSUME TypeOK, NEW p \in Paths, NEW q \in Seq(Request), WriteOnline(p, q)
  PROVE  op' \in Op /\ inbox' \in Seq(Request) /\ sent' \in Seq(Sent)
<1>1. CASE CallRead("revalidate", "write", p, q) /\ UNCHANGED sent
  BY <1>1, CallReadTyped DEF TypeOK, Purposes
<1>2. CASE Return /\ inbox' = q /\ UNCHANGED sent
  BY <1>2, ReturnTyped DEF TypeOK
<1>3. CASE cache[p] # NoEntry /\ CallWrite(p, q, cache[p].version, FALSE)
  BY <1>3, EntryTyped, CallWriteTyped
<1> QED
  BY <1>1, <1>2, <1>3 DEF WriteOnline

LEMMA MarkOfflineTyped ==
  ASSUME TypeOK, mark_offline
  PROVE  /\ inbox' = << >> /\ wire' = << >>
         /\ inbox' \in Seq(Request) /\ wire' \in Seq(Answer)
         /\ limbo' \subseteq Request /\ conn' = "none" /\ offline' = TRUE
<1>1. \A i \in 1 .. Len(inbox) : AsLate(inbox)[i] \in Request
  BY LateRequests, ElementOfSeq DEF TypeOK
<1>2. Abandoned \subseteq Request
  BY <1>1, LenProperties DEF Abandoned, TypeOK
<1> QED
  BY <1>2, EmptySeq DEF mark_offline, TypeOK

LEMMA StoredTyped ==
  ASSUME TypeOK, NEW r \in Request
  PROVE  Stored(r) \in [Paths -> Seq(Authors)]
<1>1. r.path \in Paths /\ r.wid \in Authors
  BY DEF Request, Authors
<1>2. Append(log[r.path], r.wid) \in Seq(Authors)
  BY <1>1, AppendProperties DEF TypeOK
<1> QED
  BY <1>1, <1>2 DEF Stored, TypeOK

\* What Alfred answers, case by case.
LEMMA AnswerCases ==
  ASSUME TypeOK, NEW r \in Request
  PROVE  LET n == Len(log[r.path]) IN
         \/ r.tool = "vault_read" /\ n > 0
              /\ AnswerTo(r) = Reply("note", r, n, log[r.path][n])
         \/ AnswerTo(r) = Reply("refused", r, 0, Human)
         \/ r.tool = "vault_write" /\ Accepts(r)
              /\ AnswerTo(r) = Reply("written", r, n + 1, r.wid)
         \/ r.tool = "vault_write" /\ ~ Accepts(r)
              /\ AnswerTo(r) = Reply("conflict", r, n, Human)
<1>1. r.path \in Paths /\ r.tool \in {"vault_read", "vault_write"}
  BY DEF Request
<1>2. Len(log[r.path]) \in Nat
  BY <1>1, Lengths
<1>3. CASE r.tool = "vault_read" /\ Len(log[r.path]) > 0
  BY <1>3 DEF AnswerTo
<1>4. CASE r.tool = "vault_read" /\ Len(log[r.path]) = 0
  BY <1>4 DEF AnswerTo
<1>5. CASE r.tool = "vault_write" /\ Accepts(r)
  BY <1>5 DEF AnswerTo
<1>6. CASE r.tool = "vault_write" /\ ~ Accepts(r)
  BY <1>6 DEF AnswerTo
<1> QED
  BY <1>1, <1>2, <1>3, <1>4, <1>5, <1>6

LEMMA AnswerTyped ==
  ASSUME TypeOK, NEW r \in Request
  PROVE  AnswerTo(r) \in Answer /\ Reply("garbled", r, 0, Human) \in Answer
<1>1. /\ r.path \in Paths /\ r.wid \in Authors /\ r.late \in BOOLEAN
      /\ r.tool \in {"vault_read", "vault_write"}
  BY DEF Request, Authors
<1>2. Len(log[r.path]) \in Nat /\ Human \in Authors
        /\ (Len(log[r.path]) > 0 => log[r.path][Len(log[r.path])] \in Authors)
  BY <1>1, Lengths, ElementOfSeq DEF Human, Authors
<1>3. \A kind \in {"note", "written", "conflict", "refused", "garbled"},
         version \in Nat, content \in Authors :
        Reply(kind, r, version, content) \in Answer
  BY <1>1 DEF Reply, Answer
<1> QED
  BY <1>1, <1>2, <1>3, AnswerCases

LEMMA FailCallTyped ==
  ASSUME TypeOK, Calling, NEW outcome \in {"muted", "protocol"},
         NEW rest \in Seq(Answer), FailCall(outcome, rest)
  PROVE  TypeOK'
<1>1. op.path \in Paths /\ op.kind \in {"read", "write"}
  BY OpTyped DEF Calling
<1>2. UNCHANGED <<log, up, cache, needs_revalidation>>
  BY DEF FailCall, StillObliged
<1>3. CASE op.pc = "read"
  <2>1. mark_offline /\ Return /\ UNCHANGED sent
          /\ (shown' = shown \/ (cache[op.path] # NoEntry
                                   /\ Show(op.path, cache[op.path].version)))
    BY <1>3 DEF FailCall, ReturnStaleOrError
  <2>2. shown' \in [Paths -> Nat]
    BY <1>1, <2>1, EntryTyped, ShowTyped DEF TypeOK
  <2> QED
    BY <1>2, <2>1, <2>2, MarkOfflineTyped, ReturnTyped DEF TypeOK
<1>4. CASE op.pc = "revalidate"
  <2>1. /\ Return /\ inbox' = AsLate(inbox) /\ wire' = AsLate(rest)
        /\ UNCHANGED <<limbo, conn, offline, sent, shown>>
    BY <1>4 DEF FailCall
  <2> QED
    BY <1>2, <2>1, ReturnTyped, LateRequests, LateAnswers DEF TypeOK
<1>5. CASE op.pc \notin {"read", "revalidate"}
  <2>1. mark_offline /\ Return /\ Resolve(outcome) /\ UNCHANGED shown
    BY <1>5 DEF FailCall
  <2> QED
    BY <1>2, <2>1, MarkOfflineTyped, ReturnTyped, ResolveTyped DEF TypeOK
<1> QED
  BY <1>3, <1>4, <1>5

LEMMA StartTyped ==
  ASSUME TypeOK, NEW p \in Paths, StartRead(p) \/ StartWrite(p)
  PROVE  TypeOK'
<1>1. UNCHANGED fields /\ UNCHANGED <<server, wire>> /\ inbox \in Seq(Request)
  BY DEF StartRead, StartWrite, TypeOK
<1>2. CASE StartRead(p)
  <2>1. sent' = sent /\
          \/ op' = InOp("reconnecting", "read", p) /\ UNCHANGED <<inbox, shown>>
          \/ ReadOnline(p, inbox)
    BY <1>2 DEF StartRead
  <2>2. op' \in Op /\ inbox' \in Seq(Request) /\ shown' \in [Paths -> Nat]
    BY <1>1, <2>1, InOpTyped, ReadOnlineTyped DEF TypeOK
  <2> QED
    BY <1>1, <2>1, <2>2 DEF TypeOK, fields, server
<1>3. CASE StartWrite(p)
  <2>1. shown' = shown /\
          \/ op' = InOp("reconnecting", "write", p) /\ UNCHANGED <<inbox, sent>>
          \/ WriteOnline(p, inbox)
    BY <1>3 DEF StartWrite
  <2>2. op' \in Op /\ inbox' \in Seq(Request) /\ sent' \in Seq(Sent)
    BY <1>1, <2>1, InOpTyped, WriteOnlineTyped DEF TypeOK
  <2> QED
    BY <1>1, <2>1, <2>2 DEF TypeOK, fields, server
<1> QED
  BY <1>2, <1>3

LEMMA ConnectTyped ==
  ASSUME TypeOK, Connected \/ NotConnected
  PROVE  TypeOK'
<1>1. op.path \in Paths /\ op.kind \in {"read", "write"}
  BY OpTyped DEF Connected, NotConnected
<1>2. CASE Connected
  <2>1. /\ conn' = "live" /\ offline' = FALSE /\ wire' = << >>
        /\ needs_revalidation' = Armed
        /\ UNCHANGED <<server, cache>>
        /\ \/ CallRead("read", "read", op.path, << >>) /\ UNCHANGED <<sent, shown>>
           \/ ReadOnline(op.path, << >>) /\ UNCHANGED sent
           \/ WriteOnline(op.path, << >>) /\ UNCHANGED shown
    BY <1>2 DEF Connected
  <2>2. << >> \in Seq(Request) /\ wire' \in Seq(Answer)
          /\ needs_revalidation' \in BOOLEAN
    BY <2>1, EmptySeq DEF Armed, TypeOK
  <2>3. /\ op' \in Op /\ inbox' \in Seq(Request) /\ sent' \in Seq(Sent)
        /\ shown' \in [Paths -> Nat]
    BY <1>1, <2>1, <2>2, CallReadTyped, ReadOnlineTyped, WriteOnlineTyped
    DEF TypeOK, Purposes
  <2> QED
    BY <2>1, <2>2, <2>3 DEF TypeOK, server
<1>3. CASE NotConnected
  <2>1. /\ mark_offline /\ Return
        /\ \/ shown' = shown
           \/ cache[op.path] # NoEntry /\ Show(op.path, cache[op.path].version)
        /\ UNCHANGED <<log, up, cache, needs_revalidation, sent>>
    BY <1>3 DEF NotConnected, ReturnStaleOrError
  <2>2. shown' \in [Paths -> Nat]
    BY <1>1, <2>1, EntryTyped, ShowTyped DEF TypeOK
  <2> QED
    BY <2>1, <2>2, MarkOfflineTyped, ReturnTyped DEF TypeOK
<1> QED
  BY <1>2, <1>3

LEMMA ReceiveTyped ==
  ASSUME TypeOK, SkipLine \/ ReceiveNote \/ ReceiveWritten \/ ReceiveConflict
  PROVE  TypeOK'
<1>1. /\ Calling /\ wire # << >> /\ wire' = Tail(wire)
  BY DEF SkipLine, ReceiveNote, ReceiveWritten, ReceiveConflict, Arrived
<1>2. /\ op.path \in Paths /\ op.kind \in {"read", "write"}
      /\ wire' \in Seq(Answer) /\ Head(wire) \in Answer
  BY <1>1, OpTyped, TailElements DEF Calling, TypeOK
<1>3. Head(wire).version \in Nat /\ Head(wire).content \in Authors
        /\ Len(sent) \in Authors /\ inbox \in Seq(Request)
  BY <1>2, Lengths DEF Answer, TypeOK, Authors
<1>4. CASE SkipLine
  BY <1>2, <1>4 DEF SkipLine, TypeOK, server, fields
<1>5. CASE ReceiveNote
  <2> DEFINE a == Head(wire)
  <2>1. /\ UNCHANGED <<conn, offline, server>>
        /\ Remember(op.path, a.content, a.version)
        /\ \/ /\ Return /\ Show(op.path, a.version)
              /\ UNCHANGED <<inbox, needs_revalidation, sent>>
           \/ /\ needs_revalidation' = FALSE
              /\ CallWrite(op.path, inbox, a.version, TRUE)
              /\ UNCHANGED shown
           \/ /\ Return /\ Show(op.path, a.version) /\ Resolve("conflict")
              /\ UNCHANGED <<inbox, needs_revalidation>>
    BY <1>5 DEF ReceiveNote
  <2>2. cache' \in [Paths -> Entry \cup {NoEntry}]
    BY <1>2, <1>3, <2>1, RememberTyped
  <2>3. /\ op' \in Op /\ inbox' \in Seq(Request) /\ sent' \in Seq(Sent)
        /\ shown' \in [Paths -> Nat] /\ needs_revalidation' \in BOOLEAN
    BY <1>2, <1>3, <2>1, ReturnTyped, ShowTyped, ResolveTyped, CallWriteTyped
    DEF TypeOK
  <2> QED
    BY <1>2, <2>1, <2>2, <2>3 DEF TypeOK, server
<1>6. CASE ReceiveWritten
  <2>1. /\ UNCHANGED <<server, inbox, conn, offline, needs_revalidation>>
        /\ Remember(op.path, Len(sent), Head(wire).version)
        /\ Show(op.path, Head(wire).version) /\ Resolve("written") /\ Return
    BY <1>6 DEF ReceiveWritten, CacheWritten
  <2> QED
    BY <1>2, <1>3, <2>1, RememberTyped, ReturnTyped, ShowTyped, ResolveTyped
    DEF TypeOK, server
<1>7. CASE ReceiveConflict
  <2>1. /\ UNCHANGED <<server, conn, offline, needs_revalidation, sent, shown>>
        /\ cache' = Forget(op.path)
        /\ CallRead("refetch", "write", op.path, inbox)
    BY <1>7 DEF ReceiveConflict
  <2>2. op' \in Op /\ inbox' \in Seq(Request)
    BY <1>2, <1>3, <2>1, CallReadTyped DEF Purposes
  <2>3. cache' \in [Paths -> Entry \cup {NoEntry}]
    BY <2>1 DEF Forget, TypeOK
  <2> QED
    BY <1>2, <2>1, <2>2, <2>3 DEF TypeOK, server
<1> QED
  BY <1>4, <1>5, <1>6, <1>7

LEMMA TypeStep ==
  ASSUME TypeOK, [Next]_vars
  PROVE  TypeOK'
<1>1. ASSUME NEW p \in Paths, HumanEdit(p) PROVE TypeOK'
  <2>1. Append(log[p], Human) \in Seq(Authors)
    BY Lengths, AppendProperties DEF Authors, Human
  <2>2. log' \in [Paths -> Seq(Authors)]
    BY <1>1, <2>1 DEF HumanEdit, TypeOK
  <2> QED
    BY <1>1, <2>2 DEF HumanEdit, TypeOK, pipes, fields
<1>2. ASSUME NEW p \in Paths, Expire(p) PROVE TypeOK'
  <2>1. cache[p] \in Entry
    BY <1>2, EntryTyped DEF Expire, FreshCopy
  <2>2. [cache[p] EXCEPT !.fresh = FALSE] \in Entry
    BY <2>1 DEF Entry
  <2>3. cache' = [cache EXCEPT ![p] = [cache[p] EXCEPT !.fresh = FALSE]]
    BY <1>2 DEF Expire, TypeOK
  <2>4. cache' \in [Paths -> Entry \cup {NoEntry}]
    BY <2>2, <2>3 DEF TypeOK
  <2> QED
    BY <1>2, <2>4 DEF Expire, TypeOK, server, pipes
<1>3. CASE Handle
  <2>1. /\ inbox # << >> /\ log' = Stored(Head(inbox)) /\ inbox' = Tail(inbox)
        /\ \/ wire' = Append(wire, AnswerTo(Head(inbox)))
           \/ wire' = Append(wire, Reply("garbled", Head(inbox), 0, Human))
        /\ UNCHANGED <<up, limbo, fields, op, sent, shown>>
    BY <1>3 DEF Handle
  <2>2. Head(inbox) \in Request /\ inbox' \in Seq(Request)
    BY <2>1, TailElements DEF TypeOK
  <2>3. wire' \in Seq(Answer)
    <3>1. \E a \in Answer : wire' = Append(wire, a)
      BY <2>1, <2>2, AnswerTyped
    <3> QED
      BY <3>1, AppendProperties DEF TypeOK
  <2> QED
    BY <2>1, <2>2, <2>3, StoredTyped DEF TypeOK, fields
<1>4. ASSUME NEW r \in limbo, HandleAbandoned(r) PROVE TypeOK'
  <2>1. r \in Request /\ limbo' \subseteq Request
    BY <1>4 DEF HandleAbandoned, TypeOK
  <2> QED
    BY <1>4, <2>1, StoredTyped DEF HandleAbandoned, TypeOK, pipes, fields
<1>5. CASE Crash
  <2>1. inbox' \in Seq(Request) /\ wire' \in Seq(Answer) /\ limbo' \subseteq Request
    BY <1>5, EmptySeq DEF Crash, TypeOK
  <2> QED
    BY <1>5, <2>1 DEF Crash, TypeOK
<1>6. CASE Restart
  BY <1>6 DEF Restart, TypeOK, pipes, fields
<1>7. ASSUME NEW p \in Paths, StartRead(p) \/ StartWrite(p) PROVE TypeOK'
  BY <1>7, StartTyped
<1>8. CASE Connected \/ NotConnected
  BY <1>8, ConnectTyped
<1>9. CASE SkipLine \/ ReceiveNote \/ ReceiveWritten \/ ReceiveConflict
  BY <1>9, ReceiveTyped
<1>10. CASE ReceiveGarbled \/ ReceiveRefused \/ Eof \/ Timeout
  <2>1. << >> \in Seq(Answer) /\ (wire # << >> => Tail(wire) \in Seq(Answer))
    BY EmptySeq, TailElements DEF TypeOK
  <2>2. Calling /\ \E outcome \in {"muted", "protocol"}, rest \in Seq(Answer) :
                     FailCall(outcome, rest)
    BY <1>10, <2>1 DEF ReceiveGarbled, ReceiveRefused, Arrived, Eof, Timeout,
       CallMayTimeOut
  <2> QED
    BY <2>2, FailCallTyped
<1>11. CASE UNCHANGED vars
  BY <1>11 DEF vars, TypeOK, server, pipes, fields
<1> QED
  BY <1>1, <1>2, <1>3, <1>4, <1>5, <1>6, <1>7, <1>8, <1>9, <1>10, <1>11
  DEF Next, ClientStep

\* Every variable keeps its type (client.rs:97-120).
THEOREM TypeCorrect == Spec => []TypeOK
<1>1. Init => TypeOK
  BY InitInv DEF Inv
<1>2. TypeOK /\ [Next]_vars => TypeOK'
  BY TypeStep
<1> QED
  BY <1>1, <1>2, PTL DEF Spec

----------------------------------------------------------------------------
(* The pipes                                                               *)

AllLate(q) == \A i \in 1 .. Len(q) : q[i].late

LEMMA QuietPipes ==
  ASSUME TypeOK, PipesInv, ~ Calling
  PROVE  AllLate(inbox) /\ AllLate(wire)
  BY DEF AllLate, PipesInv, RequestInv, AnswerInv, Asks, Tells, Calling

\* Once the answer has come, everything else on the pipes is late.
LEMMA AnsweredPipes ==
  ASSUME TypeOK, PipesInv, wire # << >>, ~ Head(wire).late
  PROVE  /\ AllLate(inbox) /\ AllLate(Tail(wire))
         /\ Tells(op, Len(sent), log[op.path], shown[op.path], Head(wire))
<1>1. wire \in Seq(Answer) /\ inbox \in Seq(Request)
  BY DEF TypeOK
<1>2. Head(wire) = wire[1] /\ 1 \in 1 .. Len(wire) /\ ~ wire[1].late
  BY <1>1, TailElements
<1>3. \A i \in 1 .. Len(Tail(wire)) : Tail(wire)[i].late
  <2> SUFFICES ASSUME NEW i \in 1 .. Len(Tail(wire)) PROVE Tail(wire)[i].late
    OBVIOUS
  <2>1. i + 1 \in 1 .. Len(wire) /\ i + 1 # 1 /\ Tail(wire)[i] = wire[i + 1]
    BY <1>1, TailElements
  <2>2. \A j, k \in 1 .. Len(wire) : ~ wire[j].late /\ ~ wire[k].late => j = k
    BY DEF PipesInv, SingleInv
  <2>3. wire[i + 1].late \in BOOLEAN
    BY <2>1, Lengths DEF Answer
  <2> QED
    BY <1>2, <2>1, <2>2, <2>3
<1>4. \A i \in 1 .. Len(inbox) : inbox[i].late
  <2>1. \A i \in 1 .. Len(inbox), j \in 1 .. Len(wire) : inbox[i].late \/ wire[j].late
    BY DEF PipesInv, SingleInv
  <2> QED
    BY <1>2, <2>1
<1>5. Tells(op, Len(sent), log[op.path], shown[op.path], wire[1])
  BY <1>2 DEF PipesInv, AnswerInv
<1> QED
  BY <1>2, <1>3, <1>4, <1>5 DEF AllLate

\* Late lines, and perhaps one request of the operation that goes on.
Asking(q, o, n) ==
  \/ AllLate(q)
  \/ \E s \in Seq(Request), r \in Request :
       q = Append(s, r) /\ AllLate(s) /\ Asks(o, n, r)

LEMMA AskingPipes ==
  ASSUME AllLate(wire'), Asking(inbox', op', Len(sent'))
  PROVE  PipesInv'
<1>1. \A i \in 1 .. Len(wire') : wire'[i].late
  BY DEF AllLate
<1>2. AnswerInv'
  BY <1>1 DEF AnswerInv
<1>3. CASE AllLate(inbox')
  <2>1. \A i \in 1 .. Len(inbox') : inbox'[i].late
    BY <1>3 DEF AllLate
  <2> QED
    BY <1>1, <1>2, <2>1 DEF PipesInv, RequestInv, SingleInv
<1>4. CASE \E s \in Seq(Request), r \in Request :
             inbox' = Append(s, r) /\ AllLate(s) /\ Asks(op', Len(sent'), r)
  <2> PICK s \in Seq(Request), r \in Request :
         inbox' = Append(s, r) /\ AllLate(s) /\ Asks(op', Len(sent'), r)
    BY <1>4
  <2>1. Len(s) \in Nat /\ Len(inbox') = Len(s) + 1 /\ inbox'[Len(s) + 1] = r
          /\ \A i \in 1 .. Len(s) : inbox'[i] = s[i]
    BY LenProperties, AppendProperties
  <2>2. \A i \in 1 .. Len(inbox') : i = Len(s) + 1 \/ inbox'[i].late
    BY <2>1 DEF AllLate
  <2>3. \A i \in 1 .. Len(inbox') : i = Len(s) + 1 => inbox'[i] = r
    BY <2>1
  <2>4. RequestInv'
    BY <2>2, <2>3 DEF RequestInv, Asks
  <2>5. SingleInv'
    BY <1>1, <2>2 DEF SingleInv
  <2> QED
    BY <1>2, <2>4, <2>5 DEF PipesInv
<1> QED
  BY <1>3, <1>4 DEF Asking

LEMMA NothingLate == AllLate(<< >>)
  BY EmptySeq DEF AllLate

LEMMA AsLateIsLate ==
  ASSUME TypeOK
  PROVE  AllLate(AsLate(inbox)) /\ \A s \in Seq(Answer) : AllLate(AsLate(s))
  BY LateRequests, LateAnswers DEF AllLate, TypeOK

LEMMA ReadAsks ==
  ASSUME NEW purpose \in Purposes \ {"write"}, NEW kind \in {"read", "write"},
         NEW p \in Paths, NEW q \in Seq(Request), AllLate(q),
         CallRead(purpose, kind, p, q)
  PROVE  /\ op' = InOp(purpose, kind, p)
         /\ \A n : Asking(inbox', op', n)
<1> DEFINE r == [tool |-> "vault_read", path |-> p, wid |-> 0, expected |-> 0,
                 late |-> FALSE]
<1>1. r \in Request
  BY DEF Request
<1>2. Send(r, q) /\ op' = InOp(purpose, kind, p)
  BY DEF CallRead
<1>3. \A n : Asks(op', n, r)
  BY <1>2 DEF Asks, InOp
<1> HIDE DEF r
<1>4. inbox' = q \/ inbox' = Append(q, r)
  BY <1>2 DEF Send
<1> QED
  BY <1>1, <1>2, <1>3, <1>4 DEF Asking

\* What vault_write records and asks for.
Write(p, expected, revalidated) ==
  [path |-> p, expected |-> expected, seen |-> shown[p],
   revalidated |-> revalidated, outcome |-> "pending"]

LEMMA WriteAsks ==
  ASSUME TypeOK, NEW p \in Paths, NEW q \in Seq(Request), AllLate(q),
         NEW expected \in Nat, NEW revalidated \in BOOLEAN,
         CallWrite(p, q, expected, revalidated)
  PROVE  /\ op' = InOp("write", "write", p)
         /\ sent' = Append(sent, Write(p, expected, revalidated))
         /\ Write(p, expected, revalidated) \in Sent
         /\ Asking(inbox', op', Len(sent'))
<1> DEFINE r == [tool |-> "vault_write", path |-> p, wid |-> Len(sent) + 1,
                 expected |-> expected, late |-> FALSE]
<1>1. r \in Request
  BY Lengths DEF Request
<1>2. Send(r, q) /\ op' = InOp("write", "write", p)
        /\ sent' = Append(sent, Write(p, expected, revalidated))
  BY DEF CallWrite, Write
<1>3. Write(p, expected, revalidated) \in Sent
  BY DEF Write, Sent, TypeOK
<1>4. Len(sent') = Len(sent) + 1
  BY <1>2, <1>3, AppendProperties DEF TypeOK
<1>5. Asks(op', Len(sent'), r)
  BY <1>2, <1>4 DEF Asks, InOp, Purposes
<1> HIDE DEF r
<1>6. inbox' = q \/ inbox' = Append(q, r)
  BY <1>2 DEF Send
<1> QED
  BY <1>1, <1>2, <1>3, <1>5, <1>6 DEF Asking

\* The log only grows.
Grows == \A p \in Paths :
  /\ Len(log'[p]) >= Len(log[p])
  /\ \A i \in 1 .. Len(log[p]) : log'[p][i] = log[p][i]

LEMMA SameGrows == ASSUME TypeOK, log' = log PROVE Grows
  BY Lengths DEF Grows

LEMMA AppendGrows ==
  ASSUME TypeOK, NEW p \in Paths, NEW a \in Authors,
         log' = [log EXCEPT ![p] = Append(@, a)]
  PROVE  Grows /\ Len(log'[p]) = Len(log[p]) + 1
               /\ log'[p][Len(log[p]) + 1] = a
<1>1. \A x \in Paths : log'[x] = IF x = p THEN Append(log[p], a) ELSE log[x]
  BY DEF TypeOK
<1>2. \A x \in Paths : log[x] \in Seq(Authors) /\ Len(log[x]) \in Nat
  BY Lengths
<1>3. /\ Len(Append(log[p], a)) = Len(log[p]) + 1
      /\ \A i \in 1 .. Len(log[p]) : Append(log[p], a)[i] = log[p][i]
      /\ Append(log[p], a)[Len(log[p]) + 1] = a
  BY <1>2, AppendProperties
<1>4. log'[p] = Append(log[p], a)
  BY <1>1
<1>5. \A x \in Paths : x # p => log'[x] = log[x]
  BY <1>1
<1>6. \A x \in Paths : /\ Len(log'[x]) >= Len(log[x])
                       /\ \A i \in 1 .. Len(log[x]) : log'[x][i] = log[x][i]
  <2> TAKE x \in Paths
  <2>1. CASE x = p
    BY <1>2, <1>3, <1>4, <2>1
  <2>2. CASE x # p
    <3>1. log'[x] = log[x]
      BY <1>5, <2>2
    <3> QED
      BY <1>2, <3>1
  <2> QED
    BY <2>1, <2>2
<1> QED
  BY <1>3, <1>4, <1>6 DEF Grows

LEMMA StoredGrows ==
  ASSUME TypeOK, NEW r \in Request, log' = Stored(r)
  PROVE  /\ Grows
         /\ r.tool = "vault_write" /\ Accepts(r) =>
              /\ Len(log'[r.path]) = Len(log[r.path]) + 1
              /\ log'[r.path][Len(log[r.path]) + 1] = r.wid
<1>1. r.path \in Paths /\ r.wid \in Authors
  BY DEF Request, Authors
<1>2. CASE r.tool = "vault_write" /\ Accepts(r)
  BY <1>1, <1>2, AppendGrows DEF Stored
<1>3. CASE ~ (r.tool = "vault_write" /\ Accepts(r))
  BY <1>3, SameGrows DEF Stored
<1> QED
  BY <1>2, <1>3

\* A version of a note stays one.
LEMMA VersionsStay ==
  ASSUME TypeOK, Grows, shown' = shown, NEW p \in Paths, NEW version,
         NEW content, IsVersion(log[p], shown[p], version, content)
  PROVE  IsVersion(log'[p], shown'[p], version, content)
<1>1. Len(log[p]) \in Nat /\ Len(log'[p]) >= Len(log[p])
        /\ version \in 1 .. Len(log[p]) /\ log[p][version] = content
  BY Lengths DEF Grows, IsVersion
<1>2. log'[p][version] = content
  BY <1>1 DEF Grows
<1>3. Len(log'[p]) \in Int => version \in 1 .. Len(log'[p])
  BY <1>1
<1> QED
  BY <1>1, <1>2, <1>3 DEF IsVersion

LEMMA TellsStays ==
  ASSUME TypeOK, Grows, UNCHANGED <<shown, op, sent>>,
         NEW a, Tells(op, Len(sent), log[op.path], shown[op.path], a)
  PROVE  Tells(op', Len(sent'), log'[op'.path], shown'[op'.path], a)
<1>1. op.path \in Paths
  BY OpTyped DEF Tells
<1> QED
  BY <1>1, VersionsStay DEF Tells

LEMMA AnswersStay ==
  ASSUME TypeOK, PipesInv, Grows, UNCHANGED <<shown, op, sent>>
  PROVE  \A i \in 1 .. Len(wire) :
           ~ wire[i].late =>
             Tells(op', Len(sent'), log'[op'.path], shown'[op'.path], wire[i])
  BY TellsStays DEF PipesInv, AnswerInv

LEMMA ShrunkPipes ==
  ASSUME TypeOK, PipesInv, Grows, UNCHANGED <<shown, op, sent>>,
         inbox' = inbox \/ inbox' = << >>, wire' = wire \/ wire' = << >>
  PROVE  PipesInv'
<1>1. AnswerInv'
  BY AnswersStay, EmptySeq DEF AnswerInv
<1>2. RequestInv'
  BY EmptySeq DEF RequestInv, PipesInv
<1>3. SingleInv'
  BY EmptySeq DEF SingleInv, PipesInv
<1> QED
  BY <1>1, <1>2, <1>3 DEF PipesInv

LEMMA SkippedPipes ==
  ASSUME TypeOK, PipesInv, wire # << >>, wire' = Tail(wire),
         UNCHANGED <<log, inbox, shown, op, sent>>
  PROVE  PipesInv'
<1>1. /\ \A i \in 1 .. Len(wire') : /\ i + 1 \in 1 .. Len(wire)
                                    /\ wire'[i] = wire[i + 1]
      /\ Len(wire') \in Nat
  BY TailElements DEF TypeOK
<1>2. AnswerInv'
  BY <1>1, SameGrows, AnswersStay DEF AnswerInv
<1>3. RequestInv'
  BY DEF RequestInv, PipesInv
<1>4. SingleInv'
  <2>1. \A i, j \in 1 .. Len(wire') :
          ~ wire'[i].late /\ ~ wire'[j].late => i + 1 = j + 1
    BY <1>1 DEF PipesInv, SingleInv
  <2>2. \A i, j \in 1 .. Len(wire') : i + 1 = j + 1 => i = j
    BY <1>1
  <2>3. \A i \in 1 .. Len(inbox), j \in 1 .. Len(wire') :
          inbox[i].late \/ wire'[j].late
    BY <1>1 DEF PipesInv, SingleInv
  <2> QED
    BY <2>1, <2>2, <2>3 DEF PipesInv, SingleInv
<1> QED
  BY <1>2, <1>3, <1>4 DEF PipesInv

\* A request is answered: its mark goes with it.
LEMMA AnsweringPipes ==
  ASSUME TypeOK, PipesInv, Grows, UNCHANGED <<shown, op, sent>>,
         inbox # << >>, inbox' = Tail(inbox),
         NEW a \in Answer, wire' = Append(wire, a), a.late = Head(inbox).late,
         ~ a.late =>
           Tells(op', Len(sent'), log'[op'.path], shown'[op'.path], a)
  PROVE  PipesInv'
<1>1. /\ Len(inbox') \in Nat /\ Head(inbox) = inbox[1] /\ 1 \in 1 .. Len(inbox)
      /\ \A i \in 1 .. Len(inbox') : /\ i + 1 \in 1 .. Len(inbox) /\ i + 1 # 1
                                     /\ inbox'[i] = inbox[i + 1]
  BY TailElements DEF TypeOK
<1>2. Len(wire) \in Nat /\ Len(wire') = Len(wire) + 1 /\ wire'[Len(wire) + 1] = a
        /\ \A i \in 1 .. Len(wire) : wire'[i] = wire[i]
  BY AppendProperties, Lengths DEF TypeOK
<1>3. \A i \in 1 .. Len(wire') :
        \/ i = Len(wire) + 1 /\ wire'[i] = a
        \/ i \in 1 .. Len(wire) /\ wire'[i] = wire[i]
  BY <1>2
<1>4. /\ \A i, j \in 1 .. Len(inbox) : ~ inbox[i].late /\ ~ inbox[j].late => i = j
      /\ \A i, j \in 1 .. Len(wire) : ~ wire[i].late /\ ~ wire[j].late => i = j
      /\ \A i \in 1 .. Len(inbox), j \in 1 .. Len(wire) :
           inbox[i].late \/ wire[j].late
  BY DEF PipesInv, SingleInv
<1>5. AnswerInv'
  BY <1>3, AnswersStay DEF AnswerInv
<1>6. RequestInv'
  BY <1>1 DEF RequestInv, PipesInv
<1>7. SingleInv'
  <2>1. \A i, j \in 1 .. Len(inbox') :
          ~ inbox'[i].late /\ ~ inbox'[j].late => i = j
    <3>1. \A i, j \in 1 .. Len(inbox') :
            ~ inbox'[i].late /\ ~ inbox'[j].late => i + 1 = j + 1
      BY <1>1, <1>4
    <3>2. \A i, j \in 1 .. Len(inbox') : i + 1 = j + 1 => i = j
      BY <1>1
    <3> QED
      BY <3>1, <3>2
  <2>2. ~ a.late => (\A i \in 1 .. Len(inbox') : inbox'[i].late)
    <3> SUFFICES ASSUME ~ a.late, NEW i \in 1 .. Len(inbox'), ~ inbox'[i].late
                 PROVE  FALSE
      OBVIOUS
    <3> QED
      BY <1>1, <1>4
  <2>3. ~ a.late => \A j \in 1 .. Len(wire) : wire[j].late
    BY <1>1, <1>4
  <2>4. \A i, j \in 1 .. Len(wire') : ~ wire'[i].late /\ ~ wire'[j].late => i = j
    BY <1>3, <1>4, <2>3
  <2>5. \A i \in 1 .. Len(inbox'), j \in 1 .. Len(wire') :
          inbox'[i].late \/ wire'[j].late
    <3> TAKE i \in 1 .. Len(inbox'), j \in 1 .. Len(wire')
    <3>1. CASE wire'[j] = a
      BY <2>2, <3>1
    <3>2. CASE j \in 1 .. Len(wire) /\ wire'[j] = wire[j]
      BY <1>1, <1>4, <3>2
    <3> QED
      BY <1>3, <3>1, <3>2
  <2> QED
    BY <2>1, <2>4, <2>5 DEF SingleInv
<1> QED
  BY <1>5, <1>6, <1>7 DEF PipesInv

LEMMA HandlePipes ==
  ASSUME TypeOK, TypeOK', PipesInv, CacheInv, Handle
  PROVE  PipesInv'
<1> DEFINE r == Head(inbox)
<1>1. /\ inbox # << >> /\ inbox' = Tail(inbox) /\ log' = Stored(r)
      /\ \/ wire' = Append(wire, AnswerTo(r))
         \/ wire' = Append(wire, Reply("garbled", r, 0, Human))
      /\ UNCHANGED <<shown, op, sent>>
  BY DEF Handle
<1>2. /\ r \in Request /\ r = inbox[1] /\ 1 \in 1 .. Len(inbox)
      /\ r.path \in Paths /\ r.late \in BOOLEAN
  <2>1. r \in Request /\ r = inbox[1] /\ 1 \in 1 .. Len(inbox)
    BY <1>1, TailElements DEF TypeOK
  <2> HIDE DEF r
  <2> QED
    BY <2>1 DEF Request
<1>3. Grows
        /\ (r.tool = "vault_write" /\ Accepts(r) =>
              /\ Len(log'[r.path]) = Len(log[r.path]) + 1
              /\ log'[r.path][Len(log[r.path]) + 1] = r.wid)
  BY <1>1, <1>2, StoredGrows
<1> HIDE DEF r
<1>4. ~ r.late => Asks(op, Len(sent), r)
  BY <1>2 DEF PipesInv, RequestInv
<1>5. PICK a \in Answer :
        /\ wire' = Append(wire, a)
        /\ a = AnswerTo(r) \/ a = Reply("garbled", r, 0, Human)
  BY <1>1, <1>2, AnswerTyped
<1>6. a.late = r.late
  BY <1>2, <1>5, AnswerCases DEF Reply
<1>7. shown[r.path] <= Len(log[r.path]) /\ shown[r.path] \in Nat
        /\ Len(log[r.path]) \in Nat
  BY <1>2, Lengths DEF CacheInv, TypeOK
<1>8. /\ a.kind = "note" =>
           /\ r.tool = "vault_read"
           /\ IsVersion(log[r.path], shown[r.path], a.version, a.content)
      /\ a.kind = "written" =>
           /\ r.tool = "vault_write" /\ Accepts(r)
           /\ a.version = Len(log[r.path]) + 1
  <2> DEFINE n == Len(log[r.path])
  <2>1. \/ /\ r.tool = "vault_read" /\ n \in Nat /\ n > 0 /\ a.kind = "note"
           /\ a.version = n /\ a.content = log[r.path][n]
        \/ a.kind \in {"refused", "conflict", "garbled"}
        \/ /\ r.tool = "vault_write" /\ Accepts(r) /\ a.kind = "written"
           /\ a.version = n + 1
    <3>1. CASE a = Reply("garbled", r, 0, Human)
      BY <3>1 DEF Reply
    <3>2. CASE a = AnswerTo(r)
      BY <1>2, <1>7, <3>2, AnswerCases DEF Reply
    <3> QED
      BY <1>5, <3>1, <3>2
  <2> QED
    BY <1>7, <2>1 DEF IsVersion
<1>9. ASSUME ~ a.late
      PROVE  Tells(op', Len(sent'), log'[op'.path], shown'[op'.path], a)
  <2>1. Asks(op, Len(sent), r)
    BY <1>4, <1>6, <1>9
  <2>2. op.path = r.path /\ op.pc \in Purposes
    BY <2>1 DEF Asks
  <2>3. CASE a.kind = "written"
    <3>1. /\ a.version = Len(log[r.path]) + 1 /\ Len(log'[r.path]) = a.version
          /\ log'[r.path][a.version] = r.wid
          /\ r.tool = "vault_write" /\ r.wid = Len(sent)
      BY <1>3, <1>8, <2>1, <2>3 DEF Asks
    <3>2. IsVersion(log'[r.path], shown'[r.path], a.version, Len(sent))
      BY <1>1, <1>7, <3>1 DEF IsVersion
    <3> QED
      BY <1>1, <2>2, <2>3, <3>2 DEF Tells
  <2>4. CASE a.kind # "written"
    <3>1. Tells(op, Len(sent), log[op.path], shown[op.path], a)
      BY <1>8, <2>1, <2>2, <2>4 DEF Tells, Asks
    <3> QED
      BY <1>1, <1>3, <3>1, TellsStays
  <2> QED
    BY <2>3, <2>4
<1> QED
  BY <1>1, <1>3, <1>5, <1>6, <1>9, AnsweringPipes DEF r

----------------------------------------------------------------------------
(* The cache and the tokens                                                *)

\* No note is shown older than before.
Forward == \A p \in Paths : shown'[p] >= shown[p]

\* No token but of those in the cache before, and no newer than shown.
NoNewTokens == \A p \in Paths :
  cache'[p] # NoEntry /\ cache'[p].version # shown'[p] =>
    /\ cache[p] # NoEntry /\ cache[p].version # shown[p]
    /\ cache'[p].version = cache[p].version

LEMMA ShownCache ==
  ASSUME TypeOK, CacheInv, UNCHANGED <<log, cache>>,
         \/ shown' = shown
         \/ \E p \in Paths : cache[p] # NoEntry /\ Show(p, cache[p].version)
  PROVE  CacheInv' /\ Forward /\ NoNewTokens
<1>1. \A p \in Paths : shown[p] \in Nat /\ (cache[p] # NoEntry => cache[p].version \in Nat)
  BY EntryTyped DEF TypeOK
<1>2. CASE shown' = shown
  BY <1>1, <1>2 DEF CacheInv, Forward, NoNewTokens
<1>3. CASE \E p \in Paths : cache[p] # NoEntry /\ Show(p, cache[p].version)
  <2> PICK p \in Paths : cache[p] # NoEntry /\ Show(p, cache[p].version)
    BY <1>3
  <2>1. /\ shown'[p] = cache[p].version
        /\ \A x \in Paths : x # p => shown'[x] = shown[x]
    BY DEF Show, TypeOK
  <2>2. IsVersion(log[p], shown[p], cache[p].version, cache[p].content)
    BY DEF CacheInv
  <2>3. \A x \in Paths :
          /\ shown'[x] <= Len(log[x]) /\ shown'[x] >= shown[x]
          /\ cache[x] # NoEntry => IsVersion(log[x], shown'[x], cache[x].version,
                                             cache[x].content)
    <3> TAKE x \in Paths
    <3>1. CASE x = p
      BY <1>1, <2>1, <2>2, <3>1, Lengths DEF IsVersion
    <3>2. CASE x # p
      BY <1>1, <2>1, <3>2 DEF CacheInv
    <3> QED
      BY <3>1, <3>2
  <2> QED
    BY <2>1, <2>3 DEF CacheInv, Forward, NoNewTokens
<1> QED
  BY <1>2, <1>3

LEMMA RememberedCache ==
  ASSUME TypeOK, CacheInv, UNCHANGED log, NEW p \in Paths,
         NEW version, NEW content, Remember(p, content, version),
         IsVersion(log[p], shown[p], version, content),
         shown' = shown \/ Show(p, version)
  PROVE  /\ CacheInv' /\ Forward
         /\ cache'[p].version = version
         /\ Show(p, version) => NoNewTokens
         /\ \A x \in Paths : x # p => cache'[x] = cache[x] /\ shown'[x] = shown[x]
<1>1. \A x \in Paths : shown[x] \in Nat /\ Len(log[x]) \in Nat
  BY Lengths DEF TypeOK
<1>2. /\ cache'[p].version = version /\ cache'[p].content = content
      /\ \A x \in Paths : x # p => cache'[x] = cache[x]
  BY DEF Remember, TypeOK
<1>3. /\ shown'[p] = shown[p] \/ shown'[p] = version
      /\ Show(p, version) => shown'[p] = version
      /\ \A x \in Paths : x # p => shown'[x] = shown[x]
  BY DEF Show, TypeOK
<1>4. \A x \in Paths :
        /\ shown'[x] <= Len(log[x]) /\ shown'[x] >= shown[x]
        /\ cache'[x] # NoEntry => IsVersion(log[x], shown'[x], cache'[x].version,
                                            cache'[x].content)
  <2> TAKE x \in Paths
  <2>1. CASE x = p
    BY <1>1, <1>2, <1>3, <2>1 DEF IsVersion, CacheInv
  <2>2. CASE x # p
    BY <1>1, <1>2, <1>3, <2>2 DEF CacheInv
  <2> QED
    BY <2>1, <2>2
<1>5. Show(p, version) => NoNewTokens
  BY <1>2, <1>3 DEF NoNewTokens
<1> QED
  BY <1>2, <1>3, <1>4, <1>5 DEF CacheInv, Forward

LEMMA ForgottenCache ==
  ASSUME TypeOK, CacheInv, UNCHANGED <<log, shown>>, NEW p \in Paths,
         cache' = Forget(p)
  PROVE  /\ CacheInv' /\ Forward /\ NoNewTokens
         /\ cache'[p] = NoEntry
<1>1. \A x \in Paths : cache'[x] = IF x = p THEN NoEntry ELSE cache[x]
  BY DEF Forget, TypeOK
<1>2. \A x \in Paths : shown[x] \in Nat
  BY DEF TypeOK
<1> QED
  BY <1>1, <1>2 DEF CacheInv, Forward, NoNewTokens

\* What was recorded of earlier writes stays.
Kept ==
  /\ Len(sent') >= Len(sent)
  /\ \A v \in 1 .. Len(sent) :
       /\ sent'[v].path = sent[v].path /\ sent'[v].seen = sent[v].seen
       /\ sent'[v].expected = sent[v].expected
       /\ sent'[v].revalidated = sent[v].revalidated
       /\ sent[v].outcome # "pending" => sent'[v].outcome = sent[v].outcome

LEMMA SameKept == ASSUME TypeOK, sent' = sent PROVE Kept
  BY Lengths DEF Kept

LEMMA AppendKept ==
  ASSUME TypeOK, NEW w \in Sent, sent' = Append(sent, w)
  PROVE  /\ Kept /\ Len(sent') = Len(sent) + 1 /\ sent'[Len(sent) + 1] = w
         /\ \A v \in 1 .. Len(sent) : sent'[v] = sent[v]
<1>1. /\ Len(sent') = Len(sent) + 1 /\ sent'[Len(sent) + 1] = w
      /\ \A v \in 1 .. Len(sent) : sent'[v] = sent[v]
  BY AppendProperties DEF TypeOK
<1> QED
  BY <1>1, Lengths DEF Kept

LEMMA ResolveKept ==
  ASSUME TypeOK, OpInv, op.pc \in {"write", "refetch"},
         NEW outcome \in {"written", "conflict", "muted", "protocol"},
         Resolve(outcome)
  PROVE  /\ Kept /\ Len(sent') = Len(sent) /\ Len(sent) \in 1 .. Len(sent)
         /\ sent'[Len(sent)].outcome = outcome
<1>1. Len(sent) \in Nat /\ Len(sent) >= 1 /\ sent[Len(sent)].outcome = "pending"
        /\ Len(sent') = Len(sent)
  BY Lengths, ResolveTyped DEF OpInv
<1>2. Len(sent) \in 1 .. Len(sent) /\ sent[Len(sent)] \in Sent
  BY <1>1, Lengths
<1>3. \A v \in 1 .. Len(sent) :
        v # Len(sent) => sent'[v] = sent[v]
  BY <1>1, Lengths DEF Resolve
<1>4. sent'[Len(sent)] = [sent[Len(sent)] EXCEPT !.outcome = outcome]
  BY <1>2, Lengths DEF Resolve
<1>5. /\ sent'[Len(sent)].path = sent[Len(sent)].path
      /\ sent'[Len(sent)].seen = sent[Len(sent)].seen
      /\ sent'[Len(sent)].expected = sent[Len(sent)].expected
      /\ sent'[Len(sent)].revalidated = sent[Len(sent)].revalidated
      /\ sent'[Len(sent)].outcome = outcome
  BY <1>2, <1>4 DEF Sent
<1> QED
  BY <1>1, <1>2, <1>3, <1>5 DEF Kept

LEMMA FetchedKept ==
  ASSUME Kept, NEW v \in 1 .. Len(sent), NEW p, NEW version,
         Fetched(sent[v], p, version)
  PROVE  Fetched(sent'[v], p, version)
  BY DEF Kept, Fetched

LEMMA OffersKept ==
  ASSUME TypeOK, TypeOK', Kept, OffersVersionSeen,
         NEW n \in Nat, n = Len(sent), NEW m \in Nat, m = Len(sent'),
         \/ m = n
         \/ /\ m = n + 1
            /\ \/ sent'[m].expected = sent'[m].seen
               \/ sent'[m].revalidated
               \/ \E v \in 1 .. n :
                    Fetched(sent[v], sent'[m].path, sent'[m].expected)
  PROVE  OffersVersionSeen'
<1>1. DOMAIN sent = 1 .. n /\ DOMAIN sent' = 1 .. m
  BY LenProperties DEF TypeOK
<1> SUFFICES ASSUME NEW w \in 1 .. m, sent'[w].expected # sent'[w].seen,
                    ~ sent'[w].revalidated
             PROVE  \E v \in 1 .. w - 1 :
                      Fetched(sent'[v], sent'[w].path, sent'[w].expected)
  BY <1>1 DEF OffersVersionSeen
<1>2. CASE w \in 1 .. n
  <2>1. PICK v \in 1 .. w - 1 : Fetched(sent[v], sent[w].path, sent[w].expected)
    BY <1>1, <1>2 DEF OffersVersionSeen, Kept
  <2>2. v \in 1 .. n
    BY <1>2
  <2>3. Fetched(sent'[v], sent[w].path, sent[w].expected)
    BY <2>1, <2>2, FetchedKept
  <2> QED
    BY <1>2, <2>3 DEF Kept
<1>3. CASE w \notin 1 .. n
  <2>1. w = m /\ m = n + 1
    BY <1>3
  <2>2. PICK v \in 1 .. n : Fetched(sent[v], sent'[w].path, sent'[w].expected)
    BY <2>1
  <2>3. Fetched(sent'[v], sent'[w].path, sent'[w].expected)
    BY <2>2, FetchedKept
  <2>4. v \in 1 .. w - 1
    BY <2>1
  <2> QED
    BY <2>3, <2>4
<1> QED
  BY <1>2, <1>3

LEMMA TokensKept ==
  ASSUME TypeOK, TypeOK', OpInv, Kept, TokenInv, NoNewTokens,
         \/ op.pc # "write"
         \/ cache'[op.path] = NoEntry
         \/ cache'[op.path].version = shown'[op.path]
         \/ Len(sent') = Len(sent) /\ op' = op
         \/ /\ Len(sent') = Len(sent)
            /\ sent'[Len(sent)].outcome \in {"muted", "protocol"}
  PROVE  TokenInv'
<1> SUFFICES ASSUME NEW p \in Paths, cache'[p] # NoEntry,
                    cache'[p].version # shown'[p]
             PROVE  \E v \in 1 .. Len(sent') :
                      \/ Fetched(sent'[v], p, cache'[p].version)
                      \/ /\ v = Len(sent') /\ op'.pc = "write" /\ op'.path = p
                         /\ sent'[v].expected = cache'[p].version
                         /\ sent'[v].revalidated
  BY DEF TokenInv
<1>1. /\ Len(sent) \in Nat /\ Len(sent') \in Nat /\ Len(sent') >= Len(sent)
      /\ cache[p] # NoEntry /\ cache[p].version # shown[p]
      /\ cache'[p].version = cache[p].version
  BY Lengths, LenProperties DEF NoNewTokens, Kept, TypeOK
<1>2. PICK v \in 1 .. Len(sent) :
        \/ Fetched(sent[v], p, cache[p].version)
        \/ /\ v = Len(sent) /\ op.pc = "write" /\ op.path = p
           /\ sent[v].expected = cache[p].version /\ sent[v].revalidated
  BY <1>1 DEF TokenInv
<1>3. v \in 1 .. Len(sent')
  BY <1>1
<1>4. CASE Fetched(sent[v], p, cache[p].version)
  BY <1>1, <1>3, <1>4, FetchedKept
<1>5. CASE /\ v = Len(sent) /\ op.pc = "write" /\ op.path = p
           /\ sent[v].expected = cache[p].version /\ sent[v].revalidated
  <2>1. /\ sent'[v].expected = cache'[p].version /\ sent'[v].revalidated
        /\ sent'[v].path = sent[v].path
    BY <1>1, <1>5 DEF Kept
  <2>2. CASE Len(sent') = Len(sent) /\ op' = op
    BY <1>3, <1>5, <2>1, <2>2
  <2>3. CASE Len(sent') = Len(sent)
              /\ sent'[Len(sent)].outcome \in {"muted", "protocol"}
    <3>1. sent'[v].path = p
      BY <1>5, <2>1 DEF OpInv
    <3> QED
      BY <1>3, <1>5, <2>1, <2>3, <3>1 DEF Fetched
  <2> QED
    BY <1>5, <2>2, <2>3
<1> QED
  BY <1>2, <1>4, <1>5

----------------------------------------------------------------------------
(* Every step                                                              *)

\* Steps that send and learn nothing about writes.
LEMMA QuietStep ==
  ASSUME Inv, TypeOK', PipesInv', UNCHANGED <<log, cache, sent>>,
         op.pc # "write", op'.pc \notin {"write", "refetch"},
         \/ shown' = shown
         \/ \E p \in Paths : cache[p] # NoEntry /\ Show(p, cache[p].version)
  PROVE  Inv' /\ Forward
<1>1. CacheInv' /\ Forward /\ NoNewTokens
  BY ShownCache DEF Inv
<1>2. Kept
  BY SameKept DEF Inv
<1>3. TokenInv'
  BY <1>1, <1>2, TokensKept DEF Inv
<1>4. OpInv' /\ OffersVersionSeen'
  BY DEF Inv, OpInv, OffersVersionSeen
<1> QED
  BY <1>1, <1>3, <1>4 DEF Inv

LEMMA WritePipes ==
  ASSUME Inv, NEW p \in Paths, NEW q \in Seq(Request), AllLate(q), AllLate(wire'),
         NEW expected \in Nat, NEW revalidated \in BOOLEAN,
         CallWrite(p, q, expected, revalidated)
  PROVE  /\ OpInv' /\ PipesInv' /\ Kept
         /\ op'.pc = "write" /\ op'.path = p
         /\ Len(sent) \in Nat /\ Len(sent') = Len(sent) + 1
         /\ sent'[Len(sent)  + 1] = Write(p, expected, revalidated)
<1>1. /\ op' = InOp("write", "write", p)
      /\ sent' = Append(sent, Write(p, expected, revalidated))
      /\ Write(p, expected, revalidated) \in Sent
      /\ Asking(inbox', op', Len(sent'))
  BY WriteAsks DEF Inv
<1>2. /\ Kept /\ Len(sent') = Len(sent) + 1
      /\ sent'[Len(sent) + 1] = Write(p, expected, revalidated)
  BY <1>1, AppendKept DEF Inv
<1>3. Len(sent) \in Nat
  BY Lengths DEF Inv
<1>4. op'.pc = "write" /\ op'.path = p
  BY <1>1 DEF InOp
<1>5. OpInv'
  BY <1>2, <1>3, <1>4 DEF OpInv, Write
<1> QED
  BY <1>1, <1>2, <1>3, <1>4, <1>5, AskingPipes

\* A write that offers the token of the cached copy.
LEMMA TrustingStep ==
  ASSUME Inv, TypeOK', UNCHANGED <<log, cache, shown>>, op.pc # "write",
         NEW p \in Paths, NEW q \in Seq(Request), AllLate(q), AllLate(wire'),
         cache[p] # NoEntry, CallWrite(p, q, cache[p].version, FALSE)
  PROVE  Inv' /\ Forward
<1>1. cache[p].version \in Nat
  BY EntryTyped DEF Inv
<1>2. /\ OpInv' /\ PipesInv' /\ Kept
      /\ Len(sent) \in Nat /\ Len(sent') = Len(sent) + 1
      /\ sent'[Len(sent) + 1] = Write(p, cache[p].version, FALSE)
  BY <1>1, WritePipes
<1>3. CacheInv' /\ Forward /\ NoNewTokens
  BY ShownCache DEF Inv
<1>4. TokenInv'
  BY <1>2, <1>3, TokensKept DEF Inv
<1>5. cache[p].version # shown[p] =>
        \E v \in 1 .. Len(sent) : Fetched(sent[v], p, cache[p].version)
  BY DEF Inv, TokenInv
<1>6. OffersVersionSeen'
  <2>1. /\ sent'[Len(sent) + 1].expected = cache[p].version
        /\ sent'[Len(sent) + 1].seen = shown[p]
        /\ sent'[Len(sent) + 1].path = p
    BY <1>2 DEF Write
  <2>2. Len(sent') \in Nat
    BY <1>2
  <2> QED
    BY <1>2, <1>5, <2>1, <2>2, OffersKept DEF Inv
<1> QED
  BY <1>2, <1>3, <1>4, <1>6 DEF Inv

LEMMA ReadOnlineStep ==
  ASSUME Inv, TypeOK', UNCHANGED <<log, cache, sent>>, op.pc # "write",
         NEW p \in Paths, NEW q \in Seq(Request), AllLate(q), AllLate(wire'),
         ReadOnline(p, q)
  PROVE  Inv' /\ Forward
<1>1. CASE /\ FreshCopy(p) /\ Return /\ Show(p, cache[p].version) /\ inbox' = q
  <2>1. op'.pc = "idle" /\ cache[p] # NoEntry
    BY <1>1 DEF Return, Idle, FreshCopy
  <2>2. PipesInv'
    BY <1>1, AskingPipes DEF Asking
  <2> QED
    BY <1>1, <2>1, <2>2, QuietStep
<1>2. CASE UNCHANGED shown /\ op' = InOp("connecting", "read", p) /\ inbox' = q
  <2>1. op'.pc = "connecting"
    BY <1>2 DEF InOp
  <2>2. PipesInv'
    BY <1>2, AskingPipes DEF Asking
  <2> QED
    BY <1>2, <2>1, <2>2, QuietStep
<1>3. CASE UNCHANGED shown /\ CallRead("read", "read", p, q)
  <2>1. op' = InOp("read", "read", p) /\ \A n : Asking(inbox', op', n)
    BY <1>3, ReadAsks DEF Purposes
  <2>2. op'.pc = "read"
    BY <2>1 DEF InOp
  <2>3. PipesInv'
    BY <2>1, AskingPipes
  <2> QED
    BY <1>3, <2>2, <2>3, QuietStep
<1> QED
  BY <1>1, <1>2, <1>3 DEF ReadOnline

LEMMA WriteOnlineStep ==
  ASSUME Inv, TypeOK', UNCHANGED <<log, cache, shown>>, op.pc # "write",
         NEW p \in Paths, NEW q \in Seq(Request), AllLate(q), AllLate(wire'),
         WriteOnline(p, q)
  PROVE  Inv' /\ Forward
<1>1. CASE CallRead("revalidate", "write", p, q) /\ UNCHANGED sent
  <2>1. op' = InOp("revalidate", "write", p) /\ \A n : Asking(inbox', op', n)
    BY <1>1, ReadAsks DEF Purposes
  <2>2. op'.pc = "revalidate"
    BY <2>1 DEF InOp
  <2>3. PipesInv'
    BY <2>1, AskingPipes
  <2> QED
    BY <1>1, <2>2, <2>3, QuietStep
<1>2. CASE Return /\ inbox' = q /\ UNCHANGED sent
  <2>1. op'.pc = "idle"
    BY <1>2 DEF Return, Idle
  <2>2. PipesInv'
    BY <1>2, AskingPipes DEF Asking
  <2> QED
    BY <1>2, <2>1, <2>2, QuietStep
<1>3. CASE cache[p] # NoEntry /\ CallWrite(p, q, cache[p].version, FALSE)
  BY <1>3, TrustingStep
<1> QED
  BY <1>1, <1>2, <1>3 DEF WriteOnline

LEMMA StartStep ==
  ASSUME Inv, TypeOK', NEW p \in Paths, StartRead(p) \/ StartWrite(p)
  PROVE  Inv' /\ Forward
<1>1. /\ op = Idle /\ UNCHANGED <<log, cache, wire>>
  BY DEF StartRead, StartWrite, MayStart, fields, server
<1>2. op.pc = "idle" /\ ~ Calling
  BY <1>1 DEF Idle, Calling, Purposes
<1>3. AllLate(inbox) /\ AllLate(wire') /\ inbox \in Seq(Request)
  BY <1>1, <1>2, QuietPipes DEF Inv, TypeOK
<1>4. CASE /\ UNCHANGED <<inbox, shown, sent>>
           /\ \E kind \in {"read", "write"} : op' = InOp("reconnecting", kind, p)
  <2>1. op'.pc = "reconnecting"
    BY <1>4 DEF InOp
  <2>2. PipesInv'
    BY <1>3, <1>4, AskingPipes DEF Asking
  <2> QED
    BY <1>1, <1>2, <1>4, <2>1, <2>2, QuietStep
<1>5. CASE ReadOnline(p, inbox) /\ UNCHANGED sent
  BY <1>1, <1>2, <1>3, <1>5, ReadOnlineStep
<1>6. CASE WriteOnline(p, inbox) /\ UNCHANGED shown
  BY <1>1, <1>2, <1>3, <1>6, WriteOnlineStep
<1> QED
  BY <1>4, <1>5, <1>6 DEF StartRead, StartWrite

LEMMA ConnectedStep ==
  ASSUME Inv, TypeOK', Connected
  PROVE  Inv' /\ Forward
<1>1. /\ op.path \in Paths /\ op.pc # "write"
      /\ wire' = << >> /\ UNCHANGED <<log, cache>>
  BY OpTyped DEF Inv, Connected, server
<1>2. << >> \in Seq(Request) /\ AllLate(<< >>) /\ AllLate(wire')
  BY <1>1, EmptySeq, NothingLate
<1>3. CASE CallRead("read", "read", op.path, << >>) /\ UNCHANGED <<sent, shown>>
  <2>1. op' = InOp("read", "read", op.path) /\ \A n : Asking(inbox', op', n)
    BY <1>1, <1>2, <1>3, ReadAsks DEF Purposes
  <2>2. op'.pc = "read"
    BY <2>1 DEF InOp
  <2>3. PipesInv'
    BY <1>2, <2>1, AskingPipes
  <2> QED
    BY <1>1, <1>3, <2>2, <2>3, QuietStep
<1>4. CASE ReadOnline(op.path, << >>) /\ UNCHANGED sent
  BY <1>1, <1>2, <1>4, ReadOnlineStep
<1>5. CASE WriteOnline(op.path, << >>) /\ UNCHANGED shown
  BY <1>1, <1>2, <1>5, WriteOnlineStep
<1> QED
  BY <1>3, <1>4, <1>5 DEF Connected

LEMMA OfflinePipes ==
  ASSUME TypeOK, mark_offline
  PROVE  PipesInv'
  BY AskingPipes, NothingLate, MarkOfflineTyped DEF Asking

LEMMA NotConnectedStep ==
  ASSUME Inv, TypeOK', NotConnected
  PROVE  Inv' /\ Forward
<1>1. /\ op.path \in Paths /\ op.pc # "write"
      /\ mark_offline /\ Return /\ UNCHANGED <<log, cache, sent>>
      /\ \/ shown' = shown
         \/ cache[op.path] # NoEntry /\ Show(op.path, cache[op.path].version)
  BY OpTyped DEF Inv, NotConnected, ReturnStaleOrError
<1>2. op'.pc = "idle"
  BY <1>1 DEF Return, Idle
<1>3. PipesInv'
  BY <1>1, OfflinePipes DEF Inv
<1> QED
  BY <1>1, <1>2, <1>3, QuietStep

LEMMA ArrivedPipes ==
  ASSUME Inv, NEW kind, Arrived(kind)
  PROVE  /\ Calling /\ wire # << >> /\ op.path \in Paths
         /\ AllLate(inbox) /\ AllLate(Tail(wire)) /\ inbox \in Seq(Request)
         /\ Head(wire).kind = kind /\ Head(wire).version \in Nat
         /\ Tells(op, Len(sent), log[op.path], shown[op.path], Head(wire))
<1>1. Calling /\ wire # << >> /\ ~ Head(wire).late /\ Head(wire).kind = kind
  BY DEF Arrived, IsMine
<1>2. op.path \in Paths
  BY <1>1, OpTyped DEF Calling, Inv
<1>3. Head(wire) \in Answer
  BY <1>1, TailElements DEF Inv, TypeOK
<1>4. Head(wire).version \in Nat
  BY <1>3 DEF Answer
<1> QED
  BY <1>1, <1>2, <1>4, AnsweredPipes DEF Inv, TypeOK

LEMMA ReceiveNoteStep ==
  ASSUME Inv, TypeOK', ReceiveNote
  PROVE  Inv' /\ Forward
<1> DEFINE a == Head(wire)
           p == op.path
<1>1. /\ Arrived("note") /\ op.pc # "write" /\ wire' = Tail(wire)
      /\ UNCHANGED log
      /\ Remember(p, a.content, a.version)
      /\ \/ /\ op.pc = "read" /\ Return /\ Show(p, a.version)
            /\ UNCHANGED <<inbox, sent>>
         \/ /\ op.pc = "revalidate" /\ CallWrite(p, inbox, a.version, TRUE)
            /\ UNCHANGED shown
         \/ /\ op.pc = "refetch" /\ Return /\ Show(p, a.version)
            /\ Resolve("conflict") /\ UNCHANGED inbox
  BY DEF ReceiveNote, server, Arrived, Calling, Purposes
<1>2. /\ p \in Paths /\ a.version \in Nat /\ a.kind = "note"
      /\ AllLate(inbox) /\ AllLate(wire') /\ inbox \in Seq(Request)
      /\ Tells(op, Len(sent), log[p], shown[p], a)
  BY <1>1, ArrivedPipes
<1> HIDE DEF a, p
<1>3. IsVersion(log[p], shown[p], a.version, a.content)
  BY <1>2 DEF Tells
<1>4. shown' = shown \/ Show(p, a.version)
  BY <1>1
<1>5. /\ CacheInv' /\ Forward /\ cache'[p].version = a.version
      /\ Show(p, a.version) => NoNewTokens
      /\ \A x \in Paths : x # p => cache'[x] = cache[x] /\ shown'[x] = shown[x]
  BY <1>1, <1>2, <1>3, <1>4, RememberedCache DEF Inv
<1>6. CASE op.pc = "revalidate"
  <2>1. CallWrite(p, inbox, a.version, TRUE) /\ UNCHANGED shown
    BY <1>1, <1>6
  <2>2. /\ OpInv' /\ PipesInv' /\ Kept
        /\ op'.pc = "write" /\ op'.path = p
        /\ Len(sent) \in Nat /\ Len(sent') = Len(sent) + 1
        /\ sent'[Len(sent) + 1] = Write(p, a.version, TRUE)
    BY <1>2, <2>1, WritePipes
  <2>3. /\ sent'[Len(sent) + 1].revalidated
        /\ sent'[Len(sent) + 1].expected = a.version
    BY <2>2 DEF Write
  <2>4. OffersVersionSeen'
    <3>1. Len(sent') \in Nat
      BY <2>2
    <3> QED
      BY <2>2, <2>3, <3>1, OffersKept DEF Inv
  <2>5. TokenInv'
    <3> SUFFICES ASSUME NEW x \in Paths, cache'[x] # NoEntry,
                        cache'[x].version # shown'[x]
                 PROVE  \E v \in 1 .. Len(sent') :
                          \/ Fetched(sent'[v], x, cache'[x].version)
                          \/ /\ v = Len(sent') /\ op'.pc = "write" /\ op'.path = x
                             /\ sent'[v].expected = cache'[x].version
                             /\ sent'[v].revalidated
      BY DEF TokenInv
    <3>1. CASE x = p
      <4>1. Len(sent') \in 1 .. Len(sent') /\ Len(sent') = Len(sent) + 1
        BY <2>2
      <4> QED
        BY <1>5, <2>2, <2>3, <3>1, <4>1
    <3>2. CASE x # p
      <4>1. cache[x] # NoEntry /\ cache[x].version # shown[x]
              /\ cache'[x].version = cache[x].version
        BY <1>5, <3>2
      <4>2. PICK v \in 1 .. Len(sent) : Fetched(sent[v], x, cache[x].version)
        BY <1>6, <4>1 DEF Inv, TokenInv
      <4>3. v \in 1 .. Len(sent') /\ Fetched(sent'[v], x, cache[x].version)
        BY <2>2, <4>2, FetchedKept
      <4> QED
        BY <4>1, <4>3
    <3> QED
      BY <3>1, <3>2
  <2> QED
    BY <1>5, <2>2, <2>4, <2>5 DEF Inv
<1>7. CASE op.pc # "revalidate"
  <2>1. /\ Return /\ Show(p, a.version) /\ UNCHANGED inbox
        /\ \/ op.pc = "read" /\ UNCHANGED sent
           \/ op.pc = "refetch" /\ Resolve("conflict")
    BY <1>1, <1>7
  <2>2. NoNewTokens
    BY <1>5, <2>1
  <2>3. Kept /\ Len(sent) \in Nat /\ Len(sent') = Len(sent)
    BY <2>1, SameKept, ResolveKept, Lengths DEF Inv
  <2>4. PipesInv'
    BY <1>2, <2>1, AskingPipes DEF Asking
  <2>5. TokenInv'
    BY <1>1, <2>2, <2>3, TokensKept DEF Inv
  <2>6. OffersVersionSeen'
    BY <2>3, OffersKept DEF Inv
  <2>7. OpInv'
    BY <2>1 DEF Return, Idle, OpInv
  <2> QED
    BY <1>5, <2>4, <2>5, <2>6, <2>7 DEF Inv
<1> QED
  BY <1>6, <1>7

LEMMA ReceiveWrittenStep ==
  ASSUME Inv, TypeOK', ReceiveWritten
  PROVE  Inv' /\ Forward
<1> DEFINE a == Head(wire)
           p == op.path
<1>1. /\ Arrived("written") /\ op.pc = "write" /\ wire' = Tail(wire)
      /\ UNCHANGED <<log, inbox>>
      /\ Remember(p, Len(sent), a.version) /\ Show(p, a.version)
      /\ Resolve("written") /\ Return
  BY DEF ReceiveWritten, CacheWritten, server
<1>2. /\ p \in Paths /\ a.version \in Nat /\ a.kind = "written"
      /\ AllLate(inbox) /\ AllLate(wire')
      /\ Tells(op, Len(sent), log[p], shown[p], a)
  BY <1>1, ArrivedPipes
<1>3. p = op.path
  OBVIOUS
<1> HIDE DEF a, p
<1>4. IsVersion(log[p], shown[p], a.version, Len(sent))
  BY <1>2 DEF Tells
<1>5. CacheInv' /\ Forward /\ NoNewTokens /\ cache'[p].version = a.version
  BY <1>1, <1>2, <1>4, RememberedCache DEF Inv
<1>6. shown'[p] = a.version
  BY <1>1, <1>2 DEF Show, Inv, TypeOK
<1>7. Kept /\ Len(sent) \in Nat /\ Len(sent') = Len(sent)
  BY <1>1, ResolveKept, Lengths DEF Inv
<1>8. PipesInv'
  BY <1>1, <1>2, AskingPipes DEF Asking
<1>9. TokenInv'
  BY <1>3, <1>5, <1>6, <1>7, TokensKept DEF Inv
<1>10. OffersVersionSeen'
  BY <1>7, OffersKept DEF Inv
<1>11. OpInv'
  BY <1>1 DEF Return, Idle, OpInv
<1> QED
  BY <1>5, <1>8, <1>9, <1>10, <1>11 DEF Inv

LEMMA ReceiveConflictStep ==
  ASSUME Inv, TypeOK', ReceiveConflict
  PROVE  Inv' /\ Forward
<1>1. /\ Arrived("conflict") /\ op.pc = "write" /\ wire' = Tail(wire)
      /\ UNCHANGED <<log, sent, shown>>
      /\ cache' = Forget(op.path)
      /\ CallRead("refetch", "write", op.path, inbox)
  BY DEF ReceiveConflict, server
<1>2. /\ op.path \in Paths /\ inbox \in Seq(Request)
      /\ AllLate(inbox) /\ AllLate(wire')
  BY <1>1, ArrivedPipes
<1>3. op' = InOp("refetch", "write", op.path) /\ \A n : Asking(inbox', op', n)
  BY <1>1, <1>2, ReadAsks DEF Purposes
<1>4. CacheInv' /\ Forward /\ NoNewTokens /\ cache'[op.path] = NoEntry
  BY <1>1, <1>2, ForgottenCache DEF Inv
<1>5. Kept
  BY <1>1, SameKept DEF Inv
<1>6. PipesInv'
  BY <1>2, <1>3, AskingPipes
<1>7. TokenInv'
  BY <1>4, <1>5, TokensKept DEF Inv
<1>8. op'.path = op.path
  BY <1>3 DEF InOp
<1>9. OpInv' /\ OffersVersionSeen'
  BY <1>1, <1>8 DEF Inv, OpInv, OffersVersionSeen
<1> QED
  BY <1>4, <1>6, <1>7, <1>9 DEF Inv

LEMMA FailCallStep ==
  ASSUME Inv, TypeOK', Calling, NEW outcome \in {"muted", "protocol"},
         NEW rest \in Seq(Answer), FailCall(outcome, rest)
  PROVE  Inv' /\ Forward
<1>1. op.path \in Paths /\ UNCHANGED <<log, cache>>
  BY OpTyped DEF Calling, Inv, FailCall
<1>2. CASE op.pc = "read"
  <2>1. /\ mark_offline /\ Return /\ UNCHANGED sent
        /\ \/ shown' = shown
           \/ cache[op.path] # NoEntry /\ Show(op.path, cache[op.path].version)
    BY <1>2 DEF FailCall, ReturnStaleOrError
  <2>2. op'.pc = "idle"
    BY <2>1 DEF Return, Idle
  <2>3. PipesInv'
    BY <2>1, OfflinePipes DEF Inv
  <2> QED
    BY <1>1, <1>2, <2>1, <2>2, <2>3, QuietStep
<1>3. CASE op.pc = "revalidate"
  <2>1. /\ Return /\ inbox' = AsLate(inbox) /\ wire' = AsLate(rest)
        /\ UNCHANGED <<sent, shown>>
    BY <1>3 DEF FailCall
  <2>2. op'.pc = "idle"
    BY <2>1 DEF Return, Idle
  <2>3. PipesInv'
    BY <2>1, AsLateIsLate, AskingPipes DEF Inv, Asking
  <2> QED
    BY <1>1, <1>3, <2>1, <2>2, <2>3, QuietStep
<1>4. CASE op.pc \notin {"read", "revalidate"}
  <2>1. op.pc \in {"write", "refetch"}
    BY <1>4 DEF Calling, Purposes
  <2>2. mark_offline /\ Return /\ Resolve(outcome) /\ UNCHANGED shown
    BY <1>4 DEF FailCall
  <2>3. CacheInv' /\ Forward /\ NoNewTokens
    BY <1>1, <2>2, ShownCache DEF Inv
  <2>4. /\ Kept /\ Len(sent') = Len(sent) /\ Len(sent) \in Nat
        /\ sent'[Len(sent)].outcome = outcome
    BY <2>1, <2>2, ResolveKept, Lengths DEF Inv
  <2>5. TokenInv'
    BY <2>3, <2>4, TokensKept DEF Inv
  <2>6. OffersVersionSeen'
    BY <2>4, OffersKept DEF Inv
  <2>7. PipesInv'
    BY <2>2, OfflinePipes DEF Inv
  <2>8. OpInv'
    BY <2>2 DEF Return, Idle, OpInv
  <2> QED
    BY <2>3, <2>5, <2>6, <2>7, <2>8 DEF Inv
<1> QED
  BY <1>2, <1>3, <1>4

\* Steps of the vault, of time and of late lines.
LEMMA WorldStep ==
  ASSUME Inv, TypeOK', PipesInv', Grows, UNCHANGED <<op, sent, shown>>,
         \A p \in Paths :
           /\ cache'[p] = NoEntry <=> cache[p] = NoEntry
           /\ cache[p] # NoEntry => /\ cache'[p].version = cache[p].version
                                    /\ cache'[p].content = cache[p].content
  PROVE  Inv' /\ Forward
<1>1. \A p \in Paths : /\ shown[p] \in Nat /\ Len(log[p]) \in Nat
                       /\ Len(log'[p]) \in Nat /\ Len(log'[p]) >= Len(log[p])
  BY Lengths, LenProperties DEF Inv, TypeOK, Grows
<1>2. CacheInv'
  <2> SUFFICES ASSUME NEW p \in Paths
               PROVE  /\ shown'[p] <= Len(log'[p])
                      /\ cache'[p] # NoEntry =>
                           IsVersion(log'[p], shown'[p], cache'[p].version,
                                     cache'[p].content)
    BY DEF CacheInv
  <2>1. shown'[p] <= Len(log'[p])
    BY <1>1 DEF Inv, CacheInv
  <2>2. ASSUME cache'[p] # NoEntry
        PROVE  IsVersion(log'[p], shown'[p], cache[p].version, cache[p].content)
    BY <2>2, VersionsStay DEF Inv, CacheInv
  <2> QED
    BY <2>1, <2>2
<1>3. Forward
  BY <1>1 DEF Forward
<1>4. NoNewTokens
  BY DEF NoNewTokens
<1>5. Kept /\ Len(sent') = Len(sent)
  BY SameKept DEF Inv
<1>6. TokenInv'
  BY <1>4, <1>5, TokensKept DEF Inv
<1>7. OpInv' /\ OffersVersionSeen'
  BY DEF Inv, OpInv, OffersVersionSeen
<1> QED
  BY <1>2, <1>3, <1>6, <1>7 DEF Inv

LEMMA Step == ASSUME Inv, [Next]_vars PROVE Inv' /\ Forward
<1>0. TypeOK'
  BY TypeStep DEF Inv
<1>1. ASSUME NEW p \in Paths, HumanEdit(p) PROVE Inv' /\ Forward
  <2>1. UNCHANGED <<cache, inbox, wire, op, sent, shown>>
          /\ log' = [log EXCEPT ![p] = Append(@, Human)]
    BY <1>1 DEF HumanEdit, pipes, fields
  <2>2. Human \in Authors
    BY DEF Human, Authors
  <2>3. Grows
    BY <2>1, <2>2, AppendGrows DEF Inv
  <2>4. PipesInv'
    BY <2>1, <2>3, ShrunkPipes DEF Inv
  <2> QED
    BY <1>0, <2>1, <2>3, <2>4, WorldStep
<1>2. ASSUME NEW p \in Paths, Expire(p) PROVE Inv' /\ Forward
  <2>1. /\ UNCHANGED <<log, inbox, wire, op, sent, shown>>
        /\ cache' = [cache EXCEPT ![p].fresh = FALSE] /\ cache[p] # NoEntry
    BY <1>2 DEF Expire, FreshCopy, server, pipes
  <2>2. Grows
    BY <2>1, SameGrows DEF Inv
  <2>3. PipesInv'
    BY <2>1, <2>2, ShrunkPipes DEF Inv
  <2>4. \A x \in Paths : x # p => cache'[x] = cache[x]
    BY <2>1 DEF Inv, TypeOK
  <2>5. cache[p] \in Entry /\ cache'[p] = [cache[p] EXCEPT !.fresh = FALSE]
    BY <2>1, EntryTyped DEF Inv, TypeOK
  <2>6. /\ cache'[p] \in Entry /\ cache'[p].version = cache[p].version
        /\ cache'[p].content = cache[p].content
    BY <2>5 DEF Entry
  <2>7. cache'[p] # NoEntry
    BY <2>6, NoEntryAssumption
  <2> QED
    BY <1>0, <2>1, <2>2, <2>3, <2>4, <2>6, <2>7, WorldStep
<1>3. CASE Handle
  <2>1. UNCHANGED <<cache, op, sent, shown>> /\ log' = Stored(Head(inbox))
          /\ inbox # << >>
    BY <1>3 DEF Handle, fields
  <2>2. Head(inbox) \in Request
    BY <2>1, TailElements DEF Inv, TypeOK
  <2>3. Grows
    BY <2>1, <2>2, StoredGrows DEF Inv
  <2>4. PipesInv'
    BY <1>0, <1>3, HandlePipes DEF Inv
  <2> QED
    BY <1>0, <2>1, <2>3, <2>4, WorldStep
<1>4. ASSUME NEW r \in limbo, HandleAbandoned(r) PROVE Inv' /\ Forward
  <2>1. /\ UNCHANGED <<cache, inbox, wire, op, sent, shown>> /\ log' = Stored(r)
        /\ r \in Request
    BY <1>4 DEF HandleAbandoned, pipes, fields, Inv, TypeOK
  <2>2. Grows
    BY <2>1, StoredGrows DEF Inv
  <2>3. PipesInv'
    BY <2>1, <2>2, ShrunkPipes DEF Inv
  <2> QED
    BY <1>0, <2>1, <2>2, <2>3, WorldStep
<1>5. CASE Crash \/ Restart \/ UNCHANGED vars
  <2>1. /\ UNCHANGED <<log, cache, op, sent, shown>>
        /\ inbox' = inbox \/ inbox' = << >>
        /\ wire' = wire \/ wire' = << >>
    BY <1>5 DEF Crash, Restart, vars, server, pipes, fields
  <2>2. Grows
    BY <2>1, SameGrows DEF Inv
  <2>3. PipesInv'
    BY <2>1, <2>2, ShrunkPipes DEF Inv
  <2> QED
    BY <1>0, <2>1, <2>2, <2>3, WorldStep
<1>6. ASSUME NEW p \in Paths, StartRead(p) \/ StartWrite(p) PROVE Inv' /\ Forward
  BY <1>0, <1>6, StartStep
<1>7. CASE Connected
  BY <1>0, <1>7, ConnectedStep
<1>8. CASE NotConnected
  BY <1>0, <1>8, NotConnectedStep
<1>9. CASE SkipLine
  <2>1. /\ UNCHANGED <<log, cache, inbox, op, sent, shown>>
        /\ wire # << >> /\ wire' = Tail(wire)
    BY <1>9 DEF SkipLine, server, fields
  <2>2. Grows
    BY <2>1, SameGrows DEF Inv
  <2>3. PipesInv'
    BY <2>1, SkippedPipes DEF Inv
  <2> QED
    BY <1>0, <2>1, <2>2, <2>3, WorldStep
<1>10. CASE ReceiveNote
  BY <1>0, <1>10, ReceiveNoteStep
<1>11. CASE ReceiveWritten
  BY <1>0, <1>11, ReceiveWrittenStep
<1>12. CASE ReceiveConflict
  BY <1>0, <1>12, ReceiveConflictStep
<1>13. CASE ReceiveGarbled \/ ReceiveRefused \/ Eof \/ Timeout
  <2>1. << >> \in Seq(Answer) /\ (wire # << >> => Tail(wire) \in Seq(Answer))
    BY EmptySeq, TailElements DEF Inv, TypeOK
  <2>2. Calling /\ \E outcome \in {"muted", "protocol"}, rest \in Seq(Answer) :
                     FailCall(outcome, rest)
    BY <1>13, <2>1 DEF ReceiveGarbled, ReceiveRefused, Arrived, Eof, Timeout,
       CallMayTimeOut
  <2> QED
    BY <1>0, <2>2, FailCallStep
<1> QED
  BY <1>1, <1>2, <1>3, <1>4, <1>5, <1>6, <1>7, <1>8, <1>9, <1>10, <1>11, <1>12,
     <1>13
  DEF Next, ClientStep

\* The invariant holds of every reachable state.
THEOREM InvariantHolds == Spec => []Inv
<1>1. Inv /\ [Next]_vars => Inv'
  BY Step
<1> QED
  BY <1>1, InitInv, PTL DEF Spec

\* A cached copy is a version the vault had, content and token together: late
\* answers, conflicts, abandoned writes and reconnects never mix two of them
\* (client.rs:84-89, 236-243, 303-323).
THEOREM CacheHoldsVersions == Spec => []CacheIsPast
<1>1. Inv => CacheIsPast
  BY Lengths DEF Inv, CacheInv, CacheIsPast, IsVersion
<1> QED
  BY <1>1, InvariantHolds, PTL

\* A write names a version its caller was shown, or one the client re-read for
\* it or for an earlier write that failed (client.rs:255-267).
THEOREM TokensWereRead == Spec => []OffersVersionSeen
<1>1. Inv => OffersVersionSeen
  BY DEF Inv
<1> QED
  BY <1>1, InvariantHolds, PTL

\* No caller is ever shown an older version of a note than before, whether its
\* copy comes from the vault, the cache, or a failure (client.rs:174-208, 236-243).
THEOREM ReadsAreMonotonic == Spec => MonotonicReads
<1>1. Inv /\ [Next]_vars => [\A p \in Paths : shown'[p] >= shown[p]]_vars
  BY Step DEF Forward
<1> QED
  BY <1>1, InvariantHolds, PTL DEF Spec, MonotonicReads

\* A write sent: only MustRevalidate's answer lets it go unrevalidated.
LEMMA SentWrite ==
  ASSUME TypeOK, NEW p \in Paths, NEW q, NEW expected,
         NEW revalidated, CallWrite(p, q, expected, revalidated)
  PROVE  /\ Len(sent') = Len(sent) + 1
         /\ sent'[Len(sent')].revalidated = revalidated
<1> DEFINE w == [path |-> p, expected |-> expected, seen |-> shown[p],
                 revalidated |-> revalidated, outcome |-> "pending"]
<1>1. sent' = Append(sent, w) /\ w.revalidated = revalidated
  BY DEF CallWrite
<1> HIDE DEF w
<1>2. Len(sent') = Len(sent) + 1 /\ sent'[Len(sent) + 1] = w
  BY <1>1
<1> QED
  BY <1>1, <1>2

LEMMA OnlineWrite ==
  ASSUME TypeOK, NEW p \in Paths, NEW q, WriteOnline(p, q)
  PROVE  \/ sent' = sent
         \/ ~ needs_revalidation' /\ ~ sent'[Len(sent')].revalidated
  BY SentWrite DEF WriteOnline, MustRevalidate

LEMMA WritesAreRevalidated ==
  ASSUME Inv, [Next]_vars
  PROVE  \/ Len(sent') = Len(sent)
         \/ sent'[Len(sent')].revalidated
         \/ ~ (offline \/ needs_revalidation)
<1> DEFINE Fine == \/ Len(sent') = Len(sent)
                   \/ sent'[Len(sent')].revalidated
                   \/ ~ (offline \/ needs_revalidation)
<1>1. ASSUME NEW p \in Paths, StartWrite(p) PROVE Fine
  <2>1. /\ UNCHANGED fields
        /\ UNCHANGED sent \/ (~ offline /\ WriteOnline(p, inbox))
    BY <1>1 DEF StartWrite
  <2> QED
    BY <2>1, OnlineWrite DEF fields, Inv
<1>2. CASE Connected
  <2>1. /\ op.path \in Paths /\ needs_revalidation' = Armed
        /\ UNCHANGED sent \/ WriteOnline(op.path, << >>)
    BY <1>2, OpTyped DEF Connected, Inv
  <2> QED
    BY <2>1, OnlineWrite DEF Armed, Inv
<1>3. CASE ReceiveNote
  <2>1. /\ Calling
        /\ \/ UNCHANGED sent
           \/ CallWrite(op.path, inbox, Head(wire).version, TRUE)
           \/ op.pc \notin {"read", "revalidate"} /\ Resolve("conflict")
    BY <1>3 DEF ReceiveNote, Arrived
  <2>2. op.path \in Paths
    BY <2>1, OpTyped DEF Calling, Inv
  <2>3. CASE CallWrite(op.path, inbox, Head(wire).version, TRUE)
    <3>1. sent'[Len(sent')].revalidated = TRUE
      BY <2>2, <2>3, SentWrite DEF Inv
    <3> QED
      BY <3>1
  <2> QED
    BY <2>1, <2>3, ResolveTyped DEF Inv
<1>4. CASE ReceiveWritten
  <2>1. Resolve("written")
    BY <1>4 DEF ReceiveWritten
  <2> QED
    BY <2>1, ResolveTyped DEF Inv
<1>5. CASE ReceiveGarbled \/ ReceiveRefused \/ Eof \/ Timeout
  <2>1. UNCHANGED sent \/ Resolve("muted") \/ Resolve("protocol")
    BY <1>5 DEF ReceiveGarbled, ReceiveRefused, Eof, Timeout, FailCall
  <2> QED
    BY <2>1, ResolveTyped DEF Inv
<1>6. ASSUME \/ \E p \in Paths : HumanEdit(p) \/ Expire(p) \/ StartRead(p)
             \/ \E r \in limbo : HandleAbandoned(r)
             \/ Handle \/ Crash \/ Restart \/ NotConnected \/ SkipLine
             \/ ReceiveConflict \/ UNCHANGED vars
      PROVE  Fine
  BY <1>6 DEF HumanEdit, Expire, StartRead, HandleAbandoned, Handle, Crash,
     Restart, NotConnected, SkipLine, ReceiveConflict, vars
<1> QED
  BY <1>1, <1>2, <1>3, <1>4, <1>5, <1>6 DEF Next, ClientStep

\* The history observes the client and restrains nothing.
LEMMA OutagesObserve == OutageSpec => Spec
<1>1. OutageInit => Init
  BY DEF OutageInit
<1>2. [OutageNext]_outageVars => [Next]_vars
  BY DEF OutageNext, outageVars
<1> QED
  BY <1>1, <1>2, PTL DEF OutageSpec, Spec

\* While the client is offline or the flag is set, it stays so until a write
\* is sent.
LEMMA ObligationStays ==
  ASSUME Inv, [Next]_vars, offline \/ needs_revalidation
  PROVE  offline' \/ needs_revalidation' \/ Len(sent') = Len(sent) + 1
<1>0. Inv /\ offline \in BOOLEAN /\ needs_revalidation \in BOOLEAN
  BY DEF Inv, TypeOK
<1>1. CASE Connected
  BY <1>1 DEF Connected, Armed
<1>2. CASE ReceiveNote
  <2>1. /\ Calling
        /\ offline' = offline
        /\ \/ needs_revalidation' = needs_revalidation
           \/ CallWrite(op.path, inbox, Head(wire).version, TRUE)
    BY <1>2 DEF ReceiveNote, Arrived
  <2>2. op.path \in Paths
    BY <2>1, OpTyped DEF Calling, Inv
  <2>3. CASE CallWrite(op.path, inbox, Head(wire).version, TRUE)
    BY <2>2, <2>3, SentWrite DEF Inv
  <2>4. CASE offline' = offline /\ needs_revalidation' = needs_revalidation
    BY <2>4
  <2> QED
    BY <2>1, <2>3, <2>4
<1>3. CASE NotConnected
  BY <1>3 DEF NotConnected, mark_offline
<1>4. CASE ReceiveGarbled \/ ReceiveRefused \/ Eof \/ Timeout
  <2>1. \E outcome, rest : FailCall(outcome, rest)
    BY <1>4 DEF ReceiveGarbled, ReceiveRefused, Eof, Timeout
  <2> QED
    BY <2>1 DEF FailCall, StillObliged, mark_offline
<1>5. ASSUME \/ \E p \in Paths : \/ HumanEdit(p) \/ Expire(p)
                                 \/ StartRead(p) \/ StartWrite(p)
             \/ \E r \in limbo : HandleAbandoned(r)
             \/ Handle \/ Crash \/ Restart \/ SkipLine
             \/ ReceiveWritten \/ ReceiveConflict \/ UNCHANGED vars
      PROVE  UNCHANGED <<offline, needs_revalidation>>
  BY <1>5 DEF HumanEdit, Expire, StartRead, StartWrite, HandleAbandoned,
     Handle, Crash, Restart, SkipLine, ReceiveWritten, ReceiveConflict, fields,
     vars
<1> QED
  BY <1>1, <1>2, <1>3, <1>4, <1>5 DEF Next, ClientStep

OwedInv == owed => offline \/ needs_revalidation

\* The first write after an outage is revalidated, whatever happens before it:
\* reconnects, reads, lost answers, revalidations that fail (client.rs:145-158,
\* 258-262).
THEOREM OutagesAreRevalidated == OutageSpec => RevalidatesFirst
<1>1. OutageInit => OwedInv
  BY DEF OutageInit, OwedInv
<1>2. Inv /\ OwedInv /\ [OutageNext]_outageVars =>
        /\ OwedInv'
        /\ [owed /\ Len(sent') > Len(sent) =>
              sent'[Len(sent')].revalidated]_outageVars
  <2> SUFFICES ASSUME Inv, OwedInv, [OutageNext]_outageVars
               PROVE  /\ OwedInv'
                      /\ owed /\ Len(sent') > Len(sent) =>
                           sent'[Len(sent')].revalidated
    OBVIOUS
  <2>1. [Next]_vars
    BY DEF OutageNext, outageVars
  <2>2. Len(sent) \in Nat
    BY Lengths DEF Inv
  <2>3. owed /\ Len(sent') > Len(sent) => sent'[Len(sent')].revalidated
    BY <2>1, <2>2, WritesAreRevalidated DEF OwedInv
  <2>4. OwedInv'
    <3>1. CASE OutageNext
      <4>1. owed' => offline' \/ (owed /\ Len(sent') = Len(sent))
        BY <3>1 DEF OutageNext, OutageHistory
      <4> QED
        BY <2>1, <2>2, <4>1, ObligationStays DEF OwedInv
    <3>2. CASE UNCHANGED outageVars
      BY <3>2 DEF outageVars, vars, fields, OwedInv
    <3> QED
      BY <3>1, <3>2
  <2> QED
    BY <2>3, <2>4
<1>3. OutageSpec => []Inv
  BY OutagesObserve, InvariantHolds
<1> QED
  BY <1>1, <1>2, <1>3, PTL DEF OutageSpec, RevalidatesFirst

----------------------------------------------------------------------------
(* VaultClient implements VaultRegister: the invariant                     *)

InLog(l, w) == \E p \in Paths : \E i \in DOMAIN l[p] : l[p][i] = w

\* A vault_write on the live connection is the one in progress, not yet applied.
WriteRequests == \A i \in 1 .. Len(inbox) :
  inbox[i].tool = "vault_write" =>
    /\ ~ inbox[i].late
    /\ inbox[i].expected = sent[Len(sent)].expected
    /\ ~ InLog(log, Len(sent))

\* An abandoned write is one that failed, and not yet applied.
Abandons(s, l, r) ==
  /\ r.tool = "vault_write" /\ r.wid \in 1 .. Len(s)
  /\ s[r.wid].path = r.path /\ s[r.wid].expected = r.expected
  /\ s[r.wid].outcome \in {"muted", "protocol"}
  /\ ~ InLog(l, r.wid)

AbandonedWrites ==
  /\ \A r \in limbo : Abandons(sent, log, r)
  /\ \A r, s \in limbo : r.wid = s.wid => r = s

KnownAuthors ==
  \A p \in Paths : \A i \in 1 .. Len(log[p]) : log[p][i] \in 0 .. Len(sent)

WriteAnswers == \A i \in 1 .. Len(wire) :
  ~ wire[i].late =>
    /\ wire[i].kind = "written" =>
         op.pc = "write" /\ wire[i].version = sent[Len(sent)].expected + 1
    /\ wire[i].kind = "conflict" /\ op.pc = "write" => ~ InLog(log, Len(sent))

Conflicting == op.pc = "refetch" => ~ InLog(log, Len(sent))

WritesInv ==
  /\ WriteRequests /\ AbandonedWrites /\ KnownAuthors /\ WriteAnswers
  /\ Conflicting

LEMMA InitWrites == ASSUME Init PROVE WritesInv
<1>1. /\ inbox = << >> /\ wire = << >> /\ limbo = {} /\ op = Idle
      /\ sent = << >> /\ log \in [Paths -> {<< >>, <<Human>>}]
  BY DEF Init
<1>2. \A p \in Paths : \A i \in 1 .. Len(log[p]) : log[p][i] = 0
  <2> TAKE p \in Paths
  <2>1. log[p] = << >> \/ log[p] = <<0>>
    BY <1>1 DEF Human
  <2> QED
    BY <2>1
<1> QED
  BY <1>1, <1>2, EmptySeq DEF WritesInv, WriteRequests, AbandonedWrites,
     KnownAuthors, WriteAnswers, Conflicting, Idle

----------------------------------------------------------------------------
(* What the operations of the register are                                 *)

RegisterWrite ==
  [path : Paths, expected : Nat,
   verdict : {"open", "written", "conflict", "unknown"}]

LEMMA AsIssuedTyped ==
  \A w \in Sent : AsIssued(w) \in RegisterWrite
<1> TAKE w \in Sent
<1>1. w.path \in Paths /\ w.expected \in Nat
  BY DEF Sent
<1> DEFINE verdict == CASE w.outcome = "pending" -> "open"
                        [] w.outcome = "written" -> "written"
                        [] w.outcome = "conflict" -> "conflict"
                        [] OTHER -> "unknown"
<1>2. verdict \in {"open", "written", "conflict", "unknown"}
  OBVIOUS
<1>3. AsIssued(w) = [path |-> w.path, expected |-> w.expected, verdict |-> verdict]
  BY DEF AsIssued
<1> QED
  BY <1>1, <1>2, <1>3 DEF RegisterWrite

LEMMA IssuedTyped ==
  ASSUME NEW s \in Seq(Sent)
  PROVE  /\ Issued(s) \in Seq(RegisterWrite) /\ Len(Issued(s)) = Len(s)
         /\ DOMAIN Issued(s) = 1 .. Len(s)
         /\ \A v \in 1 .. Len(s) : Issued(s)[v] = AsIssued(s[v])
<1>1. /\ DOMAIN s = 1 .. Len(s) /\ Len(s) \in Nat
      /\ \A v \in 1 .. Len(s) : s[v] \in Sent
  BY LenProperties, ElementOfSeq
<1>2. /\ Issued(s) \in [1 .. Len(s) -> RegisterWrite]
      /\ \A v \in 1 .. Len(s) : Issued(s)[v] = AsIssued(s[v])
  BY <1>1, AsIssuedTyped DEF Issued
<1>3. Issued(s) \in Seq(RegisterWrite) /\ Len(Issued(s)) = Len(s)
  BY <1>1, <1>2
<1> QED
  BY <1>2, <1>3

LEMMA IssuedAppended ==
  ASSUME NEW s \in Seq(Sent), NEW w \in Sent
  PROVE  Issued(Append(s, w)) = Append(Issued(s), AsIssued(w))
<1>1. /\ Append(s, w) \in Seq(Sent) /\ Len(s) \in Nat
      /\ Len(Append(s, w)) = Len(s) + 1 /\ Append(s, w)[Len(s) + 1] = w
      /\ \A v \in 1 .. Len(s) : Append(s, w)[v] = s[v]
  BY AppendProperties, LenProperties
<1> DEFINE a == AsIssued(w)
           before == Issued(s)
           t == Append(s, w)
           after == Issued(t)
<1>2. a \in RegisterWrite
  BY AsIssuedTyped
<1>3. /\ before \in Seq(RegisterWrite) /\ Len(before) = Len(s)
      /\ \A v \in 1 .. Len(s) : before[v] = AsIssued(s[v])
  BY IssuedTyped
<1>4. /\ after \in Seq(RegisterWrite) /\ Len(after) = Len(s) + 1
      /\ \A v \in 1 .. Len(s) + 1 : after[v] = AsIssued(t[v])
  BY <1>1, IssuedTyped
<1> HIDE DEF a, before, after
<1>5. /\ Append(before, a) \in Seq(RegisterWrite)
      /\ Len(Append(before, a)) = Len(s) + 1
      /\ \A v \in 1 .. Len(s) : Append(before, a)[v] = before[v]
      /\ Append(before, a)[Len(s) + 1] = a
  BY <1>2, <1>3, AppendProperties
<1>6. \A v \in 1 .. Len(s) + 1 : after[v] = Append(before, a)[v]
  <2> TAKE v \in 1 .. Len(s) + 1
  <2>1. CASE v \in 1 .. Len(s)
    BY <1>1, <1>3, <1>4, <1>5, <2>1
  <2>2. CASE v = Len(s) + 1
    BY <1>1, <1>4, <1>5, <2>2 DEF a
  <2>3. Len(s) \in Nat
    BY LenProperties
  <2>4. v \in 1 .. Len(s) \/ v = Len(s) + 1
    BY <2>3
  <2> QED
    BY <2>1, <2>2, <2>4
<1>7. after = Append(before, a)
  BY <1>4, <1>5, <1>6, SeqEqual
<1> QED
  BY <1>7 DEF a, before, after

Verdict(outcome) ==
  CASE outcome = "pending" -> "open"
    [] outcome = "written" -> "written"
    [] outcome = "conflict" -> "conflict"
    [] OTHER -> "unknown"

LEMMA VerdictOf ==
  \A w \in Sent :
    /\ AsIssued(w) = [path |-> w.path, expected |-> w.expected,
                      verdict |-> Verdict(w.outcome)]
    /\ AsIssued(w).path = w.path /\ AsIssued(w).expected = w.expected
    /\ AsIssued(w).verdict = Verdict(w.outcome)
    /\ AsIssued(w).verdict = "open" <=> w.outcome = "pending"
    /\ w.outcome \in {"muted", "protocol"} => AsIssued(w).verdict = "unknown"
<1> TAKE w \in Sent
<1>1. /\ AsIssued(w) = [path |-> w.path, expected |-> w.expected,
                        verdict |-> Verdict(w.outcome)]
      /\ w.outcome \in {"pending", "written", "conflict", "muted", "protocol"}
  BY DEF AsIssued, Verdict, Sent
<1> QED
  BY <1>1 DEF Verdict

LEMMA IssuedResolved ==
  ASSUME NEW s \in Seq(Sent), NEW n \in 1 .. Len(s),
         NEW outcome \in {"written", "conflict", "muted", "protocol"}
  PROVE  Issued([s EXCEPT ![n].outcome = outcome]) =
           [Issued(s) EXCEPT ![n].verdict = Verdict(outcome)]
<1> DEFINE w == [s[n] EXCEPT !.outcome = outcome]
           t == [s EXCEPT ![n].outcome = outcome]
           before == Issued(s)
           after == Issued(t)
<1>1. /\ DOMAIN s = 1 .. Len(s) /\ Len(s) \in Nat /\ s[n] \in Sent
      /\ \A v \in 1 .. Len(s) : s[v] \in Sent
  BY LenProperties, ElementOfSeq
<1>2. /\ w \in Sent /\ w.path = s[n].path /\ w.expected = s[n].expected
      /\ w.outcome = outcome
  BY <1>1 DEF Sent
<1>3. t \in Seq(Sent) /\ Len(t) = Len(s)
        /\ \A v \in 1 .. Len(s) : t[v] = IF v = n THEN w ELSE s[v]
  <2>1. t = [s EXCEPT ![n] = w]
    OBVIOUS
  <2> HIDE DEF w, t
  <2> QED
    BY <1>1, <1>2, <2>1, ExceptSeq
<1> HIDE DEF w, t
<1>4. /\ DOMAIN after = 1 .. Len(s) /\ DOMAIN before = 1 .. Len(s)
      /\ \A v \in 1 .. Len(s) : /\ after[v] = AsIssued(t[v])
                                /\ before[v] = AsIssued(s[v])
  BY <1>3, IssuedTyped
<1>5. after[n] = [before[n] EXCEPT !.verdict = Verdict(outcome)]
  <2>1. after[n] = [path |-> s[n].path, expected |-> s[n].expected,
                    verdict |-> Verdict(outcome)]
    BY <1>2, <1>3, <1>4, VerdictOf
  <2>2. before[n] = [path |-> s[n].path, expected |-> s[n].expected,
                     verdict |-> Verdict(s[n].outcome)]
    BY <1>1, <1>4, VerdictOf
  <2> QED
    BY <2>1, <2>2
<1>6. \A v \in 1 .. Len(s) : v # n => after[v] = before[v]
  BY <1>3, <1>4
<1>7. /\ after = [v \in 1 .. Len(s) |-> after[v]]
      /\ before = [v \in 1 .. Len(s) |-> before[v]]
  BY <1>4 DEF Issued
<1> HIDE DEF before, after
<1>8. after = [before EXCEPT ![n].verdict = Verdict(outcome)]
  BY <1>4, <1>5, <1>6, <1>7
<1> QED
  BY <1>8 DEF before, after, t

----------------------------------------------------------------------------
(* Requests in flight                                                      *)

NoWrites(q) == \A i \in 1 .. Len(q) : q[i].tool # "vault_write"

\* Late requests are never writes, and only a write asks for one.
LEMMA LateNoWrites ==
  ASSUME Inv, WriteRequests, AllLate(inbox) \/ op.pc # "write"
  PROVE  NoWrites(inbox)
<1> SUFFICES ASSUME NEW i \in 1 .. Len(inbox), inbox[i].tool = "vault_write"
             PROVE  FALSE
  BY DEF NoWrites
<1>1. ~ inbox[i].late
  BY DEF WriteRequests
<1>2. op.pc = "write"
  BY <1>1 DEF Inv, PipesInv, RequestInv, Asks
<1> QED
  BY <1>1, <1>2 DEF AllLate

LEMMA AsLateNoWrites ==
  ASSUME TypeOK, NoWrites(inbox)
  PROVE  NoWrites(AsLate(inbox)) /\ Abandoned = {}
<1>1. Len(AsLate(inbox)) = Len(inbox) /\ DOMAIN inbox = 1 .. Len(inbox)
  BY LateRequests, LenProperties DEF TypeOK
<1>2. \A i \in 1 .. Len(inbox) : AsLate(inbox)[i].tool = inbox[i].tool
  BY <1>1, Lengths DEF AsLate, Request
<1> QED
  BY <1>1, <1>2 DEF NoWrites, Abandoned

\* What a failing write leaves behind: at most itself.
LEMMA AbandonedWrite ==
  ASSUME Inv, WriteRequests, op.pc = "write"
  PROVE  \A r \in Abandoned :
           /\ r.tool = "vault_write" /\ r.wid = Len(sent) /\ r.path = op.path
           /\ r.expected = sent[Len(sent)].expected
           /\ ~ InLog(log, Len(sent))
           /\ \A s \in Abandoned : s = r
<1>1. DOMAIN inbox = 1 .. Len(inbox) /\ \A i \in 1 .. Len(inbox) : inbox[i] \in Request
  BY LenProperties, Lengths DEF Inv, TypeOK
<1>2. Abandoned \subseteq
        {AsLate(inbox)[i] : i \in {j \in 1 .. Len(inbox) :
                                     inbox[j].tool = "vault_write"}}
  BY <1>1 DEF Abandoned
<1>3. \A i \in 1 .. Len(inbox) :
        /\ AsLate(inbox)[i].tool = inbox[i].tool
        /\ AsLate(inbox)[i].wid = inbox[i].wid
        /\ AsLate(inbox)[i].path = inbox[i].path
        /\ AsLate(inbox)[i].expected = inbox[i].expected
  BY <1>1 DEF AsLate, Request
<1>4. \A i \in 1 .. Len(inbox) : inbox[i].tool = "vault_write" =>
        /\ ~ inbox[i].late /\ inbox[i].wid = Len(sent) /\ inbox[i].path = op.path
        /\ inbox[i].expected = sent[Len(sent)].expected
        /\ ~ InLog(log, Len(sent))
  BY DEF WriteRequests, Inv, PipesInv, RequestInv, Asks
<1>5. \A i, j \in 1 .. Len(inbox) :
        inbox[i].tool = "vault_write" /\ inbox[j].tool = "vault_write" => i = j
  BY <1>4 DEF Inv, PipesInv, SingleInv
<1> QED
  BY <1>2, <1>3, <1>4, <1>5

----------------------------------------------------------------------------
(* The logs                                                                *)

LEMMA InLogAppended ==
  ASSUME TypeOK, NEW p \in Paths, NEW a \in Authors,
         log' = [log EXCEPT ![p] = Append(@, a)],
         NEW w, w # a, ~ InLog(log, w)
  PROVE  ~ InLog(log', w)
<1>1. Len(log'[p]) = Len(log[p]) + 1 /\ log'[p][Len(log[p]) + 1] = a
  BY AppendGrows
<1>2. /\ \A x \in Paths : x # p => log'[x] = log[x]
      /\ log'[p] = Append(log[p], a)
  BY DEF TypeOK
<1>3. /\ Append(log[p], a) \in Seq(Authors) /\ Len(log[p]) \in Nat
      /\ \A i \in 1 .. Len(log[p]) : Append(log[p], a)[i] = log[p][i]
      /\ DOMAIN log[p] = 1 .. Len(log[p])
  BY Lengths, AppendProperties
<1>4. DOMAIN log'[p] = 1 .. Len(log[p]) + 1
  BY <1>1, <1>2, <1>3, LenProperties
<1>5. \A i \in DOMAIN log'[p] : log'[p][i] # w
  <2> TAKE i \in DOMAIN log'[p]
  <2>1. i \in 1 .. Len(log[p]) \/ i = Len(log[p]) + 1
    BY <1>3, <1>4
  <2>2. CASE i \in 1 .. Len(log[p])
    BY <1>2, <1>3, <2>2 DEF InLog
  <2>3. CASE i = Len(log[p]) + 1
    BY <1>1, <2>3
  <2> QED
    BY <2>1, <2>2, <2>3
<1>6. \A x \in Paths : \A i \in DOMAIN log'[x] : log'[x][i] # w
  BY <1>2, <1>5 DEF InLog
<1> QED
  BY <1>6 DEF InLog

LEMMA KnownAppended ==
  ASSUME TypeOK, KnownAuthors, NEW p \in Paths, NEW a \in 0 .. Len(sent),
         log' = [log EXCEPT ![p] = Append(@, a)], sent' = sent
  PROVE  KnownAuthors'
<1>1. /\ \A x \in Paths : x # p => log'[x] = log[x]
      /\ log'[p] = Append(log[p], a)
  BY DEF TypeOK
<1>2. /\ Len(log[p]) \in Nat /\ a \in Authors /\ log[p] \in Seq(Authors)
  BY Lengths DEF Authors
<1>3. /\ Len(Append(log[p], a)) = Len(log[p]) + 1
      /\ Append(log[p], a)[Len(log[p]) + 1] = a
      /\ \A i \in 1 .. Len(log[p]) : Append(log[p], a)[i] = log[p][i]
  BY <1>2, AppendProperties
<1>4. \A i \in 1 .. Len(log'[p]) : log'[p][i] \in 0 .. Len(sent)
  <2> TAKE i \in 1 .. Len(log'[p])
  <2>1. i \in 1 .. Len(log[p]) \/ i = Len(log[p]) + 1
    BY <1>1, <1>2, <1>3
  <2> QED
    BY <1>1, <1>3, <2>1 DEF KnownAuthors
<1> QED
  BY <1>1, <1>4 DEF KnownAuthors

LEMMA NewAuthor ==
  ASSUME TypeOK, KnownAuthors
  PROVE  ~ InLog(log, Len(sent) + 1)
<1>1. Len(sent) \in Nat /\ \A p \in Paths : DOMAIN log[p] = 1 .. Len(log[p])
  BY Lengths
<1> QED
  BY <1>1 DEF KnownAuthors, InLog

----------------------------------------------------------------------------
(* The client's steps                                                      *)

LEMMA LateAnswersInv ==
  ASSUME AllLate(wire')
  PROVE  WriteAnswers'
  BY DEF WriteAnswers, AllLate

\* The operation goes on, no write is sent and none is resolved.
LEMMA UnwrittenStep ==
  ASSUME Inv, WritesInv, UNCHANGED <<log, limbo, sent>>, NoWrites(inbox'),
         AllLate(wire'), op'.pc = "refetch" => ~ InLog(log, Len(sent))
  PROVE  WritesInv' /\ UNCHANGED <<log, Issued(sent)>>
<1>1. WriteRequests' /\ WriteAnswers' /\ Conflicting'
  BY LateAnswersInv DEF WriteRequests, NoWrites, Conflicting
<1>2. AbandonedWrites' /\ KnownAuthors'
  BY DEF WritesInv, AbandonedWrites, KnownAuthors
<1> QED
  BY <1>1, <1>2 DEF WritesInv

LEMMA IssueStep ==
  ASSUME Inv, TypeOK', WritesInv, UNCHANGED <<log, limbo>>, AllLate(wire'),
         NEW p \in Paths, NEW q \in Seq(Request), NoWrites(q),
         NEW expected \in Nat, expected \in 1 .. Len(log[p]),
         NEW revalidated \in BOOLEAN, CallWrite(p, q, expected, revalidated)
  PROVE  WritesInv' /\ Register!Next
<1> DEFINE r == [tool |-> "vault_write", path |-> p, wid |-> Len(sent) + 1,
                 expected |-> expected, late |-> FALSE]
           w == Write(p, expected, revalidated)
<1>1. /\ Send(r, q) /\ op' = InOp("write", "write", p)
      /\ sent' = Append(sent, w)
      /\ r \in Request /\ r.tool = "vault_write" /\ r.wid = Len(sent) + 1
      /\ r.expected = expected /\ ~ r.late
  BY Lengths DEF CallWrite, Write, Request, Inv
<1>2. /\ w \in Sent /\ w.path = p /\ w.expected = expected
      /\ w.outcome = "pending"
  BY DEF Write, Sent, Inv, TypeOK
<1> HIDE DEF r, w
<1>3. /\ Len(sent') = Len(sent) + 1 /\ sent'[Len(sent) + 1] = w
      /\ \A v \in 1 .. Len(sent) : sent'[v] = sent[v]
      /\ Len(sent) \in Nat
  BY <1>1, <1>2, AppendKept, Lengths DEF Inv
<1>4. ~ InLog(log', Len(sent'))
  BY <1>3, NewAuthor DEF WritesInv, Inv
<1>5. sent'[Len(sent')].expected = expected
  BY <1>2, <1>3
<1>6. WriteRequests'
  <2> SUFFICES ASSUME NEW i \in 1 .. Len(inbox'), inbox'[i].tool = "vault_write"
               PROVE  /\ ~ inbox'[i].late
                      /\ inbox'[i].expected = sent'[Len(sent')].expected
                      /\ ~ InLog(log', Len(sent'))
    BY DEF WriteRequests
  <2>1. inbox' = Append(q, r)
    BY <1>1 DEF Send, NoWrites
  <2>2. /\ Len(q) \in Nat /\ Len(inbox') = Len(q) + 1 /\ inbox'[Len(q) + 1] = r
        /\ \A j \in 1 .. Len(q) : inbox'[j] = q[j]
    BY <1>1, <2>1, AppendProperties, LenProperties
  <2>3. i = Len(q) + 1
    BY <2>2 DEF NoWrites
  <2> QED
    BY <1>1, <1>4, <1>5, <2>2, <2>3
<1>7. AbandonedWrites'
  <2>1. \A x \in limbo : Abandons(sent, log, x)
    BY DEF WritesInv, AbandonedWrites
  <2>2. \A x \in limbo : Abandons(sent', log, x)
    BY <1>3, <2>1 DEF Abandons
  <2> QED
    BY <2>2 DEF WritesInv, AbandonedWrites
<1>8. KnownAuthors'
  BY <1>3 DEF WritesInv, KnownAuthors
<1>9. op'.pc = "write"
  BY <1>1 DEF InOp
<1>10. Conflicting' /\ WriteAnswers'
  BY <1>9, LateAnswersInv DEF Conflicting
<1>11. Issued(sent)' = Append(Issued(sent), [path |-> p, expected |-> expected,
                                             verdict |-> "open"])
  <2>1. AsIssued(w) = [path |-> p, expected |-> expected, verdict |-> "open"]
    BY <1>2, VerdictOf DEF Verdict
  <2>2. Issued(Append(sent, w)) = Append(Issued(sent), AsIssued(w))
    BY <1>2, IssuedAppended DEF Inv, TypeOK
  <2> QED
    BY <1>1, <2>1, <2>2
<1>12. Register!Issue(p, expected)
  BY <1>11 DEF Register!Issue
<1> QED
  BY <1>6, <1>7, <1>8, <1>10, <1>12 DEF WritesInv, Register!Next

\* The caller is told what became of its write; what is left of it is abandoned.
LEMMA LearnStep ==
  ASSUME Inv, TypeOK', WritesInv, UNCHANGED log, AllLate(wire'), AllLate(inbox'),
         NoWrites(inbox'), op.pc \in {"write", "refetch"}, op'.pc = "idle",
         NEW outcome \in {"written", "conflict", "muted", "protocol"},
         Resolve(outcome),
         \/ limbo' = limbo
         \/ outcome \in {"muted", "protocol"} /\ limbo' = limbo \cup Abandoned,
         outcome = "written" => Register!TookEffect(Len(sent)),
         outcome = "conflict" => ~ InLog(log, Len(sent))
  PROVE  WritesInv' /\ Register!Next
<1> DEFINE n == Len(sent)
<1>1. /\ n \in Nat /\ n \in 1 .. n /\ sent[n].path = op.path
      /\ sent[n].outcome = "pending" /\ sent[n] \in Sent
  BY Lengths DEF Inv, OpInv
<1>2. /\ Kept /\ Len(sent') = n /\ sent'[n].outcome = outcome
      /\ sent' = [sent EXCEPT ![n].outcome = outcome]
  BY ResolveKept DEF Inv, Resolve
<1>3. WriteRequests' /\ WriteAnswers' /\ Conflicting'
  BY LateAnswersInv DEF WriteRequests, NoWrites, Conflicting
<1>4. KnownAuthors'
  BY <1>2 DEF WritesInv, KnownAuthors
<1>5. AbandonedWrites'
  <2>1. \A x \in limbo : Abandons(sent, log, x)
    BY DEF WritesInv, AbandonedWrites
  <2>2. \A x \in limbo : Abandons(sent', log, x) /\ x.wid # n
    BY <1>1, <1>2, <2>1 DEF Abandons, Kept
  <2>3. \A x, y \in limbo : x.wid = y.wid => x = y
    BY DEF WritesInv, AbandonedWrites
  <2>4. CASE limbo' = limbo
    BY <2>2, <2>3, <2>4 DEF AbandonedWrites
  <2>5. CASE outcome \in {"muted", "protocol"} /\ limbo' = limbo \cup Abandoned
    <3>1. CASE op.pc = "refetch"
      <4>1. Abandoned = {}
        BY <3>1, LateNoWrites, AsLateNoWrites DEF WritesInv, Inv
      <4> QED
        BY <2>4, <2>5, <4>1
    <3>2. CASE op.pc = "write"
      <4>1. \A x \in Abandoned :
              /\ x.tool = "vault_write" /\ x.wid = n /\ x.path = op.path
              /\ x.expected = sent[n].expected /\ ~ InLog(log, n)
              /\ \A y \in Abandoned : y = x
        BY <3>2, AbandonedWrite DEF WritesInv
      <4>2. sent'[n].path = op.path /\ sent'[n].expected = sent[n].expected
        BY <1>1, <1>2 DEF Kept
      <4>3. \A x \in Abandoned : Abandons(sent', log, x)
        BY <1>1, <1>2, <2>5, <4>1, <4>2 DEF Abandons
      <4>4. \A x, y \in limbo' : x.wid = y.wid => x = y
        BY <2>2, <2>3, <2>5, <4>1
      <4> QED
        BY <2>2, <2>5, <4>3, <4>4 DEF AbandonedWrites
    <3> QED
      BY <3>1, <3>2
  <2> QED
    BY <2>4, <2>5
<1>6. Issued(sent)' = [Issued(sent) EXCEPT ![n].verdict = Verdict(outcome)]
  <2>1. sent \in Seq(Sent)
    BY DEF Inv, TypeOK
  <2>2. Issued([sent EXCEPT ![n].outcome = outcome]) =
          [Issued(sent) EXCEPT ![n].verdict = Verdict(outcome)]
    BY <1>1, <2>1, IssuedResolved
  <2> QED
    BY <1>2, <2>2
<1>7. Issued(sent)[n].verdict = "open" /\ n \in DOMAIN Issued(sent)
  BY <1>1, IssuedTyped, VerdictOf DEF Inv, TypeOK
<1>8. Verdict(outcome) \in Register!Verdicts
        /\ (Verdict(outcome) = "written" => outcome = "written")
        /\ (Verdict(outcome) = "conflict" => outcome = "conflict")
  BY DEF Verdict, Register!Verdicts
<1>9. ~ InLog(log, n) => ~ Register!Applied(n)
  BY DEF InLog, Register!Applied
<1> HIDE DEF n
<1>10. Register!Learn(n, Verdict(outcome))
  BY <1>6, <1>7, <1>8, <1>9 DEF Register!Learn, n
<1> QED
  BY <1>3, <1>4, <1>5, <1>7, <1>8, <1>10 DEF WritesInv, Register!Next

----------------------------------------------------------------------------
(* Every step                                                              *)

Refines == WritesInv' /\ [Register!Next]_(Register!vars)

LEMMA QuietRefines ==
  ASSUME WritesInv', UNCHANGED <<log, Issued(sent)>>
  PROVE  Refines
  BY DEF Refines, Register!vars

\* A read is asked for, or the operation only moves on.
LEMMA MovesOn ==
  ASSUME Inv, WritesInv, UNCHANGED <<log, limbo, sent>>, AllLate(wire'),
         NEW q \in Seq(Request), NoWrites(q),
         op'.pc = "refetch" => ~ InLog(log, Len(sent)),
         \/ inbox' = q
         \/ \E purpose, kind : \E p \in Paths : CallRead(purpose, kind, p, q)
  PROVE  Refines
<1>1. inbox' = q \/ \E r \in Request : r.tool = "vault_read" /\ inbox' = Append(q, r)
  <2> SUFFICES ASSUME NEW purpose, NEW kind, NEW p \in Paths,
                      CallRead(purpose, kind, p, q)
               PROVE  \/ inbox' = q
                      \/ \E r \in Request :
                           r.tool = "vault_read" /\ inbox' = Append(q, r)
    OBVIOUS
  <2> DEFINE r == [tool |-> "vault_read", path |-> p, wid |-> 0, expected |-> 0,
                   late |-> FALSE]
  <2>1. r \in Request /\ r.tool = "vault_read" /\ Send(r, q)
    BY DEF Request, CallRead
  <2> HIDE DEF r
  <2> QED
    BY <2>1 DEF Send
<1>2. NoWrites(inbox')
  <2>1. CASE inbox' = q
    BY <2>1
  <2>2. CASE \E r \in Request : r.tool = "vault_read" /\ inbox' = Append(q, r)
    <3> PICK r \in Request : r.tool = "vault_read" /\ inbox' = Append(q, r)
      BY <2>2
    <3>1. /\ Len(q) \in Nat /\ Len(inbox') = Len(q) + 1 /\ inbox'[Len(q) + 1] = r
          /\ \A j \in 1 .. Len(q) : inbox'[j] = q[j]
      BY AppendProperties, LenProperties
    <3> QED
      BY <3>1 DEF NoWrites
  <2> QED
    BY <1>1, <2>1, <2>2
<1> QED
  BY <1>2, UnwrittenStep, QuietRefines

LEMMA ReadOnlineRefines ==
  ASSUME Inv, WritesInv, UNCHANGED <<log, limbo, sent>>, AllLate(wire'),
         NEW p \in Paths, NEW q \in Seq(Request), NoWrites(q), ReadOnline(p, q)
  PROVE  Refines
<1>1. op'.pc # "refetch"
  BY DEF ReadOnline, Return, Idle, InOp, CallRead
<1>2. inbox' = q \/ CallRead("read", "read", p, q)
  BY DEF ReadOnline
<1> QED
  BY <1>1, <1>2, MovesOn

LEMMA WriteOnlineRefines ==
  ASSUME Inv, TypeOK', WritesInv, UNCHANGED <<log, limbo>>, AllLate(wire'),
         NEW p \in Paths, NEW q \in Seq(Request), NoWrites(q), WriteOnline(p, q)
  PROVE  Refines
<1>1. CASE CallRead("revalidate", "write", p, q) /\ UNCHANGED sent
  <2>1. op'.pc # "refetch"
    BY <1>1 DEF CallRead, InOp
  <2> QED
    BY <1>1, <2>1, MovesOn
<1>2. CASE Return /\ inbox' = q /\ UNCHANGED sent
  <2>1. op'.pc # "refetch"
    BY <1>2 DEF Return, Idle
  <2> QED
    BY <1>2, <2>1, MovesOn
<1>3. CASE cache[p] # NoEntry /\ CallWrite(p, q, cache[p].version, FALSE)
  <2>1. cache[p].version \in Nat /\ cache[p].version \in 1 .. Len(log[p])
    BY <1>3, EntryTyped DEF Inv, CacheInv, IsVersion
  <2> QED
    BY <1>3, <2>1, IssueStep DEF Refines
<1> QED
  BY <1>1, <1>2, <1>3 DEF WriteOnline

LEMMA StartRefines ==
  ASSUME Inv, TypeOK', WritesInv, NEW p \in Paths, StartRead(p) \/ StartWrite(p)
  PROVE  Refines
<1>1. op = Idle /\ UNCHANGED <<log, limbo, wire>>
  BY DEF StartRead, StartWrite, MayStart, server
<1>2. ~ Calling
  BY <1>1 DEF Idle, Calling, Purposes
<1>3. /\ AllLate(inbox) /\ AllLate(wire') /\ inbox \in Seq(Request)
  BY <1>1, <1>2, QuietPipes DEF Inv, TypeOK
<1>4. NoWrites(inbox)
  BY <1>3, LateNoWrites DEF WritesInv
<1>5. CASE /\ UNCHANGED <<inbox, sent>>
           /\ \E kind \in {"read", "write"} : op' = InOp("reconnecting", kind, p)
  <2>1. op'.pc # "refetch"
    BY <1>5 DEF InOp
  <2> QED
    BY <1>1, <1>3, <1>4, <1>5, <2>1, MovesOn
<1>6. CASE ReadOnline(p, inbox) /\ UNCHANGED sent
  BY <1>1, <1>3, <1>4, <1>6, ReadOnlineRefines
<1>7. CASE WriteOnline(p, inbox)
  BY <1>1, <1>3, <1>4, <1>7, WriteOnlineRefines
<1> QED
  BY <1>5, <1>6, <1>7 DEF StartRead, StartWrite

LEMMA ConnectRefines ==
  ASSUME Inv, TypeOK', WritesInv, Connected \/ NotConnected
  PROVE  Refines
<1>1. op.path \in Paths /\ ~ Calling /\ wire' = << >> /\ UNCHANGED log
  BY OpTyped DEF Inv, Connected, NotConnected, Calling, Purposes, server,
     mark_offline
<1>2. /\ << >> \in Seq(Request) /\ NoWrites(<< >>) /\ AllLate(wire')
  BY <1>1, EmptySeq, NothingLate DEF NoWrites
<1>3. CASE Connected
  <2>1. UNCHANGED limbo
    BY <1>3 DEF Connected, server
  <2>2. CASE CallRead("read", "read", op.path, << >>) /\ UNCHANGED <<sent, shown>>
    <3>1. op'.pc # "refetch"
      BY <2>2 DEF CallRead, InOp
    <3> QED
      BY <1>1, <1>2, <2>1, <2>2, <3>1, MovesOn
  <2>3. CASE ReadOnline(op.path, << >>) /\ UNCHANGED sent
    BY <1>1, <1>2, <2>1, <2>3, ReadOnlineRefines
  <2>4. CASE WriteOnline(op.path, << >>)
    BY <1>1, <1>2, <2>1, <2>4, WriteOnlineRefines
  <2> QED
    BY <1>3, <2>2, <2>3, <2>4 DEF Connected
<1>4. CASE NotConnected
  <2>1. AllLate(inbox)
    BY <1>1, QuietPipes DEF Inv
  <2>2. Abandoned = {}
    BY <2>1, LateNoWrites, AsLateNoWrites DEF WritesInv, Inv
  <2>3. /\ UNCHANGED <<limbo, sent>> /\ inbox' = << >>
        /\ op'.pc = "idle"
    BY <1>4, <2>2 DEF NotConnected, mark_offline, ReturnStaleOrError, Return, Idle
  <2> QED
    BY <1>1, <1>2, <2>3, MovesOn
<1> QED
  BY <1>3, <1>4

LEMMA ReceiveNoteRefines ==
  ASSUME Inv, TypeOK', WritesInv, ReceiveNote
  PROVE  Refines
<1> DEFINE a == Head(wire)
<1>1. /\ Arrived("note") /\ op.pc # "write" /\ wire' = Tail(wire)
      /\ UNCHANGED <<log, limbo>>
      /\ \/ op.pc = "read" /\ Return /\ UNCHANGED <<inbox, sent>>
         \/ CallWrite(op.path, inbox, a.version, TRUE)
         \/ op.pc = "refetch" /\ Return /\ Resolve("conflict") /\ UNCHANGED inbox
  BY DEF ReceiveNote, server, Arrived, Calling, Purposes
<1>2. /\ op.path \in Paths /\ a.version \in Nat /\ a.kind = "note"
      /\ AllLate(inbox) /\ AllLate(wire') /\ inbox \in Seq(Request)
      /\ Tells(op, Len(sent), log[op.path], shown[op.path], a)
  BY <1>1, ArrivedPipes
<1>3. NoWrites(inbox)
  BY <1>2, LateNoWrites DEF WritesInv
<1> HIDE DEF a
<1>4. a.version \in 1 .. Len(log[op.path])
  BY <1>2 DEF Tells, IsVersion
<1>5. CASE op.pc = "read" /\ Return /\ UNCHANGED <<inbox, sent>>
  <2>1. op'.pc # "refetch"
    BY <1>5 DEF Return, Idle
  <2> QED
    BY <1>1, <1>2, <1>3, <1>5, <2>1, MovesOn
<1>6. CASE CallWrite(op.path, inbox, a.version, TRUE)
  BY <1>1, <1>2, <1>3, <1>4, <1>6, IssueStep DEF Refines
<1>7. CASE op.pc = "refetch" /\ Return /\ Resolve("conflict") /\ UNCHANGED inbox
  <2>1. op'.pc = "idle" /\ ~ InLog(log, Len(sent))
    BY <1>7 DEF Return, Idle, WritesInv, Conflicting
  <2> QED
    BY <1>1, <1>2, <1>3, <1>7, <2>1, LearnStep DEF Refines
<1> QED
  BY <1>1, <1>5, <1>6, <1>7

LEMMA ReceiveWrittenRefines ==
  ASSUME Inv, TypeOK', WritesInv, ReceiveWritten
  PROVE  Refines
<1> DEFINE a == Head(wire)
           n == Len(sent)
<1>1. /\ Arrived("written") /\ op.pc = "write" /\ wire' = Tail(wire)
      /\ UNCHANGED <<log, limbo, inbox>> /\ Resolve("written") /\ Return
  BY DEF ReceiveWritten, server
<1>2. /\ op.path \in Paths /\ a.version \in Nat /\ a.kind = "written"
      /\ AllLate(inbox) /\ AllLate(wire') /\ wire # << >>
      /\ Tells(op, n, log[op.path], shown[op.path], a)
  BY <1>1, ArrivedPipes
<1>3. NoWrites(inbox)
  BY <1>2, LateNoWrites DEF WritesInv
<1>4. a.version = sent[n].expected + 1
  <2>1. a = wire[1] /\ 1 \in 1 .. Len(wire) /\ ~ a.late
    BY <1>1, <1>2, TailElements DEF Inv, TypeOK, Arrived, IsMine
  <2> HIDE DEF a
  <2> QED
    BY <1>2, <2>1 DEF WritesInv, WriteAnswers
<1> HIDE DEF a
<1>5. a.version \in 1 .. Len(log[op.path]) /\ log[op.path][a.version] = n
  BY <1>2 DEF Tells, IsVersion
<1>6. sent[n].path = op.path /\ n \in 1 .. n /\ n \in Nat
  BY <1>1, Lengths DEF Inv, OpInv
<1>7. Register!TookEffect(n)
  <2>1. /\ Issued(sent)[n].path = op.path
        /\ Issued(sent)[n].expected = sent[n].expected
    BY <1>6, IssuedTyped, VerdictOf, Lengths DEF Inv, TypeOK
  <2>2. DOMAIN log[op.path] = 1 .. Len(log[op.path])
    BY <1>2, Lengths DEF Inv
  <2> QED
    BY <1>4, <1>5, <2>1, <2>2 DEF Register!TookEffect
<1>8. op'.pc = "idle"
  BY <1>1 DEF Return, Idle
<1> QED
  BY <1>1, <1>2, <1>3, <1>7, <1>8, LearnStep DEF Refines

LEMMA ReceiveConflictRefines ==
  ASSUME Inv, WritesInv, ReceiveConflict
  PROVE  Refines
<1>1. /\ Arrived("conflict") /\ op.pc = "write" /\ wire' = Tail(wire)
      /\ UNCHANGED <<log, limbo, sent>>
      /\ CallRead("refetch", "write", op.path, inbox)
  BY DEF ReceiveConflict, server
<1>2. /\ op.path \in Paths /\ inbox \in Seq(Request) /\ wire # << >>
      /\ AllLate(inbox) /\ AllLate(wire')
  BY <1>1, ArrivedPipes
<1>3. ~ InLog(log, Len(sent))
  <2> DEFINE a == Head(wire)
  <2>1. a = wire[1] /\ 1 \in 1 .. Len(wire) /\ ~ a.late /\ a.kind = "conflict"
    BY <1>1, <1>2, TailElements DEF Inv, TypeOK, Arrived, IsMine
  <2> HIDE DEF a
  <2> QED
    BY <1>1, <2>1 DEF WritesInv, WriteAnswers
<1>4. NoWrites(inbox)
  BY <1>2, LateNoWrites DEF WritesInv
<1> QED
  BY <1>1, <1>2, <1>3, <1>4, MovesOn

LEMMA FailCallRefines ==
  ASSUME Inv, TypeOK', WritesInv, Calling, NEW outcome \in {"muted", "protocol"},
         NEW rest \in Seq(Answer), FailCall(outcome, rest)
  PROVE  Refines
<1>1. UNCHANGED log
  BY DEF FailCall
<1>2. << >> \in Seq(Request) /\ NoWrites(<< >>) /\ AllLate(<< >>)
  BY EmptySeq, NothingLate DEF NoWrites
<1>3. CASE op.pc = "read"
  <2>1. mark_offline /\ Return /\ UNCHANGED sent
    BY <1>3 DEF FailCall, ReturnStaleOrError
  <2>2. Abandoned = {}
    BY <1>3, LateNoWrites, AsLateNoWrites DEF WritesInv, Inv
  <2>3. /\ UNCHANGED limbo /\ inbox' = << >> /\ wire' = << >>
        /\ op'.pc # "refetch"
    BY <2>1, <2>2 DEF mark_offline, Return, Idle
  <2> QED
    BY <1>1, <1>2, <2>1, <2>3, MovesOn
<1>4. CASE op.pc = "revalidate"
  <2>1. /\ Return /\ inbox' = AsLate(inbox) /\ wire' = AsLate(rest)
        /\ UNCHANGED <<limbo, sent>>
    BY <1>4 DEF FailCall
  <2>2. NoWrites(AsLate(inbox)) /\ AsLate(inbox) \in Seq(Request)
    BY <1>4, LateNoWrites, AsLateNoWrites, LateRequests DEF WritesInv, Inv, TypeOK
  <2>3. AllLate(wire') /\ op'.pc # "refetch"
    BY <2>1, AsLateIsLate DEF Return, Idle, Inv
  <2> QED
    BY <1>1, <2>1, <2>2, <2>3, MovesOn
<1>5. CASE op.pc \notin {"read", "revalidate"}
  <2>1. op.pc \in {"write", "refetch"}
    BY <1>5 DEF Calling, Purposes
  <2>2. /\ inbox' = << >> /\ wire' = << >> /\ limbo' = limbo \cup Abandoned
        /\ op'.pc = "idle" /\ Resolve(outcome)
    BY <1>5 DEF FailCall, mark_offline, Return, Idle
  <2> QED
    BY <1>1, <1>2, <2>1, <2>2, LearnStep DEF Refines
<1> QED
  BY <1>3, <1>4, <1>5

----------------------------------------------------------------------------
(* Steps of the vault                                                      *)

\* Some note gets a version by this author, one that no write in progress or
\* abandoned bears any more.
LEMMA GrownWrites ==
  ASSUME Inv, WritesInv, UNCHANGED <<sent, op>>,
         NEW p \in Paths, NEW a \in 0 .. Len(sent),
         log' = [log EXCEPT ![p] = Append(@, a)]
  PROVE  /\ \A w : w # a /\ ~ InLog(log, w) => ~ InLog(log', w)
         /\ KnownAuthors'
<1>1. a \in Authors
  BY Lengths DEF Inv, Authors
<1> QED
  BY <1>1, InLogAppended, KnownAppended DEF Inv, WritesInv

\* Fewer or other lines, the same log.
LEMMA PipesRefine ==
  ASSUME Inv, WritesInv, UNCHANGED <<log, sent, op>>, limbo' = limbo \/ limbo' = {},
         inbox' = inbox \/ inbox' = << >>, wire' = wire \/ wire' = << >>
  PROVE  Refines
<1>1. WriteRequests' /\ WriteAnswers' /\ Conflicting'
  BY EmptySeq DEF WritesInv, WriteRequests, WriteAnswers, Conflicting
<1>2. AbandonedWrites' /\ KnownAuthors'
  BY DEF WritesInv, AbandonedWrites, KnownAuthors
<1> QED
  BY <1>1, <1>2, QuietRefines DEF WritesInv

LEMMA SkipRefines ==
  ASSUME Inv, WritesInv, SkipLine
  PROVE  Refines
<1>1. UNCHANGED <<log, limbo, sent, op, inbox>> /\ wire # << >> /\ wire' = Tail(wire)
  BY DEF SkipLine, server, fields
<1>2. \A i \in 1 .. Len(wire') : i + 1 \in 1 .. Len(wire) /\ wire'[i] = wire[i + 1]
  BY <1>1, TailElements DEF Inv, TypeOK
<1>3. WriteAnswers'
  BY <1>1, <1>2 DEF WritesInv, WriteAnswers
<1>4. WriteRequests' /\ Conflicting' /\ AbandonedWrites' /\ KnownAuthors'
  BY <1>1 DEF WritesInv, WriteRequests, Conflicting, AbandonedWrites, KnownAuthors
<1> QED
  BY <1>1, <1>3, <1>4, QuietRefines DEF WritesInv

LEMMA HumanEditRefines ==
  ASSUME Inv, WritesInv, NEW p \in Paths, HumanEdit(p)
  PROVE  Refines
<1>1. /\ log' = [log EXCEPT ![p] = Append(@, Human)]
      /\ UNCHANGED <<limbo, inbox, wire, op, sent>>
  BY DEF HumanEdit, pipes
<1>2. Human \in 0 .. Len(sent) /\ Human = 0 /\ Len(sent) \in Nat
  BY Lengths DEF Human, Inv
<1>3. /\ \A w : w # 0 /\ ~ InLog(log, w) => ~ InLog(log', w)
      /\ KnownAuthors'
  BY <1>1, <1>2, GrownWrites
<1>4. op.pc \in {"write", "refetch"} => Len(sent) # 0
  BY <1>2 DEF Inv, OpInv
<1>5. WriteRequests'
  <2>1. \A i \in 1 .. Len(inbox) : inbox[i].tool = "vault_write" => op.pc = "write"
    BY DEF WritesInv, WriteRequests, Inv, PipesInv, RequestInv, Asks
  <2> QED
    BY <1>1, <1>3, <1>4, <2>1 DEF WritesInv, WriteRequests
<1>6. WriteAnswers' /\ Conflicting'
  BY <1>1, <1>3, <1>4 DEF WritesInv, WriteAnswers, Conflicting
<1>7. AbandonedWrites'
  <2>1. \A r \in limbo : Abandons(sent, log, r)
    BY DEF WritesInv, AbandonedWrites
  <2>2. \A r \in limbo : r.wid # 0 /\ ~ InLog(log', r.wid)
    BY <1>2, <1>3, <2>1 DEF Abandons
  <2>3. \A r \in limbo : Abandons(sent', log', r)
    BY <1>1, <2>1, <2>2 DEF Abandons
  <2> QED
    BY <1>1, <2>3 DEF WritesInv, AbandonedWrites
<1>8. Register!HumanEdit(p)
  BY <1>1 DEF Register!HumanEdit
<1> QED
  BY <1>3, <1>5, <1>6, <1>7, <1>8 DEF Refines, WritesInv, Register!Next

\* A write of the log's register that is applied.
LEMMA ApplyRefines ==
  ASSUME Inv, NEW r \in Request, r.wid \in 1 .. Len(sent),
         sent[r.wid].path = r.path, sent[r.wid].expected = r.expected,
         sent[r.wid].outcome \in {"pending", "muted", "protocol"},
         ~ InLog(log, r.wid), Accepts(r), UNCHANGED sent,
         log' = [log EXCEPT ![r.path] = Append(@, r.wid)]
  PROVE  Register!Next
<1> DEFINE w == r.wid
<1>1. sent[w] \in Sent
  BY Lengths DEF Inv
<1>2. /\ w \in DOMAIN Issued(sent) /\ Issued(sent)[w] = AsIssued(sent[w])
  BY IssuedTyped DEF Inv, TypeOK
<1>3. /\ Issued(sent)[w].path = r.path /\ Issued(sent)[w].expected = r.expected
      /\ Issued(sent)[w].verdict \in {"open", "unknown"}
  BY <1>1, <1>2, VerdictOf
<1>4. ~ Register!Applied(w)
  BY DEF InLog, Register!Applied
<1>5. Register!Apply(w)
  BY <1>3, <1>4 DEF Register!Apply, Accepts
<1> QED
  BY <1>2, <1>5 DEF Register!Next

LEMMA HandleAbandonedRefines ==
  ASSUME Inv, WritesInv, NEW r \in limbo, HandleAbandoned(r)
  PROVE  Refines
<1>1. /\ log' = Stored(r) /\ limbo' = limbo \ {r}
      /\ UNCHANGED <<inbox, wire, op, sent>>
  BY DEF HandleAbandoned, pipes
<1>2. r \in Request /\ Abandons(sent, log, r)
  BY DEF Inv, TypeOK, WritesInv, AbandonedWrites
<1>3. /\ r.path \in Paths /\ r.wid \in 1 .. Len(sent)
      /\ Len(sent) \in Nat /\ r.wid \in 0 .. Len(sent)
  BY <1>2, Lengths DEF Request, Abandons, Inv
<1>4. CASE ~ Accepts(r)
  <2>1. UNCHANGED log
    BY <1>1, <1>4 DEF Stored
  <2>2. AbandonedWrites'
    BY <1>1, <2>1 DEF WritesInv, AbandonedWrites, Abandons
  <2>3. WriteRequests' /\ KnownAuthors' /\ WriteAnswers' /\ Conflicting'
    BY <1>1, <2>1 DEF WritesInv, WriteRequests, KnownAuthors, WriteAnswers, Conflicting
  <2> QED
    BY <1>1, <2>1, <2>2, <2>3, QuietRefines DEF WritesInv
<1>5. CASE Accepts(r)
  <2>1. log' = [log EXCEPT ![r.path] = Append(@, r.wid)]
    BY <1>1, <1>2, <1>5 DEF Stored, Abandons
  <2>2. /\ \A w : w # r.wid /\ ~ InLog(log, w) => ~ InLog(log', w)
        /\ KnownAuthors'
    BY <1>1, <1>3, <2>1, GrownWrites
  <2>3. op.pc \in {"write", "refetch"} => Len(sent) # r.wid
    BY <1>2 DEF Inv, OpInv, Abandons
  <2>4. WriteRequests'
    <3>1. \A i \in 1 .. Len(inbox) : inbox[i].tool = "vault_write" => op.pc = "write"
      BY DEF WritesInv, WriteRequests, Inv, PipesInv, RequestInv, Asks
    <3> QED
      BY <1>1, <2>2, <2>3, <3>1 DEF WritesInv, WriteRequests
  <2>5. WriteAnswers' /\ Conflicting'
    BY <1>1, <2>2, <2>3 DEF WritesInv, WriteAnswers, Conflicting
  <2>6. AbandonedWrites'
    <3>1. \A s \in limbo' : s \in limbo /\ s.wid # r.wid
      BY <1>1 DEF WritesInv, AbandonedWrites
    <3> QED
      BY <1>1, <2>2, <3>1 DEF WritesInv, AbandonedWrites, Abandons
  <2>7. Register!Next
    BY <1>1, <1>2, <1>3, <1>5, <2>1, ApplyRefines DEF Abandons
  <2> QED
    BY <2>2, <2>4, <2>5, <2>6, <2>7 DEF Refines, WritesInv
<1> QED
  BY <1>4, <1>5

\* What the vault_write at the head of the pipe is.
LEMMA WriteAtHead ==
  ASSUME Inv, WritesInv, inbox # << >>, Head(inbox).tool = "vault_write"
  PROVE  /\ op.pc = "write" /\ ~ Head(inbox).late
         /\ Head(inbox).wid = Len(sent) /\ Head(inbox).path = op.path
         /\ Head(inbox).expected = sent[Len(sent)].expected
         /\ ~ InLog(log, Len(sent)) /\ Len(sent) \in 1 .. Len(sent)
         /\ sent[Len(sent)].path = op.path
         /\ sent[Len(sent)].outcome = "pending"
<1> DEFINE r == Head(inbox)
<1>1. r = inbox[1] /\ 1 \in 1 .. Len(inbox)
  BY TailElements DEF Inv, TypeOK
<1> HIDE DEF r
<1>2. r.tool = "vault_write"
  BY DEF r
<1>3. /\ ~ r.late /\ r.expected = sent[Len(sent)].expected
      /\ ~ InLog(log, Len(sent))
  BY <1>1, <1>2 DEF WritesInv, WriteRequests
<1>4. op.pc = "write" /\ r.wid = Len(sent) /\ r.path = op.path
  BY <1>1, <1>2, <1>3 DEF Inv, PipesInv, RequestInv, Asks
<1>5. /\ Len(sent) \in 1 .. Len(sent)
      /\ sent[Len(sent)].path = op.path /\ sent[Len(sent)].outcome = "pending"
  BY <1>4, Lengths DEF Inv, OpInv
<1> QED
  BY <1>3, <1>4, <1>5 DEF r

LEMMA HandleRefines ==
  ASSUME Inv, WritesInv, Handle
  PROVE  Refines
<1> DEFINE r == Head(inbox)
           n == Len(sent)
<1>1. /\ inbox # << >> /\ inbox' = Tail(inbox) /\ log' = Stored(r)
      /\ \/ wire' = Append(wire, AnswerTo(r))
         \/ wire' = Append(wire, Reply("garbled", r, 0, Human))
      /\ UNCHANGED <<op, sent, limbo>>
  BY DEF Handle
<1>2. /\ r \in Request /\ r = inbox[1] /\ 1 \in 1 .. Len(inbox)
      /\ \A i \in 1 .. Len(inbox') : /\ i + 1 \in 1 .. Len(inbox) /\ i + 1 # 1
                                     /\ inbox'[i] = inbox[i + 1]
  BY <1>1, TailElements DEF Inv, TypeOK
<1>3. r.tool = "vault_write" =>
        /\ op.pc = "write" /\ ~ r.late /\ r.wid = n /\ r.path = op.path
        /\ r.expected = sent[n].expected /\ ~ InLog(log, n)
        /\ n \in 1 .. n /\ sent[n].path = op.path
        /\ sent[n].outcome = "pending"
  BY <1>1, WriteAtHead
<1> HIDE DEF r
<1>4. PICK a \in Answer :
        /\ wire' = Append(wire, a)
        /\ a = AnswerTo(r) \/ a = Reply("garbled", r, 0, Human)
  BY <1>1, <1>2, AnswerTyped DEF Inv
<1>5. /\ \/ a.kind \in {"note", "refused", "garbled"}
         \/ /\ r.tool = "vault_write" /\ Accepts(r) /\ a.kind = "written"
            /\ a.version = Len(log[r.path]) + 1
         \/ r.tool = "vault_write" /\ ~ Accepts(r) /\ a.kind = "conflict"
  <2>1. CASE a = Reply("garbled", r, 0, Human)
    BY <2>1 DEF Reply
  <2>2. CASE a = AnswerTo(r)
    BY <1>2, <2>2, AnswerCases DEF Reply, Inv
  <2> QED
    BY <1>4, <2>1, <2>2
<1>6. /\ Len(wire) \in Nat
      /\ \A i \in 1 .. Len(wire') :
           \/ i = Len(wire) + 1 /\ wire'[i] = a
           \/ i \in 1 .. Len(wire) /\ wire'[i] = wire[i]
  <2>1. /\ Len(wire) \in Nat /\ Len(wire') = Len(wire) + 1
        /\ wire'[Len(wire) + 1] = a
        /\ \A i \in 1 .. Len(wire) : wire'[i] = wire[i]
    BY <1>4, AppendProperties, Lengths DEF Inv, TypeOK
  <2> QED
    BY <2>1
<1> HIDE DEF n
<1>7. CASE r.tool = "vault_write" /\ Accepts(r)
  <2>1. log' = [log EXCEPT ![r.path] = Append(@, n)]
    BY <1>1, <1>3, <1>7 DEF Stored
  <2>2. r.path \in Paths /\ n \in 0 .. n
    BY <1>2, <1>3, <1>7 DEF Request
  <2>3. /\ \A w : w # n /\ ~ InLog(log, w) => ~ InLog(log', w)
        /\ KnownAuthors'
    BY <1>1, <2>1, <2>2, GrownWrites DEF n
  <2>4. WriteRequests'
    <3> SUFFICES ASSUME NEW i \in 1 .. Len(inbox'), inbox'[i].tool = "vault_write"
                 PROVE  FALSE
      BY DEF WriteRequests
    <3>1. i + 1 \in 1 .. Len(inbox) /\ i + 1 # 1 /\ ~ inbox[i + 1].late
      BY <1>2 DEF WritesInv, WriteRequests
    <3> QED
      BY <1>2, <1>3, <1>7, <3>1 DEF Inv, PipesInv, SingleInv
  <2>5. WriteAnswers'
    <3>1. \A i \in 1 .. Len(wire) : wire[i].late
      BY <1>2, <1>3, <1>7 DEF Inv, PipesInv, SingleInv
    <3>2. Len(log[r.path]) = sent[n].expected
      BY <1>3, <1>7 DEF Accepts
    <3>3. /\ a.kind # "conflict"
          /\ a.kind = "written" => a.version = sent[n].expected + 1
      BY <1>5, <1>7, <3>2
    <3> QED
      BY <1>1, <1>3, <1>6, <1>7, <3>1, <3>3 DEF WriteAnswers, n
  <2>6. Conflicting'
    BY <1>1, <1>3, <1>7 DEF Conflicting
  <2>7. AbandonedWrites'
    <3>1. \A x \in limbo : Abandons(sent, log, x)
      BY DEF WritesInv, AbandonedWrites
    <3>2. \A x \in limbo : x.wid # n /\ ~ InLog(log', x.wid)
      BY <1>3, <1>7, <2>3, <3>1 DEF Abandons
    <3>3. \A x \in limbo : Abandons(sent', log', x)
      BY <1>1, <3>1, <3>2 DEF Abandons
    <3> QED
      BY <1>1, <3>3 DEF WritesInv, AbandonedWrites
  <2>8. Register!Next
    <3>1. /\ r.wid \in 1 .. Len(sent) /\ sent[r.wid].path = r.path
          /\ sent[r.wid].expected = r.expected
          /\ sent[r.wid].outcome \in {"pending", "muted", "protocol"}
          /\ ~ InLog(log, r.wid)
      BY <1>3, <1>7 DEF n
    <3>2. log' = [log EXCEPT ![r.path] = Append(@, r.wid)]
      BY <1>3, <1>7, <2>1
    <3> QED
      BY <1>1, <1>2, <1>7, <3>1, <3>2, ApplyRefines
  <2> QED
    BY <2>3, <2>4, <2>5, <2>6, <2>7, <2>8 DEF Refines, WritesInv
<1>8. CASE ~ (r.tool = "vault_write" /\ Accepts(r))
  <2>1. UNCHANGED log
    BY <1>1, <1>8 DEF Stored
  <2>2. WriteRequests'
    BY <1>1, <1>2, <2>1 DEF WritesInv, WriteRequests
  <2>3. WriteAnswers'
    <3>1. a.kind # "written" /\ (a.kind = "conflict" => ~ InLog(log, n))
      BY <1>3, <1>5, <1>8
    <3> QED
      BY <1>1, <1>6, <2>1, <3>1 DEF WritesInv, WriteAnswers, n
  <2>4. AbandonedWrites' /\ KnownAuthors' /\ Conflicting'
    BY <1>1, <2>1 DEF WritesInv, AbandonedWrites, KnownAuthors, Conflicting
  <2> QED
    BY <1>1, <2>1, <2>2, <2>3, <2>4, QuietRefines DEF WritesInv
<1> QED
  BY <1>7, <1>8

LEMMA StepRefines == ASSUME Inv, WritesInv, [Next]_vars PROVE Refines
<1>0. TypeOK'
  BY TypeStep DEF Inv
<1>1. ASSUME NEW p \in Paths, HumanEdit(p) PROVE Refines
  BY <1>1, HumanEditRefines
<1>2. ASSUME NEW p \in Paths, Expire(p) PROVE Refines
  <2>1. UNCHANGED <<log, sent, op, limbo, inbox, wire>>
    BY <1>2 DEF Expire, server, pipes
  <2> QED
    BY <2>1, PipesRefine
<1>3. CASE Handle
  BY <1>3, HandleRefines
<1>4. ASSUME NEW r \in limbo, HandleAbandoned(r) PROVE Refines
  BY <1>4, HandleAbandonedRefines
<1>5. CASE Crash \/ Restart \/ UNCHANGED vars
  <2>1. /\ UNCHANGED <<log, sent, op>>
        /\ limbo' = limbo \/ limbo' = {}
        /\ inbox' = inbox \/ inbox' = << >>
        /\ wire' = wire \/ wire' = << >>
    BY <1>5 DEF Crash, Restart, vars, server, pipes, fields
  <2> QED
    BY <2>1, PipesRefine
<1>6. ASSUME NEW p \in Paths, StartRead(p) \/ StartWrite(p) PROVE Refines
  BY <1>0, <1>6, StartRefines
<1>7. CASE Connected \/ NotConnected
  BY <1>0, <1>7, ConnectRefines
<1>8. CASE SkipLine
  BY <1>8, SkipRefines
<1>9. CASE ReceiveNote
  BY <1>0, <1>9, ReceiveNoteRefines
<1>10. CASE ReceiveWritten
  BY <1>0, <1>10, ReceiveWrittenRefines
<1>11. CASE ReceiveConflict
  BY <1>11, ReceiveConflictRefines
<1>12. CASE ReceiveGarbled \/ ReceiveRefused \/ Eof \/ Timeout
  <2>1. << >> \in Seq(Answer) /\ (wire # << >> => Tail(wire) \in Seq(Answer))
    BY EmptySeq, TailElements DEF Inv, TypeOK
  <2>2. Calling /\ \E outcome \in {"muted", "protocol"}, rest \in Seq(Answer) :
                     FailCall(outcome, rest)
    BY <1>12, <2>1 DEF ReceiveGarbled, ReceiveRefused, Arrived, Eof, Timeout,
       CallMayTimeOut
  <2> QED
    BY <1>0, <2>2, FailCallRefines
<1> QED
  BY <1>1, <1>2, <1>3, <1>4, <1>5, <1>6, <1>7, <1>8, <1>9, <1>10, <1>11, <1>12
  DEF Next, ClientStep

LEMMA InitRefines == ASSUME Init PROVE Register!Init
<1>1. sent = << >> /\ log \in [Paths -> {<< >>, <<Human>>}]
  BY DEF Init
<1>2. Issued(<< >>) = << >>
  BY EmptySeq DEF Issued
<1> QED
  BY <1>1, <1>2 DEF Register!Init

\* VaultClient implements VaultRegister: with any number of late answers,
\* abandoned writes, outages and human edits, a write takes effect at most once
\* and on the version it names, and the caller is told of a write or of a
\* conflict only what is so (client.rs:1-19, 255-328).
THEOREM ClientImplementsRegister == Spec => ImplementsRegister
<1>1. Init => Register!Init /\ WritesInv
  BY InitRefines, InitWrites
<1>2. Inv /\ WritesInv /\ [Next]_vars =>
        WritesInv' /\ [Register!Next]_(Register!vars)
  BY StepRefines DEF Refines
<1> QED
  BY <1>1, <1>2, InvariantHolds, PTL DEF Spec, ImplementsRegister, Register!Spec
============================================================================

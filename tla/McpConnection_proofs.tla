----------------------- MODULE McpConnection_proofs -----------------------
(***************************************************************************)
(* Theorems about McpConnection, for any number of calls, notifications    *)
(* and timeouts and any room in the pipe.                                  *)
(*                                                                         *)
(* First the answers: which reply a caller can get.  Then what a torn line *)
(* costs: the stream to the client stays in frame but for one ending that  *)
(* a timeout may leave in front, and for a last line that the end of the   *)
(* server may leave unfinished.                                            *)
(***************************************************************************)
EXTENDS McpConnection, SequenceTheorems, FiniteSetTheorems, TLAPS

TypeInv == TypeOK /\ next_id >= 1

Returns == Says \cup Errors

LEMMA Lengths ==
  ASSUME TypeInv
  PROVE  /\ next_id \in Nat \ {0}
         /\ Len(answers) = next_id /\ Len(got) = next_id
         /\ answers \in Seq(Says \cup {"none"})
         /\ got \in Seq(Returns \cup {"waiting"})
         /\ \A id \in 1 .. next_id : /\ answers[id] \in Says \cup {"none"}
                                     /\ got[id] \in Returns \cup {"waiting"}
<1>1. /\ answers \in Seq(Says \cup {"none"})
      /\ got \in Seq(Returns \cup {"waiting"})
      /\ DOMAIN answers = 1 .. next_id /\ DOMAIN got = 1 .. next_id
      /\ next_id \in Nat \ {0}
  BY DEF TypeInv, TypeOK, Returns
<1>2. Len(answers) = next_id /\ Len(got) = next_id
  BY <1>1, LenProperties
<1> QED
  BY <1>1, <1>2, ElementOfSeq

\* What the end of a roundtrip does to the history.
Returned(outcome) ==
  /\ next_id' \in {next_id, next_id + 1}
  /\ answers' \in Seq(Says \cup {"none"}) /\ Len(answers') = next_id'
  /\ got' \in Seq(Returns \cup {"waiting"}) /\ Len(got') = next_id'
  /\ got'[next_id] = outcome
  /\ \A id \in 1 .. next_id : /\ answers'[id] = answers[id]
                              /\ id # next_id => got'[id] = got[id]
  /\ next_id' # next_id =>
       answers'[next_id + 1] = "none" /\ got'[next_id + 1] = "waiting"

Begun ==
  /\ next_id' = next_id + 1
  /\ answers' \in Seq(Says \cup {"none"}) /\ Len(answers') = next_id'
  /\ got' \in Seq(Returns \cup {"waiting"}) /\ Len(got') = next_id'
  /\ \A id \in 1 .. next_id : answers'[id] = answers[id] /\ got'[id] = got[id]
  /\ answers'[next_id + 1] = "none" /\ got'[next_id + 1] = "waiting"

\* Where connect or a call goes when its roundtrip returns.
Moves(outcome) ==
  /\ written' = FALSE
  /\ \/ /\ pc = "probing" /\ pc' = "initializing" /\ next_id' = next_id + 1
        /\ era' = IF outcome \in DualAware THEN "dual" ELSE "legacy"
     \/ /\ pc # "probing" /\ next_id' = next_id /\ era' = era
        /\ \/ pc = "calling" /\ pc' = "ready"
           \/ /\ pc = "initializing" /\ outcome = "legacy_version"
              /\ pc' = "notifying"
           \/ pc' = "failed"

LEMMA FinishEffect ==
  ASSUME TypeInv, NEW outcome \in Returns, Finish(outcome)
  PROVE  Returned(outcome) /\ Moves(outcome)
<1> DEFINE known == [got EXCEPT ![next_id] = outcome]
<1>1. /\ known \in Seq(Returns \cup {"waiting"}) /\ Len(known) = next_id
      /\ \A id \in 1 .. next_id :
           known[id] = IF id = next_id THEN outcome ELSE got[id]
  <2>1. next_id \in 1 .. Len(got) /\ outcome \in Returns \cup {"waiting"}
    BY Lengths
  <2> QED
    BY <2>1, Lengths, ExceptSeq
<1> HIDE DEF known
<1>2. CASE pc = "probing"
  <2>1. /\ answers' = Append(answers, "none") /\ got' = Append(known, "waiting")
        /\ next_id' = next_id + 1 /\ pc' = "initializing" /\ written' = FALSE
        /\ era' = IF outcome \in DualAware THEN "dual" ELSE "legacy"
    BY <1>2 DEF Finish, Begin, NextId, ProbeSettles, known
  <2>2. /\ answers' \in Seq(Says \cup {"none"}) /\ Len(answers') = next_id + 1
        /\ \A id \in 1 .. next_id : answers'[id] = answers[id]
        /\ answers'[next_id + 1] = "none"
    BY <2>1, Lengths, AppendProperties
  <2>3. /\ got' \in Seq(Returns \cup {"waiting"}) /\ Len(got') = next_id + 1
        /\ \A id \in 1 .. next_id : got'[id] = known[id]
        /\ got'[next_id + 1] = "waiting"
    BY <2>1, <1>1, AppendProperties
  <2> QED
    BY <1>1, <1>2, <2>1, <2>2, <2>3, Lengths DEF Returned, Moves
<1>3. CASE pc # "probing"
  <2>1. /\ written' = FALSE /\ got' = known
        /\ UNCHANGED <<next_id, era, answers>>
        /\ pc' = IF pc = "calling" THEN "ready"
                 ELSE IF pc = "initializing" /\ Negotiated(outcome)
                 THEN "notifying" ELSE "failed"
    BY <1>3 DEF Finish, known
  <2>2. Moves(outcome)
    BY <1>3, <2>1 DEF Moves, Negotiated
  <2>3. Returned(outcome)
    BY <1>1, <2>1, Lengths DEF Returned
  <2> QED
    BY <2>2, <2>3
<1> QED
  BY <1>2, <1>3

LEMMA BeginEffect ==
  ASSUME TypeInv, NEW stage, Begin(stage, got)
  PROVE  Begun /\ pc' = stage /\ written' = FALSE
<1>1. /\ answers' = Append(answers, "none") /\ got' = Append(got, "waiting")
      /\ next_id' = next_id + 1 /\ pc' = stage /\ written' = FALSE
  BY DEF Begin, NextId
<1>2. /\ answers' \in Seq(Says \cup {"none"}) /\ Len(answers') = next_id + 1
      /\ \A id \in 1 .. next_id : answers'[id] = answers[id]
      /\ answers'[next_id + 1] = "none"
  BY <1>1, Lengths, AppendProperties
<1>3. /\ got' \in Seq(Returns \cup {"waiting"}) /\ Len(got') = next_id + 1
      /\ \A id \in 1 .. next_id : got'[id] = got[id]
      /\ got'[next_id + 1] = "waiting"
  BY <1>1, Lengths, AppendProperties
<1> QED
  BY <1>1, <1>2, <1>3 DEF Begun

----------------------------------------------------------------------------
(* The invariant                                                           *)

\* A request is read once, and answered after it has been read.
RequestsInv ==
  /\ \A i \in 1 .. Len(requests) :
       /\ requests[i] <= next_id
       /\ requests[i] # 0 => answers[requests[i]] = "none"
  /\ \A i, j \in 1 .. Len(requests) :
       requests[i] # 0 /\ requests[i] = requests[j] => i = j
  /\ InRoundtrip /\ ~ written =>
       /\ answers[next_id] = "none"
       /\ \A i \in 1 .. Len(requests) : requests[i] # next_id

\* An answer carries the id of a request and what the server said to it.
Honest(m, last, said) ==
  m.id # 0 => /\ m.id \in 1 .. last
              /\ m.says \in Says /\ m.says = said[m.id]

AllHonest(pieces, last, said) ==
  \A i \in 1 .. Len(pieces) :
    pieces[i].part \in {"whole", "head"} => Honest(pieces[i].msg, last, said)

\* What was honest still is after the step.
HonestyKept ==
  \A m : Honest(m, next_id, answers) => Honest(m, next_id', answers')

WireInv ==
  /\ AllHonest(wire, next_id, answers)
  /\ line # Nothing => Honest(line.msg, next_id, answers)

AnswersInv ==
  \A id \in 1 .. next_id : got[id] \in Says => got[id] = answers[id]

\* Where connect is, and what it knows by then.
StageInv ==
  /\ pc = "probing" <=> next_id = 1
  /\ pc \in {"initializing", "notifying"} => next_id = 2
  /\ pc = "calling" => next_id > 2
  /\ pc # "probing" => got[1] \in Returns /\ (era = "dual" <=> got[1] \in DualAware)
  /\ pc \in {"notifying", "ready", "calling"} => got[2] = "legacy_version"

Inv == TypeInv /\ RequestsInv /\ WireInv /\ AnswersInv /\ StageInv

LEMMA InitInv == Init => Inv
<1> SUFFICES ASSUME Init PROVE Inv
  OBVIOUS
<1>1. /\ requests = <<1>> /\ wire = << >>
      /\ answers = <<"none">> /\ got = <<"waiting">>
      /\ next_id = 1 /\ line = Nothing /\ pc = "probing" /\ written = TRUE
  BY DEF Init
<1>2. TypeInv
  BY DEF Init, TypeInv, TypeOK, Nothing, Stages, Says, Errors, Pieces
<1>3. RequestsInv
  BY <1>1 DEF RequestsInv
<1>4. WireInv /\ AnswersInv /\ StageInv
  BY <1>1 DEF WireInv, AllHonest, AnswersInv, StageInv, Says, DualAware
<1> QED
  BY <1>2, <1>3, <1>4 DEF Inv

----------------------------------------------------------------------------
(* Steps of the client                                                     *)

\* The roundtrip in progress returns; a message is returned only if it is what
\* the server said to this request.
Concludes ==
  /\ InRoundtrip
  /\ \E outcome \in Returns :
       /\ outcome \in Says => outcome = answers[next_id]
       /\ Finish(outcome)

\* A client step that sends nothing: nothing returns, a roundtrip returns, one
\* begins, or the notification could not be sent.
ClientStep ==
  \/ UNCHANGED <<pc, written, next_id, era, answers, got>>
  \/ Concludes
  \/ pc = "ready" /\ Begin("calling", got) /\ UNCHANGED era
  \/ /\ pc = "notifying" /\ pc' = "failed"
     /\ UNCHANGED <<written, next_id, era, answers, got>>

LEMMA TakeConcludes ==
  ASSUME TypeInv, InRoundtrip, NEW m, Honest(m, next_id, answers), Take(m)
  PROVE  UNCHANGED <<pc, written, next_id, era, answers, got>> \/ Concludes
<1>1. CASE IsMine(m)
  <2>1. m.id = next_id /\ next_id # 0 /\ Finish(m.says)
    BY <1>1, Lengths DEF Take, IsMine
  <2>2. m.says \in Returns /\ m.says = answers[next_id]
    BY <2>1 DEF Honest, Returns
  <2> QED
    BY <2>1, <2>2 DEF Concludes
<1>2. CASE ~ IsMine(m)
  BY <1>2 DEF Take, Skip
<1> QED
  BY <1>1, <1>2

LEMMA ErrorConcludes ==
  ASSUME TypeInv, InRoundtrip, NEW outcome \in Errors, Finish(outcome)
  PROVE  Concludes
<1>1. outcome \in Returns /\ outcome \notin Says
  BY DEF Returns, Errors, Says, DualAware
<1> QED
  BY <1>1 DEF Concludes

LEMMA ClientSteps ==
  ASSUME Inv, SendFails \/ Read \/ Eof \/ Timeout \/ Call
  PROVE  ClientStep
<1> USE DEF Inv
<1>1. CASE SendFails
  <2>1. CASE pc = "notifying"
    BY <1>1, <2>1 DEF SendFails, ClientStep
  <2>2. CASE pc # "notifying"
    <3>1. InRoundtrip /\ Finish("transport") /\ "transport" \in Errors
      BY <1>1, <2>2 DEF SendFails, InRoundtrip, TypeInv, TypeOK, Stages, Errors
    <3> QED
      BY <3>1, ErrorConcludes DEF ClientStep
  <2> QED
    BY <2>1, <2>2
<1>2. CASE Read
  <2> DEFINE p == Head(wire)
  <2>1. InRoundtrip /\ p = wire[1] /\ 1 \in 1 .. Len(wire)
    BY <1>2, HeadTailProperties, LenProperties
    DEF Read, Waiting, TypeInv, TypeOK
  <2>2. CASE p.part = "whole"
    <3>1. Take(p.msg) /\ Honest(p.msg, next_id, answers)
      BY <1>2, <2>1, <2>2 DEF Read, WireInv, AllHonest
    <3> QED
      BY <3>1, <2>1, TakeConcludes DEF ClientStep
  <2>3. CASE p.part = "head"
    BY <1>2, <2>3 DEF Read, ClientStep
  <2>4. CASE p.part \notin {"whole", "head"} /\ line # Nothing
    <3>1. Take(line.msg) /\ Honest(line.msg, next_id, answers)
      BY <1>2, <2>4 DEF Read, WireInv
    <3> QED
      BY <3>1, <2>1, TakeConcludes DEF ClientStep
  <2>5. CASE p.part \notin {"whole", "head"} /\ line = Nothing
    <3>1. UNCHANGED <<pc, written, next_id, era, answers, got>>
            \/ Finish("protocol")
      BY <1>2, <2>5 DEF Read
    <3> QED
      BY <3>1, <2>1, ErrorConcludes DEF ClientStep, Errors
  <2> QED
    BY <2>2, <2>3, <2>4, <2>5
<1>3. CASE Eof
  <2>1. CASE line # Nothing /\ line.ends # "rest"
    <3>1. Take(line.msg) /\ Honest(line.msg, next_id, answers) /\ InRoundtrip
      BY <1>3, <2>1 DEF Eof, WireInv, Waiting
    <3> QED
      BY <3>1, TakeConcludes DEF ClientStep
  <2>2. CASE line = Nothing \/ line.ends = "rest"
    <3>1. InRoundtrip /\ \E outcome \in Errors : Finish(outcome)
      BY <1>3, <2>2 DEF Eof, Waiting, Errors
    <3> QED
      BY <3>1, ErrorConcludes DEF ClientStep
  <2> QED
    BY <2>1, <2>2
<1>4. CASE Timeout
  <2>1. InRoundtrip /\ Finish("timeout") /\ "timeout" \in Errors
    BY <1>4 DEF Timeout, TimeoutElapses, Waiting, Errors
  <2> QED
    BY <2>1, ErrorConcludes DEF ClientStep
<1>5. CASE Call
  BY <1>5 DEF Call, ClientStep
<1> QED
  BY <1>1, <1>2, <1>3, <1>4, <1>5

\* The history and the place of the connection are what TypeOK says.
HistoryTyped ==
  /\ pc \in Stages /\ written \in BOOLEAN
  /\ next_id \in Nat \ {0}
  /\ era \in {"legacy", "dual"}
  /\ answers \in Seq(Says \cup {"none"})
  /\ got \in Seq(Says \cup Errors \cup {"waiting"})
  /\ DOMAIN answers = 1 .. next_id /\ DOMAIN got = 1 .. next_id

LEMMA ConcludesInv ==
  ASSUME Inv, Concludes, requests' = requests
  PROVE  /\ HistoryTyped' /\ RequestsInv' /\ AnswersInv' /\ StageInv'
         /\ HonestyKept
<1> PICK outcome \in Returns :
      (outcome \in Says => outcome = answers[next_id]) /\ Finish(outcome)
  BY DEF Concludes
<1> USE DEF Inv
<1>1. Returned(outcome) /\ Moves(outcome)
  BY FinishEffect
<1>2. HistoryTyped'
  <2>1. /\ pc' \in Stages /\ written' \in BOOLEAN
        /\ era' \in {"legacy", "dual"}
    BY <1>1 DEF Moves, Stages, TypeInv, TypeOK
  <2>2. /\ next_id' \in Nat \ {0}
        /\ answers' \in Seq(Says \cup {"none"}) /\ Len(answers') = next_id'
        /\ got' \in Seq(Returns \cup {"waiting"}) /\ Len(got') = next_id'
    BY <1>1, Lengths DEF Returned
  <2>3. DOMAIN answers' = 1 .. next_id' /\ DOMAIN got' = 1 .. next_id'
    BY <2>2, LenProperties
  <2> QED
    BY <2>1, <2>2, <2>3 DEF HistoryTyped, Returns
<1>3. RequestsInv'
  <2>1. /\ \A i \in 1 .. Len(requests) :
             /\ requests[i] \in Nat /\ requests[i] <= next_id
             /\ requests[i] # 0 => answers[requests[i]] = "none"
        /\ \A i, j \in 1 .. Len(requests) :
             requests[i] # 0 /\ requests[i] = requests[j] => i = j
    BY ElementOfSeq DEF RequestsInv, TypeInv, TypeOK
  <2>2. \A i \in 1 .. Len(requests) :
          /\ requests[i] <= next_id'
          /\ requests[i] # 0 => answers'[requests[i]] = "none"
    BY <2>1, <1>1, Lengths DEF Returned
  <2>3. InRoundtrip' =>
          /\ answers'[next_id'] = "none"
          /\ \A i \in 1 .. Len(requests) : requests[i] # next_id'
    BY <2>1, <1>1, Lengths DEF Returned, Moves, InRoundtrip
  <2> QED
    BY <2>1, <2>2, <2>3 DEF RequestsInv
<1>4. AnswersInv'
  BY <1>1, Lengths DEF AnswersInv, Returned, Says, DualAware
<1>5. StageInv'
  BY <1>1, Lengths DEF StageInv, Returned, Moves, Concludes, InRoundtrip, TypeInv,
     TypeOK, Stages
<1>6. HonestyKept
  BY <1>1, Lengths DEF HonestyKept, Honest, Returned
<1> QED
  BY <1>2, <1>3, <1>4, <1>5, <1>6

LEMMA BeginInv ==
  ASSUME Inv, pc = "ready", Begin("calling", got), era' = era,
         requests' = requests
  PROVE  /\ HistoryTyped' /\ RequestsInv' /\ AnswersInv' /\ StageInv'
         /\ HonestyKept
<1> USE DEF Inv
<1>1. Begun /\ pc' = "calling" /\ written' = FALSE
  BY BeginEffect
<1>2. HistoryTyped'
  <2>1. /\ next_id' \in Nat \ {0}
        /\ answers' \in Seq(Says \cup {"none"}) /\ Len(answers') = next_id'
        /\ got' \in Seq(Returns \cup {"waiting"}) /\ Len(got') = next_id'
    BY <1>1, Lengths DEF Begun
  <2>2. DOMAIN answers' = 1 .. next_id' /\ DOMAIN got' = 1 .. next_id'
    BY <2>1, LenProperties
  <2> QED
    BY <1>1, <2>1, <2>2 DEF HistoryTyped, Returns, Stages, TypeInv, TypeOK
<1>3. RequestsInv'
  <2>1. \A i \in 1 .. Len(requests) : requests[i] \in Nat
    BY ElementOfSeq DEF TypeInv, TypeOK
  <2> QED
    BY <2>1, <1>1, Lengths DEF RequestsInv, Begun
<1>4. AnswersInv'
  BY <1>1, Lengths DEF AnswersInv, Begun, Says, DualAware
<1>5. StageInv'
  BY <1>1, Lengths DEF StageInv, Begun
<1>6. HonestyKept
  BY <1>1, Lengths DEF HonestyKept, Honest, Begun
<1> QED
  BY <1>2, <1>3, <1>4, <1>5, <1>6

LEMMA ClientInv ==
  ASSUME Inv, ClientStep, requests' = requests
  PROVE  /\ HistoryTyped' /\ RequestsInv' /\ AnswersInv' /\ StageInv'
         /\ HonestyKept
<1>1. CASE UNCHANGED <<pc, written, next_id, era, answers, got>>
  BY <1>1 DEF Inv, HistoryTyped, TypeInv, TypeOK, RequestsInv, InRoundtrip,
     AnswersInv, StageInv, HonestyKept, Honest
<1>2. CASE Concludes
  BY <1>2, ConcludesInv
<1>3. CASE pc = "ready" /\ Begin("calling", got) /\ UNCHANGED era
  BY <1>3, BeginInv
<1>4. CASE /\ pc = "notifying" /\ pc' = "failed"
           /\ UNCHANGED <<written, next_id, era, answers, got>>
  <2>1. HistoryTyped'
    BY <1>4 DEF Inv, HistoryTyped, TypeInv, TypeOK, Stages
  <2>2. RequestsInv' /\ AnswersInv' /\ StageInv'
    BY <1>4 DEF Inv, RequestsInv, InRoundtrip, AnswersInv, StageInv
  <2> QED
    BY <1>4, <2>1, <2>2 DEF HonestyKept, Honest
<1> QED
  BY <1>1, <1>2, <1>3, <1>4 DEF ClientStep

----------------------------------------------------------------------------
(* The streams                                                             *)

StreamsTyped ==
  /\ alive \in BOOLEAN
  /\ requests \in Seq(Nat)
  /\ partial \in Heads \cup {Nothing}
  /\ wire \in Seq(Pieces)
  /\ notices \in Nat
  /\ line \in Heads \cup {Nothing}
  /\ tears \in Nat

LEMMA Typed == TypeInv <=> HistoryTyped /\ StreamsTyped
  BY DEF TypeInv, TypeOK, HistoryTyped, StreamsTyped

LEMMA EndingIsPiece ==
  ASSUME NEW end \in {"rest", "newline"}
  PROVE  Ending(end) \in Pieces
  BY DEF Ending, Pieces

LEMMA WriteEffect ==
  ASSUME StreamsTyped, NEW m \in Message, Write(m)
  PROVE  /\ wire' \in Seq(Pieces) /\ partial' \in Heads \cup {Nothing}
         /\ \E p \in Pieces : wire' = Append(wire, p) /\ p.msg = m
<1>1. CASE wire' = Append(wire, Whole(m)) /\ UNCHANGED partial
  <2>1. Whole(m) \in Pieces /\ Whole(m).msg = m
    BY DEF Whole, Pieces
  <2> QED
    BY <1>1, <2>1, AppendProperties DEF StreamsTyped
<1>2. ASSUME NEW end \in {"rest", "newline"},
             wire' = Append(wire, Head1(m, end)), partial' = Head1(m, end)
      PROVE  /\ wire' \in Seq(Pieces) /\ partial' \in Heads \cup {Nothing}
             /\ \E p \in Pieces : wire' = Append(wire, p) /\ p.msg = m
  <2>1. /\ Head1(m, end) \in Heads /\ Head1(m, end) \in Pieces
        /\ Head1(m, end).msg = m
    BY DEF Head1, Heads, Pieces
  <2> QED
    BY <1>2, <2>1, AppendProperties DEF StreamsTyped
<1> QED
  BY <1>1, <1>2 DEF Write

\* A piece joins the stream, or its first one is read, or lost with the line.
LEMMA WireGrows ==
  ASSUME Inv, NEW p \in Pieces, wire' = Append(wire, p), line' = line,
         HonestyKept,
         p.part \in {"whole", "head"} => Honest(p.msg, next_id', answers')
  PROVE  WireInv'
<1>1. wire \in Seq(Pieces)
  BY DEF Inv, TypeInv, TypeOK
<1>2. /\ Len(wire') = Len(wire) + 1 /\ Len(wire) \in Nat
      /\ \A i \in 1 .. Len(wire) : wire'[i] = wire[i]
      /\ wire'[Len(wire) + 1] = p
  BY <1>1, AppendProperties, LenProperties
<1>3. AllHonest(wire', next_id', answers')
  BY <1>2 DEF Inv, WireInv, AllHonest, HonestyKept
<1> QED
  BY <1>3 DEF Inv, WireInv, HonestyKept

LEMMA WireShrinks ==
  ASSUME Inv, wire # << >>, wire' = Tail(wire),
         line' = IF Head(wire).part = "head" THEN Head(wire) ELSE Nothing,
         HonestyKept
  PROVE  WireInv' /\ wire' \in Seq(Pieces) /\ line' \in Heads \cup {Nothing}
<1>1. wire \in Seq(Pieces)
  BY DEF Inv, TypeInv, TypeOK
<1>2. /\ Tail(wire) \in Seq(Pieces) /\ Len(Tail(wire)) = Len(wire) - 1
      /\ \A i \in 1 .. Len(Tail(wire)) : Tail(wire)[i] = wire[i + 1]
      /\ Head(wire) \in Pieces /\ Head(wire) = wire[1] /\ Len(wire) \in Nat \ {0}
  BY <1>1, HeadTailProperties, EmptySeq
<1>3. AllHonest(wire', next_id', answers')
  BY <1>2 DEF Inv, WireInv, AllHonest, HonestyKept
<1>4. line' # Nothing => Honest(line'.msg, next_id', answers')
  BY <1>2 DEF Inv, WireInv, AllHonest, HonestyKept
<1>5. line' \in Heads \cup {Nothing}
  BY <1>2 DEF Pieces, Heads
<1> QED
  BY <1>2, <1>3, <1>4, <1>5 DEF WireInv

LEMMA WireKept ==
  ASSUME Inv, wire' = wire, line' \in {line, Nothing},
         HonestyKept
  PROVE  WireInv'
  BY DEF Inv, WireInv, AllHonest, HonestyKept

----------------------------------------------------------------------------
(* Steps of the server, and the sending of a request                       *)

LEMMA HistoryKept ==
  ASSUME Inv, UNCHANGED <<client, answers>>
  PROVE  /\ HistoryTyped' /\ AnswersInv' /\ StageInv'
         /\ HonestyKept
  BY DEF Inv, client, HistoryTyped, TypeInv, TypeOK, AnswersInv, StageInv, HonestyKept, Honest

LEMMA RequestsTail ==
  ASSUME Inv, requests # << >>
  PROVE  /\ Tail(requests) \in Seq(Nat) /\ Head(requests) \in Nat
         /\ \A i \in 1 .. Len(Tail(requests)) :
              /\ Tail(requests)[i] \in Nat /\ Tail(requests)[i] <= next_id
              /\ Tail(requests)[i] # 0 =>
                   /\ answers[Tail(requests)[i]] = "none"
                   /\ Tail(requests)[i] # Head(requests)
         /\ \A i, j \in 1 .. Len(Tail(requests)) :
              Tail(requests)[i] # 0 /\ Tail(requests)[i] = Tail(requests)[j] => i = j
         /\ InRoundtrip /\ ~ written =>
              \A i \in 1 .. Len(Tail(requests)) : Tail(requests)[i] # next_id
<1> DEFINE t == Tail(requests)
<1>1. requests \in Seq(Nat)
  BY DEF Inv, TypeInv, TypeOK
<1>2. /\ t \in Seq(Nat) /\ Len(t) = Len(requests) - 1
      /\ \A i \in 1 .. Len(t) : t[i] = requests[i + 1]
      /\ Len(requests) \in Nat \ {0} /\ Head(requests) = requests[1]
  BY <1>1, HeadTailProperties, EmptySeq
<1> HIDE DEF t
<1>3. /\ \A i \in 1 .. Len(t) : i + 1 \in 1 .. Len(requests) /\ i + 1 # 1
      /\ 1 \in 1 .. Len(requests)
  BY <1>2
<1>4. \A i \in 1 .. Len(t) :
        /\ t[i] \in Nat /\ t[i] <= next_id
        /\ t[i] # 0 => answers[t[i]] = "none" /\ t[i] # Head(requests)
  <2> TAKE i \in 1 .. Len(t)
  <2>1. t[i] = requests[i + 1] /\ i + 1 \in 1 .. Len(requests)
    BY <1>2, <1>3
  <2>2. requests[i + 1] \in Nat
    BY <1>1, <2>1, ElementOfSeq
  <2> QED
    BY <1>2, <1>3, <2>1, <2>2 DEF Inv, RequestsInv
<1>5. ASSUME NEW i \in 1 .. Len(t), NEW j \in 1 .. Len(t), t[i] # 0, t[i] = t[j]
      PROVE  i = j
  <2>1. i + 1 = j + 1
    BY <1>2, <1>3, <1>5 DEF Inv, RequestsInv
  <2> QED
    BY <2>1, <1>2
<1>6. InRoundtrip /\ ~ written => \A i \in 1 .. Len(t) : t[i] # next_id
  BY <1>2, <1>3 DEF Inv, RequestsInv
<1>7. Head(requests) \in Nat
  BY <1>1, HeadTailProperties
<1> QED
  BY <1>2, <1>4, <1>5, <1>6, <1>7 DEF t

LEMMA RequestsRead ==
  ASSUME Inv, requests # << >>, requests' = Tail(requests),
         UNCHANGED <<client, answers>>
  PROVE  RequestsInv' /\ requests' \in Seq(Nat)
  BY RequestsTail DEF Inv, RequestsInv, client, InRoundtrip

\* An answer, to a request that has none.
LEMMA AnswerInv ==
  ASSUME Inv, Answer
  PROVE  Inv'
<1> DEFINE h == Head(requests)
<1> PICK says \in Sayable(h) :
      /\ Write([id |-> h, says |-> says])
      /\ answers' = [answers EXCEPT ![h] = says]
  BY DEF Answer
<1> USE DEF Inv
<1>1. requests # << >> /\ h # 0 /\ requests' = Tail(requests)
        /\ UNCHANGED <<alive, notices, client>>
  BY DEF Answer
<1>2. /\ h \in Nat \ {0} /\ h <= next_id /\ answers[h] = "none"
      /\ requests' \in Seq(Nat)
      /\ \A i \in 1 .. Len(requests') :
           /\ requests'[i] \in Nat /\ requests'[i] <= next_id
           /\ requests'[i] # 0 =>
                answers[requests'[i]] = "none" /\ requests'[i] # h
      /\ \A i, j \in 1 .. Len(requests') :
           requests'[i] # 0 /\ requests'[i] = requests'[j] => i = j
      /\ InRoundtrip /\ ~ written =>
           \A i \in 1 .. Len(requests') : requests'[i] # next_id
  <2>1. h = requests[1] /\ 1 \in 1 .. Len(requests)
    BY <1>1, EmptySeq DEF TypeInv, TypeOK
  <2> QED
    BY <1>1, <2>1, RequestsTail DEF RequestsInv
<1>3. says \in Says
  BY DEF Sayable, Says, DualAware
<1>4. /\ answers' \in Seq(Says \cup {"none"}) /\ Len(answers') = next_id
      /\ \A id \in 1 .. next_id :
           answers'[id] = IF id = h THEN says ELSE answers[id]
  BY <1>2, <1>3, Lengths, ExceptSeq
<1> HIDE DEF h
<1>5. DOMAIN answers' = 1 .. next_id
  BY <1>4, LenProperties
<1>6. HistoryTyped'
  BY <1>1, <1>4, <1>5 DEF HistoryTyped, TypeInv, TypeOK, client
<1>7. AnswersInv'
  <2>1. \A id \in 1 .. next_id : got[id] \in Says => id # h
    BY <1>2 DEF AnswersInv, Says, DualAware
  <2> QED
    BY <1>1, <1>4, <2>1 DEF AnswersInv, client
<1>8. StageInv'
  BY <1>1 DEF StageInv, client
<1>9. HonestyKept
  BY <1>1, <1>2, <1>4 DEF HonestyKept, Honest, client, Says, DualAware
<1>10. RequestsInv'
  <2>1. \A i \in 1 .. Len(requests') :
          requests'[i] # 0 => answers'[requests'[i]] = "none"
    BY <1>2, <1>4
  <2>2. InRoundtrip /\ ~ written => answers'[next_id] = "none"
    <3>1. InRoundtrip /\ ~ written => answers[next_id] = "none" /\ h # next_id
      <4>1. h = requests[1] /\ 1 \in 1 .. Len(requests)
        BY <1>1, EmptySeq DEF TypeInv, TypeOK, h
      <4> QED
        BY <4>1 DEF RequestsInv
    <3> QED
      BY <3>1, <1>4, Lengths
  <2> QED
    BY <1>1, <1>2, <2>1, <2>2 DEF RequestsInv, client, InRoundtrip
<1>11. StreamsTyped' /\ WireInv'
  <2> DEFINE m == [id |-> h, says |-> says]
  <2>1. m \in Message /\ m.id = h /\ m.says = says
    BY <1>2, <1>3 DEF Message
  <2> HIDE DEF m
  <2>2. Write(m)
    BY DEF m
  <2>3. StreamsTyped
    BY Typed
  <2>4. PICK p \in Pieces : wire' = Append(wire, p) /\ p.msg = m
    BY <2>1, <2>2, <2>3, WriteEffect
  <2>5. Honest(m, next_id', answers')
    BY <1>1, <1>2, <1>3, <1>4, <2>1 DEF Honest, client
  <2>6. WireInv'
    BY <1>1, <1>9, <2>4, <2>5, WireGrows DEF client
  <2>7. wire' \in Seq(Pieces) /\ partial' \in Heads \cup {Nothing}
    BY <2>1, <2>2, <2>3, WriteEffect
  <2> QED
    BY <1>1, <1>2, <2>3, <2>6, <2>7 DEF StreamsTyped, client
<1> QED
  <2>1. TypeInv'
    BY <1>6, <1>11 DEF TypeInv, TypeOK, HistoryTyped, StreamsTyped
  <2> QED
    BY <2>1, <1>7, <1>8, <1>10, <1>11

LEMMA ServerInv ==
  ASSUME Inv, Ignore \/ FinishLine \/ Notify \/ Die
  PROVE  Inv'
<1> USE DEF Inv
<1>1. UNCHANGED <<client, answers>> /\ StreamsTyped
  BY Typed DEF Ignore, FinishLine, Notify, Die
<1>2. /\ HistoryTyped' /\ AnswersInv' /\ StageInv'
      /\ HonestyKept
  BY <1>1, HistoryKept
<1>3. requests' = requests => RequestsInv'
  BY <1>1 DEF RequestsInv, client, InRoundtrip
<1>4. RequestsInv' /\ StreamsTyped' /\ WireInv'
  <2>1. CASE Ignore
    <3>1. RequestsInv' /\ requests' \in Seq(Nat)
      BY <1>1, <2>1, RequestsRead DEF Ignore
    <3>2. WireInv'
      BY <1>1, <1>2, <2>1, WireKept DEF Ignore, client
    <3> QED
      BY <1>1, <2>1, <3>1, <3>2 DEF Ignore, StreamsTyped, client
  <2>2. CASE FinishLine
    <3> DEFINE p == Ending(partial.ends)
    <3>1. partial.ends \in {"rest", "newline"}
      BY <1>1, <2>2 DEF FinishLine, StreamsTyped, Heads
    <3>2. p \in Pieces /\ p.part \notin {"whole", "head"}
      BY <3>1, EndingIsPiece DEF Ending
    <3>3. wire' = Append(wire, p)
      BY <2>2 DEF FinishLine
    <3> HIDE DEF p
    <3>4. WireInv' /\ wire' \in Seq(Pieces)
      BY <1>1, <1>2, <3>2, <3>3, WireGrows, AppendProperties
      DEF client, StreamsTyped
    <3> QED
      BY <1>1, <1>3, <2>2, <3>4 DEF FinishLine, StreamsTyped, client
  <2>3. CASE Notify
    <3>1. Notice \in Message /\ Write(Notice) /\ Notice.id = 0
      BY <2>3 DEF Notify, Message, Notice
    <3>2. PICK p \in Pieces : wire' = Append(wire, p) /\ p.msg = Notice
      BY <1>1, <3>1, WriteEffect
    <3>3. Honest(p.msg, next_id', answers')
      BY <3>1, <3>2 DEF Honest
    <3>4. WireInv'
      BY <1>1, <1>2, <3>2, <3>3, WireGrows DEF client
    <3>5. wire' \in Seq(Pieces) /\ partial' \in Heads \cup {Nothing}
      BY <1>1, <3>1, WriteEffect
    <3> QED
      BY <1>1, <1>3, <2>3, <3>4, <3>5 DEF Notify, StreamsTyped, client
  <2>4. CASE Die
    <3>1. requests' = << >> /\ Len(requests') = 0 /\ requests' \in Seq(Nat)
      BY <2>4, EmptySeq DEF Die
    <3>2. RequestsInv'
      <4>1. InRoundtrip /\ ~ written => answers[next_id] = "none"
        BY DEF RequestsInv
      <4> QED
        BY <1>1, <3>1, <4>1 DEF RequestsInv, client, InRoundtrip
    <3>3. WireInv'
      BY <1>1, <1>2, <2>4, WireKept DEF Die, client
    <3> QED
      BY <1>1, <2>4, <3>1, <3>2, <3>3 DEF Die, StreamsTyped, client
  <2> QED
    BY <2>1, <2>2, <2>3, <2>4
<1> QED
  <2>1. TypeInv'
    BY <1>2, <1>4 DEF TypeInv, TypeOK, HistoryTyped, StreamsTyped
  <2> QED
    BY <2>1, <1>2, <1>4

LEMMA SendInv ==
  ASSUME Inv, SendMessage
  PROVE  Inv'
<1> USE DEF Inv
<1>1. /\ UNCHANGED <<alive, partial, wire, notices, next_id, line, era, got,
                     tears, answers>>
      /\ pc \notin {"ready", "failed"} /\ ~ written
      /\ \/ pc = "notifying" /\ requests' = Append(requests, 0)
              /\ pc' = "ready" /\ written' = written
         \/ pc # "notifying" /\ requests' = Append(requests, next_id)
              /\ pc' = pc /\ written' = TRUE
  BY DEF SendMessage
<1>2. requests \in Seq(Nat) /\ next_id \in Nat \ {0} /\ 0 \in Nat
        /\ Len(requests) \in Nat
  BY LenProperties DEF TypeInv, TypeOK
<1>3. PICK r \in Nat : /\ requests' = Append(requests, r)
                       /\ \/ r = 0 /\ pc = "notifying" /\ pc' = "ready"
                          \/ /\ r = next_id /\ InRoundtrip /\ pc' = pc
                             /\ written' = TRUE
  BY <1>1, <1>2 DEF InRoundtrip, TypeInv, TypeOK, Stages
<1>4. /\ requests' \in Seq(Nat) /\ Len(requests') = Len(requests) + 1
      /\ \A i \in 1 .. Len(requests) : requests'[i] = requests[i]
      /\ requests'[Len(requests) + 1] = r
  BY <1>2, <1>3, AppendProperties
<1>5. TypeInv'
  BY <1>1, <1>4 DEF TypeInv, TypeOK, Stages
<1>6. r # 0 => /\ answers[r] = "none" /\ r <= next_id
               /\ \A i \in 1 .. Len(requests) : requests[i] # r
  BY <1>1, <1>2, <1>3 DEF RequestsInv
<1>7. RequestsInv'
  <2>1. \A i \in 1 .. Len(requests') : i \in 1 .. Len(requests)
                                          \/ i = Len(requests) + 1
    BY <1>2, <1>4
  <2>2. \A i \in 1 .. Len(requests') :
          /\ requests'[i] <= next_id
          /\ requests'[i] # 0 => answers[requests'[i]] = "none"
    BY <1>2, <1>4, <1>6, <2>1 DEF RequestsInv
  <2>3. \A i, j \in 1 .. Len(requests') :
          requests'[i] # 0 /\ requests'[i] = requests'[j] => i = j
    BY <1>2, <1>4, <1>6, <2>1 DEF RequestsInv
  <2>4. ~ (InRoundtrip' /\ ~ written')
    BY <1>3 DEF InRoundtrip
  <2> QED
    BY <1>1, <2>2, <2>3, <2>4 DEF RequestsInv
<1>8. WireInv' /\ AnswersInv'
  BY <1>1 DEF WireInv, AnswersInv
<1>9. StageInv'
  BY <1>1, <1>2 DEF StageInv
<1> QED
  BY <1>5, <1>7, <1>8, <1>9

LEMMA StepInv ==
  ASSUME Inv, [Next]_vars
  PROVE  Inv'
<1>1. CASE Answer
  BY <1>1, AnswerInv
<1>2. CASE Ignore \/ FinishLine \/ Notify \/ Die
  BY <1>2, ServerInv
<1>3. CASE SendMessage
  BY <1>3, SendInv
<1>4. CASE SendFails \/ Read \/ Eof \/ Timeout \/ Call
  <2>1. /\ UNCHANGED <<alive, requests, partial, notices>>
        /\ StreamsTyped
    BY <1>4, Typed DEF SendFails, Read, Eof, Timeout, Call, server, Inv
  <2>2. /\ HistoryTyped' /\ RequestsInv' /\ AnswersInv' /\ StageInv'
        /\ HonestyKept
    BY <1>4, <2>1, ClientSteps, ClientInv
  <2>3. tears' \in Nat
    BY <1>4, <2>1 DEF SendFails, Read, Eof, Timeout, Call, StreamsTyped
  <2>4. WireInv' /\ wire' \in Seq(Pieces) /\ line' \in Heads \cup {Nothing}
    <3>1. CASE Read
      <4>1. /\ wire # << >> /\ wire' = Tail(wire)
            /\ line' = IF Head(wire).part = "head" THEN Head(wire) ELSE Nothing
        BY <3>1 DEF Read
      <4> QED
        BY <4>1, <2>2, WireShrinks
    <3>2. CASE SendFails \/ Eof \/ Timeout \/ Call
      <4>1. wire' = wire /\ line' \in {line, Nothing}
        BY <3>2 DEF SendFails, Eof, Timeout, Call, server
      <4> QED
        BY <4>1, <2>1, <2>2, WireKept DEF StreamsTyped
    <3> QED
      BY <1>4, <3>1, <3>2
  <2>5. TypeInv'
    BY <2>1, <2>2, <2>3, <2>4 DEF TypeInv, TypeOK, HistoryTyped, StreamsTyped
  <2> QED
    BY <2>2, <2>4, <2>5 DEF Inv
<1>5. CASE UNCHANGED vars
  <2>1. UNCHANGED <<client, answers>> /\ UNCHANGED server
    BY <1>5 DEF vars
  <2>2. HistoryTyped' /\ AnswersInv' /\ StageInv' /\ HonestyKept
    BY <2>1, HistoryKept
  <2>3. RequestsInv' /\ StreamsTyped' /\ WireInv'
    BY <2>1, <2>2, Typed, WireKept
    DEF Inv, RequestsInv, InRoundtrip, StreamsTyped, server, client
  <2>4. TypeInv'
    BY <2>2, <2>3 DEF TypeInv, TypeOK, HistoryTyped, StreamsTyped
  <2> QED
    BY <2>2, <2>3, <2>4 DEF Inv
<1> QED
  BY <1>1, <1>2, <1>3, <1>4, <1>5 DEF Next

\* The inductive invariant of the connection: requests are answered once and
\* after they are read, and what is on its way to the client is what was said.
THEOREM ConnectionInvariant == Spec => []Inv
<1>1. Init => Inv
  BY InitInv
<1>2. Inv /\ [Next]_vars => Inv'
  BY StepInv
<1> QED
  BY <1>1, <1>2, PTL DEF Spec

\* Every variable keeps its type, and the history its length (mcp.rs:87-219).
THEOREM TypeCorrect == Spec => []TypeOK
<1>1. Inv => TypeOK
  BY DEF Inv, TypeInv
<1> QED
  BY <1>1, ConnectionInvariant, PTL

\* However late, torn or reordered with notifications, an answer is returned
\* only to the roundtrip whose request it answers (mcp.rs:203-205).
THEOREM AnswersAreOwn == Spec => []OwnAnswers
<1>1. Inv => OwnAnswers
  BY Lengths, LenProperties DEF Inv, AnswersInv, OwnAnswers, TypeInv, TypeOK
<1> QED
  BY <1>1, ConnectionInvariant, PTL

\* A connection is handed out only after the server agreed to the version, and
\* its era is the server's own (mcp.rs:106-157).
THEOREM HandshakesAreAgreed == Spec => []HandshakeIsAgreed
<1>1. Inv => HandshakeIsAgreed
  <2> SUFFICES ASSUME Inv, pc \in {"notifying", "ready", "calling"}
               PROVE  /\ answers[2] = "legacy_version"
                      /\ era = "dual" => answers[1] \in DualAware
                      /\ era = "legacy" => answers[1] \notin DualAware
                                             \/ got[1] \in Errors
    BY DEF HandshakeIsAgreed
  <2>1. 1 \in 1 .. next_id /\ 2 \in 1 .. next_id
    BY Lengths DEF Inv, StageInv
  <2>2. /\ got[2] = "legacy_version" /\ got[1] \in Returns
        /\ era = "dual" <=> got[1] \in DualAware
    BY DEF Inv, StageInv
  <2>3. /\ got[1] \in Says => got[1] = answers[1]
        /\ got[2] \in Says => got[2] = answers[2]
    BY <2>1 DEF Inv, AnswersInv
  <2> QED
    BY <2>2, <2>3 DEF Returns, Says
<1> QED
  BY <1>1, ConnectionInvariant, PTL

----------------------------------------------------------------------------
(* The framing of the stream to the client                                 *)

Last == wire[Len(wire)]

\* A head is followed by its ending, in the pipe or yet to be written, and only
\* the first piece may be an ending without a head.
Framed ==
  /\ \A i \in 1 .. Len(wire) : i < Len(wire) =>
       /\ wire[i].part = "head" => wire[i + 1] = Ending(wire[i].ends)
       /\ wire[i + 1].part \in {"rest", "newline"} => wire[i].part = "head"
  /\ line # Nothing /\ wire # << >> => wire[1] = Ending(line.ends)
  /\ partial # Nothing =>
       /\ alive
       /\ wire # << >> => Last.part = "head" /\ Last.ends = partial.ends
       /\ wire = << >> /\ line # Nothing => line.ends = partial.ends
  /\ alive /\ partial = Nothing =>
       IF wire = << >> THEN line = Nothing ELSE Last.part # "head"

\* The next piece is the end of a line whose beginning is lost.
Owed ==
  /\ line = Nothing
  /\ IF wire = << >> THEN partial # Nothing /\ partial.ends = "rest"
     ELSE wire[1].part = "rest"

\* The server has ended in the middle of a line.
Dangling ==
  /\ ~ alive
  /\ IF wire = << >> THEN line # Nothing ELSE Last.part = "head"

One(b) == IF b THEN 1 ELSE 0

Debt == One(Owed) + One(Dangling)

Credit == tears + One(~ alive)

Failures == {id \in DOMAIN got : got[id] = "protocol"}

CountInv == Cardinality(Failures) + Debt <= Credit

----------------------------------------------------------------------------
(* Lines                                                                   *)

LEMMA Kinds ==
  ASSUME Inv
  PROVE  /\ wire \in Seq(Pieces) /\ Len(wire) \in Nat
         /\ wire # << >> => Len(wire) \in Nat \ {0}
         /\ \A i \in 1 .. Len(wire) :
              /\ wire[i].part \in {"whole", "head", "rest", "newline"}
              /\ wire[i].part = "head" => wire[i].ends \in {"rest", "newline"}
         /\ line # Nothing =>
              line.part = "head" /\ line.ends \in {"rest", "newline"}
         /\ partial # Nothing => partial.ends \in {"rest", "newline"}
<1>1. /\ wire \in Seq(Pieces) /\ line \in Heads \cup {Nothing}
      /\ partial \in Heads \cup {Nothing}
  BY DEF Inv, TypeInv, TypeOK
<1>2. \A i \in 1 .. Len(wire) : wire[i] \in Pieces
  BY <1>1, ElementOfSeq
<1>3. \A p \in Pieces :
        /\ p.part \in {"whole", "head", "rest", "newline"}
        /\ p.part = "head" => p.ends \in {"rest", "newline"}
  BY DEF Pieces, Heads
<1>4. Len(wire) \in Nat /\ (wire # << >> => Len(wire) \in Nat \ {0})
  BY <1>1, EmptySeq, LenProperties
<1>5. /\ line # Nothing =>
           line.part = "head" /\ line.ends \in {"rest", "newline"}
      /\ partial # Nothing => partial.ends \in {"rest", "newline"}
  BY <1>1 DEF Heads
<1> QED
  BY <1>1, <1>2, <1>3, <1>4, <1>5

\* The server begins or writes a line.
LEMMA WriteFramed ==
  ASSUME Inv, Framed, alive, NEW m \in Message, Write(m),
         UNCHANGED <<alive, line, tears>>
  PROVE  Framed' /\ Debt' = Debt /\ Credit' = Credit
<1>1. PICK p \in Pieces :
        /\ wire' = Append(wire, p)
        /\ \/ p.part = "whole" /\ partial' = Nothing
           \/ /\ p.part = "head" /\ partial' = p /\ p.part # "nothing"
              /\ p.ends \in {"rest", "newline"}
  <2>1. /\ Whole(m) \in Pieces /\ Whole(m).part = "whole"
        /\ \A end \in {"rest", "newline"} :
             /\ Head1(m, end) \in Pieces /\ Head1(m, end).part = "head"
             /\ Head1(m, end).ends = end
    BY DEF Whole, Head1, Pieces, Heads
  <2> QED
    BY <2>1 DEF Write
<1>2. /\ partial = Nothing /\ wire' # << >>
      /\ Len(wire') = Len(wire) + 1
      /\ \A i \in 1 .. Len(wire) : wire'[i] = wire[i]
      /\ wire'[Len(wire) + 1] = p
  BY <1>1, Kinds, AppendProperties DEF Write
<1>3. /\ Len(wire) \in Nat
      /\ wire = << >> => Len(wire) = 0 /\ line = Nothing
      /\ wire # << >> => /\ Len(wire) \in Nat \ {0} /\ Last.part # "head"
                         /\ wire'[1] = wire[1]
  BY <1>2, Kinds, EmptySeq DEF Framed
<1>4. \A i \in 1 .. Len(wire') : i < Len(wire') =>
        /\ wire'[i].part = "head" => wire'[i + 1] = Ending(wire'[i].ends)
        /\ wire'[i + 1].part \in {"rest", "newline"} => wire'[i].part = "head"
  <2> SUFFICES ASSUME NEW i \in 1 .. Len(wire'), i < Len(wire')
        PROVE  /\ wire'[i].part = "head" => wire'[i + 1] = Ending(wire'[i].ends)
               /\ wire'[i + 1].part \in {"rest", "newline"} => wire'[i].part = "head"
    OBVIOUS
  <2>1. CASE i < Len(wire)
    <3>1. /\ i \in 1 .. Len(wire) /\ i + 1 \in 1 .. Len(wire)
          /\ wire'[i] = wire[i] /\ wire'[i + 1] = wire[i + 1]
      BY <2>1, <1>2, <1>3
    <3> QED
      BY <2>1, <3>1 DEF Framed
  <2>2. CASE i = Len(wire)
    <3>1. wire'[i] = Last /\ wire'[i + 1] = p /\ Last.part # "head"
      BY <2>2, <1>2, <1>3 DEF Last
    <3> QED
      BY <3>1, <1>1
  <2> QED
    BY <2>1, <2>2, <1>2, <1>3
<1>5. Last' = p
  BY <1>2 DEF Last
<1>6. Framed'
  <2>1. line' # Nothing /\ wire' # << >> => wire'[1] = Ending(line'.ends)
    BY <1>3 DEF Framed
  <2>2. /\ partial' # Nothing => Last'.part = "head" /\ Last'.ends = partial'.ends
        /\ partial' = Nothing => Last'.part # "head"
    BY <1>1, <1>5 DEF Nothing
  <2> QED
    BY <1>2, <1>4, <2>1, <2>2 DEF Framed
<1>7. Owed' <=> Owed
  BY <1>1, <1>2, <1>3 DEF Owed
<1> QED
  BY <1>6, <1>7 DEF Debt, Credit, One, Dangling

LEMMA FinishLineFramed ==
  ASSUME Inv, Framed, FinishLine
  PROVE  Framed' /\ Debt' = Debt /\ Credit' = Credit
<1> DEFINE p == Ending(partial.ends)
<1>1. /\ alive /\ partial # Nothing /\ partial' = Nothing
      /\ wire' = Append(wire, p)
      /\ UNCHANGED <<alive, line, tears>>
  BY DEF FinishLine, client
<1>2. /\ partial.ends \in {"rest", "newline"}
      /\ p.part = partial.ends /\ p \in Pieces
  BY <1>1, Kinds, EndingIsPiece DEF Ending
<1> HIDE DEF p
<1>3. /\ wire' # << >> /\ Len(wire') = Len(wire) + 1
      /\ \A i \in 1 .. Len(wire) : wire'[i] = wire[i]
      /\ wire'[Len(wire) + 1] = p
  BY <1>1, <1>2, Kinds, AppendProperties
<1>4. /\ Len(wire) \in Nat
      /\ wire = << >> => Len(wire) = 0
      /\ wire # << >> => /\ Len(wire) \in Nat \ {0}
                         /\ Last.part = "head" /\ Last.ends = partial.ends
                         /\ wire'[1] = wire[1]
  BY <1>1, <1>3, Kinds, EmptySeq DEF Framed
<1>5. \A i \in 1 .. Len(wire') : i < Len(wire') =>
        /\ wire'[i].part = "head" => wire'[i + 1] = Ending(wire'[i].ends)
        /\ wire'[i + 1].part \in {"rest", "newline"} => wire'[i].part = "head"
  <2> SUFFICES ASSUME NEW i \in 1 .. Len(wire'), i < Len(wire')
        PROVE  /\ wire'[i].part = "head" => wire'[i + 1] = Ending(wire'[i].ends)
               /\ wire'[i + 1].part \in {"rest", "newline"} => wire'[i].part = "head"
    OBVIOUS
  <2>1. CASE i < Len(wire)
    <3>1. /\ i \in 1 .. Len(wire) /\ i + 1 \in 1 .. Len(wire)
          /\ wire'[i] = wire[i] /\ wire'[i + 1] = wire[i + 1]
      BY <2>1, <1>3, <1>4
    <3> QED
      BY <2>1, <3>1 DEF Framed
  <2>2. CASE i = Len(wire)
    <3>1. wire'[i] = Last /\ wire'[i + 1] = p /\ wire # << >>
      BY <2>2, <1>3, <1>4 DEF Last
    <3> QED
      BY <3>1, <1>4 DEF p
  <2> QED
    BY <2>1, <2>2, <1>3, <1>4
<1>6. Last' = p
  BY <1>3 DEF Last
<1>7. Framed'
  <2>1. line' # Nothing => wire'[1] = Ending(line'.ends)
    BY <1>1, <1>3, <1>4 DEF Framed, p
  <2> QED
    BY <1>1, <1>2, <1>3, <1>5, <1>6, <2>1 DEF Framed
<1>8. Owed' <=> Owed
  BY <1>1, <1>2, <1>3, <1>4 DEF Owed
<1> QED
  BY <1>1, <1>7, <1>8 DEF Debt, Credit, One, Dangling

\* The server ends: what it leaves unfinished is paid for by its end.
LEMMA DieFramed ==
  ASSUME Inv, Framed, Die
  PROVE  Framed' /\ Debt' <= Debt + 1 /\ Credit' = Credit + 1
<1>1. /\ alive /\ alive' = FALSE /\ partial' = Nothing
      /\ UNCHANGED <<wire, line, tears>>
  BY DEF Die, client
<1>2. Framed'
  BY <1>1 DEF Framed, Last
<1>3. (Owed' => Owed) /\ ~ Dangling
  BY <1>1 DEF Owed, Dangling
<1>4. tears \in Nat
  BY DEF Inv, TypeInv, TypeOK
<1> QED
  BY <1>1, <1>2, <1>3, <1>4 DEF Debt, Credit, One

\* Reading a piece pays the debt, if it is the ending that was owed.
LEMMA ReadFramed ==
  ASSUME Inv, Framed, Read
  PROVE  Framed' /\ ~ Owed' /\ (Dangling' <=> Dangling) /\ Credit' = Credit
<1> DEFINE p == Head(wire)
<1>1. /\ wire # << >> /\ wire' = Tail(wire)
      /\ line' = IF p.part = "head" THEN p ELSE Nothing
      /\ UNCHANGED <<alive, partial, tears>>
  BY DEF Read
<1>2. /\ Len(wire) \in Nat \ {0} /\ p = wire[1] /\ 1 \in 1 .. Len(wire)
      /\ Len(wire') = Len(wire) - 1 /\ wire' \in Seq(Pieces)
      /\ \A i \in 1 .. Len(wire') : wire'[i] = wire[i + 1]
  BY <1>1, Kinds, HeadTailProperties
<1>3. /\ wire' # << >> => /\ Len(wire') \in Nat \ {0} /\ wire'[1] = wire[2]
                          /\ 1 < Len(wire) /\ Last' = Last
      /\ wire' = << >> => Len(wire) = 1 /\ Last = p
  BY <1>2, EmptySeq DEF Last
<1> HIDE DEF p
<1>4. p.part = "head" => p # Nothing /\ p.ends \in {"rest", "newline"}
  BY <1>2, Kinds DEF Nothing
<1>5. \A i \in 1 .. Len(wire') : i < Len(wire') =>
        /\ wire'[i].part = "head" => wire'[i + 1] = Ending(wire'[i].ends)
        /\ wire'[i + 1].part \in {"rest", "newline"} => wire'[i].part = "head"
  <2> SUFFICES ASSUME NEW i \in 1 .. Len(wire'), i < Len(wire')
        PROVE  /\ wire'[i].part = "head" => wire'[i + 1] = Ending(wire'[i].ends)
               /\ wire'[i + 1].part \in {"rest", "newline"} => wire'[i].part = "head"
    OBVIOUS
  <2>1. /\ i + 1 \in 1 .. Len(wire) /\ i + 1 < Len(wire)
        /\ wire'[i] = wire[i + 1] /\ wire'[i + 1] = wire[(i + 1) + 1]
    BY <1>2
  <2> QED
    BY <2>1 DEF Framed
<1>6. wire' # << >> =>
        /\ p.part = "head" => wire'[1] = Ending(p.ends)
        /\ wire'[1].part \in {"rest", "newline"} => p.part = "head"
  BY <1>2, <1>3 DEF Framed
<1>7. Framed'
  <2>1. partial' # Nothing =>
          /\ alive'
          /\ wire' # << >> => Last'.part = "head" /\ Last'.ends = partial'.ends
          /\ wire' = << >> /\ line' # Nothing => line'.ends = partial'.ends
    BY <1>1, <1>3 DEF Framed
  <2>2. alive' /\ partial' = Nothing =>
          IF wire' = << >> THEN line' = Nothing ELSE Last'.part # "head"
    BY <1>1, <1>3 DEF Framed
  <2>3. line' # Nothing /\ wire' # << >> => wire'[1] = Ending(line'.ends)
    BY <1>1, <1>6
  <2> QED
    BY <1>5, <2>1, <2>2, <2>3 DEF Framed
<1>8. ~ Owed'
  <2>1. CASE wire' = << >>
    BY <1>1, <1>3, <1>4, <2>1 DEF Owed, Framed
  <2>2. CASE wire' # << >>
    BY <1>1, <1>4, <1>6, <2>2 DEF Owed
  <2> QED
    BY <2>1, <2>2
<1>9. Dangling' <=> Dangling
  BY <1>1, <1>3, <1>4 DEF Dangling
<1> QED
  BY <1>1, <1>7, <1>8, <1>9 DEF Credit

\* The end of file takes what is there for the last line.
LEMMA EofFramed ==
  ASSUME Inv, Framed, Eof
  PROVE  /\ Framed' /\ ~ Owed' /\ ~ Dangling' /\ Credit' = Credit
         /\ line # Nothing => Dangling
<1>1. /\ ~ alive /\ wire = << >> /\ line' = Nothing
      /\ UNCHANGED <<alive, partial, wire, tears>>
  BY DEF Eof, server
<1> QED
  BY <1>1 DEF Framed, Owed, Dangling, Credit, Last

\* A timeout in the middle of a line leaves its end owed, and counts as a tear.
LEMMA TimeoutFramed ==
  ASSUME Inv, Framed, Timeout
  PROVE  /\ Framed' /\ Debt' + Credit <= Debt + Credit'
<1>1. /\ UNCHANGED <<alive, partial, wire>> /\ line' = Nothing
      /\ tears' = tears + (IF line = Nothing THEN 0 ELSE 1) /\ tears \in Nat
  BY DEF Timeout, server, Inv, TypeInv, TypeOK
<1>2. Framed'
  BY <1>1 DEF Framed, Last
<1>3. Dangling' => Dangling
  BY <1>1 DEF Dangling, Last
<1>4. /\ line = Nothing => (Owed' <=> Owed)
      /\ line # Nothing => ~ Owed
  BY <1>1 DEF Owed
<1> QED
  BY <1>1, <1>2, <1>3, <1>4 DEF Debt, Credit, One

LEMMA QuietFramed ==
  ASSUME Framed, UNCHANGED <<alive, partial, wire, line, tears>>
  PROVE  Framed' /\ Debt' = Debt /\ Credit' = Credit
  BY DEF Framed, Debt, Credit, Owed, Dangling, Last

----------------------------------------------------------------------------
(* Failures                                                                *)

LEMMA FailuresFinite ==
  ASSUME Inv
  PROVE  IsFiniteSet(Failures) /\ Cardinality(Failures) \in Nat
<1>1. Failures \subseteq 1 .. next_id /\ next_id \in Nat
  BY DEF Failures, Inv, TypeInv, TypeOK
<1>2. IsFiniteSet(1 .. next_id)
  BY <1>1, FS_Interval
<1> QED
  BY <1>1, <1>2, FS_Subset, FS_CardinalityType

\* The roundtrips that fail as failures are counted.
LEMMA FinishFailures ==
  ASSUME Inv, NEW outcome \in Returns, Finish(outcome)
  PROVE  Failures' \subseteq Failures \cup
           (IF outcome = "protocol" THEN {next_id} ELSE {})
<1>1. Returned(outcome)
  BY FinishEffect DEF Inv
<1>2. DOMAIN got' = 1 .. next_id' /\ DOMAIN got = 1 .. next_id
        /\ next_id \in Nat
  BY <1>1, Lengths, LenProperties DEF Returned, Inv
<1>3. ASSUME NEW id \in 1 .. next_id', got'[id] = "protocol"
      PROVE  \/ id \in 1 .. next_id /\ got[id] = "protocol"
             \/ id = next_id /\ outcome = "protocol"
  BY <1>1, <1>2, <1>3 DEF Returned
<1> QED
  BY <1>2, <1>3 DEF Failures

LEMMA FailuresCounted ==
  ASSUME Inv, NEW n \in {0, 1},
         Failures' \subseteq Failures \cup (IF n = 1 THEN {next_id} ELSE {})
  PROVE  /\ Cardinality(Failures') <= Cardinality(Failures) + n
         /\ Cardinality(Failures') \in Nat
<1>1. IsFiniteSet(Failures) /\ Cardinality(Failures) \in Nat
  BY FailuresFinite
<1>2. CASE n = 0
  <2>1. Failures' \subseteq Failures
    BY <1>2
  <2>2. /\ Cardinality(Failures') <= Cardinality(Failures)
        /\ IsFiniteSet(Failures')
    BY <1>1, <2>1, FS_Subset
  <2> QED
    BY <1>1, <1>2, <2>2, FS_CardinalityType
<1>3. CASE n = 1
  <2> DEFINE more == Failures \cup {next_id}
  <2>1. /\ IsFiniteSet(more)
        /\ Cardinality(more) = Cardinality(Failures)
             \/ Cardinality(more) = Cardinality(Failures) + 1
    BY <1>1, FS_AddElement
  <2>2. Failures' \subseteq more
    BY <1>3
  <2> HIDE DEF more
  <2>3. Cardinality(Failures') <= Cardinality(more) /\ IsFiniteSet(Failures')
    BY <2>1, <2>2, FS_Subset
  <2>4. Cardinality(Failures') \in Nat /\ Cardinality(more) \in Nat
    BY <2>1, <2>3, FS_CardinalityType
  <2> QED
    BY <1>1, <1>3, <2>1, <2>3, <2>4
<1> QED
  BY <1>2, <1>3

LEMMA SameFailures ==
  ASSUME got' = got
  PROVE  Failures' = Failures
  BY DEF Failures

\* Taking a complete line is no failure.
LEMMA TakeFailures ==
  ASSUME Inv, InRoundtrip, NEW m, Honest(m, next_id, answers), Take(m)
  PROVE  Failures' \subseteq Failures
<1>1. CASE IsMine(m)
  <2>1. m.id = next_id /\ next_id # 0 /\ Finish(m.says)
    BY <1>1, Lengths DEF Take, IsMine, Inv
  <2>2. m.says \in Returns /\ m.says # "protocol"
    BY <2>1 DEF Honest, Returns, Says, DualAware
  <2> QED
    BY <2>1, <2>2, FinishFailures
<1>2. CASE ~ IsMine(m)
  BY <1>2, SameFailures DEF Take, Skip
<1> QED
  BY <1>1, <1>2

LEMMA ReadFailures ==
  ASSUME Inv, Read
  PROVE  Failures' \subseteq Failures \cup (IF Owed THEN {next_id} ELSE {})
<1> DEFINE p == Head(wire)
<1>1. /\ InRoundtrip /\ wire # << >> /\ p = wire[1] /\ 1 \in 1 .. Len(wire)
      /\ p.part \in {"whole", "head", "rest", "newline"}
  BY Kinds, HeadTailProperties DEF Read, Waiting
<1>2. CASE p.part = "whole"
  <2>1. Take(p.msg) /\ Honest(p.msg, next_id, answers)
    BY <1>1, <1>2 DEF Read, Inv, WireInv, AllHonest
  <2> QED
    BY <1>1, <2>1, TakeFailures
<1>3. CASE p.part = "head" \/ (p.part = "newline" /\ line = Nothing)
  BY <1>3, SameFailures DEF Read
<1>4. CASE p.part \in {"rest", "newline"} /\ line # Nothing
  <2>1. Take(line.msg) /\ Honest(line.msg, next_id, answers)
    BY <1>4 DEF Read, Inv, WireInv
  <2> QED
    BY <1>1, <2>1, TakeFailures
<1>5. CASE p.part = "rest" /\ line = Nothing
  <2>1. Owed /\ Finish("protocol") /\ "protocol" \in Returns
    BY <1>1, <1>5 DEF Read, Owed, Returns, Errors
  <2> QED
    BY <2>1, FinishFailures
<1> QED
  BY <1>1, <1>2, <1>3, <1>4, <1>5

LEMMA EofFailures ==
  ASSUME Inv, Eof
  PROVE  Failures' \subseteq Failures \cup
           (IF line # Nothing THEN {next_id} ELSE {})
<1>1. /\ {"transport", "protocol"} \subseteq Returns
      /\ InRoundtrip
  BY DEF Eof, Waiting, Returns, Errors
<1>2. CASE line = Nothing
  BY <1>1, <1>2, FinishFailures DEF Eof
<1>3. CASE line # Nothing /\ line.ends = "rest"
  BY <1>1, <1>3, FinishFailures DEF Eof
<1>4. CASE line # Nothing /\ line.ends # "rest"
  <2>1. Take(line.msg) /\ Honest(line.msg, next_id, answers)
    BY <1>4 DEF Eof, Inv, WireInv
  <2> QED
    BY <1>1, <2>1, TakeFailures
<1> QED
  BY <1>2, <1>3, <1>4

LEMMA OtherFailures ==
  ASSUME Inv, [Next]_vars, ~ Read, ~ Eof
  PROVE  Failures' \subseteq Failures
<1>1. CASE \/ Answer \/ Ignore \/ FinishLine \/ Notify \/ Die \/ SendMessage
           \/ UNCHANGED vars
  <2>1. got' = got
    BY <1>1 DEF Answer, Ignore, FinishLine, Notify, Die, SendMessage, client, vars
  <2> QED
    BY <2>1, SameFailures
<1>2. CASE SendFails
  <2>1. \/ got' = got
        \/ Finish("transport") /\ "transport" \in Returns
    BY <1>2 DEF SendFails, Returns, Errors
  <2> QED
    BY <2>1, SameFailures, FinishFailures
<1>3. CASE Timeout
  <2>1. Finish("timeout") /\ "timeout" \in Returns
    BY <1>3 DEF Timeout, Returns, Errors
  <2> QED
    BY <2>1, FinishFailures
<1>4. CASE Call
  <2>1. Begun
    BY <1>4, BeginEffect DEF Call, Inv
  <2>2. DOMAIN got' = 1 .. next_id' /\ DOMAIN got = 1 .. next_id /\ next_id \in Nat
    BY <2>1, Lengths, LenProperties DEF Begun, Inv
  <2> QED
    BY <2>1, <2>2 DEF Failures, Begun
<1> QED
  BY <1>1, <1>2, <1>3, <1>4 DEF Next

----------------------------------------------------------------------------
(* The account                                                             *)

LEMMA Numbers ==
  ASSUME Inv
  PROVE  /\ Cardinality(Failures) \in Nat
         /\ Debt \in Nat /\ Credit \in Nat
  BY FailuresFinite DEF Debt, Credit, One, Inv, TypeInv, TypeOK

LEMMA CountStep ==
  ASSUME Inv, Framed, CountInv, [Next]_vars
  PROVE  Framed' /\ CountInv'
<1>1. CASE Read
  <2>1. /\ Framed' /\ ~ Owed' /\ (Dangling' <=> Dangling) /\ Credit' = Credit
    BY <1>1, ReadFramed
  <2>2. Cardinality(Failures') <= Cardinality(Failures) + One(Owed)
          /\ Cardinality(Failures') \in Nat
    <3>1. One(Owed) \in {0, 1} /\ (One(Owed) = 1 <=> Owed)
      BY DEF One
    <3>2. Failures' \subseteq Failures \cup (IF One(Owed) = 1 THEN {next_id} ELSE {})
      BY <1>1, <3>1, ReadFailures
    <3> QED
      BY <3>1, <3>2, FailuresCounted
  <2>3. Debt = One(Owed) + One(Dangling) /\ Debt' = One(Dangling)
          /\ One(Owed) \in Nat /\ One(Dangling) \in Nat
    BY <2>1 DEF Debt, One
  <2> QED
    BY <2>1, <2>2, <2>3, Numbers DEF CountInv
<1>2. CASE Eof
  <2>1. /\ Framed' /\ ~ Owed' /\ ~ Dangling' /\ Credit' = Credit
        /\ line # Nothing => Dangling
    BY <1>2, EofFramed
  <2>2. Cardinality(Failures') <= Cardinality(Failures) + One(Dangling)
          /\ Cardinality(Failures') \in Nat
    <3>1. One(Dangling) \in {0, 1} /\ (One(Dangling) = 1 <=> Dangling)
      BY DEF One
    <3>2. Failures' \subseteq
            Failures \cup (IF One(Dangling) = 1 THEN {next_id} ELSE {})
      BY <1>2, <2>1, <3>1, EofFailures
    <3> QED
      BY <3>1, <3>2, FailuresCounted
  <2>3. Debt = One(Owed) + One(Dangling) /\ Debt' = 0
          /\ One(Owed) \in Nat /\ One(Dangling) \in Nat
    BY <2>1 DEF Debt, One
  <2> QED
    BY <2>1, <2>2, <2>3, Numbers DEF CountInv
<1>3. CASE ~ Read /\ ~ Eof
  <2>1. Cardinality(Failures') <= Cardinality(Failures) + 0
          /\ Cardinality(Failures') \in Nat
    <3>1. Failures' \subseteq Failures \cup (IF 0 = 1 THEN {next_id} ELSE {})
      BY <1>3, OtherFailures
    <3> QED
      BY <3>1, FailuresCounted
  <2>2. Framed' /\ Debt' + Credit <= Debt + Credit'
    <3>1. CASE Answer
      <4>1. PICK says \in Sayable(Head(requests)) :
              Write([id |-> Head(requests), says |-> says])
        BY <3>1 DEF Answer
      <4>2. Head(requests) \in Nat \ {0}
        BY <3>1, HeadTailProperties DEF Answer, Inv, TypeInv, TypeOK
      <4>3. [id |-> Head(requests), says |-> says] \in Message
        BY <4>2 DEF Message, Sayable, Says, DualAware
      <4>4. alive /\ UNCHANGED <<alive, line, tears>>
        BY <3>1 DEF Answer, client
      <4> QED
        BY <4>1, <4>3, <4>4, WriteFramed, Numbers
    <3>2. CASE Notify
      BY <3>2, WriteFramed, Numbers DEF Notify, client, Message
    <3>3. CASE FinishLine
      BY <3>3, FinishLineFramed, Numbers
    <3>4. CASE Die
      <4>1. Framed' /\ Debt' <= Debt + 1 /\ Credit' = Credit + 1
        BY <3>4, DieFramed
      <4>2. Debt' \in Nat
        BY DEF Debt, One
      <4> QED
        BY <4>1, <4>2, Numbers
    <3>5. CASE Timeout
      BY <3>5, TimeoutFramed
    <3>6. CASE Ignore \/ SendMessage \/ SendFails \/ Call \/ UNCHANGED vars
      <4>1. UNCHANGED <<alive, partial, wire, line, tears>>
        BY <3>6 DEF Ignore, SendMessage, SendFails, Call, vars, server, client
      <4> QED
        BY <4>1, QuietFramed, Numbers
    <3> QED
      BY <1>3, <3>1, <3>2, <3>3, <3>4, <3>5, <3>6 DEF Next
  <2>3. Debt' \in Nat /\ Credit' \in Int
    <3>1. tears' \in Nat
      BY StepInv DEF Inv, TypeInv, TypeOK
    <3> QED
      BY <3>1 DEF Debt, Credit, One
  <2> QED
    BY <2>1, <2>2, <2>3, Numbers DEF CountInv
<1> QED
  BY <1>1, <1>2, <1>3

LEMMA CountInit == Init => Framed /\ CountInv
<1> SUFFICES ASSUME Init PROVE Framed /\ CountInv
  OBVIOUS
<1>1. /\ wire = << >> /\ line = Nothing /\ partial = Nothing
      /\ got = <<"waiting">> /\ alive = TRUE /\ tears = 0
  BY DEF Init
<1>2. Framed /\ ~ Owed /\ ~ Dangling
  BY <1>1 DEF Framed, Owed, Dangling
<1>3. Failures = {}
  BY <1>1 DEF Failures
<1> QED
  BY <1>1, <1>2, <1>3, FS_EmptySet DEF CountInv, Debt, Credit, One

\* The stream stays in frame, and every failure is paid for by a tear or by the
\* end of the server (mcp.rs:187-217).
THEOREM FramingInvariant == Spec => [](Framed /\ CountInv)
<1>1. Init => Framed /\ CountInv
  BY CountInit
<1>2. Inv /\ Framed /\ CountInv /\ [Next]_vars => Framed' /\ CountInv'
  BY CountStep
<1> QED
  BY <1>1, <1>2, ConnectionInvariant, PTL DEF Spec

\* A torn line costs one roundtrip at most, whatever comes late after it.
THEOREM TearsCostOneFailure == Spec => []OneFailurePerTear
<1>1. Inv /\ CountInv => OneFailurePerTear
  <2> SUFFICES ASSUME Inv, CountInv PROVE OneFailurePerTear
    OBVIOUS
  <2>1. Credit = tears + (IF alive THEN 0 ELSE 1)
    BY DEF Credit, One
  <2> QED
    BY <2>1, Numbers DEF CountInv, OneFailurePerTear, Failures
<1> QED
  BY <1>1, FramingInvariant, ConnectionInvariant, PTL

----------------------------------------------------------------------------
(* Why connect fails                                                       *)

Timeouts == {id \in DOMAIN got : got[id] = "timeout"}

\* Every tear is a timeout; what was said is sayable; a transport error is the
\* end of the server; and connect fails for what became of initialize.
ReasonInv ==
  /\ InRoundtrip => got[next_id] = "waiting"
  /\ tears <= Cardinality(Timeouts)
  /\ \A id \in DOMAIN answers : answers[id] \in Sayable(id) \cup {"none"}
  /\ \A id \in DOMAIN got : got[id] = "transport" => ~ alive
  /\ pc = "failed" /\ alive =>
       next_id = 2 /\ got[2] \in Returns \ {"legacy_version"}

LEMMA TimeoutsFinite ==
  ASSUME Inv
  PROVE  IsFiniteSet(Timeouts) /\ Cardinality(Timeouts) \in Nat
<1>1. Timeouts \subseteq 1 .. next_id /\ next_id \in Nat
  BY DEF Timeouts, Inv, TypeInv, TypeOK
<1>2. IsFiniteSet(1 .. next_id)
  BY <1>1, FS_Interval
<1> QED
  BY <1>1, <1>2, FS_Subset, FS_CardinalityType

\* What a returning roundtrip does to the parts of ReasonInv.
LEMMA ConcludeReason ==
  ASSUME Inv, ReasonInv, InRoundtrip, NEW outcome \in Returns, Finish(outcome),
         alive' = alive, outcome = "transport" => ~ alive,
         tears' = tears \/ (outcome = "timeout" /\ tears' = tears + 1)
  PROVE  ReasonInv'
<1>1. Returned(outcome) /\ Moves(outcome)
  BY FinishEffect DEF Inv
<1>2. /\ DOMAIN got = 1 .. next_id /\ DOMAIN got' = 1 .. next_id'
      /\ DOMAIN answers = 1 .. next_id /\ DOMAIN answers' = 1 .. next_id'
      /\ next_id \in Nat \ {0} /\ tears \in Nat
  BY <1>1, Lengths, LenProperties DEF Returned, Inv, TypeInv, TypeOK
<1>3. InRoundtrip' => got'[next_id'] = "waiting"
  BY <1>1, <1>2 DEF Returned, Moves, InRoundtrip
<1>4. tears' <= Cardinality(Timeouts')
  <2>1. got[next_id] = "waiting"
    BY DEF ReasonInv
  <2>2. Timeouts' = IF outcome = "timeout" THEN Timeouts \cup {next_id}
                    ELSE Timeouts
    BY <1>1, <1>2, <2>1 DEF Returned, Timeouts
  <2>3. next_id \notin Timeouts
    BY <2>1 DEF Timeouts
  <2>4. CASE outcome = "timeout"
    <3>1. Cardinality(Timeouts') = Cardinality(Timeouts) + 1
      BY <2>2, <2>3, <2>4, TimeoutsFinite, FS_AddElement
    <3> QED
      BY <1>2, <3>1, TimeoutsFinite DEF ReasonInv
  <2>5. CASE outcome # "timeout"
    BY <2>2, <2>5 DEF ReasonInv
  <2> QED
    BY <2>4, <2>5
<1>5. \A id \in DOMAIN answers' : answers'[id] \in Sayable(id) \cup {"none"}
  BY <1>1, <1>2 DEF Returned, ReasonInv
<1>6. \A id \in DOMAIN got' : got'[id] = "transport" => ~ alive'
  <2>1. \A id \in 1 .. next_id' :
          \/ id \in 1 .. next_id /\ id # next_id /\ got'[id] = got[id]
          \/ id = next_id /\ got'[id] = outcome
          \/ got'[id] = "waiting"
    BY <1>1, <1>2 DEF Returned
  <2> QED
    BY <1>2, <2>1 DEF ReasonInv
<1>7. pc' = "failed" /\ alive' =>
        next_id' = 2 /\ got'[2] \in Returns \ {"legacy_version"}
  <2> SUFFICES ASSUME pc' = "failed", alive'
               PROVE  next_id' = 2 /\ got'[2] \in Returns \ {"legacy_version"}
    OBVIOUS
  <2>1. pc # "probing" /\ next_id' = next_id /\ pc # "calling"
          /\ ~ (pc = "initializing" /\ outcome = "legacy_version")
    <3>1. pc # "probing" /\ next_id' = next_id
      BY <1>1 DEF Moves
    <3>2. pc' = IF pc = "calling" THEN "ready"
                ELSE IF pc = "initializing" /\ Negotiated(outcome)
                THEN "notifying" ELSE "failed"
      BY <3>1 DEF Finish
    <3> QED
      BY <3>1, <3>2 DEF Negotiated
  <2>2. pc = "initializing" /\ next_id = 2
    BY <2>1 DEF InRoundtrip, Inv, StageInv
  <2> QED
    BY <1>1, <2>1, <2>2 DEF Returned
<1> QED
  BY <1>3, <1>4, <1>5, <1>6, <1>7 DEF ReasonInv

\* Steps that touch neither the place nor the results of the connection.
LEMMA QuietReason ==
  ASSUME Inv, ReasonInv, UNCHANGED <<next_id, got, tears>>,
         \/ pc' = pc
         \/ pc = "notifying" /\ pc' = "ready"
         \/ pc = "notifying" /\ pc' = "failed" /\ ~ alive,
         alive' => alive,
         \A id \in DOMAIN answers' : answers'[id] \in Sayable(id) \cup {"none"}
  PROVE  ReasonInv'
<1>1. InRoundtrip' => InRoundtrip
  BY DEF InRoundtrip
<1>2. Timeouts' = Timeouts
  BY DEF Timeouts
<1> QED
  BY <1>1, <1>2 DEF ReasonInv

LEMMA ReasonStep ==
  ASSUME Inv, ReasonInv, [Next]_vars
  PROVE  ReasonInv'
<1>1. CASE Answer
  <2> PICK says \in Sayable(Head(requests)) :
        answers' = [answers EXCEPT ![Head(requests)] = says]
    BY <1>1 DEF Answer
  <2>1. \A id \in DOMAIN answers' : answers'[id] \in Sayable(id) \cup {"none"}
    BY DEF ReasonInv
  <2> QED
    BY <1>1, <2>1, QuietReason DEF Answer, client
<1>2. CASE \/ Ignore \/ FinishLine \/ Notify \/ Die \/ SendMessage
           \/ UNCHANGED vars
  <2>1. /\ UNCHANGED <<next_id, got, tears, answers>> /\ (alive' => alive)
        /\ pc' = pc \/ (pc = "notifying" /\ pc' = "ready")
    BY <1>2 DEF Ignore, FinishLine, Notify, Die, SendMessage, client, vars, server
  <2> QED
    BY <2>1, QuietReason DEF ReasonInv
<1>3. CASE SendFails
  <2>1. UNCHANGED server /\ UNCHANGED tears /\ ~ alive
          /\ pc \notin {"ready", "failed"}
    BY <1>3 DEF SendFails
  <2>2. CASE pc = "notifying"
    BY <1>3, <2>1, <2>2, QuietReason DEF SendFails, server, ReasonInv
  <2>3. CASE pc # "notifying"
    <3>1. Finish("transport") /\ "transport" \in Returns /\ InRoundtrip
      BY <1>3, <2>1, <2>3
      DEF SendFails, Returns, Errors, InRoundtrip, Inv, TypeInv, TypeOK, Stages
    <3> QED
      BY <2>1, <3>1, ConcludeReason DEF server
  <2> QED
    BY <2>2, <2>3
<1>4. CASE Read \/ Eof \/ Timeout
  <2>1. \/ UNCHANGED <<pc, next_id, answers, got, tears, alive>>
        \/ /\ InRoundtrip /\ alive' = alive
           /\ \E outcome \in Returns :
                /\ Finish(outcome)
                /\ outcome = "transport" => ~ alive
                /\ \/ tears' = tears
                   \/ outcome = "timeout" /\ tears' = tears + 1
    <3>1. \A m : Take(m) /\ Honest(m, next_id, answers) =>
            \/ UNCHANGED <<pc, next_id, answers, got>>
            \/ \E outcome \in Returns : Finish(outcome) /\ outcome # "transport"
      <4> SUFFICES ASSUME NEW m, Take(m), Honest(m, next_id, answers)
                   PROVE  \/ UNCHANGED <<pc, next_id, answers, got>>
                          \/ \E outcome \in Returns :
                               Finish(outcome) /\ outcome # "transport"
        OBVIOUS
      <4>1. CASE IsMine(m)
        <5>1. m.says \in Says /\ Finish(m.says)
          BY <4>1, Lengths DEF Take, IsMine, Honest, Inv
        <5> QED
          BY <5>1 DEF Returns, Says, DualAware
      <4>2. CASE ~ IsMine(m)
        BY <4>2 DEF Take, Skip
      <4> QED
        BY <4>1, <4>2
    <3>2. CASE Read
      <4>1. /\ InRoundtrip /\ UNCHANGED <<alive, tears>>
            /\ Head(wire) = wire[1] /\ 1 \in 1 .. Len(wire)
        BY <3>2, Kinds, HeadTailProperties DEF Read, Waiting
      <4>2. /\ Head(wire).part = "whole" =>
                 Honest(Head(wire).msg, next_id, answers)
            /\ line # Nothing => Honest(line.msg, next_id, answers)
        BY <4>1 DEF Inv, WireInv, AllHonest
      <4>3. \/ UNCHANGED <<pc, next_id, answers, got>>
            \/ Head(wire).part = "whole" /\ Take(Head(wire).msg)
            \/ line # Nothing /\ Take(line.msg)
            \/ Finish("protocol")
        BY <3>2 DEF Read
      <4>4. "protocol" \in Returns
        BY DEF Returns, Errors
      <4> QED
        BY <3>1, <4>1, <4>2, <4>3, <4>4
    <3>3. CASE Eof
      <4>1. /\ InRoundtrip /\ UNCHANGED <<alive, tears>> /\ ~ alive
            /\ \/ Finish("transport") \/ Finish("protocol")
               \/ line # Nothing /\ Take(line.msg)
        BY <3>3 DEF Eof, Waiting, server
      <4>2. line # Nothing => Honest(line.msg, next_id, answers)
        BY DEF Inv, WireInv
      <4>3. "protocol" \in Returns /\ "transport" \in Returns
        BY DEF Returns, Errors
      <4> QED
        BY <3>1, <4>1, <4>2, <4>3
    <3>4. CASE Timeout
      <4>1. /\ InRoundtrip /\ alive' = alive /\ Finish("timeout")
            /\ tears' = tears \/ tears' = tears + 1
        BY <3>4 DEF Timeout, TimeoutElapses, Waiting, server, Inv, TypeInv, TypeOK
      <4>2. "timeout" \in Returns
        BY DEF Returns, Errors
      <4> QED
        BY <4>1, <4>2
    <3> QED
      BY <1>4, <3>2, <3>3, <3>4
  <2>2. CASE UNCHANGED <<pc, next_id, answers, got, tears, alive>>
    BY <2>2, QuietReason DEF ReasonInv
  <2> QED
    BY <2>1, <2>2, ConcludeReason
<1>5. CASE Call
  <2>1. Begun /\ pc' = "calling" /\ UNCHANGED <<alive, tears>>
    BY <1>5, BeginEffect DEF Call, Inv, server
  <2>2. /\ DOMAIN got = 1 .. next_id /\ DOMAIN got' = 1 .. next_id'
        /\ DOMAIN answers = 1 .. next_id /\ DOMAIN answers' = 1 .. next_id'
        /\ next_id \in Nat \ {0} /\ next_id' = next_id + 1
    BY <2>1, Lengths, LenProperties DEF Begun, Inv
  <2>3. Timeouts' = Timeouts
    BY <2>1, <2>2 DEF Begun, Timeouts
  <2>4. /\ \A id \in 1 .. next_id' :
             answers'[id] \in Sayable(id) \cup {"none"}
        /\ \A id \in 1 .. next_id' : got'[id] = "transport" => ~ alive
    <3>1. \A id \in 1 .. next_id' :
            \/ /\ id \in 1 .. next_id
               /\ got'[id] = got[id] /\ answers'[id] = answers[id]
            \/ got'[id] = "waiting" /\ answers'[id] = "none"
      BY <2>1, <2>2 DEF Begun
    <3> QED
      BY <2>2, <3>1 DEF ReasonInv
  <2> QED
    BY <2>1, <2>2, <2>3, <2>4 DEF ReasonInv, Begun
<1> QED
  BY <1>1, <1>2, <1>3, <1>4, <1>5 DEF Next

LEMMA ReasonInit == Init => ReasonInv
<1> SUFFICES ASSUME Init PROVE ReasonInv
  OBVIOUS
<1>1. /\ got = <<"waiting">> /\ answers = <<"none">> /\ tears = 0
      /\ next_id = 1 /\ pc = "probing"
  BY DEF Init
<1>2. Timeouts = {}
  BY <1>1 DEF Timeouts
<1> QED
  BY <1>1, <1>2, FS_EmptySet DEF ReasonInv

\* A failed connect has a reason that the history shows (mcp.rs:106-157).
THEOREM ReasonInvariant == Spec => []ReasonInv
<1>1. Inv /\ ReasonInv /\ [Next]_vars => ReasonInv'
  BY ReasonStep
<1> QED
  BY <1>1, ReasonInit, ConnectionInvariant, PTL DEF Spec

\* Whatever becomes of the probe, connect fails only for what became of
\* initialize, a dead server, or a tear in the probe's answer (mcp.rs:106-157).
THEOREM ConnectFailsWithReason == Spec => []ConnectFailsForAReason
<1>1. Inv /\ CountInv /\ ReasonInv => ConnectFailsForAReason
  <2> SUFFICES ASSUME Inv, CountInv, ReasonInv, pc = "failed", alive
        PROVE  \/ /\ next_id = 2
                  /\ got[2] \in (Sayable(2) \ {"legacy_version"}) \cup {"timeout"}
               \/ /\ next_id = 2 /\ got[2] = "protocol" /\ got[1] = "timeout"
                  /\ tears = 1
    BY DEF ConnectFailsForAReason
  <2>1. next_id = 2 /\ got[2] \in Returns \ {"legacy_version"}
    BY DEF ReasonInv
  <2>2. DOMAIN got = {1, 2} /\ DOMAIN answers = {1, 2} /\ tears \in Nat
    BY <2>1 DEF Inv, TypeInv, TypeOK
  <2>3. got[2] # "transport"
    BY <2>2 DEF ReasonInv
  <2>4. CASE got[2] \in Says
    <3>1. got[2] = answers[2] /\ answers[2] # "none"
      BY <2>1, <2>4 DEF Inv, AnswersInv, Says, DualAware
    <3>2. answers[2] \in Sayable(2) \cup {"none"}
      BY <2>2 DEF ReasonInv
    <3> QED
      BY <2>1, <3>1, <3>2
  <2>5. CASE got[2] = "timeout"
    BY <2>1, <2>5
  <2>6. CASE got[2] = "protocol"
    <3>1. Cardinality({2}) = 1 /\ Cardinality({1}) = 1 /\ IsFiniteSet({1})
            /\ Cardinality({}) = 0
      BY FS_Singleton, FS_EmptySet
    <3>2. Cardinality({2}) <= Cardinality(Failures)
      <4>1. {2} \subseteq Failures
        BY <2>2, <2>6 DEF Failures
      <4> QED
        BY <4>1, FailuresFinite, FS_Subset
    <3>3. Credit = tears /\ Debt \in Nat
      BY <2>2 DEF Credit, Debt, One
    <3>4. tears >= 1
      BY <2>2, <3>1, <3>2, <3>3, FailuresFinite DEF CountInv
    <3>5. Timeouts \subseteq {1}
      BY <2>2, <2>6 DEF Timeouts
    <3>6. Cardinality(Timeouts) <= 1 /\ Cardinality(Timeouts) \in Nat
      BY <3>1, <3>5, TimeoutsFinite, FS_Subset
    <3>7. tears = 1 /\ Cardinality(Timeouts) = 1
      BY <2>2, <3>4, <3>6 DEF ReasonInv
    <3>8. 1 \in Timeouts
      <4>1. Timeouts # {}
        BY <3>1, <3>7
      <4> QED
        BY <3>5, <4>1
    <3> QED
      BY <2>1, <2>6, <3>7, <3>8 DEF Timeouts
  <2> QED
    BY <2>1, <2>3, <2>4, <2>5, <2>6 DEF Returns, Errors
<1> QED
  BY <1>1, ConnectionInvariant, FramingInvariant, ReasonInvariant, PTL
============================================================================

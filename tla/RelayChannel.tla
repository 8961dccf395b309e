---------------------------- MODULE RelayChannel ----------------------------
(***************************************************************************)
(* RelayChannel of gooseclaw-channels (nostr_relay.rs) between its caller  *)
(* and a relay transport: draining inbound messages through the allowlist, *)
(* the sanitizer and moderation, and sending approved texts in chunks.     *)
(*                                                                         *)
(* The transport is the trait's other side.  It may refuse a chunk, lose   *)
(* its signer between two chunks, or report a failure after the chunk went *)
(* out; what it accepts arrives in the order it was given.  The recipient  *)
(* puts chunks together by their index and total: it starts anew at index  *)
(* 0 and keeps a text when its last index has come.                        *)
(***************************************************************************)
EXTENDS ChannelText, FiniteSets

CONSTANTS
  Senders, Allowed,
  InboundTexts,     \* what senders write
  OutboundTexts,    \* what the operator approves for sending
  NOSTR_DM_LIMIT,
  MaxInbound,       \* bound: messages that arrive
  MaxSends          \* bound: calls of queue_approved

ASSUME SendersAssumption == Allowed \subseteq Senders

ASSUME TextsAssumption ==
  InboundTexts \subseteq Seq(Chars) /\ OutboundTexts \subseteq Seq(Chars)

ASSUME LimitAssumption == NOSTR_DM_LIMIT \in Nat \ {0}

VARIABLES
  (* inbound *)
  inbound,      \* events the transport has collected since the last drain
  report,       \* what drain has reported, all drains together
  drained,      \* history: the messages drained
  (* outbound *)
  sending,      \* the chunks of the call in progress still to be sent
  outbox,
  outcomes,     \* history: <<text, outcome>> of each call, in order
  (* the recipient *)
  assembling,   \* the chunks of the text it is putting together
  received      \* the texts it has put together

inboundVars == <<inbound, report, drained>>
outboundVars == <<sending, outbox, outcomes, assembling, received>>
vars == <<inboundVars, outboundVars>>

InboundMessage == [sender : Senders, text : InboundTexts]

Chunk == [text : Seq(Chars), index : Nat, total : Nat]

\* "Failed" is whichever RelayError the transport returned, passed on.
Outcomes == {"Sent", "Failed", "Oversized"}

TypeOK ==
  /\ inbound \in Seq(InboundMessage) /\ drained \in Seq(InboundMessage)
  /\ report \in [admitted : Seq([sender : Allowed, text : Seq(Chars)]),
                 quarantined : Seq([sender : Allowed, text : Seq(Chars),
                                    reason : Reasons]),
                 unknown_senders_dropped : Nat]
  /\ sending \in Seq(Chunk) /\ outbox \in Seq(Chunk)
  /\ assembling \in Seq(Chunk)
  /\ received \in Seq(Seq(Chars))
  /\ outcomes \in Seq(OutboundTexts \X (Outcomes \cup {"pending"}))

Init ==
  /\ inbound = << >> /\ drained = << >>
  /\ report = [admitted |-> << >>, quarantined |-> << >>,
               unknown_senders_dropped |-> 0]
  /\ sending = << >> /\ outbox = << >> /\ outcomes = << >>
  /\ assembling = << >> /\ received = << >>

\* No call of queue_approved is in progress.
Idle == \A i \in DOMAIN outcomes : outcomes[i][2] # "pending"

----------------------------------------------------------------------------
(* drain                                                                   *)

Arrive(msg) ==
  /\ Len(inbound) + Len(drained) < MaxInbound
  /\ inbound' = Append(inbound, msg)
  /\ UNCHANGED <<report, drained, outboundVars>>

VerdictOnRaw(msg) == moderate(msg.text)       \* faulty: moderated as received

VerdictOn(msg) == moderate(strip_invisible(msg.text))

NobodyRejected(msg) == FALSE                  \* faulty: allowlist not asked

Rejected(msg) == msg.sender \notin Allowed

QuarantineUnlisted(rep, msg, why) == rep      \* faulty: dropped silently

QuarantineListed(rep, msg, why) ==
  [rep EXCEPT !.quarantined =
     Append(@, [sender |-> msg.sender, text |-> strip_invisible(msg.text),
                reason |-> why])]

\* One turn of drain's loop: admit, then moderate.
Reported(rep, msg) ==
  IF Rejected(msg)
    THEN [rep EXCEPT !.unknown_senders_dropped = @ + 1]
  ELSE IF VerdictOn(msg) = "Admit"
    THEN [rep EXCEPT !.admitted =
            Append(@, [sender |-> msg.sender,
                       text |-> strip_invisible(msg.text)])]
  ELSE QuarantineListed(rep, msg, VerdictOn(msg))

Drain ==
  /\ Idle /\ inbound # << >>
  /\ report' = FoldLeft(Reported, report, inbound)
  /\ drained' = drained \o inbound
  /\ inbound' = << >>
  /\ UNCHANGED outboundVars

----------------------------------------------------------------------------
(* queue_approved                                                          *)

ChunksOf(t) ==
  LET texts == chunk_text(t, NOSTR_DM_LIMIT) IN
  [i \in DOMAIN texts |->
     [text |-> texts[i], index |-> i - 1, total |-> Len(texts)]]

Settle(outcome) ==
  outcomes' = [outcomes EXCEPT ![Len(outcomes)][2] = outcome]

\* The call begins: the size check, and the text cut into chunks.
QueueApproved(t) ==
  /\ Idle /\ Len(outcomes) < MaxSends
  /\ IF SizeOf(t) > MAX_MESSAGE_BYTES
       THEN /\ outcomes' = Append(outcomes, <<t, "Oversized">>)
            /\ UNCHANGED sending
       ELSE /\ outcomes' = Append(outcomes, <<t, "pending">>)
            /\ sending' = ChunksOf(t)
  /\ UNCHANGED <<inboundVars, outbox, assembling, received>>

\* The recipient gets a chunk.
Receive(c) ==
  LET next == IF c.index = 0 THEN <<c>>
              ELSE IF Len(assembling) = c.index THEN Append(assembling, c)
              ELSE << >>
  IN  IF next # << >> /\ Len(next) = c.total
        THEN /\ received' = Append(received,
                                   FlattenSeq([i \in DOMAIN next |-> next[i].text]))
             /\ assembling' = << >>
        ELSE assembling' = next /\ UNCHANGED received

\* send_chunk succeeds.
ChunkAccepted ==
  /\ ~ Idle /\ sending # << >>
  /\ Receive(Head(sending))
  /\ outbox' = Append(outbox, Head(sending))
  /\ sending' = Tail(sending)
  /\ UNCHANGED <<inboundVars, outcomes>>

SendOn == Tail(sending)                       \* faulty: error not returned

GiveUp == << >>

\* send_chunk fails; for the recipient the chunk may have arrived all the same.
ChunkFails ==
  /\ ~ Idle /\ sending # << >>
  /\ sending' = GiveUp
  /\ IF GiveUp = << >> THEN Settle("Failed") ELSE UNCHANGED outcomes
  /\ \/ Receive(Head(sending))
     \/ UNCHANGED <<assembling, received>>
  /\ UNCHANGED <<inboundVars, outbox>>

\* The loop is over.
AllSent ==
  /\ ~ Idle /\ sending = << >>
  /\ Settle("Sent")
  /\ UNCHANGED <<inboundVars, sending, outbox, assembling, received>>

Next ==
  \/ \E msg \in InboundMessage : Arrive(msg)
  \/ Drain
  \/ \E t \in OutboundTexts : QueueApproved(t)
  \/ ChunkAccepted \/ ChunkFails \/ AllSent

Spec == Init /\ [][Next]_vars

----------------------------------------------------------------------------
\* The messages that drain admits, and those it quarantines.
Admissible ==
  {d \in InboundMessage : d.sender \in Allowed
                     /\ moderate(strip_invisible(d.text)) = "Admit"}

Suspicious ==
  {d \in InboundMessage : d.sender \in Allowed
                     /\ moderate(strip_invisible(d.text)) \in Reasons}

\* Nothing is silently dropped (nostr_relay.rs:66-67): every drained message is in
\* the report once, those of each list in the order they came, and what is
\* admitted or quarantined is what its sender wrote, sanitized.
EverythingReported ==
  LET written(ds) == [i \in DOMAIN ds |-> <<ds[i].sender, strip_invisible(ds[i].text)>>]
      listed(rs) == [i \in DOMAIN rs |-> <<rs[i].sender, rs[i].text>>]
  IN  /\ listed(report.admitted) = written(Kept(drained, Admissible))
      /\ listed(report.quarantined) = written(Kept(drained, Suspicious))
      /\ Len(report.admitted) + Len(report.quarantined)
           + report.unknown_senders_dropped = Len(drained)

\* Whatever its sender hides between the letters, no admitted text shows its
\* reader, who sees no invisible code points, a pattern or a word that is a URL
\* of a foreign host.
AdmittedReadsClean ==
  \A i \in DOMAIN report.admitted :
    LET seen == Kept(report.admitted[i].text, Chars \ Invisible)
    IN ~ HasPattern(seen, TRIFECTA_PATTERNS \cup INJECTION_PATTERNS)
       /\ ~ has_url(seen)

\* Failures in mid-message, chunks that went out although they were reported
\* failed, and retries never make the recipient read a text nobody approved.
ReceivedWasApproved ==
  \A i \in DOMAIN received : \E j \in DOMAIN outcomes : outcomes[j][1] = received[i]

\* Sent means sent: the recipient has a copy of the text for every call that
\* returned Sent, in spite of attempts given up half-way in between.
SentIsReceived ==
  \A t \in OutboundTexts \ {<< >>} :
    Cardinality({i \in DOMAIN outcomes : outcomes[i] = <<t, "Sent">>})
      <= Cardinality({i \in DOMAIN received : received[i] = t})

\* No chunk handed to the transport exceeds the channel's limit in bytes, as
\* long as the limit has room for one code point.
ChunksFit ==
  NOSTR_DM_LIMIT >= 4 =>
    \A i \in DOMAIN outbox :
      outbox[i].text # << >> /\ SizeOf(outbox[i].text) <= NOSTR_DM_LIMIT
=============================================================================

---------------------------- MODULE VaultOutages ----------------------------
(***************************************************************************)
(* VaultClient with a history of its outages, which are the times when the *)
(* client is offline.  The history observes and restrains nothing: without *)
(* it a behaviour of OutageSpec is one of VaultClient.                     *)
(***************************************************************************)
EXTENDS VaultClient

VARIABLES
  away,     \* <<note, version>> of the human edits made during an outage
  owed      \* there was an outage, and no vault_write has been sent since

outageVars == <<vars, away, owed>>

OutageInit == Init /\ away = {} /\ owed = FALSE

\* The notes that were there and that this step is a human edit of.
JustEdited ==
  {p \in Paths :
     Len(log'[p]) > Len(log[p]) /\ Len(log[p]) > 0 /\ log'[p][Len(log'[p])] = Human}

OutageHistory ==
  /\ away' = IF offline THEN away \cup {<<p, Len(log'[p])>> : p \in JustEdited}
             ELSE away
  /\ owed' = (offline' \/ (owed /\ Len(sent') = Len(sent)))

OutageNext == Next /\ OutageHistory

OutageSpec == OutageInit /\ [][OutageNext]_outageVars

----------------------------------------------------------------------------
\* The first write after an outage is sent right after a read of its note
\* (client.rs:15-16, 258-262): the obligation survives reconnects, operations
\* on other notes and revalidations that fail.
RevalidatesFirst ==
  [][owed /\ Len(sent') > Len(sent) => sent'[Len(sent')].revalidated]_outageVars

\* client.rs:16-17: "if the human edited while we were away, that edit wins
\* (CONFLICT path)".  A write that is accepted replaces no edit made while the
\* client was offline that is newer than what its caller has seen.
HumanEditWins ==
  \A w \in DOMAIN sent :
    sent[w].outcome = "written" /\ sent[w].seen > 0 =>
      \A v \in sent[w].seen + 1 .. sent[w].expected :
        <<sent[w].path, v>> \notin away
=============================================================================

----------------------------- MODULE RankFusion -----------------------------
(***************************************************************************)
(* Reciprocal rank fusion (gooseclaw-knowledge/src/lib.rs): rrf_score and  *)
(* fuse as operators.                                                      *)
(*                                                                         *)
(* Data.  Scores are f64 in the code.  Here they are multiples of 1/Scale, *)
(* exact for every rank up to MaxRank; a document id is a number, whose    *)
(* order is that of the BTreeMap's strings.                                *)
(***************************************************************************)
EXTENDS Naturals, Sequences, FiniteSets, SequencesExt

CONSTANTS
  RRF_K,       \* 60 in the code
  MaxRank,     \* bound: ranks
  Scale        \* a common multiple of RRF_K + 1 .. RRF_K + MaxRank

ASSUME ScaleAssumption ==
  /\ RRF_K \in Nat /\ MaxRank \in Nat /\ Scale \in Nat \ {0}
  /\ \A r \in 1 .. MaxRank : Scale % (RRF_K + r) = 0

\* 1 / (k + rank) for one rank; 0 is not a rank.
ScoreWithoutK(rank) == IF rank = 0 THEN 0 ELSE Scale \div rank     \* faulty

rrf_score(rank) == IF rank = 0 THEN 0 ELSE Scale \div (RRF_K + rank)

ScoreOf(acc, d) == IF d \in DOMAIN acc THEN acc[d] ELSE 0

\* One step of the loop over both lists: an entry starts at 0 and is added to.
Overwrite(acc, e) ==                                               \* faulty
  [d \in DOMAIN acc \cup {e.doc_id} |->
     IF d = e.doc_id THEN rrf_score(e.rank) ELSE acc[d]]

Accumulate(acc, e) ==
  [d \in DOMAIN acc \cup {e.doc_id} |->
     IF d = e.doc_id THEN ScoreOf(acc, d) + rrf_score(e.rank) ELSE acc[d]]

\* sort_by is stable, and the map was iterated in the order of the ids.
Before(h1, h2) ==
  \/ h1.score > h2.score
  \/ h1.score = h2.score /\ h1.doc_id < h2.doc_id

\* The i-th of them has i - 1 before it.
Sorted(hits) ==
  [i \in 1 .. Cardinality(hits) |->
     CHOOSE h \in hits : Cardinality({g \in hits : Before(g, h)}) = i - 1]

Scores(fts_ranks, vec_ranks) ==
  FoldLeft(Accumulate, << >>, fts_ranks \o vec_ranks)

HitsOf(acc) == {[doc_id |-> d, score |-> acc[d]] : d \in DOMAIN acc}

fuse(fts_ranks, vec_ranks) == Sorted(HitsOf(Scores(fts_ranks, vec_ranks)))

----------------------------------------------------------------------------
DocsOf(list) == {list[i].doc_id : i \in DOMAIN list}

\* Full-text and vector candidates have equal weight: fuse gives the same hits
\* in the same order whichever list comes first.
FusionIsSymmetric(fts, vec) == fuse(fts, vec) = fuse(vec, fts)

\* A document both lists rank comes before every document that only one of
\* them ranks, however the ranks fall, as long as no list reaches rank
\* RRF_K + 2 (there the best of one list draws level with the last of both).
AgreementWins(fts, vec) ==
  /\ \A list \in {fts, vec} : \A i \in DOMAIN list : list[i].rank \in 1 .. RRF_K + 1
  => LET hits == fuse(fts, vec)
         both == DocsOf(fts) \cap DocsOf(vec)
     IN  \A i, j \in DOMAIN hits :
           hits[i].doc_id \in both /\ hits[j].doc_id \notin both => i < j
=============================================================================

-------------------------- MODULE Channels_proofs --------------------------
(***************************************************************************)
(* Theorems about RelayChannel, for every set of senders, every allowlist, *)
(* every text and every limit on the size of a chunk, and about            *)
(* PureFunctions, for every set of inputs of any size.  The two modules    *)
(* share the operators on texts of ChannelText.                            *)
(*                                                                         *)
(* chunk_text.  By induction over the text, the finished chunks followed   *)
(* by the current one are the text read so far, and every finished chunk   *)
(* has a code point and fits the limit.                                    *)
(*                                                                         *)
(* Sending.  OutboundInv is inductive.  It says more than the two          *)
(* properties about the recipient: while a call is in progress, what is    *)
(* still to be sent is the end of the chunks of its text and what the      *)
(* recipient is putting together is their beginning (Progress).  Without   *)
(* it a last chunk could complete any text.  Since a call gets its outcome *)
(* only after the last chunk arrived, CountInv counts a call as sent as    *)
(* soon as nothing is left to send.                                        *)
(*                                                                         *)
(* Receiving.  InboundInv is inductive: the report is the fold of drain's  *)
(* loop over all messages drained, and Accounts follows it message by      *)
(* message.                                                                *)
(*                                                                         *)
(* Pure functions.  A behaviour of PureFunctions chooses one input, so     *)
(* each of its properties is a lemma about one input: encodings and        *)
(* renderings are injective because their fields are delimited; a scan     *)
(* looks at the text with and without what hides a marker; the scores of   *)
(* the two lists of a fusion add up, by induction over the second, and the *)
(* sort ranks each hit by the number of hits before it.                    *)
(***************************************************************************)
EXTENDS RelayChannel, PureFunctions, SequenceFacts, FiniteSetTheorems

----------------------------------------------------------------------------
(* The folds of ChannelText                                                *)

\* The step of SizeOf, as a function.
SizeStep == [p \in Nat \X Chars |-> p[1] + Bytes[p[2]]]

\* SizeOf is a fold of that step.
LEMMA SizeOfIsFolded ==
  ASSUME NEW s \in Seq(Chars)
  PROVE  SizeOf(s) = Folded(SizeStep, 0, s)
<1> DEFINE St == SizeStep
           f == Iter(St, 0, s)
           h == CHOOSE h : h = [q \in SUBSET DOMAIN s |->
                  IF q = {} THEN 0 ELSE h[q \ {Max(q)}] + Bytes[s[Max(q)]]]
<1>1. SizeOf(s) = h[DOMAIN s]
  BY DEF SizeOf, FoldLeft, MapThenFoldSet
<1>2. IsStep(St, Nat, Chars)
  BY CharsAssumption DEF SizeStep, IsStep
<1> HIDE DEF St
<1>3. /\ TypedSteps(f, s, Nat, Chars)
      /\ Recurs(f, St, 0, s)
  BY <1>2, IterTyped
<1> HIDE DEF f
<1>4. f = [q \in SUBSET DOMAIN s |->
             IF q = {} THEN 0 ELSE f[q \ {Max(q)}] + Bytes[s[Max(q)]]]
  BY <1>3 DEF TypedSteps, Recurs, St, SizeStep
<1>5. h = [q \in SUBSET DOMAIN s |->
             IF q = {} THEN 0 ELSE h[q \ {Max(q)}] + Bytes[s[Max(q)]]]
  BY <1>4
<1> HIDE DEF h
<1>6. StepsAs(h, St, 0, s, Nat, Chars)
  BY <1>5 DEF StepsAs, St, SizeStep
<1>7. Evaluates(h, St, 0, s)
  BY <1>2, <1>6, FoldBridge, 0 \in Nat
<1> QED BY <1>1, <1>7 DEF St, Evaluates

\* The bytes of one code point more.
LEMMA SizeOfSteps ==
  /\ SizeOf(<< >>) = 0
  /\ \A s \in Seq(Chars) :
       /\ SizeOf(s) \in Nat
       /\ \A c \in Chars : SizeOf(Append(s, c)) = SizeOf(s) + Bytes[c]
<1>1. IsStep(SizeStep, Nat, Chars)
  BY CharsAssumption DEF SizeStep, IsStep
<1>2. /\ Folded(SizeStep, 0, << >>) = 0
      /\ \A s \in Seq(Chars) :
           /\ Folded(SizeStep, 0, s) \in Nat
           /\ \A c \in Chars : Folded(SizeStep, 0, Append(s, c))
                                 = SizeStep[<<Folded(SizeStep, 0, s), c>>]
  <2>1. FoldLaws(SizeStep, 0, Nat, Chars)
    BY <1>1, 0 \in Nat, FoldHasLaws
  <2> QED BY <2>1 DEF FoldLaws
<1>3. SizeOf(<< >>) = 0
  BY <1>2, SizeOfIsFolded, EmptySeq
<1>4. ASSUME NEW s \in Seq(Chars)
      PROVE  /\ SizeOf(s) \in Nat
             /\ \A c \in Chars : SizeOf(Append(s, c)) = SizeOf(s) + Bytes[c]
  <2>1. SizeOf(s) \in Nat
    BY <1>2, SizeOfIsFolded
  <2>2. ASSUME NEW c \in Chars
        PROVE  SizeOf(Append(s, c)) = SizeOf(s) + Bytes[c]
    <3>1. Append(s, c) \in Seq(Chars)
      BY AppendProperties
    <3>2. SizeOf(Append(s, c)) = SizeStep[<<SizeOf(s), c>>]
      BY <1>2, <3>1, SizeOfIsFolded
    <3> QED BY <2>1, <3>2 DEF SizeStep
  <2> QED BY <2>1, <2>2
<1> QED BY <1>3, <1>4

\* The step of Kept, as a function.
KeptStep(E, T) ==
  [p \in Seq(E) \X E |-> IF p[2] \in T THEN Append(p[1], p[2]) ELSE p[1]]

\* Kept is a fold of that step.
LEMMA KeptIsFolded ==
  ASSUME NEW E, NEW T, NEW s \in Seq(E)
  PROVE  Kept(s, T) = Folded(KeptStep(E, T), << >>, s)
<1> DEFINE St == KeptStep(E, T)
           f == Iter(St, << >>, s)
           h == CHOOSE h : h = [q \in SUBSET DOMAIN s |->
                  IF q = {} THEN << >>
                  ELSE IF s[Max(q)] \in T THEN Append(h[q \ {Max(q)}], s[Max(q)])
                       ELSE h[q \ {Max(q)}]]
<1>1. Kept(s, T) = h[DOMAIN s]
  BY DEF Kept, FoldLeft, MapThenFoldSet
<1>2. IsStep(St, Seq(E), E)
  BY AppendProperties DEF KeptStep, IsStep
<1>3. << >> \in Seq(E)
  BY EmptySeq
<1> HIDE DEF St
<1>4. /\ TypedSteps(f, s, Seq(E), E)
      /\ Recurs(f, St, << >>, s)
  BY <1>2, <1>3, IterTyped
<1> HIDE DEF f
<1>5. f = [q \in SUBSET DOMAIN s |->
             IF q = {} THEN << >>
             ELSE IF s[Max(q)] \in T THEN Append(f[q \ {Max(q)}], s[Max(q)])
                  ELSE f[q \ {Max(q)}]]
  BY <1>4 DEF TypedSteps, Recurs, St, KeptStep
<1>6. h = [q \in SUBSET DOMAIN s |->
             IF q = {} THEN << >>
             ELSE IF s[Max(q)] \in T THEN Append(h[q \ {Max(q)}], s[Max(q)])
                  ELSE h[q \ {Max(q)}]]
  BY <1>5
<1> HIDE DEF h
<1>7. StepsAs(h, St, << >>, s, Seq(E), E)
  BY <1>6 DEF StepsAs, St, KeptStep
<1>8. Evaluates(h, St, << >>, s)
  BY <1>2, <1>3, <1>7, FoldBridge
<1> QED BY <1>1, <1>8 DEF St, Evaluates

\* Whether one element more is kept depends on that element alone.
LEMMA KeptSteps ==
  ASSUME NEW E, NEW T
  PROVE  /\ Kept(<< >>, T) = << >>
         /\ \A s \in Seq(E) :
              /\ Kept(s, T) \in Seq(E)
              /\ \A x \in E : Kept(Append(s, x), T) =
                   IF x \in T THEN Append(Kept(s, T), x) ELSE Kept(s, T)
<1> DEFINE St == KeptStep(E, T)
<1>1. IsStep(St, Seq(E), E) /\ << >> \in Seq(E)
  BY AppendProperties, EmptySeq DEF KeptStep, IsStep
<1> HIDE DEF St
<1>2. /\ Folded(St, << >>, << >>) = << >>
      /\ \A s \in Seq(E) :
           /\ Folded(St, << >>, s) \in Seq(E)
           /\ \A x \in E : Folded(St, << >>, Append(s, x))
                             = St[<<Folded(St, << >>, s), x>>]
  <2>1. FoldLaws(St, << >>, Seq(E), E)
    BY <1>1, FoldHasLaws
  <2> QED BY <2>1 DEF FoldLaws
<1>3. \A s \in Seq(E) : Kept(s, T) = Folded(St, << >>, s)
  BY KeptIsFolded DEF St
<1>4. Kept(<< >>, T) = << >>
  BY <1>1, <1>2, <1>3
<1>5. ASSUME NEW s \in Seq(E)
      PROVE  /\ Kept(s, T) \in Seq(E)
             /\ \A x \in E : Kept(Append(s, x), T) =
                   IF x \in T THEN Append(Kept(s, T), x) ELSE Kept(s, T)
  <2>1. Kept(s, T) \in Seq(E)
    BY <1>2, <1>3
  <2>2. ASSUME NEW x \in E
        PROVE  Kept(Append(s, x), T) =
                 IF x \in T THEN Append(Kept(s, T), x) ELSE Kept(s, T)
    <3>1. Append(s, x) \in Seq(E)
      BY AppendProperties
    <3>2. Kept(Append(s, x), T) = St[<<Kept(s, T), x>>]
      BY <1>2, <1>3, <3>1
    <3> QED BY <2>1, <3>2 DEF St, KeptStep
  <2> QED BY <2>1, <2>2
<1> QED BY <1>4, <1>5

----------------------------------------------------------------------------
(* chunk_text                                                              *)

\* What chunk_text keeps between two code points.
Chunking == [out : Seq(Seq(Chars)), cur : Seq(Chars)]

\* Before the first code point.
NoChunks == [out |-> << >>, cur |-> << >>]

\* The step of chunk_text, as a function, and its fold.
ChunkStep(limit) == [p \in Chunking \X Chars |-> Chunked(p[1], p[2], limit)]

\* One turn of the loop of chunk_text is typed.
LEMMA ChunkedTyped ==
  ASSUME NEW limit, NEW acc \in Chunking, NEW c \in Chars
  PROVE  Chunked(acc, c, limit) \in Chunking
<1>1. /\ acc.out \in Seq(Seq(Chars)) /\ acc.cur \in Seq(Chars)
      /\ acc = [out |-> acc.out, cur |-> acc.cur]
  BY DEF Chunking
<1>2. <<c>> \in Seq(Chars) /\ Append(acc.out, acc.cur) \in Seq(Seq(Chars))
      /\ Append(acc.cur, c) \in Seq(Chars)
  BY <1>1, AppendProperties
<1> QED BY <1>1, <1>2 DEF Chunked, Chunking

\* So its function is a step of folds.
LEMMA ChunkStepIsStep ==
  ASSUME NEW limit
  PROVE  /\ IsStep(ChunkStep(limit), Chunking, Chars)
         /\ NoChunks \in Chunking
  BY ChunkedTyped, EmptySeq DEF IsStep, ChunkStep, NoChunks, Chunking

\* What chunk_text has when it comes to the end of s.
ChunkFold(s, limit) == Folded(ChunkStep(limit), NoChunks, s)

\* chunk_text flushes that fold.
LEMMA ChunkTextIsFolded ==
  ASSUME NEW limit, NEW s \in Seq(Chars)
  PROVE  chunk_text(s, limit) = Flushed(ChunkFold(s, limit))
<1> DEFINE St == ChunkStep(limit)
           f == Iter(St, NoChunks, s)
           h == CHOOSE h : h = [q \in SUBSET DOMAIN s |->
                  IF q = {} THEN [out |-> << >>, cur |-> << >>]
                  ELSE Chunked(h[q \ {Max(q)}], s[Max(q)], limit)]
<1>1. chunk_text(s, limit) = Flushed(h[DOMAIN s])
  BY DEF chunk_text, FoldLeft, MapThenFoldSet
<1>2. IsStep(St, Chunking, Chars) /\ NoChunks \in Chunking
  BY ChunkStepIsStep
<1> HIDE DEF St
<1>3. TypedSteps(f, s, Chunking, Chars) /\ Recurs(f, St, NoChunks, s)
  BY <1>2, IterTyped
<1> HIDE DEF f
<1>4. f = [q \in SUBSET DOMAIN s |->
             IF q = {} THEN [out |-> << >>, cur |-> << >>]
             ELSE Chunked(f[q \ {Max(q)}], s[Max(q)], limit)]
  BY <1>3 DEF TypedSteps, Recurs, St, ChunkStep, NoChunks
<1>5. h = [q \in SUBSET DOMAIN s |->
             IF q = {} THEN [out |-> << >>, cur |-> << >>]
             ELSE Chunked(h[q \ {Max(q)}], s[Max(q)], limit)]
  BY <1>4
<1> HIDE DEF h
<1>6. StepsAs(h, St, NoChunks, s, Chunking, Chars)
  BY <1>5 DEF StepsAs, St, ChunkStep, NoChunks
<1>7. Evaluates(h, St, NoChunks, s)
  BY <1>2, <1>6, FoldBridge
<1> QED BY <1>1, <1>7 DEF St, Evaluates, ChunkFold

\* One code point more is one turn more.
LEMMA ChunkFoldSteps ==
  ASSUME NEW limit
  PROVE  /\ ChunkFold(<< >>, limit) = NoChunks
         /\ \A s \in Seq(Chars) :
              /\ ChunkFold(s, limit) \in Chunking
              /\ \A c \in Chars : ChunkFold(Append(s, c), limit)
                                    = Chunked(ChunkFold(s, limit), c, limit)
<1>1. FoldLaws(ChunkStep(limit), NoChunks, Chunking, Chars)
  BY ChunkStepIsStep, FoldHasLaws
<1> QED BY <1>1 DEF FoldLaws, ChunkFold, ChunkStep

\* A chunk that the transport takes.
Fits(t, limit) == t # << >> /\ SizeOf(t) <= limit

\* The finished chunks and the current one make up the text read so far.
Whole(s, a) == FlattenSeq(a.out) \o a.cur = s

\* Every finished chunk fits, and so does the current one unless it is empty.
AllFit(a, limit) ==
  limit >= 4 =>
    /\ SizeOf(a.cur) <= limit
    /\ \A i \in 1 .. Len(a.out) : Fits(a.out[i], limit)

\* One code point takes at most four bytes.
LEMMA SizeOfOne ==
  ASSUME NEW c \in Chars
  PROVE  /\ <<c>> \in Seq(Chars) /\ <<c>> # << >>
         /\ <<c>> = Append(<< >>, c)
         /\ SizeOf(<<c>>) = Bytes[c] /\ Bytes[c] \in 1 .. 4
<1>1. << >> \in Seq(Chars) /\ <<c>> \in Seq(Chars) /\ <<c>> = Append(<< >>, c) /\ <<c>> # << >>
  BY EmptySeq
<1>2. SizeOf(Append(<< >>, c)) = 0 + Bytes[c]
  BY <1>1, SizeOfSteps
<1>3. Bytes[c] \in 1 .. 4
  BY CharsAssumption
<1> QED BY <1>1, <1>2, <1>3

\* A turn of the loop keeps both facts.
LEMMA ChunkedKeeps ==
  ASSUME NEW limit \in Nat, NEW s \in Seq(Chars), NEW c \in Chars,
         NEW a \in Chunking, Whole(s, a), AllFit(a, limit)
  PROVE  LET b == Chunked(a, c, limit) IN
         /\ Whole(Append(s, c), b)
         /\ AllFit(b, limit)
         /\ b.cur # << >>
<1> DEFINE b == Chunked(a, c, limit)
<1>1. /\ a.out \in Seq(Seq(Chars)) /\ a.cur \in Seq(Chars)
      /\ a = [out |-> a.out, cur |-> a.cur]
  BY DEF Chunking
<1>2. /\ <<c>> \in Seq(Chars) /\ <<c>> # << >>
      /\ SizeOf(<<c>>) = Bytes[c] /\ Bytes[c] \in 1 .. 4
  BY SizeOfOne
<1>3. FlattenSeq(a.out) \in Seq(Chars)
  BY <1>1, FlattenSteps
<1>4. Append(s, c) = s \o <<c>>
  BY AppendIsConcat
<1>5. SizeOf(a.cur) \in Nat
  BY <1>1, SizeOfSteps
<1>6. CASE Overflows(a.cur, c, limit)
  <2>1. b.out = Append(a.out, a.cur) /\ b.cur = <<c>>
    BY <1>6 DEF Chunked
  <2> HIDE DEF b
  <2>2. FlattenSeq(b.out) = FlattenSeq(a.out) \o a.cur
    BY <1>1, <2>1, FlattenSteps
  <2>3. Whole(Append(s, c), b)
    BY <1>4, <2>1, <2>2 DEF Whole
  <2>4. ASSUME limit >= 4 PROVE Fits(a.cur, limit)
    <3>1. SizeOf(a.cur) + Bytes[c] > limit
      BY <1>6 DEF Overflows
    <3>2. SizeOf(a.cur) # 0
      BY <1>2, <1>5, <2>4, <3>1
    <3>3. a.cur # << >>
      BY <3>2, SizeOfSteps
    <3> QED BY <2>4, <3>3 DEF Fits, AllFit
  <2>5. AllFit(b, limit)
    <3> SUFFICES ASSUME limit >= 4
                 PROVE  /\ SizeOf(b.cur) <= limit
                        /\ \A i \in 1 .. Len(b.out) : Fits(b.out[i], limit)
      BY DEF AllFit
    <3>1. SizeOf(b.cur) <= limit
      BY <1>2, <2>1
    <3>2. /\ Len(b.out) = Len(a.out) + 1 /\ Len(a.out) \in Nat
          /\ \A i \in 1 .. Len(a.out) : b.out[i] = a.out[i]
          /\ b.out[Len(a.out) + 1] = a.cur
      BY <1>1, <2>1, AppendProperties, LenProperties
    <3>3. ASSUME NEW i \in 1 .. Len(b.out) PROVE Fits(b.out[i], limit)
      <4>1. CASE i = Len(a.out) + 1
        BY <2>4, <3>2, <4>1
      <4>2. CASE i # Len(a.out) + 1
        <5>1. i \in 1 .. Len(a.out)
          BY <3>2, <4>2
        <5> QED BY <3>2, <5>1 DEF AllFit
      <4> QED BY <4>1, <4>2
    <3> QED BY <3>1, <3>3
  <2>6. b.cur # << >>
    BY <1>2, <2>1
  <2> QED BY <2>3, <2>5, <2>6 DEF b
<1>7. CASE ~ Overflows(a.cur, c, limit)
  <2>1. b.out = a.out /\ b.cur = Append(a.cur, c)
    BY <1>1, <1>7 DEF Chunked
  <2> HIDE DEF b
  <2>2. b.cur = a.cur \o <<c>> /\ b.cur # << >>
    BY <1>1, <2>1, AppendIsConcat, AppendProperties
  <2>3. FlattenSeq(a.out) \o (a.cur \o <<c>>)
          = (FlattenSeq(a.out) \o a.cur) \o <<c>>
    BY <1>1, <1>2, <1>3, ConcatAssociative
  <2>4. Whole(Append(s, c), b)
    BY <1>4, <2>1, <2>2, <2>3 DEF Whole
  <2>5. SizeOf(b.cur) <= limit
    <3>1. SizeOf(b.cur) = SizeOf(a.cur) + Bytes[c]
      BY <1>1, <2>1, SizeOfSteps
    <3>2. ~ (SizeOf(a.cur) + Bytes[c] > limit)
      BY <1>7 DEF Overflows
    <3> QED BY <1>2, <1>5, <3>1, <3>2
  <2>6. AllFit(b, limit)
    BY <2>1, <2>5 DEF AllFit
  <2> QED BY <2>2, <2>4, <2>6 DEF b
<1> QED BY <1>6, <1>7

\* They hold of every text, by induction over it.
LEMMA ChunkFoldKeeps ==
  ASSUME NEW limit \in Nat
  PROVE  \A s \in Seq(Chars) :
           LET a == ChunkFold(s, limit) IN
           /\ a \in Chunking /\ Whole(s, a) /\ AllFit(a, limit)
           /\ s # << >> => a.cur # << >>
           /\ s = << >> => a = NoChunks
<1> DEFINE Good(s, a) == /\ a \in Chunking /\ Whole(s, a) /\ AllFit(a, limit)
                         /\ s # << >> => a.cur # << >>
                         /\ s = << >> => a = NoChunks
           L == {s \in Seq(Chars) : Good(s, ChunkFold(s, limit))}
<1>1. << >> \in L
  <2>1. << >> \in Seq(Chars) /\ ChunkFold(<< >>, limit) = NoChunks
    BY ChunkFoldSteps, EmptySeq
  <2>2. /\ NoChunks \in Chunking
        /\ NoChunks.out = << >> /\ NoChunks.cur = << >>
    BY ChunkStepIsStep DEF NoChunks
  <2>3. Whole(<< >>, NoChunks)
    BY <2>1, <2>2, FlattenSteps, ConcatEmptySeq DEF Whole
  <2>4. AllFit(NoChunks, limit)
    BY <2>2, SizeOfSteps, EmptySeq DEF AllFit
  <2> QED BY <2>1, <2>2, <2>3, <2>4
<1>2. \A s \in Seq(Chars) : s \in L => \A c \in Chars : Append(s, c) \in L
  <2> SUFFICES ASSUME NEW s \in Seq(Chars), s \in L, NEW c \in Chars
               PROVE  Append(s, c) \in L
    OBVIOUS
  <2> DEFINE a == ChunkFold(s, limit)
             t == Append(s, c)
             b == ChunkFold(t, limit)
  <2>1. t \in Seq(Chars) /\ t # << >>
    BY AppendProperties
  <2>2. b = Chunked(a, c, limit) /\ b \in Chunking
    BY <2>1, ChunkFoldSteps
  <2>3. a \in Chunking /\ Whole(s, a) /\ AllFit(a, limit)
    OBVIOUS
  <2> HIDE DEF a, b
  <2>4. Whole(t, b) /\ AllFit(b, limit) /\ b.cur # << >>
    BY <2>2, <2>3, ChunkedKeeps
  <2> QED BY <2>1, <2>2, <2>4 DEF b
<1> HIDE DEF L
<1>3. Seq(Chars) \subseteq L
  BY <1>1, <1>2, InductionOnSeq
<1> QED BY <1>3 DEF L

\* chunk_text gives a sequence of texts.
LEMMA ChunkTextTyped ==
  ASSUME NEW limit \in Nat, NEW s \in Seq(Chars)
  PROVE  /\ chunk_text(s, limit) \in Seq(Seq(Chars))
         /\ s = << >> <=> chunk_text(s, limit) = << >>
<1> DEFINE a == ChunkFold(s, limit)
<1>1. /\ a \in Chunking
      /\ s # << >> => a.cur # << >>
      /\ s = << >> => a = NoChunks
  BY ChunkFoldKeeps
<1>2. chunk_text(s, limit) = Flushed(a)
  BY ChunkTextIsFolded
<1> HIDE DEF a
<1>3. a.out \in Seq(Seq(Chars)) /\ a.cur \in Seq(Chars)
  BY <1>1 DEF Chunking
<1>4. Append(a.out, a.cur) \in Seq(Seq(Chars)) /\ Append(a.out, a.cur) # << >>
  BY <1>3, AppendProperties
<1>5. s = << >> => Flushed(a) = << >>
  BY <1>1 DEF Flushed, NoChunks
<1> QED BY <1>1, <1>2, <1>3, <1>4, <1>5 DEF Flushed

\* Cutting loses nothing, adds nothing and changes no order: the chunks of
\* chunk_text (moderation.rs) put together are the text, whatever the limit.
THEOREM ChunksMakeText ==
  ASSUME NEW limit \in Nat, NEW s \in Seq(Chars)
  PROVE  FlattenSeq(chunk_text(s, limit)) = s
<1> DEFINE a == ChunkFold(s, limit)
<1>1. a \in Chunking /\ Whole(s, a)
  BY ChunkFoldKeeps
<1>2. chunk_text(s, limit) = Flushed(a)
  BY ChunkTextIsFolded
<1> HIDE DEF a
<1>3. a.out \in Seq(Seq(Chars)) /\ a.cur \in Seq(Chars)
  BY <1>1 DEF Chunking
<1>4. CASE a.cur = << >>
  <2>1. FlattenSeq(a.out) \in Seq(Chars)
    BY <1>3, FlattenSteps
  <2> QED BY <1>1, <1>2, <1>4, <2>1, ConcatEmptySeq DEF Flushed, Whole
<1>5. CASE a.cur # << >>
  BY <1>1, <1>2, <1>3, <1>5, FlattenSteps DEF Flushed, Whole
<1> QED BY <1>4, <1>5

\* With room for one code point, no chunk of chunk_text is empty and none has
\* more bytes than the limit.
THEOREM ChunksFitLimit ==
  ASSUME NEW limit \in Nat, limit >= 4, NEW s \in Seq(Chars)
  PROVE  \A i \in 1 .. Len(chunk_text(s, limit)) :
           Fits(chunk_text(s, limit)[i], limit)
<1> DEFINE a == ChunkFold(s, limit)
           ts == chunk_text(s, limit)
<1>1. a \in Chunking /\ AllFit(a, limit)
  BY ChunkFoldKeeps
<1>2. ts = Flushed(a)
  BY ChunkTextIsFolded
<1> HIDE DEF a, ts
<1>3. a.out \in Seq(Seq(Chars)) /\ a.cur \in Seq(Chars)
  BY <1>1 DEF Chunking
<1>4. CASE a.cur = << >>
  BY <1>1, <1>2, <1>4 DEF Flushed, AllFit, ts
<1>5. CASE a.cur # << >>
  <2>1. /\ Len(ts) = Len(a.out) + 1 /\ Len(a.out) \in Nat
        /\ \A i \in 1 .. Len(a.out) : ts[i] = a.out[i]
        /\ ts[Len(a.out) + 1] = a.cur
    BY <1>2, <1>3, <1>5, AppendProperties, LenProperties DEF Flushed
  <2>2. Fits(a.cur, limit)
    BY <1>1, <1>5 DEF Fits, AllFit
  <2>3. ASSUME NEW i \in 1 .. Len(ts) PROVE Fits(ts[i], limit)
    <3>1. CASE i = Len(a.out) + 1
      BY <2>1, <2>2, <3>1
    <3>2. CASE i # Len(a.out) + 1
      <4>1. i \in 1 .. Len(a.out)
        BY <2>1, <3>2
      <4> QED BY <1>1, <2>1, <4>1 DEF AllFit
    <3> QED BY <3>1, <3>2
  <2> QED BY <2>3 DEF ts
<1> QED BY <1>4, <1>5

\* The numbered chunks of a text: their number, their indices and what they say.
LEMMA ChunksOfText ==
  ASSUME NEW t \in Seq(Chars)
  PROVE  LET cs == ChunksOf(t)
             n == Len(cs)
         IN  /\ cs \in Seq(Chunk) /\ n \in Nat
             /\ \A i \in 1 .. n : cs[i].index = i - 1 /\ cs[i].total = n
             /\ t # << >> => n # 0
             /\ FlattenSeq([i \in 1 .. n |-> cs[i].text]) = t
             /\ NOSTR_DM_LIMIT >= 4 =>
                  \A i \in 1 .. n : Fits(cs[i].text, NOSTR_DM_LIMIT)
<1> DEFINE ts == chunk_text(t, NOSTR_DM_LIMIT)
           cs == ChunksOf(t)
<1>0. NOSTR_DM_LIMIT \in Nat
  BY LimitAssumption
<1>1. /\ ts \in Seq(Seq(Chars)) /\ Len(ts) \in Nat /\ DOMAIN ts = 1 .. Len(ts)
      /\ \A i \in 1 .. Len(ts) : ts[i] \in Seq(Chars)
  BY <1>0, ChunkTextTyped, LenProperties
<1>2. cs = [i \in 1 .. Len(ts) |->
              [text |-> ts[i], index |-> i - 1, total |-> Len(ts)]]
  BY <1>1 DEF ChunksOf
<1>3. FlattenSeq(ts) = t
  BY <1>0, ChunksMakeText
<1>4. t # << >> => Len(ts) # 0
  BY <1>0, <1>1, ChunkTextTyped, EmptySeq
<1>5. NOSTR_DM_LIMIT >= 4 =>
        \A i \in 1 .. Len(ts) : Fits(ts[i], NOSTR_DM_LIMIT)
  BY <1>0, ChunksFitLimit
<1> HIDE DEF ts, cs
<1>6. \A i \in 1 .. Len(ts) :
        [text |-> ts[i], index |-> i - 1, total |-> Len(ts)] \in Chunk
  BY <1>1 DEF Chunk
<1>7. cs \in Seq(Chunk) /\ Len(cs) = Len(ts)
  BY <1>1, <1>2, <1>6
<1>8. \A i \in 1 .. Len(ts) :
        cs[i].text = ts[i] /\ cs[i].index = i - 1 /\ cs[i].total = Len(ts)
  BY <1>2
<1>9. [i \in 1 .. Len(cs) |-> cs[i].text] = ts
  BY <1>1, <1>7, <1>8
<1> QED BY <1>1, <1>3, <1>4, <1>5, <1>7, <1>8, <1>9 DEF cs

----------------------------------------------------------------------------
(* Counting, and the recipient                                             *)

\* How many elements of s are x.
Copies(s, x) == Cardinality({i \in DOMAIN s : s[i] = x})

\* Copies is a number.
LEMMA CopiesTyped ==
  ASSUME NEW E, NEW s \in Seq(E), NEW x
  PROVE  /\ IsFiniteSet({i \in DOMAIN s : s[i] = x})
         /\ Copies(s, x) \in Nat
<1>1. Len(s) \in Nat /\ DOMAIN s = 1 .. Len(s)
  BY LenProperties
<1>2. IsFiniteSet(1 .. Len(s))
  BY <1>1, FS_Interval
<1>3. {i \in DOMAIN s : s[i] = x} \in SUBSET (1 .. Len(s))
  BY <1>1
<1>4. IsFiniteSet({i \in DOMAIN s : s[i] = x})
  BY <1>2, <1>3, FS_Subset
<1> QED BY <1>4, FS_CardinalityType DEF Copies

\* One element more counts if it is x.
LEMMA CopiesOfAppend ==
  ASSUME NEW E, NEW s \in Seq(E), NEW e \in E, NEW x
  PROVE  Copies(Append(s, e), x) = Copies(s, x) + (IF e = x THEN 1 ELSE 0)
<1> DEFINE n == Len(s)
           t == Append(s, e)
           S == {i \in DOMAIN s : s[i] = x}
           T == {i \in DOMAIN t : t[i] = x}
<1>1. n \in Nat /\ DOMAIN s = 1 .. n
  BY LenProperties
<1>2. /\ t \in Seq(E) /\ DOMAIN t = 1 .. n + 1 /\ t[n + 1] = e
      /\ \A i \in 1 .. n : t[i] = s[i]
  BY AppendProperties, LenProperties
<1>3. IsFiniteSet(S) /\ Cardinality(S) \in Nat
  BY CopiesTyped, FS_CardinalityType
<1> HIDE DEF n
<1>4. n + 1 \notin S
  BY <1>1
<1>5. CASE e = x
  <2>1. T = S \cup {n + 1}
    <3> HIDE DEF t
    <3> QED BY <1>1, <1>2, <1>5
  <2>2. Cardinality(S \cup {n + 1}) = Cardinality(S) + 1
    <3> HIDE DEF S
    <3> QED BY <1>3, <1>4, FS_AddElement
  <2> QED BY <1>5, <2>1, <2>2 DEF Copies
<1>6. CASE e # x
  <2>1. T = S
    <3> HIDE DEF t
    <3> QED BY <1>1, <1>2, <1>6
  <2>2. Copies(t, x) = Copies(s, x) /\ Copies(s, x) \in Nat
    BY <1>3, <2>1 DEF Copies
  <2> HIDE DEF S, T
  <2> QED BY <1>6, <2>2
<1> QED BY <1>5, <1>6

\* t is s with e for its j-th element.
Replaces(t, s, j, e) ==
  /\ DOMAIN t = DOMAIN s /\ t[j] = e
  /\ \A i \in DOMAIN s \ {j} : t[i] = s[i]

\* Replacing an element takes one occurrence of it and adds one of the new.
LEMMA CopiesOfReplace ==
  ASSUME NEW E, NEW s \in Seq(E), NEW j \in DOMAIN s, NEW e \in E, NEW x,
         s[j] # x, NEW t, Replaces(t, s, j, e)
  PROVE  Copies(t, x) = Copies(s, x) + (IF e = x THEN 1 ELSE 0)
<1> DEFINE S == {i \in DOMAIN s : s[i] = x}
           T == {i \in DOMAIN t : t[i] = x}
<1>1. DOMAIN t = DOMAIN s /\ t[j] = e /\ \A i \in DOMAIN s \ {j} : t[i] = s[i]
  BY DEF Replaces
<1>2. IsFiniteSet(S) /\ Cardinality(S) \in Nat
  BY CopiesTyped, FS_CardinalityType
<1>3. j \notin S
  OBVIOUS
<1>4. CASE e = x
  <2>1. T = S \cup {j}
    BY <1>1, <1>4
  <2>2. Cardinality(S \cup {j}) = Cardinality(S) + 1
    <3> HIDE DEF S
    <3> QED BY <1>2, <1>3, FS_AddElement
  <2> QED BY <1>4, <2>1, <2>2 DEF Copies
<1>5. CASE e # x
  <2>1. T = S
    BY <1>1, <1>5
  <2>2. Copies(t, x) = Copies(s, x) /\ Copies(s, x) \in Nat
    BY <1>2, <2>1 DEF Copies
  <2> HIDE DEF S, T
  <2> QED BY <1>5, <2>2
<1> QED BY <1>4, <1>5

\* The first k + 1 elements are the first k and one more.
LEMMA FirstOnes ==
  ASSUME NEW E, NEW s \in Seq(E), NEW k \in 0 .. Len(s)
  PROVE  /\ SubSeq(s, 1, k) \in Seq(E) /\ Len(SubSeq(s, 1, k)) = k
         /\ \A i \in 1 .. k : SubSeq(s, 1, k)[i] = s[i]
<1>1. Len(s) \in Nat /\ \A i \in 1 .. Len(s) : s[i] \in E
  BY LenProperties
<1>2. \A i \in 1 .. k : s[i] \in E /\ 1 + i - 1 = i
  BY <1>1
<1>3. 1 \in Int /\ k \in Int /\ k \in Nat /\ k - 1 + 1 = k
  BY <1>1
<1>4. /\ SubSeq(s, 1, k) \in Seq(E)
      /\ Len(SubSeq(s, 1, k)) = IF 1 <= k THEN k - 1 + 1 ELSE 0
      /\ \A i \in 1 .. k - 1 + 1 : SubSeq(s, 1, k)[i] = s[1 + i - 1]
  BY <1>2, <1>3, SubSeqProperties
<1> QED BY <1>2, <1>3, <1>4

\* The recipient gets the chunk it is waiting for.
LEMMA ReceiveNext ==
  ASSUME NEW t \in Seq(Chars), NEW k \in Nat, k < Len(ChunksOf(t)),
         0 < k => assembling = SubSeq(ChunksOf(t), 1, k),
         Receive(ChunksOf(t)[k + 1])
  PROVE  IF k + 1 = Len(ChunksOf(t))
         THEN assembling' = << >> /\ received' = Append(received, t)
         ELSE /\ assembling' = SubSeq(ChunksOf(t), 1, k + 1)
              /\ received' = received
<1> DEFINE cs == ChunksOf(t)
           n == Len(cs)
           c == cs[k + 1]
           next == IF c.index = 0 THEN <<c>>
                   ELSE IF Len(assembling) = c.index THEN Append(assembling, c)
                   ELSE << >>
<1>1. /\ cs \in Seq(Chunk) /\ n \in Nat
      /\ \A i \in 1 .. n : cs[i].index = i - 1 /\ cs[i].total = n
      /\ FlattenSeq([i \in 1 .. n |-> cs[i].text]) = t
  BY ChunksOfText
<1>2. IF next # << >> /\ Len(next) = c.total
      THEN /\ received' = Append(received,
                                 FlattenSeq([i \in DOMAIN next |-> next[i].text]))
           /\ assembling' = << >>
      ELSE assembling' = next /\ UNCHANGED received
  BY DEF Receive
<1>0. k < n /\ (0 < k => assembling = SubSeq(cs, 1, k))
  OBVIOUS
<1> HIDE DEF cs
<1>8. k + 1 \in 1 .. n /\ k + 1 \in 0 .. n /\ k \in 0 .. n /\ cs[k + 1] \in Chunk
  BY <1>0, <1>1, LenProperties
<1>3. c.index = k /\ c.total = n /\ c \in Chunk
  BY <1>1, <1>8
<1>4. next = SubSeq(cs, 1, k + 1) /\ next \in Seq(Chunk) /\ Len(next) = k + 1
  <2>1. /\ SubSeq(cs, 1, k + 1) \in Seq(Chunk)
        /\ Len(SubSeq(cs, 1, k + 1)) = k + 1
        /\ \A i \in 1 .. k + 1 : SubSeq(cs, 1, k + 1)[i] = cs[i]
    BY <1>1, <1>8, FirstOnes
  <2>2. CASE k = 0
    <3>1. next = <<c>> /\ next \in Seq(Chunk) /\ Len(next) = 1 /\ next[1] = c
      BY <1>3, <2>2
    <3> HIDE DEF next
    <3> QED BY <2>1, <2>2, <3>1, SeqEqual
  <2>3. CASE 0 < k
    <3>1. /\ assembling \in Seq(Chunk) /\ Len(assembling) = k
          /\ \A i \in 1 .. k : assembling[i] = cs[i]
      <4>1. assembling = SubSeq(cs, 1, k)
        BY <1>0, <2>3
      <4> QED BY <1>1, <1>8, <4>1, FirstOnes
    <3>2. next = Append(assembling, c)
      BY <1>3, <2>3, <3>1
    <3>3. /\ next \in Seq(Chunk) /\ Len(next) = k + 1 /\ next[k + 1] = c
          /\ \A i \in 1 .. k : next[i] = assembling[i]
      <4> HIDE DEF next, c
      <4> QED BY <1>3, <3>1, <3>2, AppendProperties
    <3>4. \A i \in 1 .. k + 1 : next[i] = cs[i]
      <4> HIDE DEF next
      <4> QED BY <3>1, <3>3
    <3> HIDE DEF next
    <3> QED BY <2>1, <3>3, <3>4, SeqEqual
  <2> QED BY <2>2, <2>3
<1>5. next # << >>
  <2> HIDE DEF next
  <2> QED BY <1>4, <1>8, EmptySeq
<1>6. CASE k + 1 = n
  <2>1. SubSeq(cs, 1, n) = cs
    BY <1>1, <1>6, <1>8, FirstOnes, SeqEqual
  <2>2. DOMAIN next = 1 .. n /\ next = cs
    <3> HIDE DEF next
    <3> QED BY <1>4, <1>6, <2>1, LenProperties
  <2> HIDE DEF next
  <2>3. FlattenSeq([i \in DOMAIN next |-> next[i].text]) = t
    BY <1>1, <2>2
  <2> QED BY <1>2, <1>3, <1>4, <1>5, <1>6, <2>3 DEF cs
<1>7. CASE k + 1 # n
  <2> HIDE DEF next
  <2> QED BY <1>2, <1>3, <1>4, <1>5, <1>7 DEF cs
<1> QED BY <1>6, <1>7 DEF cs

----------------------------------------------------------------------------
(* Sending                                                                 *)

\* The types of the variables of sending.
OutboundTypeOK ==
  /\ sending \in Seq(Chunk) /\ outbox \in Seq(Chunk)
  /\ assembling \in Seq(Chunk)
  /\ received \in Seq(Seq(Chars))
  /\ outcomes \in Seq(OutboundTexts \X (Outcomes \cup {"pending"}))

\* The text of the last call.
Current == outcomes[Len(outcomes)][1]

\* k chunks of the call's text are out.
Progress(k) ==
  LET cs == ChunksOf(Current) IN
  /\ sending = SubSeq(cs, k + 1, Len(cs))
  /\ 0 < k /\ k < Len(cs) => assembling = SubSeq(cs, 1, k)

\* Only the last call can be in progress; what it has still to send is the end
\* of its text, and the recipient has the beginning.
CallInv ==
  /\ \A i \in 1 .. Len(outcomes) - 1 : outcomes[i][2] # "pending"
  /\ Idle => sending = << >>
  /\ ~ Idle => \E k \in 0 .. Len(ChunksOf(Current)) : Progress(k)

\* A call for t whose chunks are all out will be counted as sent.
Complete(t) == ~ Idle /\ sending = << >> /\ Current = t

\* The recipient has a copy of t for each call for t that returned Sent or will.
CountInv ==
  \A t \in OutboundTexts \ {<< >>} :
    Copies(outcomes, <<t, "Sent">>) + (IF Complete(t) THEN 1 ELSE 0)
      <= Copies(received, t)

\* The inductive invariant of sending.
OutboundInv ==
  /\ OutboundTypeOK /\ CallInv /\ CountInv
  /\ ReceivedWasApproved /\ ChunksFit

\* A call of queue_approved, with its outcome.
Calls == OutboundTexts \X (Outcomes \cup {"pending"})

\* While a call is in progress it is the last one.
LEMMA InCall ==
  ASSUME OutboundTypeOK, CallInv, ~ Idle
  PROVE  /\ Len(outcomes) \in Nat /\ Len(outcomes) \in DOMAIN outcomes
         /\ outcomes[Len(outcomes)] = <<Current, "pending">>
         /\ Current \in OutboundTexts /\ Current \in Seq(Chars)
         /\ outcomes \in Seq(Calls)
<1>1. /\ Len(outcomes) \in Nat /\ DOMAIN outcomes = 1 .. Len(outcomes)
      /\ \A i \in DOMAIN outcomes : outcomes[i] \in Calls
      /\ outcomes \in Seq(Calls)
  BY LenProperties DEF OutboundTypeOK, Calls
<1>2. PICK i \in DOMAIN outcomes : outcomes[i][2] = "pending"
  BY DEF Idle
<1>3. i = Len(outcomes)
  BY <1>1, <1>2 DEF CallInv
<1>4. outcomes[i] \in Calls
  BY <1>1
<1>5. outcomes[i] = <<outcomes[i][1], "pending">> /\ outcomes[i][1] \in OutboundTexts
  BY <1>2, <1>4 DEF Calls
<1> QED BY <1>1, <1>3, <1>5, TextsAssumption DEF Current

\* Of a sequence of chunks from k + 1 on: its head and its tail.
LEMMA RestOf ==
  ASSUME NEW E, NEW s \in Seq(E), NEW k \in Nat, k <= Len(s)
  PROVE  LET r == SubSeq(s, k + 1, Len(s)) IN
         /\ r \in Seq(E)
         /\ Len(r) = Len(s) - k
         /\ \A i \in 1 .. Len(s) - k : r[i] = s[k + i]
         /\ r = << >> <=> k = Len(s)
         /\ k < Len(s) => /\ Head(r) = s[k + 1]
                          /\ Tail(r) = SubSeq(s, k + 2, Len(s))
<1> DEFINE n == Len(s)
           r == SubSeq(s, k + 1, n)
           q == SubSeq(s, k + 2, n)
<1>1. n \in Nat /\ \A i \in 1 .. n : s[i] \in E
  BY LenProperties
<1>2. /\ \A i \in k + 1 .. n : s[i] \in E
      /\ \A i \in k + 2 .. n : s[i] \in E
      /\ k + 1 \in Int /\ k + 2 \in Int /\ n \in Int
  BY <1>1
<1>3. /\ r \in Seq(E)
      /\ Len(r) = IF k + 1 <= n THEN n - (k + 1) + 1 ELSE 0
      /\ \A i \in 1 .. n - (k + 1) + 1 : r[i] = s[k + 1 + i - 1]
  BY <1>2, SubSeqProperties
<1>4. /\ q \in Seq(E)
      /\ Len(q) = IF k + 2 <= n THEN n - (k + 2) + 1 ELSE 0
      /\ \A i \in 1 .. n - (k + 2) + 1 : q[i] = s[k + 2 + i - 1]
  BY <1>2, SubSeqProperties
<1>5. k <= n
  OBVIOUS
<1> HIDE DEF n, r, q
<1>6. /\ Len(r) = n - k
      /\ \A i \in 1 .. n - k : r[i] = s[k + i]
  BY <1>1, <1>3, <1>5
<1>7. r = << >> <=> k = n
  BY <1>1, <1>3, <1>6, EmptySeq
<1>8. ASSUME k < n
      PROVE  Head(r) = s[k + 1] /\ Tail(r) = q
  <2>1. r # << >>
    BY <1>7, <1>8
  <2>2. /\ Head(r) = r[1] /\ Tail(r) \in Seq(E) /\ Len(Tail(r)) = Len(r) - 1
        /\ \A i \in 1 .. Len(Tail(r)) : Tail(r)[i] = r[i + 1]
    BY <1>3, <2>1, HeadTailProperties
  <2>3. Head(r) = s[k + 1]
    BY <1>1, <1>6, <1>8, <2>2
  <2>4. Len(q) = n - k - 1 /\ Len(Tail(r)) = n - k - 1
    BY <1>1, <1>4, <1>6, <1>8, <2>2
  <2>5. \A i \in 1 .. n - k - 1 : Tail(r)[i] = q[i]
    <3> SUFFICES ASSUME NEW i \in 1 .. n - k - 1 PROVE Tail(r)[i] = q[i]
      OBVIOUS
    <3>1. i + 1 \in 1 .. n - k /\ i \in 1 .. n - (k + 2) + 1
          /\ k + (i + 1) = k + 2 + i - 1
      BY <1>1, <1>8
    <3> QED BY <1>4, <1>6, <2>2, <2>4, <3>1
  <2>6. Tail(r) = q
    BY <1>4, <2>2, <2>4, <2>5, SeqEqual
  <2> QED BY <2>3, <2>6
<1> QED BY <1>3, <1>6, <1>7, <1>8 DEF n, r, q

\* The chunk after the first k is the next to be sent.
NextChunk(k) ==
  LET cs == ChunksOf(Current) IN
  /\ k < Len(cs)
  /\ Head(sending) = cs[k + 1]
  /\ Head(sending) \in Chunk
  /\ Tail(sending) = SubSeq(cs, k + 2, Len(cs))
  /\ Tail(sending) = << >> <=> k + 1 = Len(cs)
  /\ 0 < k => assembling = SubSeq(cs, 1, k)

\* What a call sends next is the chunk after those that are out.
LEMMA NextOfCall ==
  ASSUME OutboundTypeOK, CallInv, ~ Idle, sending # << >>
  PROVE  \E k \in Nat : NextChunk(k)
<1> DEFINE cs == ChunksOf(Current)
           n == Len(cs)
<1>1. Current \in Seq(Chars)
  BY InCall
<1>2. cs \in Seq(Chunk) /\ n \in Nat
  BY <1>1, ChunksOfText
<1>3. PICK k \in 0 .. n : Progress(k)
  BY DEF CallInv
<1>4. sending = SubSeq(cs, k + 1, n) /\ (0 < k /\ k < n => assembling = SubSeq(cs, 1, k))
  BY <1>3 DEF Progress
<1> HIDE DEF cs
<1>5. /\ sending = << >> <=> k = n
      /\ k < n => /\ Head(sending) = cs[k + 1]
                  /\ Tail(sending) = SubSeq(cs, k + 2, n)
  <2>1. k \in Nat /\ k <= Len(cs)
    BY <1>2
  <2> QED BY <1>2, <1>4, <2>1, RestOf
<1>6. k < n
  BY <1>2, <1>5
<1>7. cs[k + 1] \in Chunk
  BY <1>2, <1>6, LenProperties
<1>8. SubSeq(cs, k + 2, n) = << >> <=> k + 1 = n
  <2>1. k + 1 \in Nat /\ k + 1 <= Len(cs) /\ (k + 1) + 1 = k + 2
    BY <1>2, <1>6
  <2> QED BY <1>2, <2>1, RestOf
<1>9. k \in Nat
  BY <1>2
<1>10. NextChunk(k)
  BY <1>4, <1>5, <1>6, <1>7, <1>8 DEF NextChunk, cs
<1> QED BY <1>9, <1>10

\* What the recipient has after a chunk of the call in progress.
LEMMA ReceiveInCall ==
  ASSUME OutboundTypeOK, CallInv, ~ Idle, sending # << >>,
         Receive(Head(sending))
  PROVE  /\ assembling' \in Seq(Chunk)
         /\ received' = IF Tail(sending) = << >> THEN Append(received, Current)
                        ELSE received
<1> DEFINE cs == ChunksOf(Current)
           n == Len(cs)
<1>1. Current \in Seq(Chars)
  BY InCall
<1>2. cs \in Seq(Chunk) /\ n \in Nat
  BY <1>1, ChunksOfText
<1>3. PICK k \in Nat : NextChunk(k)
  BY NextOfCall
<1>4. /\ k < Len(ChunksOf(Current))
      /\ 0 < k => assembling = SubSeq(ChunksOf(Current), 1, k)
      /\ Receive(ChunksOf(Current)[k + 1])
      /\ Tail(sending) = << >> <=> k + 1 = n
  BY <1>3 DEF NextChunk
<1>5. IF k + 1 = n
      THEN assembling' = << >> /\ received' = Append(received, Current)
      ELSE /\ assembling' = SubSeq(cs, 1, k + 1)
           /\ received' = received
  BY <1>1, <1>4, ReceiveNext
<1>6. << >> \in Seq(Chunk)
  BY EmptySeq
<1>7. SubSeq(cs, 1, k + 1) \in Seq(Chunk)
  <2>1. k + 1 \in 0 .. Len(cs)
    BY <1>2, <1>4
  <2> HIDE DEF cs
  <2> QED BY <1>2, <2>1, FirstOnes
<1> QED BY <1>4, <1>5, <1>6, <1>7

\* One chunk further the call has made progress.
LEMMA ProgressInCall ==
  ASSUME OutboundTypeOK, CallInv, ~ Idle, sending # << >>,
         Receive(Head(sending)), sending' = Tail(sending),
         outcomes' = outcomes
  PROVE  /\ CallInv'
         /\ ~ Idle' /\ Current' = Current
<1> DEFINE cs == ChunksOf(Current)
           n == Len(cs)
<1>1. Current \in Seq(Chars)
  BY InCall
<1>2. cs \in Seq(Chunk) /\ n \in Nat
  BY <1>1, ChunksOfText
<1>3. PICK k \in Nat : NextChunk(k)
  BY NextOfCall
<1>4. /\ k < Len(ChunksOf(Current))
      /\ 0 < k => assembling = SubSeq(ChunksOf(Current), 1, k)
      /\ Receive(ChunksOf(Current)[k + 1])
      /\ Tail(sending) = SubSeq(cs, k + 2, n)
  BY <1>3 DEF NextChunk
<1>5. k + 1 < n => assembling' = SubSeq(cs, 1, k + 1)
  BY <1>1, <1>2, <1>4, ReceiveNext
<1>6. Current' = Current /\ Idle' = Idle
  BY DEF Current, Idle
<1>7. Progress(k + 1)'
  <2>1. (k + 1) + 1 = k + 2
    OBVIOUS
  <2>2. sending' = SubSeq(cs, (k + 1) + 1, n)
    BY <1>4, <2>1
  <2> QED BY <1>5, <1>6, <2>2 DEF Progress
<1>8. k + 1 \in 0 .. n
  BY <1>2, <1>4
<1> QED BY <1>6, <1>7, <1>8 DEF CallInv

\* The call in progress gets its outcome.
LEMMA SettleInCall ==
  ASSUME OutboundTypeOK, CallInv, ~ Idle, NEW o \in Outcomes, Settle(o),
         sending' = << >>
  PROVE  /\ outcomes' \in Seq(Calls)
         /\ CallInv' /\ Idle'
         /\ DOMAIN outcomes' = DOMAIN outcomes
         /\ \A i \in DOMAIN outcomes : outcomes'[i][1] = outcomes[i][1]
         /\ \A t : Copies(outcomes', <<t, "Sent">>)
                     = Copies(outcomes, <<t, "Sent">>)
                         + (IF t = Current /\ o = "Sent" THEN 1 ELSE 0)
<1> DEFINE n == Len(outcomes)
           e == <<Current, o>>
<1>1. /\ n \in Nat /\ n \in DOMAIN outcomes
      /\ outcomes[n] = <<Current, "pending">>
      /\ Current \in OutboundTexts
      /\ outcomes \in Seq(Calls)
      /\ DOMAIN outcomes = 1 .. n
  BY InCall, LenProperties
<1>2. e \in Calls /\ o # "pending"
  BY <1>1 DEF Calls, Outcomes
<1>3. outcomes' = [outcomes EXCEPT ![n] = e]
  <2>1. outcomes' = [outcomes EXCEPT ![n] = [outcomes[n] EXCEPT ![2] = o]]
    BY DEF Settle
  <2>2. [<<Current, "pending">> EXCEPT ![2] = o] = <<Current, o>>
    OBVIOUS
  <2> QED BY <1>1, <2>1, <2>2
<1>4. /\ outcomes' \in Seq(Calls) /\ Len(outcomes') = n
      /\ DOMAIN outcomes' = 1 .. n
      /\ outcomes'[n] = e
      /\ \A i \in 1 .. n : i # n => outcomes'[i] = outcomes[i]
  BY <1>1, <1>2, <1>3, ExceptSeq, LenProperties
<1> HIDE DEF n
<1>5. \A i \in 1 .. n : outcomes'[i][1] = outcomes[i][1]
  BY <1>1, <1>4
<1>6. \A i \in 1 .. n : outcomes'[i][2] # "pending"
  <2> SUFFICES ASSUME NEW i \in 1 .. n PROVE outcomes'[i][2] # "pending"
    OBVIOUS
  <2>1. CASE i = n
    BY <1>2, <1>4, <2>1
  <2>2. CASE i # n
    <3>1. i \in 1 .. n - 1
      BY <1>1, <2>2
    <3>2. outcomes[i][2] # "pending"
      BY <3>1 DEF CallInv, n
    <3> QED BY <1>4, <2>2, <3>2
  <2> QED BY <2>1, <2>2
<1>7. Idle'
  BY <1>4, <1>6 DEF Idle
<1>8. CallInv'
  <2>1. \A i \in 1 .. Len(outcomes') - 1 : outcomes'[i][2] # "pending"
    BY <1>1, <1>4, <1>6
  <2> QED BY <1>7, <2>1 DEF CallInv
<1>9. ASSUME NEW t
      PROVE  Copies(outcomes', <<t, "Sent">>)
               = Copies(outcomes, <<t, "Sent">>)
                   + (IF t = Current /\ o = "Sent" THEN 1 ELSE 0)
  <2>1. outcomes[n] # <<t, "Sent">>
    BY <1>1
  <2>2. Copies(outcomes', <<t, "Sent">>)
          = Copies(outcomes, <<t, "Sent">>) + (IF e = <<t, "Sent">> THEN 1 ELSE 0)
    <3> HIDE DEF e
    <3>1. Replaces(outcomes', outcomes, n, e)
      BY <1>1, <1>4 DEF Replaces
    <3> QED BY <1>1, <1>2, <2>1, <3>1, CopiesOfReplace
  <2>3. e = <<t, "Sent">> <=> t = Current /\ o = "Sent"
    OBVIOUS
  <2> QED BY <2>2, <2>3
<1> QED BY <1>1, <1>4, <1>5, <1>7, <1>8, <1>9

\* Initially.
LEMMA OutboundInit == Init => OutboundInv
<1> SUFFICES ASSUME Init PROVE OutboundInv
  OBVIOUS
<1>1. /\ sending = << >> /\ outbox = << >> /\ outcomes = << >>
      /\ assembling = << >> /\ received = << >>
  BY DEF Init
<1>2. Len(<< >>) = 0 /\ DOMAIN << >> = {} /\ Idle
  BY <1>1, EmptySeq DEF Idle
<1>3. OutboundTypeOK
  BY <1>1, EmptySeq DEF OutboundTypeOK
<1>4. CallInv
  BY <1>1, <1>2 DEF CallInv
<1>5. CountInv
  <2> SUFFICES ASSUME NEW t \in OutboundTexts \ {<< >>}
               PROVE  Copies(outcomes, <<t, "Sent">>) + (IF Complete(t) THEN 1 ELSE 0)
                        <= Copies(received, t)
    BY DEF CountInv
  <2>1. {i \in DOMAIN outcomes : outcomes[i] = <<t, "Sent">>} = {}
    BY <1>1, <1>2
  <2>2. {i \in DOMAIN received : received[i] = t} = {}
    BY <1>1, <1>2
  <2>3. Copies(outcomes, <<t, "Sent">>) = 0 /\ Copies(received, t) = 0
    BY <2>1, <2>2, FS_EmptySet DEF Copies
  <2>4. ~ Complete(t)
    BY <1>2 DEF Complete
  <2> QED BY <2>3, <2>4
<1>6. ReceivedWasApproved /\ ChunksFit
  BY <1>1, <1>2 DEF ReceivedWasApproved, ChunksFit
<1> QED BY <1>3, <1>4, <1>5, <1>6 DEF OutboundInv

\* Drain and Arrive touch nothing of sending.
LEMMA OutboundUnchanged ==
  ASSUME OutboundInv, UNCHANGED outboundVars
  PROVE  OutboundInv'
<1>1. /\ sending' = sending /\ outbox' = outbox /\ outcomes' = outcomes
      /\ assembling' = assembling /\ received' = received
  BY DEF outboundVars
<1>2. Idle' = Idle /\ Current' = Current
  BY <1>1 DEF Idle, Current
<1>3. OutboundTypeOK'
  BY <1>1 DEF OutboundInv, OutboundTypeOK
<1>4. CallInv'
  BY <1>1, <1>2 DEF OutboundInv, CallInv, Progress
<1>5. CountInv'
  BY <1>1, <1>2 DEF OutboundInv, CountInv, Complete
<1>6. ReceivedWasApproved' /\ ChunksFit'
  BY <1>1 DEF OutboundInv, ReceivedWasApproved, ChunksFit
<1> QED BY <1>3, <1>4, <1>5, <1>6 DEF OutboundInv

\* A call of queue_approved begins.
LEMMA OutboundQueue ==
  ASSUME OutboundInv, NEW t \in OutboundTexts, QueueApproved(t)
  PROVE  OutboundInv'
<1> USE DEF OutboundInv
<1> DEFINE o == IF SizeOf(t) > MAX_MESSAGE_BYTES THEN "Oversized" ELSE "pending"
           e == <<t, o>>
           n == Len(outcomes)
           cs == ChunksOf(t)
<1>1. /\ outcomes' = Append(outcomes, e)
      /\ Idle
      /\ outbox' = outbox /\ assembling' = assembling /\ received' = received
      /\ o = "Oversized" => sending' = sending
      /\ o = "pending" => sending' = cs
  BY DEF QueueApproved
<1>2. o \in {"Oversized", "pending"} /\ e \in Calls
  BY DEF Calls, Outcomes
<1>3. t \in Seq(Chars)
  BY TextsAssumption
<1>4. /\ cs \in Seq(Chunk) /\ Len(cs) \in Nat
      /\ t # << >> => Len(cs) # 0
  BY <1>3, ChunksOfText
<1>5. outcomes \in Seq(Calls) /\ n \in Nat /\ DOMAIN outcomes = 1 .. n
  BY LenProperties DEF OutboundTypeOK, Calls
<1>6. sending = << >>
  BY <1>1 DEF CallInv
<1> HIDE DEF e, o, cs, n
<1>7. /\ outcomes' \in Seq(Calls) /\ Len(outcomes') = n + 1
      /\ DOMAIN outcomes' = 1 .. n + 1
      /\ outcomes'[n + 1] = e
      /\ \A i \in 1 .. n : outcomes'[i] = outcomes[i]
  BY <1>1, <1>2, <1>5, AppendProperties, LenProperties DEF n
<1>8. \A i \in 1 .. n : outcomes'[i][2] # "pending"
  BY <1>1, <1>5, <1>7 DEF Idle
<1>9. Idle' <=> o # "pending"
  <2>1. outcomes'[n + 1][2] = o
    BY <1>7 DEF e
  <2>2. n + 1 \in DOMAIN outcomes'
    BY <1>5, <1>7
  <2>3. CASE o = "pending"
    BY <2>1, <2>2, <2>3 DEF Idle
  <2>4. CASE o # "pending"
    <3>1. ASSUME NEW i \in DOMAIN outcomes' PROVE outcomes'[i][2] # "pending"
      <4>1. CASE i = n + 1
        BY <2>1, <2>4, <4>1
      <4>2. CASE i # n + 1
        BY <1>5, <1>7, <1>8, <4>2
      <4> QED BY <4>1, <4>2
    <3> QED BY <2>4, <3>1 DEF Idle
  <2> QED BY <2>3, <2>4
<1>10. Current' = t
  BY <1>7 DEF Current, e
<1>11. sending' \in Seq(Chunk)
  BY <1>1, <1>2, <1>4 DEF OutboundTypeOK
<1>12. OutboundTypeOK'
  BY <1>1, <1>7, <1>11 DEF OutboundTypeOK, Calls
<1>13. CallInv'
  <2>1. \A i \in 1 .. Len(outcomes') - 1 : outcomes'[i][2] # "pending"
    BY <1>5, <1>7, <1>8
  <2>2. Idle' => sending' = << >>
    BY <1>1, <1>2, <1>6, <1>9
  <2>3. ASSUME ~ Idle' PROVE \E k \in 0 .. Len(ChunksOf(Current')) : Progress(k)'
    <3>1. sending' = cs
      BY <1>1, <1>9, <2>3
    <3>2. SubSeq(cs, 0 + 1, Len(cs)) = cs
      <4>1. /\ SubSeq(cs, 0 + 1, Len(cs)) \in Seq(Chunk)
            /\ Len(SubSeq(cs, 0 + 1, Len(cs))) = Len(cs) - 0
            /\ \A i \in 1 .. Len(cs) - 0 : SubSeq(cs, 0 + 1, Len(cs))[i] = cs[0 + i]
        BY <1>4, 0 \in Nat, 0 <= Len(cs), RestOf
      <4> HIDE DEF cs
      <4> QED BY <1>4, <4>1, SeqEqual
    <3>3. Progress(0)'
      BY <1>10, <3>1, <3>2 DEF Progress, cs
    <3>4. 0 \in 0 .. Len(ChunksOf(Current'))
      BY <1>4, <1>10 DEF cs
    <3> QED BY <3>3, <3>4
  <2> QED BY <2>1, <2>2, <2>3 DEF CallInv
<1>14. CountInv'
  <2> SUFFICES ASSUME NEW u \in OutboundTexts \ {<< >>}
               PROVE  Copies(outcomes', <<u, "Sent">>)
                        + (IF Complete(u)' THEN 1 ELSE 0) <= Copies(received', u)
    BY DEF CountInv
  <2>1. e # <<u, "Sent">>
    BY <1>2 DEF e
  <2>2. Copies(outcomes', <<u, "Sent">>)
          = Copies(outcomes, <<u, "Sent">>) + (IF e = <<u, "Sent">> THEN 1 ELSE 0)
    BY <1>1, <1>2, <1>5, CopiesOfAppend
  <2>3. ~ Complete(u)'
    <3>1. SUFFICES ASSUME Complete(u)' PROVE FALSE
      OBVIOUS
    <3>2. u = t /\ sending' = << >> /\ o = "pending"
      BY <1>9, <1>10, <3>1 DEF Complete
    <3> QED BY <1>1, <1>4, <3>2, EmptySeq
  <2>4. Copies(outcomes, <<u, "Sent">>) \in Nat /\ Copies(received, u) \in Nat
    BY <1>5, CopiesTyped DEF OutboundTypeOK
  <2>5. Copies(outcomes, <<u, "Sent">>) <= Copies(received, u)
    <3>1. ~ Complete(u)
      BY <1>1 DEF Complete
    <3> QED BY <2>4, <3>1 DEF CountInv
  <2> QED BY <1>1, <2>1, <2>2, <2>3, <2>4, <2>5
<1>15. ReceivedWasApproved'
  <2>1. \A i \in DOMAIN received : \E j \in DOMAIN outcomes :
          outcomes'[j][1] = received[i] /\ j \in DOMAIN outcomes'
    BY <1>5, <1>7 DEF ReceivedWasApproved
  <2> QED BY <1>1, <2>1 DEF ReceivedWasApproved
<1>16. ChunksFit'
  BY <1>1 DEF ChunksFit
<1> QED BY <1>12, <1>13, <1>14, <1>15, <1>16

\* What the recipient has after a chunk that arrived.
LEMMA Approved ==
  ASSUME OutboundInv, ~ Idle,
         received' = received \/ received' = Append(received, Current),
         DOMAIN outcomes' = DOMAIN outcomes,
         \A i \in DOMAIN outcomes : outcomes'[i][1] = outcomes[i][1]
  PROVE  ReceivedWasApproved' /\ received' \in Seq(Seq(Chars))
<1>1. /\ Len(outcomes) \in DOMAIN outcomes
      /\ outcomes[Len(outcomes)][1] = Current
      /\ Current \in Seq(Chars)
  BY InCall DEF OutboundInv, Current
<1>2. received \in Seq(Seq(Chars)) /\ DOMAIN received = 1 .. Len(received)
      /\ Len(received) \in Nat
  BY LenProperties DEF OutboundInv, OutboundTypeOK
<1>3. \A i \in DOMAIN received : \E j \in DOMAIN outcomes' :
        outcomes'[j][1] = received[i]
  BY DEF OutboundInv, ReceivedWasApproved
<1>4. CASE received' = received
  BY <1>2, <1>3, <1>4 DEF ReceivedWasApproved
<1>5. CASE received' = Append(received, Current)
  <2> DEFINE n == Len(received)
  <2>1. /\ received' \in Seq(Seq(Chars)) /\ DOMAIN received' = 1 .. n + 1
        /\ received'[n + 1] = Current
        /\ \A i \in 1 .. n : received'[i] = received[i]
    BY <1>1, <1>2, <1>5, AppendProperties, LenProperties
  <2> HIDE DEF n
  <2>2. ASSUME NEW i \in DOMAIN received'
        PROVE  \E j \in DOMAIN outcomes' : outcomes'[j][1] = received'[i]
    <3>1. CASE i = n + 1
      BY <1>1, <2>1, <3>1
    <3>2. CASE i # n + 1
      <4>1. i \in DOMAIN received
        BY <1>2, <2>1, <3>2 DEF n
      <4> QED BY <1>2, <1>3, <2>1, <4>1 DEF n
    <3> QED BY <3>1, <3>2
  <2> QED BY <2>1, <2>2 DEF ReceivedWasApproved
<1> QED BY <1>4, <1>5

\* The recipient never has fewer copies of a text than before.
LEMMA CopiesGrow ==
  ASSUME OutboundInv, ~ Idle,
         received' = received \/ received' = Append(received, Current)
  PROVE  \A t : /\ Copies(outcomes, <<t, "Sent">>) \in Nat
                /\ Copies(received, t) \in Nat
                /\ Copies(received', t)
                     = Copies(received, t)
                         + (IF received' # received /\ t = Current THEN 1 ELSE 0)
<1> SUFFICES ASSUME NEW t
             PROVE  /\ Copies(outcomes, <<t, "Sent">>) \in Nat
                    /\ Copies(received, t) \in Nat
                    /\ Copies(received', t)
                         = Copies(received, t)
                             + (IF received' # received /\ t = Current THEN 1 ELSE 0)
  OBVIOUS
<1>1. received \in Seq(Seq(Chars)) /\ outcomes \in Seq(Calls)
  BY DEF OutboundInv, OutboundTypeOK, Calls
<1>2. Current \in Seq(Chars)
  BY InCall DEF OutboundInv
<1>3. Copies(outcomes, <<t, "Sent">>) \in Nat /\ Copies(received, t) \in Nat
  BY <1>1, CopiesTyped
<1>4. Copies(Append(received, Current), t)
        = Copies(received, t) + (IF Current = t THEN 1 ELSE 0)
  BY <1>1, <1>2, CopiesOfAppend
<1>5. Append(received, Current) # received
  <2>1. Len(Append(received, Current)) # Len(received)
    BY <1>1, <1>2, AppendProperties, LenProperties
  <2> QED BY <2>1
<1>6. CASE received' = received
  BY <1>3, <1>6
<1>7. CASE received' = Append(received, Current)
  BY <1>3, <1>4, <1>5, <1>7
<1> QED BY <1>3, <1>6, <1>7

\* send_chunk succeeds.
LEMMA OutboundAccepted ==
  ASSUME OutboundInv, ChunkAccepted
  PROVE  OutboundInv'
<1>1. /\ ~ Idle /\ sending # << >>
      /\ Receive(Head(sending))
      /\ outbox' = Append(outbox, Head(sending))
      /\ sending' = Tail(sending)
      /\ outcomes' = outcomes
  BY DEF ChunkAccepted
<1>2. OutboundTypeOK /\ CallInv /\ CountInv /\ ReceivedWasApproved /\ ChunksFit
  BY DEF OutboundInv
<1>3. CallInv' /\ ~ Idle' /\ Current' = Current
  BY <1>1, <1>2, ProgressInCall
<1>4. /\ assembling' \in Seq(Chunk)
      /\ received' = IF Tail(sending) = << >> THEN Append(received, Current)
                     ELSE received
  BY <1>1, <1>2, ReceiveInCall
<1>5. ReceivedWasApproved' /\ received' \in Seq(Seq(Chars))
  BY <1>1, <1>4, Approved
<1>6. PICK k \in Nat : NextChunk(k)
  BY <1>1, <1>2, NextOfCall
<1>7. Current \in Seq(Chars)
  BY <1>1, <1>2, InCall
<1>8. /\ outbox \in Seq(Chunk) /\ Head(sending) \in Chunk
      /\ sending \in Seq(Chunk)
  BY <1>2, <1>6 DEF OutboundTypeOK, NextChunk
<1>9. sending' \in Seq(Chunk) /\ outbox' \in Seq(Chunk)
  BY <1>1, <1>8, HeadTailProperties, AppendProperties
<1>10. OutboundTypeOK'
  BY <1>1, <1>2, <1>4, <1>5, <1>9 DEF OutboundTypeOK
<1>11. CountInv'
  <2> SUFFICES ASSUME NEW t \in OutboundTexts \ {<< >>}
               PROVE  Copies(outcomes', <<t, "Sent">>)
                        + (IF Complete(t)' THEN 1 ELSE 0) <= Copies(received', t)
    BY DEF CountInv
  <2>1. /\ Copies(outcomes, <<t, "Sent">>) \in Nat
        /\ Copies(received, t) \in Nat
        /\ Copies(received', t)
             = Copies(received, t)
                 + (IF received' # received /\ t = Current THEN 1 ELSE 0)
    BY <1>1, <1>4, CopiesGrow
  <2>2. ~ Complete(t)
    BY <1>1 DEF Complete
  <2>3. Copies(outcomes, <<t, "Sent">>) <= Copies(received, t)
    BY <1>2, <2>1, <2>2 DEF CountInv
  <2>4. ASSUME Complete(t)' PROVE received' # received /\ t = Current
    <3>1. Tail(sending) = << >> /\ t = Current
      BY <1>1, <1>3, <2>4 DEF Complete
    <3>2. Len(Append(received, Current)) # Len(received)
      BY <1>2, <1>7, AppendProperties, LenProperties DEF OutboundTypeOK
    <3> QED BY <1>4, <3>1, <3>2
  <2> QED BY <1>1, <2>1, <2>3, <2>4
<1>12. ChunksFit'
  <2> SUFFICES ASSUME NOSTR_DM_LIMIT >= 4, NEW i \in DOMAIN outbox'
               PROVE  Fits(outbox'[i].text, NOSTR_DM_LIMIT)
    BY DEF ChunksFit, Fits
  <2> DEFINE n == Len(outbox)
  <2>1. /\ DOMAIN outbox = 1 .. n /\ n \in Nat
        /\ DOMAIN outbox' = 1 .. n + 1
        /\ outbox'[n + 1] = Head(sending)
        /\ \A j \in 1 .. n : outbox'[j] = outbox[j]
    BY <1>1, <1>8, AppendProperties, LenProperties
  <2> HIDE DEF n
  <2>2. Fits(Head(sending).text, NOSTR_DM_LIMIT)
    <3>1. /\ Len(ChunksOf(Current)) \in Nat
          /\ \A j \in 1 .. Len(ChunksOf(Current)) :
               Fits(ChunksOf(Current)[j].text, NOSTR_DM_LIMIT)
      BY <1>7, ChunksOfText
    <3>2. Head(sending) = ChunksOf(Current)[k + 1] /\ k < Len(ChunksOf(Current))
      BY <1>6 DEF NextChunk
    <3> QED BY <3>1, <3>2
  <2>3. CASE i = n + 1
    BY <2>1, <2>2, <2>3
  <2>4. CASE i # n + 1
    <3>1. i \in DOMAIN outbox
      BY <2>1, <2>4
    <3> QED BY <1>2, <2>1, <3>1 DEF ChunksFit, Fits
  <2> QED BY <2>3, <2>4
<1> QED BY <1>3, <1>5, <1>10, <1>11, <1>12 DEF OutboundInv

\* The call in progress ends with an outcome.
LEMMA OutboundSettled ==
  ASSUME OutboundInv, ~ Idle, NEW o \in Outcomes, Settle(o),
         sending' = << >>, outbox' = outbox,
         assembling' \in Seq(Chunk),
         received' = received \/ received' = Append(received, Current),
         o = "Sent" => sending = << >>
  PROVE  OutboundInv'
<1>2. OutboundTypeOK /\ CallInv /\ CountInv /\ ReceivedWasApproved /\ ChunksFit
  BY DEF OutboundInv
<1>3. /\ outcomes' \in Seq(Calls)
      /\ CallInv' /\ Idle'
      /\ DOMAIN outcomes' = DOMAIN outcomes
      /\ \A i \in DOMAIN outcomes : outcomes'[i][1] = outcomes[i][1]
      /\ \A t : Copies(outcomes', <<t, "Sent">>)
                  = Copies(outcomes, <<t, "Sent">>)
                      + (IF t = Current /\ o = "Sent" THEN 1 ELSE 0)
  BY <1>2, SettleInCall
<1>4. ReceivedWasApproved' /\ received' \in Seq(Seq(Chars))
  BY <1>3, Approved
<1>5. OutboundTypeOK'
  BY <1>2, <1>3, <1>4, EmptySeq DEF OutboundTypeOK, Calls
<1>6. CountInv'
  <2> SUFFICES ASSUME NEW t \in OutboundTexts \ {<< >>}
               PROVE  Copies(outcomes', <<t, "Sent">>)
                        + (IF Complete(t)' THEN 1 ELSE 0) <= Copies(received', t)
    BY DEF CountInv
  <2>1. /\ Copies(outcomes, <<t, "Sent">>) \in Nat
        /\ Copies(received, t) \in Nat
        /\ Copies(received', t)
             = Copies(received, t)
                 + (IF received' # received /\ t = Current THEN 1 ELSE 0)
    BY CopiesGrow
  <2>2. ~ Complete(t)'
    BY <1>3 DEF Complete
  <2>3. Copies(outcomes, <<t, "Sent">>) + (IF Complete(t) THEN 1 ELSE 0)
          <= Copies(received, t)
    BY <1>2 DEF CountInv
  <2>4. t = Current /\ o = "Sent" => Complete(t)
    BY DEF Complete
  <2>5. Copies(outcomes', <<t, "Sent">>)
          = Copies(outcomes, <<t, "Sent">>)
              + (IF t = Current /\ o = "Sent" THEN 1 ELSE 0)
    BY <1>3
  <2> QED BY <2>1, <2>2, <2>3, <2>4, <2>5
<1>7. ChunksFit'
  BY <1>2 DEF ChunksFit
<1> QED BY <1>3, <1>4, <1>5, <1>6, <1>7 DEF OutboundInv

\* send_chunk fails, whether the chunk arrived or not.
LEMMA OutboundFails ==
  ASSUME OutboundInv, ChunkFails
  PROVE  OutboundInv'
<1>1. /\ ~ Idle /\ sending # << >> /\ sending' = << >> /\ Settle("Failed")
      /\ \/ Receive(Head(sending))
         \/ assembling' = assembling /\ received' = received
      /\ outbox' = outbox
  BY DEF ChunkFails, GiveUp
<1>2. OutboundTypeOK /\ CallInv
  BY DEF OutboundInv
<1>3. /\ assembling' \in Seq(Chunk)
      /\ received' = received \/ received' = Append(received, Current)
  BY <1>1, <1>2, ReceiveInCall DEF OutboundTypeOK
<1>4. "Failed" \in Outcomes /\ "Failed" # "Sent"
  BY DEF Outcomes
<1> QED BY <1>1, <1>3, <1>4, OutboundSettled

\* The loop over the chunks is over.
LEMMA OutboundAllSent ==
  ASSUME OutboundInv, AllSent
  PROVE  OutboundInv'
<1>1. /\ ~ Idle /\ sending = << >> /\ Settle("Sent")
      /\ sending' = sending /\ outbox' = outbox
      /\ assembling' = assembling /\ received' = received
  BY DEF AllSent
<1>2. "Sent" \in Outcomes /\ assembling' \in Seq(Chunk)
  BY <1>1 DEF Outcomes, OutboundInv, OutboundTypeOK
<1> QED BY <1>1, <1>2, OutboundSettled

\* Every step keeps the invariant of sending.
LEMMA OutboundNext ==
  ASSUME OutboundInv, [Next]_vars
  PROVE  OutboundInv'
<1>1. ASSUME NEW msg \in InboundMessage, Arrive(msg) PROVE OutboundInv'
  BY <1>1, OutboundUnchanged DEF Arrive
<1>2. CASE Drain
  BY <1>2, OutboundUnchanged DEF Drain
<1>3. ASSUME NEW t \in OutboundTexts, QueueApproved(t) PROVE OutboundInv'
  BY <1>3, OutboundQueue
<1>4. CASE ChunkAccepted
  BY <1>4, OutboundAccepted
<1>5. CASE ChunkFails
  BY <1>5, OutboundFails
<1>6. CASE AllSent
  BY <1>6, OutboundAllSent
<1>7. CASE UNCHANGED vars
  BY <1>7, OutboundUnchanged DEF vars
<1> QED BY <1>1, <1>2, <1>3, <1>4, <1>5, <1>6, <1>7 DEF Next

\* queue_approved and its recipient (nostr_relay.rs) keep the inductive
\* invariant of sending.
THEOREM OutboundCorrect == Spec => []OutboundInv
<1>1. Init => OutboundInv
  BY OutboundInit
<1>2. OutboundInv /\ [Next]_vars => OutboundInv'
  BY OutboundNext
<1> QED BY <1>1, <1>2, PTL DEF Spec

\* Whatever fails, is given up in mid-message, arrives although it was reported
\* failed, or is sent again: the recipient of queue_approved's chunks never reads
\* a text nobody approved.
THEOREM EveryReceivedWasApproved == Spec => []ReceivedWasApproved
<1>1. OutboundInv => ReceivedWasApproved
  BY DEF OutboundInv
<1> QED BY <1>1, OutboundCorrect, PTL

\* For every call of queue_approved that returned Sent the recipient has a copy
\* of the text.
THEOREM EverySentIsReceived == Spec => []SentIsReceived
<1>1. ASSUME OutboundInv PROVE SentIsReceived
  <2> SUFFICES ASSUME NEW t \in OutboundTexts \ {<< >>}
               PROVE  Copies(outcomes, <<t, "Sent">>) <= Copies(received, t)
    BY DEF SentIsReceived, Copies
  <2>1. Copies(outcomes, <<t, "Sent">>) \in Nat /\ Copies(received, t) \in Nat
    BY <1>1, CopiesTyped DEF OutboundInv, OutboundTypeOK
  <2>2. Copies(outcomes, <<t, "Sent">>) + (IF Complete(t) THEN 1 ELSE 0)
          <= Copies(received, t)
    BY <1>1 DEF OutboundInv, CountInv
  <2> QED BY <2>1, <2>2
<1> QED BY <1>1, OutboundCorrect, PTL

\* No chunk that queue_approved handed to the transport exceeds NOSTR_DM_LIMIT,
\* if the limit has room for one code point.
THEOREM EveryChunkFits == Spec => []ChunksFit
<1>1. OutboundInv => ChunksFit
  BY DEF OutboundInv
<1> QED BY <1>1, OutboundCorrect, PTL

----------------------------------------------------------------------------
(* Receiving                                                               *)

\* The entries of the report, and the report.
Admission == [sender : Allowed, text : Seq(Chars)]

Quarantine == [sender : Allowed, text : Seq(Chars), reason : Reasons]

Report == [admitted : Seq(Admission), quarantined : Seq(Quarantine),
           unknown_senders_dropped : Nat]

\* The types of the variables of receiving.
InboundTypeOK ==
  /\ inbound \in Seq(InboundMessage) /\ drained \in Seq(InboundMessage)
  /\ report \in Report

\* What a list of the report says, and what the drained messages amount to.
Listed(rs) == [i \in DOMAIN rs |-> <<rs[i].sender, rs[i].text>>]

Written(ds) == [i \in DOMAIN ds |-> <<ds[i].sender, strip_invisible(ds[i].text)>>]

\* The report rep accounts for the messages ds.
Accounts(rep, ds) ==
  /\ rep \in Report
  /\ Listed(rep.admitted) = Written(Kept(ds, Admissible))
  /\ Listed(rep.quarantined) = Written(Kept(ds, Suspicious))
  /\ Len(rep.admitted) + Len(rep.quarantined) + rep.unknown_senders_dropped
       = Len(ds)

\* What is admitted is the sanitized text of a message that moderation admits.
AdmittedAreAdmissible(rep) ==
  \A i \in DOMAIN rep.admitted : \E d \in Admissible :
    rep.admitted[i].text = strip_invisible(d.text)

\* The inductive invariant of receiving.
InboundInv ==
  /\ InboundTypeOK
  /\ Accounts(report, drained)
  /\ AdmittedAreAdmissible(report)

\* One entry more in a list of the report.
LEMMA ListedOfAppend ==
  ASSUME NEW E, NEW rs \in Seq(E), NEW r \in E
  PROVE  Listed(Append(rs, r)) = Append(Listed(rs), <<r.sender, r.text>>)
<1> DEFINE n == Len(rs)
           a == Append(rs, r)
           e == <<r.sender, r.text>>
           l == Listed(rs)
           m == Listed(a)
           F == {<<x.sender, x.text>> : x \in E}
<1>1. n \in Nat /\ DOMAIN rs = 1 .. n /\ \A i \in 1 .. n : rs[i] \in E
  BY LenProperties
<1>2. /\ DOMAIN a = 1 .. n + 1 /\ a[n + 1] = r
      /\ \A i \in 1 .. n : a[i] = rs[i]
  BY AppendProperties, LenProperties
<1>3. l = [i \in 1 .. n |-> <<rs[i].sender, rs[i].text>>]
  BY <1>1 DEF Listed
<1>4. l \in Seq(F) /\ Len(l) = n /\ e \in F
  <2>1. \A i \in 1 .. n : <<rs[i].sender, rs[i].text>> \in F
    BY <1>1
  <2>2. l \in [1 .. n -> F]
    BY <1>3, <2>1
  <2> HIDE DEF F, l
  <2>3. l \in Seq(F) /\ Len(l) = n
    BY <1>1, <2>2
  <2> QED BY <2>3 DEF F
<1>5. m = [i \in 1 .. n + 1 |-> <<a[i].sender, a[i].text>>]
  BY <1>2 DEF Listed
<1> HIDE DEF n, l, m, F, a
<1>6. m[n + 1] = e /\ \A i \in 1 .. n : m[i] = l[i]
  BY <1>1, <1>2, <1>3, <1>5
<1>7. m \in Seq(F) /\ Len(m) = n + 1
  <2>1. \A i \in 1 .. n + 1 : m[i] \in F
    <3> SUFFICES ASSUME NEW i \in 1 .. n + 1 PROVE m[i] \in F
      OBVIOUS
    <3>1. CASE i = n + 1
      BY <1>4, <1>6, <3>1
    <3>2. CASE i # n + 1
      <4>1. i \in 1 .. n /\ l[i] \in F
        BY <1>1, <1>4, <3>2, LenProperties
      <4> QED BY <1>6, <4>1
    <3> QED BY <3>1, <3>2
  <2>2. m \in [1 .. n + 1 -> F]
    BY <1>5, <2>1
  <2> QED BY <1>1, <2>2
<1>8. /\ Append(l, e) \in Seq(F) /\ Len(Append(l, e)) = n + 1
      /\ Append(l, e)[n + 1] = e
      /\ \A i \in 1 .. n : Append(l, e)[i] = l[i]
  BY <1>4, AppendProperties
<1>9. \A i \in 1 .. n + 1 : Append(l, e)[i] = m[i]
  <2> SUFFICES ASSUME NEW i \in 1 .. n + 1 PROVE Append(l, e)[i] = m[i]
    OBVIOUS
  <2>1. CASE i = n + 1
    BY <1>6, <1>8, <2>1
  <2>2. CASE i # n + 1
    BY <1>1, <1>6, <1>8, <2>2
  <2> QED BY <2>1, <2>2
<1>10. Append(l, e) = m
  BY <1>7, <1>8, <1>9, SeqEqual
<1> QED BY <1>10 DEF l, m, a

\* One message more that was drained.
LEMMA WrittenOfAppend ==
  ASSUME NEW E, NEW ds \in Seq(E), NEW d \in E
  PROVE  Written(Append(ds, d))
           = Append(Written(ds), <<d.sender, strip_invisible(d.text)>>)
<1> DEFINE clean(x) == [sender |-> x.sender, text |-> strip_invisible(x.text)]
           F == {clean(x) : x \in E}
           cs == [i \in DOMAIN ds |-> clean(ds[i])]
           n == Len(ds)
           a == Append(ds, d)
           b == [i \in DOMAIN a |-> clean(a[i])]
<1>1. n \in Nat /\ DOMAIN ds = 1 .. n /\ \A i \in 1 .. n : ds[i] \in E
  BY LenProperties
<1>2. /\ DOMAIN a = 1 .. n + 1 /\ a[n + 1] = d
      /\ \A i \in 1 .. n : a[i] = ds[i]
  BY AppendProperties, LenProperties
<1>3. Written(ds) = Listed(cs) /\ Written(a) = Listed(b)
  BY DEF Written, Listed
<1>4. cs \in Seq(F) /\ clean(d) \in F /\ Len(cs) = n
  <2>1. cs \in [1 .. n -> F]
    BY <1>1
  <2> HIDE DEF F, cs
  <2>2. cs \in Seq(F) /\ Len(cs) = n
    BY <1>1, <2>1
  <2> QED BY <2>2 DEF F
<1>5. b = Append(cs, clean(d))
  <2>1. /\ Append(cs, clean(d)) \in Seq(F) /\ Len(Append(cs, clean(d))) = n + 1
        /\ Append(cs, clean(d))[n + 1] = clean(d)
        /\ \A i \in 1 .. n : Append(cs, clean(d))[i] = cs[i]
    <3> HIDE DEF cs, F, n, clean
    <3> QED BY <1>4, AppendProperties
  <2>2. b = [i \in 1 .. n + 1 |-> clean(a[i])]
    BY <1>2
  <2>3. \A i \in 1 .. n : cs[i] = clean(ds[i])
    BY <1>1
  <2> HIDE DEF cs, b, a, n
  <2>4. \A i \in 1 .. n + 1 : b[i] = Append(cs, clean(d))[i]
    <3> SUFFICES ASSUME NEW i \in 1 .. n + 1 PROVE b[i] = Append(cs, clean(d))[i]
      OBVIOUS
    <3>1. CASE i = n + 1
      BY <1>2, <2>1, <2>2, <3>1
    <3>2. CASE i # n + 1
      <4>1. i \in 1 .. n
        BY <1>1, <3>2
      <4> QED BY <1>2, <2>1, <2>2, <2>3, <4>1
    <3> QED BY <3>1, <3>2
  <2>5. b \in Seq(F) /\ Len(b) = n + 1
    <3>1. \A i \in 1 .. n + 1 : a[i] \in E
      <4> SUFFICES ASSUME NEW i \in 1 .. n + 1 PROVE a[i] \in E
        OBVIOUS
      <4>1. CASE i = n + 1
        BY <1>2, <4>1
      <4>2. CASE i # n + 1
        BY <1>1, <1>2, <4>2
      <4> QED BY <4>1, <4>2
    <3>2. b \in [1 .. n + 1 -> F]
      BY <2>2, <3>1
    <3> HIDE DEF F
    <3> QED BY <1>1, <3>2
  <2> HIDE DEF F, clean
  <2> QED BY <2>1, <2>4, <2>5, SeqEqual
<1>6. Listed(Append(cs, clean(d)))
        = Append(Listed(cs), <<clean(d).sender, clean(d).text>>)
  <2> HIDE DEF cs, F, clean
  <2> QED BY <1>4, ListedOfAppend
<1>7. clean(d).sender = d.sender /\ clean(d).text = strip_invisible(d.text)
  OBVIOUS
<1> HIDE DEF cs, b, clean
<1> QED BY <1>3, <1>5, <1>6, <1>7 DEF a

\* What moderate says of a text, and what an admitted text is free of.
LEMMA ModerateTyped ==
  ASSUME NEW text
  PROVE  /\ moderate(text) \in Reasons \cup {"Admit"}
         /\ "Admit" \notin Reasons
         /\ moderate(text) = "Admit" =>
              /\ ~ HasPattern(text, TRIFECTA_PATTERNS)
              /\ ~ HasPattern(text, INJECTION_PATTERNS)
              /\ ~ has_url(text)
  BY DEF moderate, Reasons

\* strip_invisible gives a text.
LEMMA StripTyped ==
  ASSUME NEW text \in Seq(Chars)
  PROVE  strip_invisible(text) \in Seq(Chars)
  BY KeptSteps DEF strip_invisible

\* Keeping the same elements again changes nothing: strip_invisible is
\* idempotent.
LEMMA KeptTwice ==
  ASSUME NEW E, NEW T
  PROVE  \A s \in Seq(E) : Kept(Kept(s, T), T) = Kept(s, T)
<1> DEFINE L == {s \in Seq(E) : Kept(Kept(s, T), T) = Kept(s, T)}
<1>0. /\ Kept(<< >>, T) = << >>
      /\ \A s \in Seq(E) :
           /\ Kept(s, T) \in Seq(E)
           /\ \A x \in E : Kept(Append(s, x), T) =
                IF x \in T THEN Append(Kept(s, T), x) ELSE Kept(s, T)
  BY KeptSteps
<1>1. << >> \in L
  BY <1>0, EmptySeq
<1>2. \A s \in Seq(E) : s \in L => \A x \in E : Append(s, x) \in L
  <2> SUFFICES ASSUME NEW s \in Seq(E), s \in L, NEW x \in E
               PROVE  Append(s, x) \in L
    OBVIOUS
  <2> DEFINE k == Kept(s, T)
             a == Append(s, x)
  <2>1. /\ a \in Seq(E) /\ k \in Seq(E) /\ Kept(k, T) = k
        /\ Kept(a, T) = IF x \in T THEN Append(k, x) ELSE k
    BY <1>0, AppendProperties
  <2>2. Kept(Append(k, x), T) = IF x \in T THEN Append(Kept(k, T), x) ELSE Kept(k, T)
    BY <1>0, <2>1
  <2> HIDE DEF k, a
  <2>3. Kept(Kept(a, T), T) = Kept(a, T)
    BY <2>1, <2>2
  <2> QED BY <2>1, <2>3 DEF a
<1> HIDE DEF L
<1>3. Seq(E) \subseteq L
  BY <1>1, <1>2, InductionOnSeq
<1> QED BY <1>3 DEF L

\* The step of drain's loop, as a function.
ReportStep == [p \in Report \X InboundMessage |-> Reported(p[1], p[2])]

\* Messages have texts.
LEMMA MessageText ==
  ASSUME NEW msg \in InboundMessage
  PROVE  /\ msg.sender \in Senders /\ msg.text \in Seq(Chars)
         /\ strip_invisible(msg.text) \in Seq(Chars)
<1>1. msg.sender \in Senders /\ msg.text \in InboundTexts
  BY DEF InboundMessage
<1> QED BY <1>1, TextsAssumption, StripTyped

\* The three outcomes of a turn of drain's loop.
LEMMA ReportedCases ==
  ASSUME NEW rep \in Report, NEW msg \in InboundMessage
  PROVE  LET clean == strip_invisible(msg.text)
             new == Reported(rep, msg)
         IN
         \/ /\ msg.sender \notin Allowed
            /\ new = [rep EXCEPT !.unknown_senders_dropped = @ + 1]
         \/ /\ msg.sender \in Allowed /\ moderate(clean) = "Admit"
            /\ new = [rep EXCEPT !.admitted =
                        Append(@, [sender |-> msg.sender, text |-> clean])]
         \/ /\ msg.sender \in Allowed /\ moderate(clean) \in Reasons
            /\ new = [rep EXCEPT !.quarantined =
                        Append(@, [sender |-> msg.sender, text |-> clean,
                                   reason |-> moderate(clean)])]
  BY ModerateTyped DEF Reported, Rejected, VerdictOn, QuarantineListed

\* A turn of drain's loop accounts for its message.
LEMMA ReportedAccounts ==
  ASSUME NEW rep, NEW ds \in Seq(InboundMessage), NEW msg \in InboundMessage,
         Accounts(rep, ds), AdmittedAreAdmissible(rep)
  PROVE  /\ Accounts(Reported(rep, msg), Append(ds, msg))
         /\ AdmittedAreAdmissible(Reported(rep, msg))
<1> DEFINE clean == strip_invisible(msg.text)
           new == Reported(rep, msg)
           ads == Kept(ds, Admissible)
           qds == Kept(ds, Suspicious)
           all == Append(ds, msg)
<1>1. /\ rep \in Report
      /\ Listed(rep.admitted) = Written(ads)
      /\ Listed(rep.quarantined) = Written(qds)
      /\ Len(rep.admitted) + Len(rep.quarantined) + rep.unknown_senders_dropped
           = Len(ds)
  BY DEF Accounts
<1>2. /\ rep.admitted \in Seq(Admission) /\ rep.quarantined \in Seq(Quarantine)
      /\ rep.unknown_senders_dropped \in Nat
      /\ rep = [admitted |-> rep.admitted, quarantined |-> rep.quarantined,
                unknown_senders_dropped |-> rep.unknown_senders_dropped]
      /\ Len(rep.admitted) \in Nat /\ Len(rep.quarantined) \in Nat
  BY <1>1, LenProperties DEF Report
<1>3. /\ ads \in Seq(InboundMessage) /\ qds \in Seq(InboundMessage)
      /\ Kept(all, Admissible) = IF msg \in Admissible THEN Append(ads, msg) ELSE ads
      /\ Kept(all, Suspicious) = IF msg \in Suspicious THEN Append(qds, msg) ELSE qds
  <2>1. ASSUME NEW T
        PROVE  /\ Kept(ds, T) \in Seq(InboundMessage)
               /\ Kept(all, T) = IF msg \in T THEN Append(Kept(ds, T), msg)
                                 ELSE Kept(ds, T)
    <3>1. \A s \in Seq(InboundMessage) :
            /\ Kept(s, T) \in Seq(InboundMessage)
            /\ \A x \in InboundMessage : Kept(Append(s, x), T) =
                 IF x \in T THEN Append(Kept(s, T), x) ELSE Kept(s, T)
      BY KeptSteps
    <3> QED BY <3>1
  <2> QED BY <2>1
<1>4. Len(all) = Len(ds) + 1 /\ Len(ds) \in Nat
  BY AppendProperties, LenProperties
<1>5. clean \in Seq(Chars)
  BY MessageText
<1>6. /\ msg \in Admissible <=> msg.sender \in Allowed /\ moderate(clean) = "Admit"
      /\ msg \in Suspicious <=> msg.sender \in Allowed /\ moderate(clean) \in Reasons
      /\ "Admit" \notin Reasons
  BY ModerateTyped DEF Admissible, Suspicious
<1>7. CASE /\ msg.sender \notin Allowed
           /\ new = [rep EXCEPT !.unknown_senders_dropped = @ + 1]
  <2>1. /\ new.admitted = rep.admitted /\ new.quarantined = rep.quarantined
        /\ new.unknown_senders_dropped = rep.unknown_senders_dropped + 1
        /\ new \in Report
    BY <1>2, <1>7 DEF Report
  <2>2. msg \notin Admissible /\ msg \notin Suspicious
    BY <1>6, <1>7
  <2> HIDE DEF new, all, ads, qds
  <2>3. Accounts(new, all)
    <3>1. Len(new.admitted) + Len(new.quarantined) + new.unknown_senders_dropped
            = Len(all)
      BY <1>1, <1>2, <1>4, <2>1
    <3> QED BY <1>1, <1>3, <2>1, <2>2, <3>1 DEF Accounts
  <2>4. AdmittedAreAdmissible(new)
    BY <2>1 DEF AdmittedAreAdmissible
  <2> QED BY <2>3, <2>4 DEF new, all
<1>8. CASE /\ msg.sender \in Allowed /\ moderate(clean) = "Admit"
           /\ new = [rep EXCEPT !.admitted =
                       Append(@, [sender |-> msg.sender, text |-> clean])]
  <2> DEFINE r == [sender |-> msg.sender, text |-> clean]
  <2>1. r \in Admission /\ r.sender = msg.sender /\ r.text = clean
    BY <1>5, <1>8 DEF Admission
  <2>2. msg \in Admissible /\ msg \notin Suspicious
    BY <1>6, <1>8
  <2>3. new = [rep EXCEPT !.admitted = Append(@, r)]
    BY <1>8
  <2> HIDE DEF new, all, ads, qds, r
  <2>4. /\ Append(rep.admitted, r) \in Seq(Admission)
        /\ Len(Append(rep.admitted, r)) = Len(rep.admitted) + 1
        /\ Append(rep.admitted, r)[Len(rep.admitted) + 1] = r
        /\ \A i \in 1 .. Len(rep.admitted) :
             Append(rep.admitted, r)[i] = rep.admitted[i]
    BY <1>2, <2>1, AppendProperties
  <2>5. /\ new.admitted = Append(rep.admitted, r)
        /\ new.quarantined = rep.quarantined
        /\ new.unknown_senders_dropped = rep.unknown_senders_dropped
        /\ new \in Report
    BY <1>2, <2>3, <2>4 DEF Report
  <2>6. Accounts(new, all)
    <3>1. Len(new.admitted) + Len(new.quarantined) + new.unknown_senders_dropped
            = Len(all)
      <4>1. /\ Len(new.admitted) = Len(rep.admitted) + 1
            /\ Len(new.quarantined) = Len(rep.quarantined)
            /\ new.unknown_senders_dropped = rep.unknown_senders_dropped
        BY <2>4, <2>5
      <4> QED BY <1>1, <1>2, <1>4, <4>1
    <3>2. Listed(new.admitted) = Append(Listed(rep.admitted), <<msg.sender, clean>>)
      <4>1. Listed(Append(rep.admitted, r))
              = Append(Listed(rep.admitted), <<r.sender, r.text>>)
        BY <1>2, <2>1, ListedOfAppend
      <4> QED BY <2>1, <2>5, <4>1
    <3>3. Written(Append(ads, msg)) = Append(Written(ads), <<msg.sender, clean>>)
      BY <1>3, WrittenOfAppend
    <3> QED BY <1>1, <1>3, <2>2, <2>5, <3>1, <3>2, <3>3 DEF Accounts
  <2>7. AdmittedAreAdmissible(new)
    <3> SUFFICES ASSUME NEW i \in DOMAIN new.admitted
                 PROVE  \E d \in Admissible :
                          new.admitted[i].text = strip_invisible(d.text)
      BY DEF AdmittedAreAdmissible
    <3> DEFINE n == Len(rep.admitted)
    <3>1. DOMAIN new.admitted = 1 .. n + 1 /\ DOMAIN rep.admitted = 1 .. n
          /\ n \in Nat
      BY <1>2, <2>4, <2>5, LenProperties
    <3> HIDE DEF n
    <3>2. CASE i = n + 1
      <4>1. new.admitted[i] = r
        BY <2>4, <2>5, <3>2 DEF n
      <4> QED BY <2>1, <2>2, <4>1
    <3>3. CASE i # n + 1
      <4>1. i \in 1 .. n
        BY <3>1, <3>3
      <4>2. new.admitted[i] = rep.admitted[i]
        BY <2>4, <2>5, <4>1 DEF n
      <4> QED BY <3>1, <4>1, <4>2 DEF AdmittedAreAdmissible
    <3> QED BY <3>2, <3>3
  <2> QED BY <2>6, <2>7 DEF new, all
<1>9. CASE /\ msg.sender \in Allowed /\ moderate(clean) \in Reasons
           /\ new = [rep EXCEPT !.quarantined =
                       Append(@, [sender |-> msg.sender, text |-> clean,
                                  reason |-> moderate(clean)])]
  <2> DEFINE r == [sender |-> msg.sender, text |-> clean,
                   reason |-> moderate(clean)]
  <2>1. r \in Quarantine /\ r.sender = msg.sender /\ r.text = clean
    BY <1>5, <1>9 DEF Quarantine
  <2>2. msg \notin Admissible /\ msg \in Suspicious
    BY <1>6, <1>9
  <2>3. new = [rep EXCEPT !.quarantined = Append(@, r)]
    BY <1>9
  <2> HIDE DEF new, all, ads, qds, r
  <2>4. /\ Append(rep.quarantined, r) \in Seq(Quarantine)
        /\ Len(Append(rep.quarantined, r)) = Len(rep.quarantined) + 1
    BY <1>2, <2>1, AppendProperties
  <2>5. /\ new.quarantined = Append(rep.quarantined, r)
        /\ new.admitted = rep.admitted
        /\ new.unknown_senders_dropped = rep.unknown_senders_dropped
        /\ new \in Report
    BY <1>2, <2>3, <2>4 DEF Report
  <2>6. Accounts(new, all)
    <3>1. Len(new.admitted) + Len(new.quarantined) + new.unknown_senders_dropped
            = Len(all)
      <4>1. /\ Len(new.quarantined) = Len(rep.quarantined) + 1
            /\ Len(new.admitted) = Len(rep.admitted)
            /\ new.unknown_senders_dropped = rep.unknown_senders_dropped
        BY <2>4, <2>5
      <4> QED BY <1>1, <1>2, <1>4, <4>1
    <3>2. Listed(new.quarantined)
            = Append(Listed(rep.quarantined), <<msg.sender, clean>>)
      BY <1>2, <2>1, <2>5, ListedOfAppend
    <3>3. Written(Append(qds, msg)) = Append(Written(qds), <<msg.sender, clean>>)
      BY <1>3, WrittenOfAppend
    <3> QED BY <1>1, <1>3, <2>2, <2>5, <3>1, <3>2, <3>3 DEF Accounts
  <2>7. AdmittedAreAdmissible(new)
    BY <2>5 DEF AdmittedAreAdmissible
  <2> QED BY <2>6, <2>7 DEF new, all
<1>10. \/ /\ msg.sender \notin Allowed
          /\ new = [rep EXCEPT !.unknown_senders_dropped = @ + 1]
       \/ /\ msg.sender \in Allowed /\ moderate(clean) = "Admit"
          /\ new = [rep EXCEPT !.admitted =
                      Append(@, [sender |-> msg.sender, text |-> clean])]
       \/ /\ msg.sender \in Allowed /\ moderate(clean) \in Reasons
          /\ new = [rep EXCEPT !.quarantined =
                      Append(@, [sender |-> msg.sender, text |-> clean,
                                 reason |-> moderate(clean)])]
  BY <1>1, ReportedCases
<1> QED BY <1>7, <1>8, <1>9, <1>10

\* A turn of drain's loop gives a report.
LEMMA ReportedTyped ==
  ASSUME NEW rep \in Report, NEW msg \in InboundMessage
  PROVE  Reported(rep, msg) \in Report
<1> DEFINE clean == strip_invisible(msg.text)
<1>1. clean \in Seq(Chars)
  BY MessageText
<1>2. /\ rep.admitted \in Seq(Admission) /\ rep.quarantined \in Seq(Quarantine)
      /\ rep.unknown_senders_dropped \in Nat
      /\ rep = [admitted |-> rep.admitted, quarantined |-> rep.quarantined,
                unknown_senders_dropped |-> rep.unknown_senders_dropped]
  BY DEF Report
<1>3. ASSUME NEW r \in Admission
      PROVE  [rep EXCEPT !.admitted = Append(@, r)] \in Report
  <2>1. Append(rep.admitted, r) \in Seq(Admission)
    BY <1>2, AppendProperties
  <2> QED BY <1>2, <2>1 DEF Report
<1>4. ASSUME NEW r \in Quarantine
      PROVE  [rep EXCEPT !.quarantined = Append(@, r)] \in Report
  <2>1. Append(rep.quarantined, r) \in Seq(Quarantine)
    BY <1>2, AppendProperties
  <2> QED BY <1>2, <2>1 DEF Report
<1>5. [rep EXCEPT !.unknown_senders_dropped = @ + 1] \in Report
  BY <1>2 DEF Report
<1>6. msg.sender \in Allowed => [sender |-> msg.sender, text |-> clean] \in Admission
  BY <1>1 DEF Admission
<1>7. msg.sender \in Allowed /\ moderate(clean) \in Reasons =>
        [sender |-> msg.sender, text |-> clean, reason |-> moderate(clean)]
          \in Quarantine
  BY <1>1 DEF Quarantine
<1> HIDE DEF clean
<1> QED BY <1>3, <1>4, <1>5, <1>6, <1>7, ReportedCases DEF clean

\* drain folds that step over the messages it took.
LEMMA ReportIsFolded ==
  ASSUME NEW rep \in Report, NEW s \in Seq(InboundMessage)
  PROVE  FoldLeft(Reported, rep, s) = Folded(ReportStep, rep, s)
<1> DEFINE St == ReportStep
           f == Iter(St, rep, s)
           h == CHOOSE h : h = [q \in SUBSET DOMAIN s |->
                  IF q = {} THEN rep ELSE Reported(h[q \ {Max(q)}], s[Max(q)])]
<1>1. FoldLeft(Reported, rep, s) = h[DOMAIN s]
  BY DEF FoldLeft, MapThenFoldSet
<1>2. IsStep(St, Report, InboundMessage)
  BY ReportedTyped DEF ReportStep, IsStep
<1> HIDE DEF St
<1>3. TypedSteps(f, s, Report, InboundMessage) /\ Recurs(f, St, rep, s)
  BY <1>2, IterTyped
<1> HIDE DEF f
<1>4. f = [q \in SUBSET DOMAIN s |->
             IF q = {} THEN rep ELSE Reported(f[q \ {Max(q)}], s[Max(q)])]
  BY <1>3 DEF TypedSteps, Recurs, St, ReportStep
<1>5. h = [q \in SUBSET DOMAIN s |->
             IF q = {} THEN rep ELSE Reported(h[q \ {Max(q)}], s[Max(q)])]
  BY <1>4
<1> HIDE DEF h
<1>6. StepsAs(h, St, rep, s, Report, InboundMessage)
  BY <1>5 DEF StepsAs, St, ReportStep
<1>7. Evaluates(h, St, rep, s)
  BY <1>2, <1>6, FoldBridge
<1> QED BY <1>1, <1>7 DEF St, Evaluates

\* So after a drain the report accounts for all messages drained.
LEMMA DrainAccounts ==
  ASSUME NEW rep, NEW ds \in Seq(InboundMessage),
         Accounts(rep, ds), AdmittedAreAdmissible(rep)
  PROVE  \A s \in Seq(InboundMessage) :
           /\ Accounts(FoldLeft(Reported, rep, s), ds \o s)
           /\ AdmittedAreAdmissible(FoldLeft(Reported, rep, s))
<1> DEFINE R(s) == Folded(ReportStep, rep, s)
           L == {s \in Seq(InboundMessage) : /\ Accounts(R(s), ds \o s)
                                      /\ AdmittedAreAdmissible(R(s))}
<1>1. rep \in Report
  BY DEF Accounts
<1>2. IsStep(ReportStep, Report, InboundMessage)
  BY ReportedTyped DEF ReportStep, IsStep
<1>3. FoldLaws(ReportStep, rep, Report, InboundMessage)
  BY <1>1, <1>2, FoldHasLaws
<1>4. /\ R(<< >>) = rep
      /\ \A s \in Seq(InboundMessage) : R(s) \in Report
      /\ \A s \in Seq(InboundMessage) : \A x \in InboundMessage :
           R(Append(s, x)) = Reported(R(s), x)
  BY <1>3 DEF FoldLaws, ReportStep
<1> HIDE DEF R
<1>5. << >> \in L
  BY <1>4, EmptySeq, ConcatEmptySeq
<1>6. \A s \in Seq(InboundMessage) : s \in L => \A x \in InboundMessage : Append(s, x) \in L
  <2> SUFFICES ASSUME NEW s \in Seq(InboundMessage), s \in L, NEW x \in InboundMessage
               PROVE  Append(s, x) \in L
    OBVIOUS
  <2>1. ds \o s \in Seq(InboundMessage) /\ Append(s, x) \in Seq(InboundMessage)
    BY ConcatProperties, AppendProperties
  <2>2. ds \o Append(s, x) = Append(ds \o s, x)
    <3>1. Append(s, x) = s \o <<x>> /\ <<x>> \in Seq(InboundMessage)
      BY AppendIsConcat
    <3>2. Append(ds \o s, x) = (ds \o s) \o <<x>>
      BY <2>1, AppendIsConcat
    <3>3. ds \o (s \o <<x>>) = (ds \o s) \o <<x>>
      BY <3>1, ConcatAssociative
    <3> QED BY <3>1, <3>2, <3>3
  <2>3. Accounts(R(s), ds \o s) /\ AdmittedAreAdmissible(R(s))
    OBVIOUS
  <2>4. /\ Accounts(Reported(R(s), x), Append(ds \o s, x))
        /\ AdmittedAreAdmissible(Reported(R(s), x))
    BY <2>1, <2>3, ReportedAccounts
  <2> QED BY <1>4, <2>1, <2>2, <2>4
<1> HIDE DEF L
<1>7. Seq(InboundMessage) \subseteq L
  BY <1>5, <1>6, InductionOnSeq
<1>8. \A s \in Seq(InboundMessage) : FoldLeft(Reported, rep, s) = R(s)
  BY <1>1, ReportIsFolded DEF R
<1> QED BY <1>7, <1>8 DEF L

\* Initially.
LEMMA InboundInit == Init => InboundInv
<1> SUFFICES ASSUME Init PROVE InboundInv
  OBVIOUS
<1>1. /\ inbound = << >> /\ drained = << >>
      /\ report = [admitted |-> << >>, quarantined |-> << >>,
                   unknown_senders_dropped |-> 0]
  BY DEF Init
<1>2. report \in Report
  BY <1>1, EmptySeq DEF Report
<1>3. Kept(<< >>, Admissible) = << >> /\ Kept(<< >>, Suspicious) = << >>
  BY KeptSteps
<1>4. Listed(<< >>) = << >> /\ Written(<< >>) = << >>
  BY DEF Listed, Written
<1>5. Accounts(report, drained)
  BY <1>1, <1>2, <1>3, <1>4, EmptySeq DEF Accounts
<1>6. AdmittedAreAdmissible(report)
  BY <1>1, EmptySeq DEF AdmittedAreAdmissible
<1> QED BY <1>1, <1>2, <1>5, <1>6, EmptySeq DEF InboundInv, InboundTypeOK

\* Every step keeps the invariant of receiving.
LEMMA InboundNext ==
  ASSUME InboundInv, [Next]_vars
  PROVE  InboundInv'
<1>1. ASSUME UNCHANGED inboundVars PROVE InboundInv'
  BY <1>1 DEF InboundInv, InboundTypeOK, inboundVars
<1>2. ASSUME NEW msg \in InboundMessage, Arrive(msg) PROVE InboundInv'
  <2>1. /\ inbound' = Append(inbound, msg)
        /\ report' = report /\ drained' = drained
    BY <1>2 DEF Arrive
  <2>2. inbound' \in Seq(InboundMessage)
    BY <2>1, AppendProperties DEF InboundInv, InboundTypeOK
  <2> QED BY <2>1, <2>2 DEF InboundInv, InboundTypeOK
<1>3. CASE Drain
  <2>1. /\ report' = FoldLeft(Reported, report, inbound)
        /\ drained' = drained \o inbound
        /\ inbound' = << >>
    BY <1>3 DEF Drain
  <2>2. /\ inbound \in Seq(InboundMessage) /\ drained \in Seq(InboundMessage)
        /\ Accounts(report, drained) /\ AdmittedAreAdmissible(report)
    BY DEF InboundInv, InboundTypeOK
  <2>3. /\ Accounts(FoldLeft(Reported, report, inbound), drained \o inbound)
        /\ AdmittedAreAdmissible(FoldLeft(Reported, report, inbound))
    BY <2>2, DrainAccounts
  <2>4. drained' \in Seq(InboundMessage) /\ inbound' \in Seq(InboundMessage)
    BY <2>1, <2>2, ConcatProperties, EmptySeq
  <2> QED BY <2>1, <2>3, <2>4 DEF InboundInv, InboundTypeOK, Accounts
<1>4. ASSUME NEW t \in OutboundTexts, QueueApproved(t) PROVE InboundInv'
  BY <1>1, <1>4 DEF QueueApproved
<1>5. CASE ChunkAccepted
  BY <1>1, <1>5 DEF ChunkAccepted
<1>6. CASE ChunkFails
  BY <1>1, <1>6 DEF ChunkFails
<1>7. CASE AllSent
  BY <1>1, <1>7 DEF AllSent
<1>8. CASE UNCHANGED vars
  BY <1>1, <1>8 DEF vars
<1> QED BY <1>2, <1>3, <1>4, <1>5, <1>6, <1>7, <1>8 DEF Next

\* drain (nostr_relay.rs), over any number of drains, keeps the inductive
\* invariant of receiving.
THEOREM InboundCorrect == Spec => []InboundInv
<1>1. Init => InboundInv
  BY InboundInit
<1>2. InboundInv /\ [Next]_vars => InboundInv'
  BY InboundNext
<1> QED BY <1>1, <1>2, PTL DEF Spec

\* Every variable of the channel keeps its type.
THEOREM TypeCorrect == Spec => []TypeOK
<1>1. InboundInv /\ OutboundInv => TypeOK
  BY DEF InboundInv, InboundTypeOK, OutboundInv, OutboundTypeOK, TypeOK,
         Report, Admission, Quarantine
<1> QED BY <1>1, InboundCorrect, OutboundCorrect, PTL

\* Nothing is silently dropped: drain's report has each message once, where it
\* belongs and in the order it came, as its sender wrote it but sanitized.
THEOREM EveryMessageReported == Spec => []EverythingReported
<1>1. InboundInv => EverythingReported
  BY DEF InboundInv, Accounts, Listed, Written, EverythingReported
<1> QED BY <1>1, InboundCorrect, PTL

\* No text that drain admitted shows its reader a trifecta or injection pattern
\* or the URL of a foreign host, whatever was hidden between the letters.
THEOREM EveryAdmittedReadsClean == Spec => []AdmittedReadsClean
<1>1. ASSUME InboundInv PROVE AdmittedReadsClean
  <2> SUFFICES ASSUME NEW i \in DOMAIN report.admitted
               PROVE  LET seen == Kept(report.admitted[i].text, Chars \ Invisible)
                      IN  /\ ~ HasPattern(seen, TRIFECTA_PATTERNS
                                                  \cup INJECTION_PATTERNS)
                          /\ ~ has_url(seen)
    BY DEF AdmittedReadsClean
  <2>1. PICK d \in Admissible : report.admitted[i].text = strip_invisible(d.text)
    BY <1>1 DEF InboundInv, AdmittedAreAdmissible
  <2>2. d \in InboundMessage /\ moderate(strip_invisible(d.text)) = "Admit"
    BY DEF Admissible
  <2>3. d.text \in Seq(Chars)
    BY <2>2, MessageText
  <2> DEFINE seen == Kept(report.admitted[i].text, Chars \ Invisible)
  <2>4. seen = strip_invisible(d.text)
    BY <2>1, <2>3, KeptTwice DEF strip_invisible
  <2> HIDE DEF seen
  <2>5. /\ ~ HasPattern(seen, TRIFECTA_PATTERNS)
        /\ ~ HasPattern(seen, INJECTION_PATTERNS)
        /\ ~ has_url(seen)
    BY <2>2, <2>4, ModerateTyped
  <2>6. ~ HasPattern(seen, TRIFECTA_PATTERNS \cup INJECTION_PATTERNS)
    BY <2>5 DEF HasPattern
  <2> QED BY <2>5, <2>6 DEF seen
<1> QED BY <1>1, InboundCorrect, PTL

----------------------------------------------------------------------------
(* The scripted approval cases                                             *)

\* The outcomes of the five scripted cases, whatever the clock says at each.
LEMMA VectorOutcomes ==
  ASSUME NEW clock \in [1 .. 5 -> Times]
  PROVE  DefensesHold(clock)
<1> SUFFICES ASSUME clock[4] > 0
             PROVE  approval_defenses(clock) =
               <<"UnknownSigner", "Approved", "NonceReused", "Expired", "BadSignature">>
  BY DEF DefensesHold
<1> DEFINE unknown == [signed_approval EXCEPT !.pubkey = ZeroKey]
           expired == [signed_approval EXCEPT !.expires_at_unix = 0]
           pendingX == SubmitTo(NewGate, SignedAction)
           pendingY == SubmitTo(NewGate, OtherAction)
           granted == AfterGrant(pendingX, SignedAction, signed_approval, clock[2])
           again == SubmitTo(granted, SignedAction)
<1>1. \A i \in 1 .. 5 : clock[i] \in Times /\ ~ (clock[i] > EndOfTime)
  <2>1. \A i \in 1 .. 5 : clock[i] \in Times
    OBVIOUS
  <2>2. \A t \in Times : ~ (t > EndOfTime)
    <3>1. EndOfTime \in Nat /\ \A t \in Times : t \in Nat /\ t <= EndOfTime
      BY VectorAssumption, TimesAssumption
    <3> QED BY ONLY <3>1
  <2> QED BY <2>1, <2>2
<1>2. DecideOutcome(pendingX, SignedAction, unknown, clock[1]) = "UnknownSigner"
  BY VectorAssumption
     DEF DecideOutcome, NotPending, SignerAllowlisted, SubmitTo, NewGate, signed_approval
<1>3. DecideOutcome(pendingX, SignedAction, signed_approval, clock[2]) = "Approved"
  BY <1>1, VectorAssumption
     DEF DecideOutcome, NotPending, SignerAllowlisted, SubmitTo, NewGate, signed_approval,
         ExpiredAt, NonceUsed, SignatureVerifies, VerifiedBytes, Message, APPROVAL_SIGNATURE
<1>4. DecideOutcome(again, SignedAction, signed_approval, clock[3]) = "NonceReused"
  BY <1>1, VectorAssumption
     DEF DecideOutcome, NotPending, SignerAllowlisted, SubmitTo, NewGate, signed_approval,
         ExpiredAt, NonceUsed, AfterGrant
<1>5. DecideOutcome(pendingX, SignedAction, expired, clock[4]) = "Expired"
  BY <1>1, VectorAssumption, TimesAssumption
     DEF DecideOutcome, NotPending, SignerAllowlisted, SubmitTo, NewGate, signed_approval,
         ExpiredAt
<1>6. DecideOutcome(pendingY, OtherAction, signed_approval, clock[5]) = "BadSignature"
  BY <1>1, VectorAssumption
     DEF DecideOutcome, NotPending, SignerAllowlisted, SubmitTo, NewGate, signed_approval,
         ExpiredAt, NonceUsed, SignatureVerifies, VerifiedBytes, Message, APPROVAL_SIGNATURE
<1> HIDE DEF unknown, expired
<1> QED BY <1>2, <1>3, <1>4, <1>5, <1>6
        DEF approval_defenses, request_human_decision, signed_session, Grants,
            unknown, expired

\* The input that was chosen is of its kind.
InputInv ==
  /\ kind = "hashed" => input \in HashedActions
  /\ kind = "ranks" => input \in RankLists \X RankLists
  /\ kind = "text" => input \in Texts
  /\ kind = "read" => input \in ReadActions
  /\ kind = "clock" => input \in [1 .. 5 -> Times]

\* A behaviour of PureFunctions holds one input of the kind it chose.
THEOREM InputCorrect == PureSpec => []InputInv
<1>1. PureInit => InputInv
  BY DEF PureInit, InputInv
<1>2. InputInv /\ [PureNext]_pureVars => InputInv'
  BY DEF InputInv, PureNext, pureVars, ChooseHashed, ChooseRanks, ChooseText,
         ChooseRead, ChooseClock, Choose
<1> QED BY <1>1, <1>2, PTL DEF PureSpec

\* approval_defenses (redteam.rs:147) gets the outcomes it asserts, at every
\* reading of the clock at each of its five steps: the case made to expire does,
\* and none of the others can.
THEOREM EveryDefenseHolds == PureSpec => []Defended
<1>1. InputInv => Defended
  BY VectorOutcomes DEF InputInv, Defended
<1> QED BY <1>1, InputCorrect, PTL

----------------------------------------------------------------------------
(* Encoding an action                                                      *)

\* Concatenation under a name, which ConcatParts alone expands.
Cat(x, s) == x \o s

\* A concatenation is its first part followed by its second.
LEMMA ConcatParts ==
  ASSUME NEW x \in Bytestring, NEW s \in Bytestring
  PROVE  /\ Cat(x, s) \in Bytestring
         /\ Len(Cat(x, s)) = Len(x) + Len(s)
         /\ \A i \in 1 .. Len(x) : Cat(x, s)[i] = x[i]
         /\ \A i \in 1 .. Len(s) : Cat(x, s)[Len(x) + i] = s[i]
PROOF
<1> DEFINE u == Cat(x, s)
<1>1. Len(x) \in Nat /\ Len(s) \in Nat
  BY LenProperties DEF Bytestring
<1>2. /\ u \in Bytestring
      /\ Len(u) = Len(x) + Len(s)
      /\ \A i \in 1 .. Len(x) + Len(s) :
           u[i] = IF i <= Len(x) THEN x[i] ELSE s[i - Len(x)]
  BY ConcatProperties DEF Cat, Bytestring
<1> HIDE DEF u
<1>3. \A i \in 1 .. Len(x) : u[i] = x[i]
  BY <1>1, <1>2
<1>4. \A i \in 1 .. Len(s) : u[Len(x) + i] = s[i]
  <2> TAKE i \in 1 .. Len(s)
  <2>1. /\ Len(x) + i \in 1 .. Len(x) + Len(s)
        /\ ~ (Len(x) + i <= Len(x))
        /\ (Len(x) + i) - Len(x) = i
    BY <1>1
  <2> QED
    BY <2>1, <1>2
<1> QED
  BY <1>2, <1>3, <1>4 DEF u

\* Equal concatenations whose first parts are equally long have equal parts.
LEMMA ConcatIsInjective ==
  ASSUME NEW x \in Bytestring, NEW y \in Bytestring,
         NEW s \in Bytestring, NEW t \in Bytestring,
         Len(x) = Len(y)
  PROVE  Cat(x, s) = Cat(y, t) => x = y /\ s = t
PROOF
<1>1. /\ Len(x) \in Nat /\ Len(s) \in Nat
      /\ Len(y) \in Nat /\ Len(t) \in Nat
  BY LenProperties DEF Bytestring
<1>2. /\ Len(Cat(x, s)) = Len(x) + Len(s)
      /\ \A i \in 1 .. Len(x) : Cat(x, s)[i] = x[i]
      /\ \A i \in 1 .. Len(s) : Cat(x, s)[Len(x) + i] = s[i]
  BY ConcatParts
<1>3. /\ Len(Cat(y, t)) = Len(y) + Len(t)
      /\ \A i \in 1 .. Len(y) : Cat(y, t)[i] = y[i]
      /\ \A i \in 1 .. Len(t) : Cat(y, t)[Len(y) + i] = t[i]
  BY ConcatParts
<1> HAVE Cat(x, s) = Cat(y, t)
<1>4. Len(s) = Len(t)
  BY <1>1, <1>2, <1>3
<1>5. \A i \in 1 .. Len(x) : x[i] = y[i]
  BY <1>2, <1>3
<1>6. \A i \in 1 .. Len(s) : s[i] = t[i]
  BY <1>2, <1>3, <1>4
<1>7. x = y
  BY <1>5, SeqEqual DEF Bytestring
<1>8. s = t
  BY <1>4, <1>6, SeqEqual DEF Bytestring
<1> QED
  BY <1>7, <1>8

\* A separator is one zero byte.
LEMMA SeparatorIsZero ==
  Separator \in Bytestring /\ Len(Separator) = 1 /\ Separator[1] = 0
PROOF
  BY ByteAssumption DEF Separator, Bytestring

\* No zero-free field is a proper beginning of another up to its separator.
LEMMA FieldIsNotShorter ==
  ASSUME NEW x \in Bytestring, NEW y \in Bytestring,
         NEW s \in Bytestring, NEW t \in Bytestring,
         ZeroFree(y),
         Cat(x, Cat(Separator, s)) = Cat(y, Cat(Separator, t))
  PROVE  Len(x) >= Len(y)
PROOF
<1> SUFFICES ASSUME Len(x) < Len(y) PROVE FALSE
  BY LenProperties DEF Bytestring
<1>1. Len(x) \in Nat /\ Len(y) \in Nat /\ Len(s) \in Nat
  BY LenProperties DEF Bytestring
<1>2. /\ Cat(Separator, s) \in Bytestring /\ Cat(Separator, t) \in Bytestring
      /\ Len(Cat(Separator, s)) = 1 + Len(s) /\ Cat(Separator, s)[1] = 0
  <2> DEFINE z == Separator
  <2>0. z \in Bytestring /\ Len(z) = 1 /\ z[1] = 0
    BY SeparatorIsZero
  <2> HIDE DEF z
  <2>1. \A i \in 1 .. Len(z) : Cat(z, s)[i] = z[i]
    BY <2>0, ConcatParts
  <2>2. Len(Cat(z, s)) = Len(z) + Len(s)
    BY <2>0, ConcatParts
  <2>3. Cat(Separator, s) \in Bytestring /\ Cat(Separator, t) \in Bytestring
    BY ConcatParts, SeparatorIsZero
  <2> QED
    BY <2>0, <2>1, <2>2, <2>3 DEF z
<1>3. Cat(x, Cat(Separator, s))[Len(x) + 1] = 0
  <2> DEFINE z == Cat(Separator, s)
  <2>1. z \in Bytestring /\ 1 \in 1 .. Len(z) /\ z[1] = 0
    BY <1>1, <1>2
  <2> HIDE DEF z
  <2>2. \A i \in 1 .. Len(z) : Cat(x, z)[Len(x) + i] = z[i]
    BY <2>1, ConcatParts
  <2>3. Cat(x, z)[Len(x) + 1] = z[1]
    BY ONLY <2>1, <2>2
  <2> QED
    BY <2>1, <2>3 DEF z
<1>4. Len(x) + 1 \in 1 .. Len(y)
  BY <1>1
<1>5. Cat(y, Cat(Separator, t))[Len(x) + 1] = y[Len(x) + 1]
  <2> DEFINE z == Cat(Separator, t)
  <2>1. z \in Bytestring
    BY <1>2
  <2> HIDE DEF z
  <2>2. \A i \in 1 .. Len(y) : Cat(y, z)[i] = y[i]
    BY <2>1, ConcatParts
  <2> QED
    BY <1>4, <2>2 DEF z
<1>6. y[Len(x) + 1] = 0
  BY <1>3, <1>5
<1>7. Len(x) + 1 \in DOMAIN y
  BY <1>4, LenProperties DEF Bytestring
<1> QED
  BY <1>6, <1>7 DEF ZeroFree

\* A zero-free field is determined by the string it begins, up to its
\* separator, and so is what follows the separator.
LEMMA FieldIsDelimited ==
  ASSUME NEW x \in Bytestring, NEW y \in Bytestring,
         NEW s \in Bytestring, NEW t \in Bytestring,
         ZeroFree(x), ZeroFree(y),
         Cat(x, Cat(Separator, s)) = Cat(y, Cat(Separator, t))
  PROVE  x = y /\ s = t
PROOF
<1>1. Len(x) >= Len(y)
  BY FieldIsNotShorter
<1>2. Len(y) >= Len(x)
  BY FieldIsNotShorter
<1>3. Len(x) = Len(y)
  BY <1>1, <1>2, LenProperties DEF Bytestring
<1>4. Cat(Separator, s) \in Bytestring /\ Cat(Separator, t) \in Bytestring
  BY ConcatParts, SeparatorIsZero
<1>5. x = y /\ Cat(Separator, s) = Cat(Separator, t)
  BY <1>3, <1>4, ConcatIsInjective
<1>6. s = t
  BY <1>5, SeparatorIsZero, ConcatIsInjective
<1> QED
  BY <1>5, <1>6

\* For every alphabet of bytes and all actions of any length: an action is
\* determined by what ActionRequest::hash feeds to SHA-256 (gate.rs:37-43),
\* provided actors and summaries are zero-free.
THEOREM HashIsInjective ==
  \A a, b \in ActionRequest : HashBindsAction(a, b)
PROOF
<1> SUFFICES ASSUME NEW a \in ActionRequest, NEW b \in ActionRequest,
                    ZeroFree(a.actor), ZeroFree(a.summary),
                    ZeroFree(b.actor), ZeroFree(b.summary),
                    HashInput(a) = HashInput(b)
             PROVE  a = b
  BY DEF HashBindsAction, Hashed
<1> DEFINE restA == Cat(a.summary, Cat(Separator, a.payload))
           restB == Cat(b.summary, Cat(Separator, b.payload))
<1>1. /\ a.actor \in Bytestring /\ a.summary \in Bytestring
      /\ a.payload \in Bytestring
      /\ b.actor \in Bytestring /\ b.summary \in Bytestring
      /\ b.payload \in Bytestring
  BY DEF ActionRequest
<1>2. restA \in Bytestring /\ restB \in Bytestring
  BY <1>1, SeparatorIsZero, ConcatParts
<1>3. Cat(a.actor, Cat(Separator, restA)) = Cat(b.actor, Cat(Separator, restB))
  BY DEF HashInput, Cat
<1> HIDE DEF restA, restB
<1>4. a.actor = b.actor /\ restA = restB
  BY <1>1, <1>2, <1>3, FieldIsDelimited
<1>5. a.summary = b.summary /\ a.payload = b.payload
  <2>1. Cat(a.summary, Cat(Separator, a.payload))
          = Cat(b.summary, Cat(Separator, b.payload))
    BY <1>4 DEF restA, restB
  <2> QED
    BY <1>1, <2>1, FieldIsDelimited
<1> QED
  BY <1>4, <1>5 DEF ActionRequest

\* The message of an approval determines the action hash, the nonce and the
\* expiry it was made for (gate.rs:62-68): the fields have fixed lengths.
THEOREM MessageIsInjective ==
  ASSUME NEW m \in Fields, NEW n \in Fields, MessageBytes(m) = MessageBytes(n)
  PROVE  m = n
PROOF
<1>1. /\ m.hash \in Bytestring /\ m.nonce \in Bytestring
      /\ m.expiry \in Bytestring
      /\ n.hash \in Bytestring /\ n.nonce \in Bytestring
      /\ n.expiry \in Bytestring
      /\ Len(m.hash) = Len(n.hash) /\ Len(m.nonce) = Len(n.nonce)
  BY DEF Fields
<1>2. Cat(m.hash, Cat(m.nonce, m.expiry)) = Cat(n.hash, Cat(n.nonce, n.expiry))
  BY DEF MessageBytes, MessageOf, Cat
<1>3. Cat(m.nonce, m.expiry) \in Bytestring /\ Cat(n.nonce, n.expiry) \in Bytestring
  BY <1>1, ConcatParts
<1> DEFINE restM == Cat(m.nonce, m.expiry)
           restN == Cat(n.nonce, n.expiry)
<1>4. m.hash = n.hash /\ restM = restN
  <2>1. restM \in Bytestring /\ restN \in Bytestring
    BY <1>3
  <2>2. Cat(m.hash, restM) = Cat(n.hash, restN)
    BY <1>2
  <2> HIDE DEF restM, restN
  <2> QED
    BY <1>1, <2>1, <2>2, ConcatIsInjective
<1>5. m.nonce = n.nonce /\ m.expiry = n.expiry
  <2>1. Cat(m.nonce, m.expiry) = Cat(n.nonce, n.expiry)
    BY <1>4
  <2> HIDE DEF restM, restN
  <2> QED
    BY <1>1, <2>1, ConcatIsInjective
<1> QED
  BY <1>4, <1>5 DEF Fields

\* ActionRequest::hash (gate.rs:37) binds: no two actions whose actors and
\* summaries are zero-free have the same input to the hash.
THEOREM EveryHashBinds == PureSpec => []HashBinds
<1>1. HashedActions \subseteq ActionRequest
  BY InputsAssumption DEF HashedActions, ActionRequest
<1>2. InputInv => HashBinds
  BY <1>1, HashIsInjective DEF InputInv, HashBinds
<1> QED BY <1>2, InputCorrect, PTL

----------------------------------------------------------------------------
(* Rendering an action                                                     *)

\* What is kept was there.
LEMMA KeptWasThere ==
  ASSUME NEW E, NEW T
  PROVE  \A s \in Seq(E) : \A i \in DOMAIN Kept(s, T) :
           \E j \in DOMAIN s : Kept(s, T)[i] = s[j]
<1> DEFINE From(k, s) == \A i \in DOMAIN k : \E j \in DOMAIN s : k[i] = s[j]
           L == {s \in Seq(E) : From(Kept(s, T), s)}
<1>0. /\ Kept(<< >>, T) = << >>
      /\ \A s \in Seq(E) :
           /\ Kept(s, T) \in Seq(E)
           /\ \A x \in E : Kept(Append(s, x), T) =
                IF x \in T THEN Append(Kept(s, T), x) ELSE Kept(s, T)
  BY KeptSteps
<1>1. << >> \in L
  BY <1>0, EmptySeq
<1>2. \A s \in Seq(E) : s \in L => \A x \in E : Append(s, x) \in L
  <2> SUFFICES ASSUME NEW s \in Seq(E), s \in L, NEW x \in E
               PROVE  Append(s, x) \in L
    OBVIOUS
  <2> DEFINE k == Kept(s, T)
             a == Append(s, x)
  <2>1. /\ a \in Seq(E) /\ k \in Seq(E) /\ From(k, s)
        /\ Kept(a, T) = IF x \in T THEN Append(k, x) ELSE k
    BY <1>0, AppendProperties
  <2>2. /\ DOMAIN a = 1 .. Len(s) + 1 /\ DOMAIN s = 1 .. Len(s) /\ Len(s) \in Nat
        /\ \A j \in DOMAIN s : a[j] = s[j]
        /\ a[Len(s) + 1] = x
    BY AppendProperties, LenProperties
  <2> HIDE DEF k, a
  <2>3. /\ DOMAIN Append(k, x) = 1 .. Len(k) + 1 /\ DOMAIN k = 1 .. Len(k)
        /\ Len(k) \in Nat
        /\ \A i \in DOMAIN k : Append(k, x)[i] = k[i]
        /\ Append(k, x)[Len(k) + 1] = x
    BY <2>1, AppendProperties, LenProperties
  <2>4. From(k, a)
    BY <2>1, <2>2
  <2>5. From(Append(k, x), a)
    <3> SUFFICES ASSUME NEW i \in 1 .. Len(k) + 1
                 PROVE  \E j \in DOMAIN a : Append(k, x)[i] = a[j]
      BY <2>3
    <3>1. CASE i = Len(k) + 1
      BY <3>1, <2>2, <2>3
    <3>2. CASE i # Len(k) + 1
      <4>1. i \in DOMAIN k
        BY <2>3, <3>2
      <4> QED BY <2>3, <2>4, <4>1
    <3> QED BY <3>1, <3>2
  <2> QED BY <2>1, <2>4, <2>5 DEF a
<1> HIDE DEF L
<1>3. Seq(E) \subseteq L
  BY <1>1, <1>2, InductionOnSeq
<1> QED BY <1>3 DEF L

\* Where the actor a and the summary s are in the rendered text f.
PartsAre(f, a, s) ==
  /\ f \in Seq(Chars) /\ Len(a) \in Nat /\ Len(s) \in Nat
  /\ Len(f) = Len(a) + 3 + Len(s)
  /\ \A i \in 1 .. Len(a) : f[i + 1] = a[i]
  /\ f[Len(a) + 2] = Close
  /\ \A i \in 1 .. Len(s) : f[Len(a) + 3 + i] = s[i]

\* The rendered text has the actor and the summary at fixed places.
LEMMA FormattedParts ==
  ASSUME NEW a \in Seq(Chars), NEW s \in Seq(Chars)
  PROVE  PartsAre(Formatted(a, s), a, s)
<1> DEFINE o == <<Open>>
           c == <<Close, Space>>
           p == o \o a
           q == p \o c
           f == q \o s
           n == Len(a)
           m == Len(s)
<1>1. /\ o \in Seq(Chars) /\ Len(o) = 1
      /\ c \in Seq(Chars) /\ Len(c) = 2 /\ c[1] = Close
  <2>1. Open \in Chars /\ Close \in Chars /\ Space \in Chars
    BY FormatAssumption
  <2> QED BY <2>1
<1> HIDE DEF o, c
<1>2. Joins(p, o, a, Chars)
  BY <1>1, PartsOfConcat
<1>3. p \in Seq(Chars)
  BY <1>2 DEF Joins
<1> HIDE DEF p
<1>4. Joins(q, p, c, Chars)
  BY <1>1, <1>3, PartsOfConcat
<1>5. q \in Seq(Chars)
  BY <1>4 DEF Joins
<1> HIDE DEF q
<1>6. Joins(f, q, s, Chars)
  BY <1>5, PartsOfConcat
<1>7. Formatted(a, s) = f
  BY DEF Formatted, f, q, p, o, c
<1> HIDE DEF f
<1>8. n \in Nat /\ m \in Nat /\ f \in Seq(Chars)
  BY <1>2, <1>6 DEF Joins
<1>9. Len(p) = n + 1 /\ Len(q) = n + 3 /\ Len(f) = n + 3 + m
  BY <1>1, <1>2, <1>4, <1>6, <1>8 DEF Joins
<1>10. /\ \A i \in 1 .. n : p[1 + i] = a[i]
       /\ \A i \in 1 .. n + 1 : q[i] = p[i]
       /\ \A i \in 1 .. 2 : q[n + 1 + i] = c[i]
       /\ \A i \in 1 .. n + 3 : f[i] = q[i]
       /\ \A i \in 1 .. m : f[n + 3 + i] = s[i]
  BY <1>1, <1>2, <1>4, <1>6, <1>9 DEF Joins
<1> HIDE DEF n, m
<1>11. ASSUME NEW i \in 1 .. n PROVE f[i + 1] = a[i]
  <2>1. i + 1 \in 1 .. n + 3 /\ i + 1 \in 1 .. n + 1 /\ i + 1 = 1 + i
    BY <1>8
  <2>2. f[i + 1] = q[i + 1] /\ q[i + 1] = p[i + 1] /\ p[1 + i] = a[i]
    BY <1>10, <2>1
  <2> QED BY <2>1, <2>2
<1>12. f[n + 2] = Close
  <2>1. n + 2 \in 1 .. n + 3 /\ n + 1 + 1 = n + 2 /\ 1 \in 1 .. 2
    BY <1>8
  <2>2. f[n + 2] = q[n + 2] /\ q[n + 1 + 1] = c[1]
    BY <1>10, <2>1
  <2> QED BY <1>1, <2>1, <2>2
<1> QED BY <1>7, <1>8, <1>9, <1>10, <1>11, <1>12 DEF PartsAre, n, m

\* An actor without the bracket that ends it.
NoBracket(a) == \A i \in DOMAIN a : a[i] # Close

\* No closing bracket comes before the one after the actor.
LEMMA ActorEnds ==
  ASSUME NEW f, NEW a, NEW s, NEW b \in Seq(Chars), NEW t,
         PartsAre(f, a, s), PartsAre(f, b, t), NoBracket(b)
  PROVE  Len(b) <= Len(a)
<1>1. /\ Len(a) \in Nat /\ Len(b) \in Nat /\ f[Len(a) + 2] = Close
      /\ \A i \in 1 .. Len(b) : f[i + 1] = b[i]
  BY DEF PartsAre
<1>2. \A i \in 1 .. Len(b) : b[i] # Close
  BY LenProperties DEF NoBracket
<1>3. ASSUME Len(a) < Len(b) PROVE FALSE
  <2>1. Len(a) + 1 \in 1 .. Len(b) /\ Len(a) + 1 + 1 = Len(a) + 2
    BY <1>1, <1>3
  <2> QED BY <1>1, <1>2, <2>1
<1> QED BY <1>1, <1>3

\* So the actors are equally long and both parts can be read back.
LEMMA FormattedIsInjective ==
  ASSUME NEW a \in Seq(Chars), NEW s \in Seq(Chars),
         NEW b \in Seq(Chars), NEW t \in Seq(Chars),
         NoBracket(a), NoBracket(b), Formatted(a, s) = Formatted(b, t)
  PROVE  a = b /\ s = t
<1> DEFINE f == Formatted(a, s)
<1>1. PartsAre(f, a, s) /\ PartsAre(f, b, t)
  BY FormattedParts
<1> HIDE DEF f
<1>2. Len(a) <= Len(b) /\ Len(b) <= Len(a)
  BY <1>1, ActorEnds
<1>3. Len(a) = Len(b) /\ Len(s) = Len(t) /\ Len(a) \in Nat
  BY <1>1, <1>2 DEF PartsAre
<1>4. a = b
  <2>1. \A i \in 1 .. Len(a) : a[i] = b[i]
    BY <1>1, <1>3 DEF PartsAre
  <2> QED BY <1>3, <2>1, SeqEqual
<1>5. s = t
  <2>1. \A i \in 1 .. Len(s) : s[i] = t[i]
    BY <1>1, <1>3 DEF PartsAre
  <2> QED BY <1>3, <2>1, SeqEqual
<1> QED BY <1>4, <1>5

\* ApprovalRenderer::render (gooseclaw-channels/src/lib.rs:81) shows the human
\* different texts for actions whose visible actors or summaries differ.
THEOREM RenderIsInjective ==
  ASSUME NEW a, a.actor \in Seq(Chars), a.summary \in Seq(Chars),
         NEW b, b.actor \in Seq(Chars), b.summary \in Seq(Chars)
  PROVE  RenderDistinguishes(a, b)
<1> DEFINE aa == strip_invisible(a.actor)
           as == strip_invisible(a.summary)
           ba == strip_invisible(b.actor)
           bs == strip_invisible(b.summary)
<1>1. /\ aa \in Seq(Chars) /\ as \in Seq(Chars)
      /\ ba \in Seq(Chars) /\ bs \in Seq(Chars)
  BY StripTyped
<1>2. /\ \A i \in DOMAIN aa : \E j \in DOMAIN a.actor : aa[i] = a.actor[j]
      /\ \A i \in DOMAIN ba : \E j \in DOMAIN b.actor : ba[i] = b.actor[j]
  <2>1. \A s \in Seq(Chars) : \A i \in DOMAIN strip_invisible(s) :
          \E j \in DOMAIN s : strip_invisible(s)[i] = s[j]
    BY KeptWasThere DEF strip_invisible
  <2> QED BY <2>1
<1> HIDE DEF aa, as, ba, bs
<1> SUFFICES ASSUME Close \notin {a.actor[i] : i \in DOMAIN a.actor},
                    Close \notin {b.actor[i] : i \in DOMAIN b.actor},
                    Formatted(aa, as) = Formatted(ba, bs)
             PROVE  aa = ba /\ as = bs
  BY DEF RenderDistinguishes, render, aa, as, ba, bs
<1>3. NoBracket(aa) /\ NoBracket(ba)
  BY <1>2 DEF NoBracket
<1> QED BY <1>1, <1>3, FormattedIsInjective

\* The property of the runs, for every set of actors and summaries.
THEOREM EverySummaryDiffers == PureSpec => []SummariesDiffer
<1>1. \A a \in ReadActions : a.actor \in Seq(Chars) /\ a.summary \in Seq(Chars)
  BY InputsAssumption DEF ReadActions
<1>2. InputInv => SummariesDiffer
  BY <1>1, RenderIsInjective DEF InputInv, SummariesDiffer
<1> QED BY <1>2, InputCorrect, PTL

----------------------------------------------------------------------------
(* Scanning a text                                                         *)

\* What keeps its length keeps all its elements.
LEMMA KeptAll ==
  ASSUME NEW E, NEW T
  PROVE  \A s \in Seq(E) : /\ Len(Kept(s, T)) <= Len(s)
                           /\ Len(Kept(s, T)) = Len(s) => Kept(s, T) = s
<1> DEFINE All(k, s) == Len(k) <= Len(s) /\ (Len(k) = Len(s) => k = s)
           L == {s \in Seq(E) : All(Kept(s, T), s)}
<1>0. /\ Kept(<< >>, T) = << >>
      /\ \A s \in Seq(E) :
           /\ Kept(s, T) \in Seq(E)
           /\ \A x \in E : Kept(Append(s, x), T) =
                IF x \in T THEN Append(Kept(s, T), x) ELSE Kept(s, T)
  BY KeptSteps
<1>1. << >> \in L
  BY <1>0, EmptySeq
<1>2. \A s \in Seq(E) : s \in L => \A x \in E : Append(s, x) \in L
  <2> SUFFICES ASSUME NEW s \in Seq(E), s \in L, NEW x \in E
               PROVE  Append(s, x) \in L
    OBVIOUS
  <2> DEFINE k == Kept(s, T)
             a == Append(s, x)
  <2>1. /\ a \in Seq(E) /\ k \in Seq(E) /\ All(k, s)
        /\ Kept(a, T) = IF x \in T THEN Append(k, x) ELSE k
    BY <1>0, AppendProperties
  <2>2. Len(a) = Len(s) + 1 /\ Len(s) \in Nat
    BY AppendProperties, LenProperties
  <2> HIDE DEF k
  <2>3. Len(Append(k, x)) = Len(k) + 1 /\ Len(k) \in Nat
    BY <2>1, AppendProperties, LenProperties
  <2>4. All(k, a)
    BY <2>1, <2>2, <2>3
  <2>5. All(Append(k, x), a)
    BY <2>1, <2>2, <2>3
  <2> QED BY <2>1, <2>4, <2>5
<1> HIDE DEF L
<1>3. Seq(E) \subseteq L
  BY <1>1, <1>2, InductionOnSeq
<1> QED BY <1>3 DEF L

\* Sanitizer::scan_injection (gooseclaw-safety/src/lib.rs:91) warns of every text
\* with a marker in its visible part: if nothing was hidden the text is its
\* visible part, and if something was, that is a warning.
THEOREM HiddenMarkersAreFlagged ==
  ASSUME NEW text \in Seq(Chars)
  PROVE  HiddenMarkersFlagged(text)
<1> SUFFICES ASSUME MarkersIn(to_lowercase(strip_invisible(text))) # {}
             PROVE  scan_injection(text) # {}
  BY DEF HiddenMarkersFlagged
<1>1. CASE contains_invisible(text)
  BY <1>1 DEF scan_injection
<1>2. CASE ~ contains_invisible(text)
  <2>1. strip_invisible(text) = text
    BY <1>2, KeptAll DEF contains_invisible, strip_invisible
  <2>2. PICK p \in MarkersIn(to_lowercase(text)) : TRUE
    BY <2>1
  <2>3. [pattern |-> p, severity |-> "Medium"] \in scan_injection(text)
    BY <2>2 DEF scan_injection
  <2> QED BY <2>3
<1> QED BY <1>1, <1>2

\* t is in s, after the first k elements of s.
PartAt(t, s, k) ==
  k + Len(t) <= Len(s) /\ \A i \in 1 .. Len(t) : t[i] = s[k + i]

\* A part of a text takes no more bytes than the text.
LEMMA SizeOfPart ==
  \A s \in Seq(Chars) : \A t \in Seq(Chars) : \A k \in Nat :
    PartAt(t, s, k) => SizeOf(t) <= SizeOf(s)
<1> DEFINE Bound(s) == \A t \in Seq(Chars) : \A k \in Nat :
                         PartAt(t, s, k) => SizeOf(t) <= SizeOf(s)
           L == {s \in Seq(Chars) : Bound(s)}
<1>0. /\ SizeOf(<< >>) = 0
      /\ \A s \in Seq(Chars) :
           /\ SizeOf(s) \in Nat
           /\ \A c \in Chars : SizeOf(Append(s, c)) = SizeOf(s) + Bytes[c]
      /\ \A c \in Chars : Bytes[c] \in Nat
  BY SizeOfSteps, CharsAssumption
<1>1. << >> \in L
  <2> SUFFICES ASSUME NEW t \in Seq(Chars), NEW k \in Nat, PartAt(t, << >>, k)
               PROVE  SizeOf(t) <= SizeOf(<< >>)
    BY EmptySeq
  <2>1. Len(t) = 0
    BY LenProperties, EmptySeq DEF PartAt
  <2>2. t = << >>
    BY <2>1, EmptySeq
  <2> QED BY <1>0, <2>2
<1>2. \A s \in Seq(Chars) : s \in L => \A x \in Chars : Append(s, x) \in L
  <2> SUFFICES ASSUME NEW s \in Seq(Chars), s \in L, NEW x \in Chars,
                      NEW t \in Seq(Chars), NEW k \in Nat,
                      PartAt(t, Append(s, x), k)
               PROVE  SizeOf(t) <= SizeOf(Append(s, x))
    BY AppendProperties
  <2> DEFINE a == Append(s, x)
             n == Len(s)
  <2>1. /\ n \in Nat /\ Len(a) = n + 1 /\ a[n + 1] = x
        /\ \A i \in 1 .. n : a[i] = s[i]
    BY LenProperties, AppendProperties
  <2>2. SizeOf(s) <= SizeOf(a) /\ SizeOf(a) = SizeOf(s) + Bytes[x]
        /\ SizeOf(s) \in Nat /\ SizeOf(a) \in Nat
    BY <1>0
  <2> HIDE DEF a
  <2>3. PartAt(t, a, k)
    BY DEF a
  <2>4. CASE t = << >>
    BY <1>0, <2>2, <2>4
  <2>5. CASE t # << >> /\ k + Len(t) <= n
    <3>1. ASSUME NEW i \in 1 .. Len(t) PROVE k + i \in 1 .. n
      BY <2>1, <2>5, LenProperties
    <3>2. PartAt(t, s, k)
      BY <2>1, <2>3, <2>5, <3>1 DEF PartAt
    <3>3. SizeOf(t) <= SizeOf(s) /\ SizeOf(t) \in Nat
      BY <1>0, <3>2
    <3> QED BY <2>2, <3>3 DEF a
  <2>6. CASE t # << >> /\ ~ (k + Len(t) <= n)
    <3>1. PICK u \in Seq(Chars), y \in Chars : t = Append(u, y)
      BY <2>6, SequenceEmptyOrAppend
    <3>2. /\ Len(u) \in Nat /\ Len(t) = Len(u) + 1 /\ t[Len(u) + 1] = y
          /\ \A i \in 1 .. Len(u) : t[i] = u[i]
      BY <3>1, AppendProperties, LenProperties
    <3>3. k + Len(u) = n /\ k + (Len(u) + 1) = n + 1
      <4>1. k + Len(t) <= Len(a)
        BY <2>3 DEF PartAt
      <4>2. k + (Len(u) + 1) <= n + 1 /\ ~ (k + (Len(u) + 1) <= n)
        BY <2>1, <2>6, <3>2, <4>1
      <4>3. k \in Nat /\ Len(u) \in Nat /\ n \in Nat
        BY <2>1, <3>2
      <4> HIDE DEF n
      <4> QED BY ONLY <4>2, <4>3
    <3>4. y = x
      <4>1. Len(u) + 1 \in 1 .. Len(t)
        BY <3>2
      <4>2. t[Len(u) + 1] = a[k + (Len(u) + 1)]
        BY <2>3, <4>1 DEF PartAt
      <4> QED BY <2>1, <3>2, <3>3, <4>2
    <3>5. PartAt(u, s, k)
      <4>1. ASSUME NEW i \in 1 .. Len(u) PROVE u[i] = s[k + i]
        <5>1. i \in 1 .. Len(t) /\ k + i \in 1 .. n
          BY <3>2, <3>3
        <5>2. t[i] = a[k + i]
          BY <2>3, <5>1 DEF PartAt
        <5> QED BY <2>1, <3>2, <5>1, <5>2
      <4> QED BY <2>1, <3>3, <4>1 DEF PartAt
    <3>6. SizeOf(u) <= SizeOf(s) /\ SizeOf(u) \in Nat /\ Bytes[x] \in Nat
      BY <1>0, <3>5
    <3>7. SizeOf(t) = SizeOf(u) + Bytes[x]
      BY <1>0, <3>1, <3>4
    <3> QED BY <2>2, <3>6, <3>7 DEF a
  <2> QED BY <2>4, <2>5, <2>6 DEF a
<1> HIDE DEF L
<1>3. Seq(Chars) \subseteq L
  BY <1>1, <1>2, InductionOnSeq
<1> QED BY <1>3 DEF L

\* LeakDetector::scan_leaks (lib.rs:123) returns no evidence that contains the
\* token it was found in: the token takes more bytes than the evidence.
THEOREM RedactedHidesTheToken ==
  ASSUME NEW text \in Seq(Chars)
  PROVE  RedactedHidesToken(text)
<1> SUFFICES ASSUME NEW g \in Leaks(text),
                    NEW i \in DOMAIN Evidence(g[2]),
                    OccursAt(TokenAt(text, g[1]), Evidence(g[2]), i)
             PROVE  FALSE
  BY DEF RedactedHidesToken, scan_leaks, HasPattern
<1> DEFINE e == Evidence(g[2])
           k == TokenAt(text, g[1])
<1>1. g[2] \in LeakKinds /\ g[1] \in Tokens(text) /\ LongEnough(k, g[2])
  BY DEF Leaks
<1>2. e \in Seq(Chars) /\ SizeOf(e) <= LeakLength[g[2]] /\ LeakLength[g[2]] \in Nat
  BY <1>1, LeakAssumption, AppendProperties DEF Evidence
<1>3. k \in Seq(Chars)
  <2>1. g[1][1] \in 1 .. Len(text) /\ g[1][2] \in 1 .. Len(text) /\ Len(text) \in Nat
    BY <1>1, LenProperties DEF Tokens
  <2>2. \A j \in g[1][1] .. g[1][2] : text[j] \in Chars
    BY <2>1, LenProperties
  <2> QED BY <2>1, <2>2, SubSeqProperties DEF TokenAt
<1> HIDE DEF e, k
<1>4. i + Len(k) - 1 <= Len(e) /\ SubSeq(e, i, i + Len(k) - 1) = k
      /\ i \in 1 .. Len(e) /\ Len(e) \in Nat /\ Len(k) \in Nat
  BY <1>2, <1>3, LenProperties DEF OccursAt, e, k
<1>5. PartAt(k, e, i - 1)
  <2> DEFINE m == i + Len(k) - 1
  <2>1. \A j \in i .. m : e[j] \in Chars
    BY <1>2, <1>4, LenProperties
  <2>2. i \in Int /\ m \in Int
    BY <1>4
  <2>3. \A j \in 1 .. m - i + 1 : SubSeq(e, i, m)[j] = e[i + j - 1]
    BY <2>1, <2>2, SubSeqProperties
  <2>4. \A j \in 1 .. Len(k) : k[j] = e[i - 1 + j]
    <3> SUFFICES ASSUME NEW j \in 1 .. Len(k) PROVE k[j] = e[i - 1 + j]
      OBVIOUS
    <3>1. j \in 1 .. m - i + 1 /\ i + j - 1 = i - 1 + j
      BY <1>4
    <3> HIDE DEF m
    <3>2. SubSeq(e, i, m)[j] = e[i + j - 1]
      BY <2>3, <3>1
    <3> QED BY <1>4, <3>1, <3>2 DEF m
  <2>5. i - 1 + Len(k) <= Len(e)
    BY <1>4
  <2> QED BY <2>4, <2>5 DEF PartAt
<1>6. SizeOf(k) <= SizeOf(e) /\ SizeOf(k) \in Nat /\ SizeOf(e) \in Nat
  <2>1. i - 1 \in Nat
    BY <1>4
  <2> QED BY <1>2, <1>3, <1>5, <2>1, SizeOfPart, SizeOfSteps
<1>7. SizeOf(k) > LeakLength[g[2]]
  BY <1>1 DEF LongEnough, k
<1> QED BY <1>2, <1>6, <1>7

\* Both, for every set of texts.
THEOREM EveryScanHolds == PureSpec => []ScansHold
<1>1. \A text \in Texts : HiddenMarkersFlagged(text) /\ RedactedHidesToken(text)
  BY InputsAssumption, HiddenMarkersAreFlagged, RedactedHidesTheToken
<1>2. InputInv => ScansHold
  BY <1>1 DEF InputInv, ScansHold
<1> QED BY <1>2, InputCorrect, PTL

----------------------------------------------------------------------------
(* Adding up the scores of two lists                                       *)

\* A document at a rank, 0 included.
Entry == [doc_id : Docs, rank : 0 .. MaxRank]

\* Scores of some documents.
Table == UNION {[D -> Nat] : D \in SUBSET Docs}

\* A score is a number.
LEMMA RrfTyped ==
  ASSUME NEW r \in 0 .. MaxRank
  PROVE  rrf_score(r) \in Nat
<1>1. RRF_K \in Nat /\ MaxRank \in Nat /\ Scale \in Nat
  BY ScaleAssumption
<1>2. CASE r = 0
  BY <1>2 DEF rrf_score
<1>3. CASE r # 0
  <2>1. RRF_K + r \in Nat \ {0}
    BY <1>1, <1>3
  <2>2. Scale \div (RRF_K + r) \in Nat
    BY <1>1, <2>1
  <2> QED BY <1>3, <2>2 DEF rrf_score
<1> QED BY <1>2, <1>3

\* One turn of the loop of fuse adds to the score of one document.
LEMMA AccumulateAdds ==
  ASSUME NEW acc \in Table, NEW e \in Entry
  PROVE  /\ Accumulate(acc, e) \in Table
         /\ DOMAIN Accumulate(acc, e) = DOMAIN acc \cup {e.doc_id}
         /\ \A d : ScoreOf(Accumulate(acc, e), d) = ScoreOf(acc, d)
                     + (IF d = e.doc_id THEN rrf_score(e.rank) ELSE 0)
<1>1. PICK D \in SUBSET Docs : acc \in [D -> Nat]
  BY DEF Table
<1>2. e.doc_id \in Docs /\ e.rank \in 0 .. MaxRank
  BY DEF Entry
<1>3. rrf_score(e.rank) \in Nat
  BY <1>2, RrfTyped
<1> DEFINE new == Accumulate(acc, e)
           F == D \cup {e.doc_id}
<1>4. new = [d \in F |-> IF d = e.doc_id THEN ScoreOf(acc, d) + rrf_score(e.rank)
                         ELSE acc[d]]
  BY <1>1 DEF Accumulate, ScoreOf
<1> HIDE DEF new
<1>5. \A d : ScoreOf(acc, d) \in Nat
  BY <1>1 DEF ScoreOf
<1>6. new \in [F -> Nat]
  BY <1>1, <1>3, <1>4, <1>5
<1>7. new \in Table
  BY <1>1, <1>2, <1>6 DEF Table
<1>8. \A d : ScoreOf(new, d) = ScoreOf(acc, d)
               + (IF d = e.doc_id THEN rrf_score(e.rank) ELSE 0)
  BY <1>1, <1>3, <1>4, <1>5, <1>6 DEF ScoreOf
<1> QED BY <1>1, <1>6, <1>7, <1>8 DEF new

\* The step of that loop, as a function.
TableStep == [p \in Table \X Entry |-> Accumulate(p[1], p[2])]

\* The scores after the entries s.
TableOf(s) == FoldLeft(Accumulate, << >>, s)

\* It is a step of folds.
LEMMA TableStepIsStep == IsStep(TableStep, Table, Entry) /\ << >> \in Table
<1>1. IsStep(TableStep, Table, Entry)
  BY AccumulateAdds DEF TableStep, IsStep
<1>2. << >> \in [{} -> Nat]
  OBVIOUS
<1> QED BY <1>1, <1>2 DEF Table

\* The scores are the fold of that step.
LEMMA TableIsFolded ==
  ASSUME NEW s \in Seq(Entry)
  PROVE  TableOf(s) = Folded(TableStep, << >>, s)
<1> DEFINE St == TableStep
           f == Iter(St, << >>, s)
           h == CHOOSE h : h = [q \in SUBSET DOMAIN s |->
                  IF q = {} THEN << >> ELSE Accumulate(h[q \ {Max(q)}], s[Max(q)])]
<1>1. TableOf(s) = h[DOMAIN s]
  BY DEF TableOf, FoldLeft, MapThenFoldSet
<1>2. IsStep(St, Table, Entry) /\ << >> \in Table
  BY TableStepIsStep
<1> HIDE DEF St
<1>3. TypedSteps(f, s, Table, Entry) /\ Recurs(f, St, << >>, s)
  BY <1>2, IterTyped
<1> HIDE DEF f
<1>4. f = [q \in SUBSET DOMAIN s |->
             IF q = {} THEN << >> ELSE Accumulate(f[q \ {Max(q)}], s[Max(q)])]
  BY <1>3 DEF TypedSteps, Recurs, St, TableStep
<1>5. h = [q \in SUBSET DOMAIN s |->
             IF q = {} THEN << >> ELSE Accumulate(h[q \ {Max(q)}], s[Max(q)])]
  BY <1>4
<1> HIDE DEF h
<1>6. StepsAs(h, St, << >>, s, Table, Entry)
  BY <1>5 DEF StepsAs, St, TableStep
<1>7. Evaluates(h, St, << >>, s)
  BY <1>2, <1>6, FoldBridge
<1> QED BY <1>1, <1>7 DEF St, Evaluates

\* One entry more is one turn more.
LEMMA TableSteps ==
  /\ TableOf(<< >>) = << >>
  /\ \A s \in Seq(Entry) :
       /\ TableOf(s) \in Table
       /\ \A e \in Entry : TableOf(Append(s, e)) = Accumulate(TableOf(s), e)
<1>1. FoldLaws(TableStep, << >>, Table, Entry)
  BY TableStepIsStep, FoldHasLaws
<1>2. \A s \in Seq(Entry) : TableOf(s) = Folded(TableStep, << >>, s)
  BY TableIsFolded
<1>3. TableOf(<< >>) = << >>
  BY <1>1, <1>2, EmptySeq DEF FoldLaws
<1>4. ASSUME NEW s \in Seq(Entry)
      PROVE  /\ TableOf(s) \in Table
             /\ \A e \in Entry : TableOf(Append(s, e)) = Accumulate(TableOf(s), e)
  <2>1. TableOf(s) \in Table
    BY <1>1, <1>2 DEF FoldLaws
  <2>2. ASSUME NEW e \in Entry
        PROVE  TableOf(Append(s, e)) = Accumulate(TableOf(s), e)
    <3>1. Append(s, e) \in Seq(Entry)
      BY AppendProperties
    <3>2. TableOf(Append(s, e)) = TableStep[<<TableOf(s), e>>]
      BY <1>1, <1>2, <3>1 DEF FoldLaws
    <3> QED BY <2>1, <3>2 DEF TableStep
  <2> QED BY <2>1, <2>2
<1> QED BY <1>3, <1>4

\* The documents of a list with one entry more.
LEMMA DocsOfAppend ==
  ASSUME NEW s \in Seq(Entry), NEW e \in Entry
  PROVE  DocsOf(Append(s, e)) = DocsOf(s) \cup {e.doc_id}
<1> DEFINE a == Append(s, e)
           n == Len(s)
<1>1. /\ n \in Nat /\ DOMAIN s = 1 .. n /\ DOMAIN a = 1 .. n + 1 /\ a[n + 1] = e
      /\ \A i \in 1 .. n : a[i] = s[i]
  BY AppendProperties, LenProperties
<1> HIDE DEF a, n
<1>2. 1 .. n + 1 = (1 .. n) \cup {n + 1}
  BY <1>1
<1>3. DocsOf(a) = DocsOf(s) \cup {e.doc_id}
  BY <1>1, <1>2 DEF DocsOf
<1> QED BY <1>3 DEF a

\* Every document of the lists has a score, and the scores of both lists add up.
Adds(l, s) ==
  /\ l \o s \in Seq(Entry)
  /\ DOMAIN TableOf(l \o s) = DOMAIN TableOf(l) \cup DocsOf(s)
  /\ \A d : ScoreOf(TableOf(l \o s), d)
              = ScoreOf(TableOf(l), d) + ScoreOf(TableOf(s), d)

\* A document that has no entry scores 0.
LEMMA ScoreTyped ==
  ASSUME NEW acc \in Table, NEW d
  PROVE  ScoreOf(acc, d) \in Nat
  BY DEF ScoreOf, Table

\* Each turn for the second list adds to what the first list alone would give.
LEMMA ScoresAdd ==
  ASSUME NEW l \in Seq(Entry)
  PROVE  \A s \in Seq(Entry) : Adds(l, s)
<1> DEFINE L == {s \in Seq(Entry) : Adds(l, s)}
<1>1. << >> \in L
  <2>1. << >> \in Seq(Entry) /\ l \o << >> = l /\ DocsOf(<< >>) = {}
    BY EmptySeq, ConcatEmptySeq DEF DocsOf
  <2>2. TableOf(<< >>) = << >> /\ TableOf(l) \in Table
    BY TableSteps
  <2>3. \A d : ScoreOf(<< >>, d) = 0 /\ ScoreOf(TableOf(l), d) \in Nat
    BY <2>2, ScoreTyped, EmptySeq DEF ScoreOf
  <2>4. \A d : ScoreOf(TableOf(l), d)
                = ScoreOf(TableOf(l), d) + ScoreOf(TableOf(<< >>), d)
    BY <2>2, <2>3
  <2>5. Adds(l, << >>)
    BY <2>1, <2>4 DEF Adds
  <2> QED BY <2>1, <2>5
<1>2. \A s \in Seq(Entry) : s \in L => \A e \in Entry : Append(s, e) \in L
  <2> SUFFICES ASSUME NEW s \in Seq(Entry), Adds(l, s), NEW e \in Entry
               PROVE  Append(s, e) \in Seq(Entry) /\ Adds(l, Append(s, e))
    OBVIOUS
  <2>1. Append(s, e) \in Seq(Entry) /\ l \o s \in Seq(Entry)
    BY AppendProperties, ConcatProperties
  <2>2. l \o Append(s, e) = Append(l \o s, e) /\ Append(l \o s, e) \in Seq(Entry)
    <3>1. Append(s, e) = s \o <<e>> /\ <<e>> \in Seq(Entry)
      BY AppendIsConcat
    <3>2. Append(l \o s, e) = (l \o s) \o <<e>>
      BY <2>1, AppendIsConcat
    <3>3. l \o (s \o <<e>>) = (l \o s) \o <<e>>
      BY <3>1, ConcatAssociative
    <3> QED BY <2>1, <3>1, <3>2, <3>3, AppendProperties
  <2> DEFINE tl == TableOf(l)
             ts == TableOf(s)
             t == TableOf(l \o s)
             r == rrf_score(e.rank)
  <2>3. /\ TableOf(Append(s, e)) = Accumulate(ts, e)
        /\ TableOf(Append(l \o s, e)) = Accumulate(t, e)
        /\ tl \in Table /\ ts \in Table /\ t \in Table
    BY <2>1, TableSteps
  <2>4. /\ DOMAIN t = DOMAIN tl \cup DocsOf(s)
        /\ \A d : ScoreOf(t, d) = ScoreOf(tl, d) + ScoreOf(ts, d)
    BY DEF Adds
  <2>5. r \in Nat
    BY RrfTyped DEF Entry
  <2> HIDE DEF tl, ts, t, r
  <2>6. /\ DOMAIN Accumulate(t, e) = DOMAIN t \cup {e.doc_id}
        /\ \A d : ScoreOf(Accumulate(t, e), d)
                    = ScoreOf(t, d) + (IF d = e.doc_id THEN r ELSE 0)
        /\ \A d : ScoreOf(Accumulate(ts, e), d)
                    = ScoreOf(ts, d) + (IF d = e.doc_id THEN r ELSE 0)
    BY <2>3, AccumulateAdds DEF r
  <2>7. DOMAIN Accumulate(t, e) = DOMAIN tl \cup DocsOf(Append(s, e))
    BY <2>4, <2>6, DocsOfAppend
  <2>8. ASSUME NEW d
        PROVE  ScoreOf(Accumulate(t, e), d)
                 = ScoreOf(tl, d) + ScoreOf(Accumulate(ts, e), d)
    <3>1. ScoreOf(tl, d) \in Nat /\ ScoreOf(ts, d) \in Nat
      BY <2>3, ScoreTyped
    <3>2. ScoreOf(t, d) = ScoreOf(tl, d) + ScoreOf(ts, d)
      BY <2>4
    <3> QED BY <2>5, <2>6, <3>1, <3>2
  <2> QED BY <2>1, <2>2, <2>3, <2>7, <2>8 DEF Adds, tl
<1> HIDE DEF L
<1>3. Seq(Entry) \subseteq L
  BY <1>1, <1>2, InductionOnSeq
<1> QED BY <1>3 DEF L

\* The documents that have a score are those of the list.
LEMMA TableDomain ==
  ASSUME NEW s \in Seq(Entry)
  PROVE  DOMAIN TableOf(s) = DocsOf(s)
<1>1. << >> \in Seq(Entry) /\ << >> \o s = s
  BY EmptySeq, ConcatEmptySeq
<1>2. DOMAIN TableOf(<< >> \o s) = DOMAIN TableOf(<< >>) \cup DocsOf(s)
  BY <1>1, ScoresAdd DEF Adds
<1>3. DOMAIN TableOf(<< >>) = {}
  BY TableSteps, EmptySeq
<1> QED BY <1>1, <1>2, <1>3

\* fuse (gooseclaw-knowledge/src/lib.rs:43) gives the same hits in the same order
\* whichever of the two lists comes first: neither source is preferred.
THEOREM FuseIsSymmetric ==
  ASSUME NEW l \in Seq(Entry), NEW s \in Seq(Entry)
  PROVE  FusionIsSymmetric(l, s)
<1> DEFINE t == TableOf(l \o s)
           u == TableOf(s \o l)
<1>1. t \in Table /\ u \in Table
  BY ScoresAdd, TableSteps DEF Adds
<1>2. DOMAIN t = DOMAIN u
  BY ScoresAdd, TableDomain DEF Adds
<1>3. \A d : ScoreOf(TableOf(l), d) \in Nat /\ ScoreOf(TableOf(s), d) \in Nat
  BY TableSteps, ScoreTyped
<1>4. Adds(l, s) /\ Adds(s, l)
  BY ScoresAdd
<1>5. \A d : /\ ScoreOf(t, d) = ScoreOf(TableOf(l), d) + ScoreOf(TableOf(s), d)
             /\ ScoreOf(u, d) = ScoreOf(TableOf(s), d) + ScoreOf(TableOf(l), d)
  BY <1>4 DEF Adds
<1> HIDE DEF t, u
<1>6. \A d : ScoreOf(t, d) = ScoreOf(u, d)
  BY <1>3, <1>5
<1>7. t = u
  <2>1. PICK D \in SUBSET Docs : t \in [D -> Nat]
    BY <1>1 DEF Table
  <2>2. u \in [D -> Nat]
    BY <1>1, <1>2, <2>1 DEF Table
  <2>3. \A d \in D : t[d] = u[d]
    BY <1>2, <1>6, <2>1, <2>2 DEF ScoreOf
  <2> QED BY <2>1, <2>2, <2>3
<1>8. Scores(l, s) = t /\ Scores(s, l) = u
  BY DEF Scores, t, u, TableOf
<1> QED BY <1>7, <1>8 DEF FusionIsSymmetric, fuse

----------------------------------------------------------------------------
(* Agreement                                                               *)

\* Scale is a multiple of RRF_K plus any rank: no score is rounded.
LEMMA RrfIsExact ==
  ASSUME NEW r \in 1 .. MaxRank
  PROVE  /\ RRF_K + r \in Nat /\ rrf_score(r) \in Nat
         /\ (RRF_K + r) * rrf_score(r) = Scale
<1>1. /\ RRF_K \in Nat /\ MaxRank \in Nat /\ Scale \in Nat
      /\ Scale % (RRF_K + r) = 0
  BY ScaleAssumption
<1>2. r \in 0 .. MaxRank /\ r # 0 /\ r \in Nat
  BY <1>1
<1> DEFINE a == RRF_K + r
           q == Scale \div a
<1>3. rrf_score(r) = q /\ rrf_score(r) \in Nat
  BY <1>2, RrfTyped DEF rrf_score
<1>4. a \in Nat \ {0} /\ Scale % a = 0
  BY <1>1, <1>2
<1> HIDE DEF a
<1>5. a * (Scale \div a) = Scale
  BY <1>1, <1>4
<1> QED BY <1>3, <1>4, <1>5 DEF a

\* Of two fractions of one numerator, by their denominators.
LEMMA LessThanTwice ==
  ASSUME NEW a \in Nat, NEW q \in Nat, NEW c \in Nat, NEW p \in Nat,
         a < 2 * c, a * q = c * p, c * p > 0
  PROVE  p < 2 * q
<1>1. q > 0
  BY SMT
<1> SUFFICES ASSUME p >= 2 * q PROVE FALSE
  OBVIOUS
<1>2. c * p >= c * (2 * q)
  BY SMT
<1>3. (2 * c) * q > a * q
  BY <1>1, SMT
<1>4. c * (2 * q) = (2 * c) * q
  BY SMT
<1> QED BY <1>2, <1>3, <1>4, SMT

\* The last of both lists scores more than the first of one.
LEMMA TwoBeatOne ==
  ASSUME NEW r \in 1 .. MaxRank, NEW u \in 1 .. MaxRank, NEW v \in 1 .. MaxRank,
         r <= RRF_K + 1, u <= RRF_K + 1
  PROVE  rrf_score(r) + rrf_score(u) > rrf_score(v)
<1>1. RRF_K \in Nat /\ MaxRank \in Nat /\ Scale \in Nat /\ Scale > 0
  BY ScaleAssumption
<1> DEFINE p == rrf_score(v)
           c == RRF_K + v
<1>2. c \in Nat /\ p \in Nat /\ c * p = Scale
  BY RrfIsExact
<1>3. ASSUME NEW w \in 1 .. MaxRank, w <= RRF_K + 1
      PROVE  rrf_score(w) \in Nat /\ p < 2 * rrf_score(w)
  <2> DEFINE a == RRF_K + w
             q == rrf_score(w)
  <2>1. a \in Nat /\ q \in Nat /\ a * q = Scale
    BY RrfIsExact
  <2>2. a < 2 * c
    BY <1>1, <1>3
  <2> HIDE DEF a, q, c, p
  <2>3. p < 2 * q
    BY <1>1, <1>2, <2>1, <2>2, LessThanTwice
  <2> QED BY <2>1, <2>3 DEF q
<1> HIDE DEF p, c
<1>4. /\ rrf_score(r) \in Nat /\ p < 2 * rrf_score(r)
      /\ rrf_score(u) \in Nat /\ p < 2 * rrf_score(u)
  BY <1>3
<1>5. rrf_score(r) + rrf_score(u) > p
  BY <1>2, <1>4
<1> QED BY <1>5 DEF p

\* No document is twice in the list s.
Distinct(s) == \A i, j \in DOMAIN s : s[i].doc_id = s[j].doc_id => i = j

\* The score of a document of a list is that of its rank.
LEMMA ScoreInList ==
  \A s \in Seq(Entry) : Distinct(s) =>
    \A i \in DOMAIN s : ScoreOf(TableOf(s), s[i].doc_id) = rrf_score(s[i].rank)
<1> DEFINE Right(s) == \A i \in DOMAIN s :
                         ScoreOf(TableOf(s), s[i].doc_id) = rrf_score(s[i].rank)
           L == {s \in Seq(Entry) : Distinct(s) => Right(s)}
<1>1. << >> \in L
  BY EmptySeq
<1>2. \A s \in Seq(Entry) : s \in L => \A e \in Entry : Append(s, e) \in L
  <2> SUFFICES ASSUME NEW s \in Seq(Entry), s \in L, NEW e \in Entry,
                      Distinct(Append(s, e))
               PROVE  Append(s, e) \in Seq(Entry) /\ Right(Append(s, e))
    BY AppendProperties
  <2> DEFINE a == Append(s, e)
             n == Len(s)
             t == TableOf(s)
  <2>1. /\ n \in Nat /\ DOMAIN s = 1 .. n /\ DOMAIN a = 1 .. n + 1 /\ a[n + 1] = e
        /\ \A i \in 1 .. n : a[i] = s[i]
        /\ a \in Seq(Entry)
    BY AppendProperties, LenProperties
  <2>2. TableOf(a) = Accumulate(t, e) /\ t \in Table
    BY TableSteps
  <2>3. Distinct(a)
    OBVIOUS
  <2> HIDE DEF a, n
  <2>4. \A i \in 1 .. n : i \in DOMAIN a /\ n + 1 \in DOMAIN a /\ i # n + 1
    BY <2>1
  <2>5. \A i \in 1 .. n : s[i].doc_id # e.doc_id
    BY <2>1, <2>3, <2>4 DEF Distinct
  <2>6. Distinct(s)
    BY <2>1, <2>3, <2>4 DEF Distinct
  <2>7. Right(s)
    BY <2>6
  <2>8. e.doc_id \notin DOMAIN t
    <3>1. DOMAIN t = DocsOf(s)
      BY TableDomain
    <3>2. e.doc_id \notin DocsOf(s)
      BY <2>1, <2>5 DEF DocsOf
    <3> QED BY <3>1, <3>2
  <2>9. /\ \A d : ScoreOf(Accumulate(t, e), d)
                    = ScoreOf(t, d) + (IF d = e.doc_id THEN rrf_score(e.rank) ELSE 0)
        /\ rrf_score(e.rank) \in Nat
    BY <2>2, AccumulateAdds, RrfTyped DEF Entry
  <2> HIDE DEF t
  <2>10. ASSUME NEW i \in 1 .. n + 1
         PROVE  ScoreOf(TableOf(a), a[i].doc_id) = rrf_score(a[i].rank)
    <3>1. CASE i = n + 1
      <4>1. ScoreOf(t, e.doc_id) = 0
        BY <2>8 DEF ScoreOf
      <4> QED BY <2>1, <2>2, <2>9, <3>1, <4>1
    <3>2. CASE i # n + 1
      <4>1. i \in 1 .. n
        BY <2>1, <3>2
      <4>2. ScoreOf(t, s[i].doc_id) = rrf_score(s[i].rank)
        BY <2>1, <2>7, <4>1 DEF t
      <4>3. ScoreOf(t, s[i].doc_id) \in Nat
        BY <2>2, ScoreTyped
      <4> QED BY <2>1, <2>2, <2>5, <2>9, <4>1, <4>2, <4>3
    <3> QED BY <3>1, <3>2
  <2> QED BY <2>1, <2>10 DEF a
<1> HIDE DEF L
<1>3. Seq(Entry) \subseteq L
  BY <1>1, <1>2, InductionOnSeq
<1> QED BY <1>3 DEF L

\* The lists a store supplies.
LEMMA RankListTyped ==
  ASSUME NEW l \in RankLists
  PROVE  /\ l \in Seq(Entry) /\ Distinct(l)
         /\ \A i \in DOMAIN l : l[i].rank \in 1 .. MaxRank
<1>1. MaxRank \in Nat
  BY ScaleAssumption
<1>2. PICK s \in SeqOf(Docs, MaxRank) :
        IsInjective(s) /\ l = [i \in DOMAIN s |-> [doc_id |-> s[i], rank |-> i]]
  BY DEF RankLists
<1>3. PICK m \in 0 .. MaxRank : s \in [1 .. m -> Docs]
  BY DEF SeqOf
<1>4. /\ DOMAIN l = 1 .. m
      /\ \A i \in 1 .. m : l[i].doc_id = s[i] /\ l[i].rank = i
  BY <1>2, <1>3
<1>5. \A i \in 1 .. m : i \in 0 .. MaxRank /\ i \in 1 .. MaxRank
  BY <1>1, <1>3
<1>6. l \in [1 .. m -> Entry]
  BY <1>2, <1>3, <1>5 DEF Entry
<1>7. l \in Seq(Entry)
  BY <1>1, <1>3, <1>6
<1>8. Distinct(l)
  BY <1>2, <1>3, <1>4 DEF Distinct, IsInjective
<1> QED BY <1>4, <1>5, <1>7, <1>8

----------------------------------------------------------------------------
(* The order of the hits                                                   *)

\* What fuse returns a sequence of.
Hit == [doc_id : Nat, score : Nat]

\* What the sort puts before the hit h.
Preceding(hits, h) == {g \in hits : Before(g, h)}

\* The order of the hits is a strict total order.
LEMMA BeforeIsOrder ==
  ASSUME NEW f \in Hit, NEW g \in Hit, NEW h \in Hit
  PROVE  /\ ~Before(h, h)
         /\ Before(f, g) /\ Before(g, h) => Before(f, h)
         /\ g # h => Before(g, h) \/ Before(h, g)
<1>1. /\ f.doc_id \in Nat /\ f.score \in Nat
      /\ g.doc_id \in Nat /\ g.score \in Nat
      /\ h.doc_id \in Nat /\ h.score \in Nat
  BY DEF Hit
<1>2. g.doc_id = h.doc_id /\ g.score = h.score => g = h
  BY DEF Hit
<1> QED BY <1>1, <1>2 DEF Before

\* A hit has more hits before it than any of those.
LEMMA PrecedingGrows ==
  ASSUME NEW S \in SUBSET Hit, IsFiniteSet(S), NEW h \in S
  PROVE  /\ IsFiniteSet(Preceding(S, h))
         /\ Cardinality(Preceding(S, h)) \in 0 .. Cardinality(S) - 1
         /\ \A g \in S : Before(g, h) =>
              Cardinality(Preceding(S, g)) < Cardinality(Preceding(S, h))
<1>1. \A g \in S : Preceding(S, g) \subseteq S /\ g \notin Preceding(S, g)
  BY BeforeIsOrder DEF Preceding
<1>2. \A g \in S : IsFiniteSet(Preceding(S, g))
  BY <1>1, FS_Subset
<1>3. \A g \in S : Cardinality(Preceding(S, g)) \in Nat
  BY <1>2, FS_CardinalityType
<1>4. Cardinality(S) \in Nat
  BY FS_CardinalityType
<1>5. Cardinality(Preceding(S, h)) <= Cardinality(S)
  BY <1>1, FS_Subset
<1>6. Cardinality(Preceding(S, h)) # Cardinality(S)
  <2>1. Preceding(S, h) # S
    BY <1>1
  <2> QED BY <1>1, <2>1, FS_Subset
<1>7. ASSUME NEW g \in S, Before(g, h)
      PROVE  Cardinality(Preceding(S, g)) < Cardinality(Preceding(S, h))
  <2>1. Preceding(S, g) \subseteq Preceding(S, h)
    BY <1>7, BeforeIsOrder DEF Preceding
  <2>2. g \in Preceding(S, h)
    BY <1>7 DEF Preceding
  <2>3. Preceding(S, g) # Preceding(S, h)
    BY <1>1, <2>2
  <2>4. /\ Cardinality(Preceding(S, g)) <= Cardinality(Preceding(S, h))
        /\ Cardinality(Preceding(S, h)) = Cardinality(Preceding(S, g))
             => Preceding(S, h) = Preceding(S, g)
    BY <1>2, <2>1, FS_Subset
  <2> QED BY <1>3, <2>3, <2>4
<1> QED BY <1>2, <1>3, <1>4, <1>5, <1>6, <1>7

\* The i-th hit of the result is one of the hits and has i - 1 before it.
LEMMA SortedRanks ==
  ASSUME NEW S \in SUBSET Hit, IsFiniteSet(S)
  PROVE  /\ DOMAIN Sorted(S) = 1 .. Cardinality(S)
         /\ \A i \in DOMAIN Sorted(S) :
              /\ Sorted(S)[i] \in S
              /\ Cardinality(Preceding(S, Sorted(S)[i])) = i - 1
<1> DEFINE n == Cardinality(S)
           T == 0 .. n - 1
           f == [h \in S |-> Cardinality(Preceding(S, h))]
<1>1. n \in Nat
  BY FS_CardinalityType
<1>2. IsFiniteSet(T) /\ Cardinality(T) = n
  BY <1>1, FS_Interval
<1>3. f \in [S -> T]
  BY PrecedingGrows
<1>4. ASSUME NEW g \in S, NEW h \in S, f[g] = f[h] PROVE g = h
  <2>1. ~Before(g, h)
    <3> SUFFICES ASSUME Before(g, h) PROVE FALSE
      OBVIOUS
    <3>1. f[g] < f[h]
      BY PrecedingGrows
    <3>2. f[h] \in Nat
      BY <1>1, <1>3
    <3> QED BY <1>4, <3>1, <3>2
  <2>2. ~Before(h, g)
    <3> SUFFICES ASSUME Before(h, g) PROVE FALSE
      OBVIOUS
    <3>1. f[h] < f[g]
      BY PrecedingGrows
    <3>2. f[h] \in Nat
      BY <1>1, <1>3
    <3> QED BY <1>4, <3>1, <3>2
  <2> QED BY <2>1, <2>2, BeforeIsOrder
<1> HIDE DEF f, T
<1>5. f \in Injection(S, T)
  BY <1>3, <1>4 DEF Injection, IsInjective
<1>6. f \in Surjection(S, T)
  BY <1>2, <1>5, FS_Injection
<1>7. ASSUME NEW i \in 1 .. n
      PROVE  /\ Sorted(S)[i] \in S
             /\ Cardinality(Preceding(S, Sorted(S)[i])) = i - 1
  <2>1. i - 1 \in T
    BY <1>1, <1>7 DEF T
  <2>2. PICK h \in S : f[h] = i - 1
    BY <1>6, <2>1 DEF Surjection
  <2>3. Cardinality({g \in S : Before(g, h)}) = i - 1
    BY <2>2 DEF f, Preceding
  <2>4. Sorted(S)[i] = CHOOSE k \in S : Cardinality({g \in S : Before(g, k)}) = i - 1
    BY DEF Sorted
  <2> QED BY <2>3, <2>4 DEF Preceding
<1>8. DOMAIN Sorted(S) = 1 .. n
  BY DEF Sorted
<1> QED BY <1>7, <1>8

\* The hits of a list are finitely many.
LEMMA HitsTyped ==
  ASSUME NEW s \in Seq(Entry)
  PROVE  LET H == HitsOf(TableOf(s))
         IN  /\ H \in SUBSET Hit /\ IsFiniteSet(H)
             /\ \A h \in H : /\ h.doc_id \in DocsOf(s)
                             /\ h.score = ScoreOf(TableOf(s), h.doc_id)
<1> DEFINE t == TableOf(s)
           H == HitsOf(t)
           n == Len(s)
<1>1. DOMAIN t = DocsOf(s) /\ t \in Table
  BY TableDomain, TableSteps
<1>2. n \in Nat /\ DOMAIN s = 1 .. n
  BY LenProperties
<1> HIDE DEF t, n
<1>3. ASSUME NEW h \in H
      PROVE  /\ h \in Hit /\ h.doc_id \in DocsOf(s)
             /\ h.score = ScoreOf(t, h.doc_id)
  <2>1. PICK d \in DOMAIN t : h = [doc_id |-> d, score |-> t[d]]
    BY DEF HitsOf
  <2>2. d \in Nat /\ t[d] \in Nat
    BY <1>1, InputsAssumption DEF Table
  <2> QED BY <1>1, <2>1, <2>2 DEF Hit, ScoreOf
<1> DEFINE g == [i \in 1 .. n |-> [doc_id |-> s[i].doc_id, score |-> t[s[i].doc_id]]]
<1>4. g \in Surjection(1 .. n, H)
  <2>1. \A i \in 1 .. n : s[i].doc_id \in DOMAIN t
    BY <1>1, <1>2 DEF DocsOf
  <2>2. \A i \in 1 .. n : g[i] \in H
    BY <2>1 DEF HitsOf
  <2>3. g \in [1 .. n -> H]
    BY <2>2
  <2>4. ASSUME NEW h \in H PROVE \E i \in 1 .. n : g[i] = h
    <3>1. PICK d \in DOMAIN t : h = [doc_id |-> d, score |-> t[d]]
      BY DEF HitsOf
    <3>2. PICK i \in 1 .. n : s[i].doc_id = d
      BY <1>1, <1>2 DEF DocsOf
    <3> QED BY <3>1, <3>2
  <2> QED BY <2>3, <2>4 DEF Surjection
<1>5. IsFiniteSet(H)
  BY <1>2, <1>4, FS_Interval, FS_Surjection
<1> QED BY <1>3, <1>5 DEF t

\* A document that a list does not rank.
LEMMA ScoreAbsent ==
  ASSUME NEW s \in Seq(Entry), NEW d, d \notin DocsOf(s)
  PROVE  ScoreOf(TableOf(s), d) = 0
  BY TableDomain DEF ScoreOf

\* The score of a document of a list that a store supplies.
LEMMA ScorePresent ==
  ASSUME NEW s \in RankLists, NEW d \in DocsOf(s),
         \A i \in DOMAIN s : s[i].rank \in 1 .. RRF_K + 1
  PROVE  \E r \in 1 .. MaxRank :
           r <= RRF_K + 1 /\ ScoreOf(TableOf(s), d) = rrf_score(r)
<1>1. /\ s \in Seq(Entry) /\ Distinct(s)
      /\ \A i \in DOMAIN s : s[i].rank \in 1 .. MaxRank
  BY RankListTyped
<1>2. PICK i \in DOMAIN s : s[i].doc_id = d
  BY DEF DocsOf
<1>3. ScoreOf(TableOf(s), s[i].doc_id) = rrf_score(s[i].rank)
  BY <1>1, ScoreInList
<1>4. s[i].rank \in 1 .. MaxRank /\ s[i].rank <= RRF_K + 1
  BY <1>1, ScaleAssumption
<1> QED BY <1>2, <1>3, <1>4

\* fuse puts each document that both lists rank before each document that only
\* one of them ranks, for ranks up to RRF_K + 1.
THEOREM AgreementAlwaysWins ==
  ASSUME NEW l \in RankLists, NEW s \in RankLists
  PROVE  AgreementWins(l, s)
<1> SUFFICES ASSUME \A i \in DOMAIN l : l[i].rank \in 1 .. RRF_K + 1,
                    \A i \in DOMAIN s : s[i].rank \in 1 .. RRF_K + 1,
                    NEW i \in DOMAIN fuse(l, s), NEW j \in DOMAIN fuse(l, s),
                    fuse(l, s)[i].doc_id \in DocsOf(l) \cap DocsOf(s),
                    fuse(l, s)[j].doc_id \notin DocsOf(l) \cap DocsOf(s)
             PROVE  i < j
  BY DEF AgreementWins
<1> DEFINE t == TableOf(l \o s)
           H == HitsOf(t)
           h == fuse(l, s)[i]
           g == fuse(l, s)[j]
<1>1. l \in Seq(Entry) /\ s \in Seq(Entry)
  BY RankListTyped
<1>2. /\ l \o s \in Seq(Entry)
      /\ DocsOf(l \o s) = DocsOf(l) \cup DocsOf(s)
      /\ \A d : ScoreOf(t, d) = ScoreOf(TableOf(l), d) + ScoreOf(TableOf(s), d)
  BY <1>1, ScoresAdd, TableDomain DEF Adds
<1>3. /\ H \in SUBSET Hit /\ IsFiniteSet(H)
      /\ \A k \in H : k.doc_id \in DocsOf(l \o s) /\ k.score = ScoreOf(t, k.doc_id)
  BY <1>2, HitsTyped
<1>4. fuse(l, s) = Sorted(H)
  BY DEF fuse, Scores, TableOf
<1>5. /\ i \in 1 .. Cardinality(H) /\ j \in 1 .. Cardinality(H)
      /\ h \in H /\ Cardinality(Preceding(H, h)) = i - 1
      /\ g \in H /\ Cardinality(Preceding(H, g)) = j - 1
  BY <1>3, <1>4, SortedRanks
<1>6. /\ h.doc_id \in DocsOf(l) /\ h.doc_id \in DocsOf(s)
      /\ ~(g.doc_id \in DocsOf(l) /\ g.doc_id \in DocsOf(s))
  OBVIOUS
<1> HIDE DEF t, H, h, g
<1>7. PICK r \in 1 .. MaxRank :
        r <= RRF_K + 1 /\ ScoreOf(TableOf(l), h.doc_id) = rrf_score(r)
  BY <1>6, ScorePresent
<1>8. PICK u \in 1 .. MaxRank :
        u <= RRF_K + 1 /\ ScoreOf(TableOf(s), h.doc_id) = rrf_score(u)
  BY <1>6, ScorePresent
<1>9. PICK v \in 1 .. MaxRank : g.score = rrf_score(v)
  <2>1. g.doc_id \in DocsOf(l) \/ g.doc_id \in DocsOf(s)
    BY <1>2, <1>3, <1>5
  <2>2. g.score = ScoreOf(TableOf(l), g.doc_id) + ScoreOf(TableOf(s), g.doc_id)
    BY <1>2, <1>3, <1>5
  <2>3. \A v \in 1 .. MaxRank : rrf_score(v) \in Nat
    BY RrfIsExact
  <2>4. CASE g.doc_id \in DocsOf(l)
    <3>1. ScoreOf(TableOf(s), g.doc_id) = 0
      BY <1>1, <1>6, <2>4, ScoreAbsent
    <3>2. PICK v \in 1 .. MaxRank : ScoreOf(TableOf(l), g.doc_id) = rrf_score(v)
      BY <2>4, ScorePresent
    <3> QED BY <2>2, <2>3, <3>1, <3>2
  <2>5. CASE g.doc_id \in DocsOf(s)
    <3>1. ScoreOf(TableOf(l), g.doc_id) = 0
      BY <1>1, <1>6, <2>5, ScoreAbsent
    <3>2. PICK v \in 1 .. MaxRank : ScoreOf(TableOf(s), g.doc_id) = rrf_score(v)
      BY <2>5, ScorePresent
    <3> QED BY <2>2, <2>3, <3>1, <3>2
  <2> QED BY <2>1, <2>4, <2>5
<1>10. h.score = rrf_score(r) + rrf_score(u)
  BY <1>2, <1>3, <1>5, <1>7, <1>8
<1>11. h.score > g.score
  BY <1>7, <1>8, <1>9, <1>10, TwoBeatOne
<1>12. Before(h, g)
  BY <1>11 DEF Before
<1>13. Cardinality(Preceding(H, h)) < Cardinality(Preceding(H, g))
  BY <1>3, <1>5, <1>12, PrecedingGrows
<1> QED BY <1>3, <1>5, <1>13, FS_CardinalityType

\* Both, for every set of documents, every RRF_K and every number of ranks that
\* Scale has exact scores for.
THEOREM EveryFusionIsFair == PureSpec => []FusionIsFair
<1>1. InputInv => FusionIsFair
  <2> SUFFICES ASSUME InputInv, kind = "ranks"
               PROVE  FusionIsSymmetric(input[1], input[2])
                        /\ AgreementWins(input[1], input[2])
    BY DEF FusionIsFair
  <2>1. input[1] \in RankLists /\ input[2] \in RankLists
    BY DEF InputInv
  <2>2. input[1] \in Seq(Entry) /\ input[2] \in Seq(Entry)
    BY <2>1, RankListTyped
  <2> QED BY <2>1, <2>2, FuseIsSymmetric, AgreementAlwaysWins
<1> QED BY <1>1, InputCorrect, PTL
============================================================================

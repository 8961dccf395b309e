------------------------ MODULE SessionStore_proofs ------------------------
(***************************************************************************)
(* Theorems about SessionStore, for every set of threads and processes     *)
(* that append, any number of events and any number of faults.             *)
(*                                                                         *)
(* Reading.  Lines(f) is a fold over the pieces of f.  By induction over   *)
(* f, a piece of an event that is once in f is in one line of f and no     *)
(* other (LinesPlace), and the lines of f go on as the beginning of lines  *)
(* of any longer file (LinesPersist).  A line that parses has the          *)
(* beginning of its event and of no other (ParsedLine).                    *)
(*                                                                         *)
(* The record.  StoreInv is inductive.  LoadIsComplete speaks only of the  *)
(* moments when the file can be loaded; its reason is an invariant of all  *)
(* moments: the beginning of an event is at most once in the file together *)
(* with what its append has still to write (AppendInv), and is in the file *)
(* when the append has returned (FileInv).  HistoryOnlyGrows needs to know *)
(* where the loaded list came from: a beginning of today's file            *)
(* (LoadedInv).                                                            *)
(***************************************************************************)
EXTENDS SessionStore, SequenceFacts

----------------------------------------------------------------------------
(* Reading a file                                                          *)

\* What a file is made of.
Pieces ==
  {Newline} \cup {Beginning(e) : e \in Events} \cup {Rest(e) : e \in Events}

\* What load has between two pieces: the lines read and the line begun.
Reader == [lines : Seq(Seq(Pieces)), line : Seq(Pieces)]

\* Before the first piece.
NothingRead == [lines |-> << >>, line |-> << >>]

\* The step of the reader, as a function, and its fold.
ReadStep == [p \in Reader \X Pieces |-> Reads(p[1], p[2])]

\* Ending a line gives lines.
LEMMA EndedTyped ==
  ASSUME NEW acc \in Reader
  PROVE  Ended(acc) \in Seq(Seq(Pieces))
<1>1. acc.lines \in Seq(Seq(Pieces)) /\ acc.line \in Seq(Pieces)
  BY DEF Reader
<1>2. Append(acc.lines, acc.line) \in Seq(Seq(Pieces))
  BY <1>1, AppendProperties
<1> QED BY <1>1, <1>2 DEF Ended

\* A newline ends the line, another piece goes on with it.
LEMMA ReadsCases ==
  ASSUME NEW acc \in Reader, NEW x \in Pieces
  PROVE  /\ Reads(acc, x) \in Reader
         /\ Reads(acc, x).lines = IF x = Newline THEN Ended(acc) ELSE acc.lines
         /\ Reads(acc, x).line = IF x = Newline THEN << >> ELSE Append(acc.line, x)
<1>1. /\ acc.lines \in Seq(Seq(Pieces)) /\ acc.line \in Seq(Pieces)
      /\ acc = [lines |-> acc.lines, line |-> acc.line]
  BY DEF Reader
<1>2. Ended(acc) \in Seq(Seq(Pieces)) /\ << >> \in Seq(Pieces)
  BY EndedTyped, EmptySeq
<1>3. Append(acc.line, x) \in Seq(Pieces)
  BY <1>1, AppendProperties
<1> QED BY <1>1, <1>2, <1>3 DEF Reads, Reader

\* So the function is a step of folds.
LEMMA ReadStepIsStep ==
  IsStep(ReadStep, Reader, Pieces) /\ NothingRead \in Reader
<1>1. NothingRead \in Reader
  BY EmptySeq DEF NothingRead, Reader
<1>2. \A acc \in Reader : \A x \in Pieces : Reads(acc, x) \in Reader
  BY ReadsCases
<1> QED BY <1>1, <1>2 DEF IsStep, ReadStep

\* What load has when it comes to the end of f.
Read(f) == Folded(ReadStep, NothingRead, f)

\* The lines of a file end that fold.
LEMMA LinesAreRead ==
  ASSUME NEW f \in Seq(Pieces)
  PROVE  Lines(f) = Ended(Read(f))
<1> DEFINE St == ReadStep
           g == Iter(St, NothingRead, f)
           h == CHOOSE h : h = [q \in SUBSET DOMAIN f |->
                  IF q = {} THEN [lines |-> << >>, line |-> << >>]
                  ELSE Reads(h[q \ {Max(q)}], f[Max(q)])]
<1>1. Lines(f) = Ended(h[DOMAIN f])
  BY DEF Lines, FoldLeft, MapThenFoldSet
<1>2. IsStep(St, Reader, Pieces) /\ NothingRead \in Reader
  BY ReadStepIsStep
<1> HIDE DEF St
<1>3. TypedSteps(g, f, Reader, Pieces) /\ Recurs(g, St, NothingRead, f)
  BY <1>2, IterTyped
<1> HIDE DEF g
<1>4. g = [q \in SUBSET DOMAIN f |->
             IF q = {} THEN [lines |-> << >>, line |-> << >>]
             ELSE Reads(g[q \ {Max(q)}], f[Max(q)])]
  BY <1>3 DEF TypedSteps, Recurs, St, ReadStep, NothingRead
<1>5. h = [q \in SUBSET DOMAIN f |->
             IF q = {} THEN [lines |-> << >>, line |-> << >>]
             ELSE Reads(h[q \ {Max(q)}], f[Max(q)])]
  BY <1>4
<1> HIDE DEF h
<1>6. StepsAs(h, St, NothingRead, f, Reader, Pieces)
  BY <1>5 DEF StepsAs, St, ReadStep, NothingRead
<1>7. Evaluates(h, St, NothingRead, f)
  BY <1>2, <1>6, FoldBridge
<1> QED BY <1>1, <1>7 DEF St, Evaluates, Read

\* One piece more is one step more.
LEMMA ReadSteps ==
  /\ Read(<< >>) = NothingRead
  /\ \A f \in Seq(Pieces) :
       /\ Read(f) \in Reader
       /\ \A x \in Pieces : Read(Append(f, x)) = Reads(Read(f), x)
<1>1. FoldLaws(ReadStep, NothingRead, Reader, Pieces)
  BY ReadStepIsStep, FoldHasLaws
<1> QED BY <1>1 DEF FoldLaws, Read, ReadStep

\* x is in the sequence s, and at most once.
Has(s, x) == \E i \in DOMAIN s : s[i] = x

Once(s, x) == \A i, j \in DOMAIN s : s[i] = x /\ s[j] = x => i = j

\* One element more in a sequence.
LEMMA HasOfAppend ==
  ASSUME NEW E, NEW s \in Seq(E), NEW y \in E, NEW x
  PROVE  /\ Has(Append(s, y), x) <=> Has(s, x) \/ y = x
         /\ Once(Append(s, y), x) <=> Once(s, x) /\ (y = x => ~ Has(s, x))
<1> DEFINE n == Len(s)
           t == Append(s, y)
<1>1. /\ n \in Nat /\ DOMAIN s = 1 .. n /\ DOMAIN t = 1 .. n + 1
      /\ t[n + 1] = y /\ \A i \in 1 .. n : t[i] = s[i]
  BY AppendProperties, LenProperties
<1> HIDE DEF n, t
<1>2. ASSUME NEW i \in 1 .. n + 1 PROVE i \in 1 .. n \/ i = n + 1
  BY <1>1
<1>3. 1 .. n \subseteq 1 .. n + 1 /\ n + 1 \in 1 .. n + 1 /\ n + 1 \notin 1 .. n
  BY <1>1
<1>4. Has(t, x) <=> Has(s, x) \/ y = x
  BY <1>1, <1>2, <1>3 DEF Has
<1>5. Once(t, x) => Once(s, x) /\ (y = x => ~ Has(s, x))
  BY <1>1, <1>3 DEF Has, Once
<1>6. Once(s, x) /\ (y = x => ~ Has(s, x)) => Once(t, x)
  <2> SUFFICES ASSUME Once(s, x), y = x => ~ Has(s, x),
                      NEW i \in 1 .. n + 1, NEW j \in 1 .. n + 1,
                      t[i] = x, t[j] = x
               PROVE  i = j
    BY <1>1 DEF Once
  <2>1. CASE i \in 1 .. n /\ j \in 1 .. n
    BY <1>1, <2>1 DEF Once
  <2>2. CASE i = n + 1 /\ j \in 1 .. n
    BY <1>1, <2>2 DEF Has
  <2>3. CASE j = n + 1 /\ i \in 1 .. n
    BY <1>1, <2>3 DEF Has
  <2>4. CASE i = n + 1 /\ j = n + 1
    BY <2>4
  <2> QED BY <1>2, <2>1, <2>2, <2>3, <2>4
<1> QED BY <1>4, <1>5, <1>6 DEF t

\* x is in a line of ls, and in at most one of them.
In(ls, x) == \E j \in DOMAIN ls : Has(ls[j], x)

InOne(ls, x) == \A i, j \in DOMAIN ls : Has(ls[i], x) /\ Has(ls[j], x) => i = j

\* One line more.
LEMMA InOfAppend ==
  ASSUME NEW E, NEW ls \in Seq(E), NEW l \in E, NEW x
  PROVE  /\ In(Append(ls, l), x) <=> In(ls, x) \/ Has(l, x)
         /\ InOne(Append(ls, l), x)
              <=> InOne(ls, x) /\ (Has(l, x) => ~ In(ls, x))
<1> DEFINE n == Len(ls)
           t == Append(ls, l)
<1>1. /\ n \in Nat /\ DOMAIN ls = 1 .. n /\ DOMAIN t = 1 .. n + 1
      /\ t[n + 1] = l /\ \A i \in 1 .. n : t[i] = ls[i]
  BY AppendProperties, LenProperties
<1> HIDE DEF n, t
<1>2. ASSUME NEW i \in 1 .. n + 1 PROVE i \in 1 .. n \/ i = n + 1
  BY <1>1
<1>3. 1 .. n \subseteq 1 .. n + 1 /\ n + 1 \in 1 .. n + 1 /\ n + 1 \notin 1 .. n
  BY <1>1
<1>4. In(t, x) <=> In(ls, x) \/ Has(l, x)
  BY <1>1, <1>2, <1>3 DEF In
<1>5. InOne(t, x) => InOne(ls, x) /\ (Has(l, x) => ~ In(ls, x))
  BY <1>1, <1>3 DEF In, InOne
<1>6. InOne(ls, x) /\ (Has(l, x) => ~ In(ls, x)) => InOne(t, x)
  <2> SUFFICES ASSUME InOne(ls, x), Has(l, x) => ~ In(ls, x),
                      NEW i \in 1 .. n + 1, NEW j \in 1 .. n + 1,
                      Has(t[i], x), Has(t[j], x)
               PROVE  i = j
    BY <1>1 DEF InOne
  <2>1. CASE i \in 1 .. n /\ j \in 1 .. n
    BY <1>1, <2>1 DEF InOne
  <2>2. CASE i = n + 1 /\ j \in 1 .. n
    BY <1>1, <2>2 DEF In
  <2>3. CASE j = n + 1 /\ i \in 1 .. n
    BY <1>1, <2>3 DEF In
  <2>4. CASE i = n + 1 /\ j = n + 1
    BY <2>4
  <2> QED BY <1>2, <2>1, <2>2, <2>3, <2>4
<1> QED BY <1>4, <1>5, <1>6 DEF t

\* What is known of x after f has been read.
Placed(acc, f, x) ==
  /\ Has(f, x) <=> In(Ended(acc), x)
  /\ Once(f, x) => InOne(Ended(acc), x)

\* Ending the line loses no piece.
LEMMA InEnded ==
  ASSUME NEW acc \in Reader, NEW x
  PROVE  /\ In(Ended(acc), x) <=> In(acc.lines, x) \/ Has(acc.line, x)
         /\ InOne(Ended(acc), x)
              <=> InOne(acc.lines, x) /\ (Has(acc.line, x) => ~ In(acc.lines, x))
<1>1. acc.lines \in Seq(Seq(Pieces)) /\ acc.line \in Seq(Pieces)
  BY DEF Reader
<1>2. CASE acc.line = << >>
  <2>1. ~ Has(acc.line, x)
    BY <1>2, EmptySeq DEF Has
  <2> QED BY <1>2, <2>1 DEF Ended
<1>3. CASE acc.line # << >>
  <2>1. Ended(acc) = Append(acc.lines, acc.line)
    BY <1>3 DEF Ended
  <2> QED BY <1>1, <2>1, InOfAppend
<1> QED BY <1>2, <1>3

\* A step of the reader keeps that knowledge.
LEMMA ReadsPlaces ==
  ASSUME NEW acc \in Reader, NEW f \in Seq(Pieces), NEW y \in Pieces,
         NEW x \in Pieces \ {Newline}, Placed(acc, f, x)
  PROVE  Placed(Reads(acc, y), Append(f, y), x)
<1> DEFINE new == Reads(acc, y)
<1>1. /\ new \in Reader
      /\ new.lines = IF y = Newline THEN Ended(acc) ELSE acc.lines
      /\ new.line = IF y = Newline THEN << >> ELSE Append(acc.line, y)
  BY ReadsCases
<1>2. /\ In(Ended(acc), x) <=> In(acc.lines, x) \/ Has(acc.line, x)
      /\ InOne(Ended(acc), x)
           <=> InOne(acc.lines, x) /\ (Has(acc.line, x) => ~ In(acc.lines, x))
  BY InEnded
<1> HIDE DEF new
<1>3. /\ In(Ended(new), x) <=> In(new.lines, x) \/ Has(new.line, x)
      /\ InOne(Ended(new), x)
           <=> InOne(new.lines, x) /\ (Has(new.line, x) => ~ In(new.lines, x))
  BY <1>1, InEnded
<1>4. /\ Has(Append(f, y), x) <=> Has(f, x) \/ y = x
      /\ Once(Append(f, y), x) <=> Once(f, x) /\ (y = x => ~ Has(f, x))
  BY HasOfAppend
<1>5. CASE y = Newline
  <2>1. ~ Has(new.line, x)
    BY <1>1, <1>5, EmptySeq DEF Has
  <2> QED BY <1>1, <1>3, <1>4, <1>5, <2>1 DEF Placed, new
<1>6. CASE y # Newline
  <2>1. acc.line \in Seq(Pieces)
    BY DEF Reader
  <2>2. Has(Append(acc.line, y), x) <=> Has(acc.line, x) \/ y = x
    BY <2>1, HasOfAppend
  <2> QED BY <1>1, <1>2, <1>3, <1>4, <1>6, <2>2 DEF Placed, new
<1> QED BY <1>5, <1>6

\* A piece that is once in the file is in one line and no other.
LEMMA LinesPlace ==
  ASSUME NEW x \in Pieces \ {Newline}
  PROVE  \A f \in Seq(Pieces) :
           /\ Has(f, x) <=> In(Lines(f), x)
           /\ Once(f, x) => InOne(Lines(f), x)
<1> DEFINE L == {f \in Seq(Pieces) : Placed(Read(f), f, x)}
<1>1. << >> \in L
  <2>1. Read(<< >>) = NothingRead /\ << >> \in Seq(Pieces) /\ DOMAIN << >> = {}
    BY ReadSteps, EmptySeq
  <2>2. Ended(NothingRead) = << >>
    BY DEF Ended, NothingRead
  <2>3. Placed(NothingRead, << >>, x)
    BY <2>1, <2>2 DEF Placed, Has, In, InOne
  <2> QED BY <2>1, <2>3
<1>2. \A f \in Seq(Pieces) : f \in L => \A y \in Pieces : Append(f, y) \in L
  <2> SUFFICES ASSUME NEW f \in Seq(Pieces), f \in L, NEW y \in Pieces
               PROVE  Append(f, y) \in L
    OBVIOUS
  <2>1. Read(f) \in Reader /\ Read(Append(f, y)) = Reads(Read(f), y)
    BY ReadSteps
  <2>2. Append(f, y) \in Seq(Pieces)
    BY AppendProperties
  <2>3. Placed(Reads(Read(f), y), Append(f, y), x)
    BY <2>1, ReadsPlaces
  <2> QED BY <2>1, <2>2, <2>3
<1> HIDE DEF L
<1>3. Seq(Pieces) \subseteq L
  BY <1>1, <1>2, InductionOnSeq
<1> QED BY <1>3, LinesAreRead DEF L, Placed

----------------------------------------------------------------------------
(* Reading a longer file                                                   *)

\* ms has the lines of ls, by their first pieces, and perhaps more.
Ahead(ls, ms) ==
  /\ Len(ls) <= Len(ms)
  /\ \A j \in 1 .. Len(ls) : ms[j][1] = ls[j][1]

\* A step of the reader loses no line it has begun.
LEMMA ReadsAhead ==
  ASSUME NEW acc \in Reader, NEW x \in Pieces
  PROVE  Ahead(Ended(acc), Ended(Reads(acc, x)))
<1> DEFINE new == Reads(acc, x)
           ls == acc.lines
           l == acc.line
           n == Len(ls)
<1>1. /\ new \in Reader
      /\ new.lines = IF x = Newline THEN Ended(acc) ELSE ls
      /\ new.line = IF x = Newline THEN << >> ELSE Append(l, x)
  BY ReadsCases
<1>2. ls \in Seq(Seq(Pieces)) /\ l \in Seq(Pieces) /\ n \in Nat
  BY LenProperties DEF Reader
<1>3. Len(Ended(acc)) \in Nat
  BY EndedTyped, LenProperties
<1> HIDE DEF new
<1>4. CASE x = Newline
  <2>1. Ended(new) = Ended(acc)
    BY <1>1, <1>4 DEF Ended
  <2> QED BY <1>3, <2>1 DEF Ahead, new
<1>5. CASE x # Newline
  <2> DEFINE m == Append(l, x)
  <2>1. m \in Seq(Pieces) /\ m # << >> /\ (l # << >> => m[1] = l[1])
    <3>1. /\ m \in Seq(Pieces) /\ Len(m) = Len(l) + 1
          /\ \A i \in 1 .. Len(l) : m[i] = l[i]
          /\ Len(l) \in Nat
      BY <1>2, AppendProperties, LenProperties
    <3>2. l # << >> => Len(l) # 0
      BY <1>2, EmptySeq
    <3> HIDE DEF m
    <3>3. Len(m) # 0
      BY <3>1
    <3> QED BY <3>1, <3>2, <3>3, EmptySeq
  <2> HIDE DEF m
  <2>2. Ended(new) = Append(ls, m)
    BY <1>1, <1>5, <2>1 DEF Ended, m
  <2>3. /\ Len(Append(ls, m)) = n + 1 /\ Append(ls, m)[n + 1] = m
        /\ \A i \in 1 .. n : Append(ls, m)[i] = ls[i]
    BY <1>2, <2>1, AppendProperties
  <2> HIDE DEF n
  <2>4. CASE l = << >>
    <3>1. Ended(acc) = ls
      BY <2>4 DEF Ended
    <3> QED BY <1>2, <2>2, <2>3, <3>1 DEF Ahead, new, n
  <2>5. CASE l # << >>
    <3>1. Ended(acc) = Append(ls, l)
      BY <2>5 DEF Ended
    <3>2. /\ Len(Append(ls, l)) = n + 1 /\ Append(ls, l)[n + 1] = l
          /\ \A i \in 1 .. n : Append(ls, l)[i] = ls[i]
      BY <1>2, AppendProperties DEF n
    <3>3. ASSUME NEW j \in 1 .. n + 1
          PROVE  Append(ls, m)[j][1] = Append(ls, l)[j][1]
      <4>1. CASE j = n + 1
        BY <2>1, <2>3, <2>5, <3>2, <4>1
      <4>2. CASE j # n + 1
        <5>1. j \in 1 .. n
          BY <1>2, <4>2
        <5> QED BY <2>3, <3>2, <5>1
      <4> QED BY <4>1, <4>2
    <3>4. Ahead(Append(ls, l), Append(ls, m))
      BY <1>2, <2>3, <3>2, <3>3 DEF Ahead
    <3> QED BY <2>2, <3>1, <3>4 DEF new
  <2> QED BY <2>4, <2>5
<1> QED BY <1>4, <1>5

\* Lines gives lines that are not blank.
LEMMA LinesTyped ==
  ASSUME NEW f \in Seq(Pieces)
  PROVE  /\ Lines(f) \in Seq(Seq(Pieces))
         /\ Len(Lines(f)) \in Nat /\ DOMAIN Lines(f) = 1 .. Len(Lines(f))
<1>1. Lines(f) \in Seq(Seq(Pieces))
  BY LinesAreRead, ReadSteps, EndedTyped
<1> QED BY <1>1, LenProperties

\* The lines of a file go on as the first lines of a longer one.
LEMMA LinesPersist ==
  ASSUME NEW f \in Seq(Pieces)
  PROVE  \A g \in Seq(Pieces) : Ahead(Lines(f), Lines(f \o g))
<1> DEFINE L == {g \in Seq(Pieces) : Ahead(Lines(f), Lines(f \o g))}
<1>1. << >> \in L
  <2>1. f \o << >> = f /\ << >> \in Seq(Pieces)
    BY ConcatEmptySeq, EmptySeq
  <2>2. Len(Lines(f)) \in Nat
    BY LinesTyped
  <2> QED BY <2>1, <2>2 DEF Ahead
<1>2. \A g \in Seq(Pieces) : g \in L => \A x \in Pieces : Append(g, x) \in L
  <2> SUFFICES ASSUME NEW g \in Seq(Pieces), g \in L, NEW x \in Pieces
               PROVE  Append(g, x) \in L
    OBVIOUS
  <2> DEFINE h == f \o g
  <2>1. h \in Seq(Pieces) /\ Append(g, x) \in Seq(Pieces)
    BY ConcatProperties, AppendProperties
  <2>2. f \o Append(g, x) = Append(h, x)
    <3>1. Append(g, x) = g \o <<x>> /\ <<x>> \in Seq(Pieces)
      BY AppendIsConcat
    <3>2. Append(h, x) = (f \o g) \o <<x>>
      BY <2>1, AppendIsConcat
    <3>3. f \o (g \o <<x>>) = (f \o g) \o <<x>>
      BY <3>1, ConcatAssociative
    <3> QED BY <3>1, <3>2, <3>3
  <2> HIDE DEF h
  <2>3. Append(h, x) \in Seq(Pieces)
    BY <2>1, AppendProperties
  <2>4. Lines(h) = Ended(Read(h)) /\ Lines(Append(h, x)) = Ended(Reads(Read(h), x))
    BY <2>1, <2>3, LinesAreRead, ReadSteps
  <2>5. Ahead(Lines(h), Lines(Append(h, x)))
    BY <2>1, <2>4, ReadSteps, ReadsAhead
  <2>6. Ahead(Lines(f), Lines(h))
    BY DEF h
  <2>7. /\ Len(Lines(f)) \in Nat /\ Len(Lines(h)) \in Nat
        /\ Len(Lines(Append(h, x))) \in Nat
    BY <2>1, <2>3, LinesTyped
  <2>8. Ahead(Lines(f), Lines(Append(h, x)))
    <3>1. Len(Lines(f)) <= Len(Lines(h)) /\ Len(Lines(h)) <= Len(Lines(Append(h, x)))
      BY <2>5, <2>6 DEF Ahead
    <3>2. ASSUME NEW j \in 1 .. Len(Lines(f))
          PROVE  Lines(Append(h, x))[j][1] = Lines(f)[j][1]
      <4>1. j \in 1 .. Len(Lines(h))
        BY <2>7, <3>1
      <4> QED BY <2>5, <2>6, <4>1 DEF Ahead
    <3> QED BY <2>7, <3>1, <3>2 DEF Ahead
  <2> QED BY <2>1, <2>2, <2>8
<1> HIDE DEF L
<1>3. Seq(Pieces) \subseteq L
  BY <1>1, <1>2, InductionOnSeq
<1> QED BY <1>3 DEF L

\* What load returns has one event per line.
LEMMA ResultOf ==
  ASSUME NEW f \in Seq(Pieces)
  PROVE  /\ Len(LoadResult(f)) = Len(Lines(f))
         /\ DOMAIN LoadResult(f) = 1 .. Len(Lines(f))
         /\ \A i \in 1 .. Len(Lines(f)) : LoadResult(f)[i] = Lines(f)[i][1].event
         /\ LoadResult(f) \in Seq({Lines(f)[i][1].event : i \in DOMAIN Lines(f)})
<1> DEFINE n == Len(Lines(f))
           r == LoadResult(f)
           V == {Lines(f)[i][1].event : i \in DOMAIN Lines(f)}
<1>1. n \in Nat /\ DOMAIN Lines(f) = 1 .. n
  BY LinesTyped
<1>2. r = [i \in 1 .. n |-> Lines(f)[i][1].event]
  BY <1>1 DEF LoadResult, LinesToParse
<1>3. r \in [1 .. n -> V]
  BY <1>1, <1>2
<1> HIDE DEF V, r, n
<1>4. r \in Seq(V) /\ Len(r) = n /\ DOMAIN r = 1 .. n
  BY <1>1, <1>3
<1> QED BY <1>2, <1>4 DEF r, n, V

\* What load returned of a file is a prefix of what it returns of a longer one.
LEMMA ResultsPersist ==
  ASSUME NEW f \in Seq(Pieces), NEW g \in Seq(Pieces)
  PROVE  IsPrefix(LoadResult(f), LoadResult(f \o g))
<1> DEFINE h == f \o g
           n == Len(Lines(f))
           r == LoadResult(f)
           t == LoadResult(h)
           V == {r[i] : i \in DOMAIN r} \cup {t[i] : i \in DOMAIN t}
<1>1. h \in Seq(Pieces)
  BY ConcatProperties
<1>2. n \in Nat /\ Len(Lines(h)) \in Nat
  BY <1>1, LinesTyped
<1>3. n <= Len(Lines(h)) /\ \A j \in 1 .. n : Lines(h)[j][1] = Lines(f)[j][1]
  BY LinesPersist DEF Ahead
<1> HIDE DEF h
<1>4. /\ Len(r) = n /\ DOMAIN r = 1 .. n
      /\ \A i \in 1 .. n : r[i] = Lines(f)[i][1].event
  BY ResultOf
<1>5. /\ Len(t) = Len(Lines(h)) /\ DOMAIN t = 1 .. Len(Lines(h))
      /\ \A i \in 1 .. Len(Lines(h)) : t[i] = Lines(h)[i][1].event
  BY <1>1, ResultOf
<1> HIDE DEF n, r, t
<1>6. \A j \in 1 .. n : j \in 1 .. Len(t) /\ t[j] = r[j]
  BY <1>2, <1>3, <1>4, <1>5
<1>7. (\A j \in 1 .. n : r[j] \in V /\ t[j] \in V) /\ 1 \in Int /\ n \in Int
  BY <1>2, <1>4, <1>5, <1>6
<1> HIDE DEF V
<1>8. /\ SubSeq(r, 1, n) \in Seq(V) /\ SubSeq(t, 1, n) \in Seq(V)
      /\ Len(SubSeq(r, 1, n)) = Len(SubSeq(t, 1, n))
      /\ \A i \in 1 .. n - 1 + 1 : /\ SubSeq(r, 1, n)[i] = r[1 + i - 1]
                                   /\ SubSeq(t, 1, n)[i] = t[1 + i - 1]
      /\ Len(SubSeq(r, 1, n)) = IF 1 <= n THEN n - 1 + 1 ELSE 0
  <2>1. /\ SubSeq(r, 1, n) \in Seq(V)
        /\ Len(SubSeq(r, 1, n)) = IF 1 <= n THEN n - 1 + 1 ELSE 0
        /\ \A i \in 1 .. n - 1 + 1 : SubSeq(r, 1, n)[i] = r[1 + i - 1]
    BY <1>7, SubSeqProperties
  <2>2. /\ SubSeq(t, 1, n) \in Seq(V)
        /\ Len(SubSeq(t, 1, n)) = IF 1 <= n THEN n - 1 + 1 ELSE 0
        /\ \A i \in 1 .. n - 1 + 1 : SubSeq(t, 1, n)[i] = t[1 + i - 1]
    BY <1>7, SubSeqProperties
  <2> QED BY <2>1, <2>2
<1>9. Len(SubSeq(r, 1, n)) = n /\ n - 1 + 1 = n
  BY <1>2, <1>8
<1>10. \A i \in 1 .. n : SubSeq(r, 1, n)[i] = SubSeq(t, 1, n)[i]
  <2> SUFFICES ASSUME NEW i \in 1 .. n
               PROVE  SubSeq(r, 1, n)[i] = SubSeq(t, 1, n)[i]
    OBVIOUS
  <2>1. 1 + i - 1 = i
    OBVIOUS
  <2> QED BY <1>6, <1>8, <1>9, <2>1
<1>11. SubSeq(r, 1, n) = SubSeq(t, 1, n)
  BY <1>8, <1>9, <1>10, SeqEqual
<1> QED BY <1>3, <1>4, <1>5, <1>11 DEF IsPrefix, r, t, h

----------------------------------------------------------------------------
(* The pieces of a line                                                    *)

\* Pieces of different kinds and of different events are different.
LEMMA PiecesApart ==
  /\ \A e : Beginning(e) # Newline /\ Rest(e) # Newline
  /\ \A e, d : Beginning(e) # Rest(d)
  /\ \A e, d : Beginning(e) = Beginning(d) => e = d
  /\ \A e : Beginning(e).event = e /\ Rest(e).event = e
<1>1. /\ Newline.part = "newline"
      /\ \A e : /\ Beginning(e).part = "beginning" /\ Beginning(e).event = e
                /\ Rest(e).part = "rest" /\ Rest(e).event = e
  BY DEF Newline, Beginning, Rest
<1> QED BY <1>1

\* What is in a concatenation, and in it at most once.
LEMMA HasOfConcat ==
  ASSUME NEW E, NEW s \in Seq(E), NEW t \in Seq(E), NEW x
  PROVE  /\ Has(s \o t, x) <=> Has(s, x) \/ Has(t, x)
         /\ Once(s \o t, x)
              <=> Once(s, x) /\ Once(t, x) /\ ~ (Has(s, x) /\ Has(t, x))
<1> DEFINE m == Len(s)
           n == Len(t)
           u == s \o t
<1>1. /\ m \in Nat /\ n \in Nat /\ DOMAIN s = 1 .. m /\ DOMAIN t = 1 .. n
      /\ DOMAIN u = 1 .. m + n
      /\ \A i \in 1 .. m : u[i] = s[i]
      /\ \A i \in 1 .. n : u[m + i] = t[i]
  <2>1. /\ u \in Seq(E) /\ Len(u) = m + n
        /\ \A i \in 1 .. m + n : u[i] = IF i <= m THEN s[i] ELSE t[i - m]
    BY ConcatProperties
  <2>2. m \in Nat /\ n \in Nat /\ DOMAIN s = 1 .. m /\ DOMAIN t = 1 .. n
        /\ DOMAIN u = 1 .. m + n
    BY <2>1, LenProperties
  <2> HIDE DEF m, n, u
  <2>3. \A i \in 1 .. m : u[i] = s[i]
    BY <2>1, <2>2
  <2>4. ASSUME NEW i \in 1 .. n PROVE u[m + i] = t[i]
    <3> DEFINE k == m + i
    <3>1. k \in 1 .. m + n /\ ~ (k <= m) /\ k - m = i
      BY <2>2
    <3> HIDE DEF k
    <3>2. u[k] = t[k - m]
      BY <2>1, <3>1
    <3> QED BY <3>1, <3>2 DEF k
  <2> QED BY <2>2, <2>3, <2>4
<1> HIDE DEF m, n, u
<1>2. \A i \in 1 .. m + n : i \in 1 .. m \/ (i - m \in 1 .. n /\ i = m + (i - m))
  BY <1>1
<1>3. /\ \A i \in 1 .. m : i \in 1 .. m + n
      /\ \A i \in 1 .. n : m + i \in 1 .. m + n /\ m + i \notin 1 .. m
  BY <1>1
<1>4. Has(u, x) <=> Has(s, x) \/ Has(t, x)
  <2>1. Has(u, x) => Has(s, x) \/ Has(t, x)
    <3> SUFFICES ASSUME NEW i \in 1 .. m + n, u[i] = x
                 PROVE  Has(s, x) \/ Has(t, x)
      BY <1>1 DEF Has
    <3>1. CASE i \in 1 .. m
      BY <1>1, <3>1 DEF Has
    <3>2. CASE i - m \in 1 .. n /\ i = m + (i - m)
      <4>1. u[m + (i - m)] = t[i - m]
        BY <1>1, <3>2
      <4> QED BY <1>1, <3>2, <4>1 DEF Has
    <3> QED BY <1>2, <3>1, <3>2
  <2>2. Has(s, x) => Has(u, x)
    BY <1>1, <1>3 DEF Has
  <2>3. Has(t, x) => Has(u, x)
    <3> SUFFICES ASSUME NEW i \in 1 .. n, t[i] = x PROVE Has(u, x)
      BY <1>1 DEF Has
    <3>1. u[m + i] = x /\ m + i \in DOMAIN u
      BY <1>1, <1>3
    <3> QED BY <3>1 DEF Has
  <2> QED BY <2>1, <2>2, <2>3
<1>5. Once(u, x) => Once(s, x) /\ Once(t, x) /\ ~ (Has(s, x) /\ Has(t, x))
  <2> SUFFICES ASSUME Once(u, x)
               PROVE  Once(s, x) /\ Once(t, x) /\ ~ (Has(s, x) /\ Has(t, x))
    OBVIOUS
  <2>1. Once(s, x)
    BY <1>1, <1>3 DEF Once
  <2>2. Once(t, x)
    <3> SUFFICES ASSUME NEW i \in 1 .. n, NEW j \in 1 .. n, t[i] = x, t[j] = x
                 PROVE  i = j
      BY <1>1 DEF Once
    <3>1. /\ u[m + i] = x /\ m + i \in DOMAIN u
          /\ u[m + j] = x /\ m + j \in DOMAIN u
      BY <1>1, <1>3
    <3>2. m + i = m + j
      BY <3>1 DEF Once
    <3> QED BY <1>1, <3>2
  <2>3. ~ (Has(s, x) /\ Has(t, x))
    <3> SUFFICES ASSUME NEW i \in 1 .. m, NEW j \in 1 .. n, s[i] = x, t[j] = x
                 PROVE  FALSE
      BY <1>1 DEF Has
    <3>1. /\ u[i] = x /\ i \in DOMAIN u
          /\ u[m + j] = x /\ m + j \in DOMAIN u
      BY <1>1, <1>3
    <3>2. i = m + j
      BY <3>1 DEF Once
    <3> QED BY <1>3, <3>2
  <2> QED BY <2>1, <2>2, <2>3
<1>6. Once(s, x) /\ Once(t, x) /\ ~ (Has(s, x) /\ Has(t, x)) => Once(u, x)
  <2> SUFFICES ASSUME Once(s, x), Once(t, x), ~ (Has(s, x) /\ Has(t, x)),
                      NEW i \in 1 .. m + n, NEW j \in 1 .. m + n,
                      u[i] = x, u[j] = x
               PROVE  i = j
    BY <1>1 DEF Once
  <2>1. ASSUME NEW k \in 1 .. m + n, u[k] = x, k \notin 1 .. m
        PROVE  k - m \in 1 .. n /\ t[k - m] = x /\ k = m + (k - m)
    <3>1. k - m \in 1 .. n /\ k = m + (k - m)
      BY <1>2, <2>1
    <3>2. u[m + (k - m)] = t[k - m]
      BY <1>1, <3>1
    <3> QED BY <2>1, <3>1, <3>2
  <2>2. CASE i \in 1 .. m /\ j \in 1 .. m
    BY <1>1, <2>2 DEF Once
  <2>3. CASE i \notin 1 .. m /\ j \notin 1 .. m
    <3>1. i - m \in DOMAIN t /\ j - m \in DOMAIN t /\ t[i - m] = x /\ t[j - m] = x
      BY <1>1, <2>1, <2>3
    <3>2. i - m = j - m
      BY <3>1 DEF Once
    <3> QED BY <1>1, <3>2
  <2>4. CASE i \in 1 .. m /\ j \notin 1 .. m
    BY <1>1, <2>1, <2>4 DEF Has
  <2>5. CASE i \notin 1 .. m /\ j \in 1 .. m
    BY <1>1, <2>1, <2>5 DEF Has
  <2> QED BY <2>2, <2>3, <2>4, <2>5
<1> QED BY <1>4, <1>5, <1>6 DEF u

\* The line of an event has its beginning once, and no piece of another event.
LEMMA LineHas ==
  ASSUME NEW e \in Events
  PROVE  /\ Line(e) \in Seq(Pieces)
         /\ Has(Line(e), Beginning(e)) /\ Once(Line(e), Beginning(e))
         /\ \A i \in DOMAIN Line(e) : Line(e)[i] # Newline => Line(e)[i].event = e
         /\ \A d : Has(Text(e), Beginning(d)) <=> d = e
<1>1. /\ Beginning(e) \in Pieces /\ Rest(e) \in Pieces /\ Newline \in Pieces
  BY DEF Pieces
<1>2. /\ Text(e) \in Seq(Pieces) /\ Len(Text(e)) = 2
      /\ Text(e)[1] = Beginning(e) /\ Text(e)[2] = Rest(e)
  BY <1>1 DEF Text
<1>3. /\ Line(e) \in Seq(Pieces) /\ DOMAIN Line(e) = 1 .. 3
      /\ Line(e)[1] = Beginning(e) /\ Line(e)[2] = Rest(e) /\ Line(e)[3] = Newline
  <2>1. /\ Line(e) \in Seq(Pieces) /\ Len(Line(e)) = 3 /\ Line(e)[3] = Newline
        /\ \A i \in 1 .. 2 : Line(e)[i] = Text(e)[i]
    <3> DEFINE T == Text(e)
    <3>1. T \in Seq(Pieces) /\ Len(T) = 2 /\ Line(e) = Append(T, Newline)
      BY <1>2 DEF Line
    <3> HIDE DEF T
    <3>2. ASSUME NEW s \in Seq(Pieces), NEW x \in Pieces
          PROVE  /\ Append(s, x) \in Seq(Pieces)
                 /\ Len(Append(s, x)) = Len(s) + 1
                 /\ Append(s, x)[Len(s) + 1] = x
                 /\ \A i \in 1 .. Len(s) : Append(s, x)[i] = s[i]
      BY <3>2, AppendProperties
    <3> DEFINE L == Append(T, Newline)
    <3>3. /\ L \in Seq(Pieces) /\ Len(L) = Len(T) + 1 /\ L[Len(T) + 1] = Newline
          /\ \A i \in 1 .. Len(T) : L[i] = T[i]
      BY ONLY <1>1, <3>1, <3>2
    <3> HIDE DEF L
    <3>4. L \in Seq(Pieces) /\ Len(L) = 3 /\ L[3] = Newline /\ \A i \in 1 .. 2 : L[i] = T[i]
      BY <3>1, <3>3
    <3> QED BY <3>1, <3>4 DEF T, L
  <2> QED BY <1>2, <2>1, LenProperties
<1>4. Has(Line(e), Beginning(e)) /\ Once(Line(e), Beginning(e))
  BY <1>3, PiecesApart DEF Has, Once
<1>5. \A i \in DOMAIN Line(e) : Line(e)[i] # Newline => Line(e)[i].event = e
  BY <1>3, PiecesApart
<1>6. DOMAIN Text(e) = 1 .. 2 /\ Text(e)[1] = Beginning(e) /\ Text(e)[2] = Rest(e)
  BY DEF Text
<1>7. \A d : Has(Text(e), Beginning(d)) <=> d = e
  BY <1>6, PiecesApart DEF Has
<1> QED BY <1>3, <1>4, <1>5, <1>7

\* A line that parses has the beginning of its event and no other beginning.
LEMMA ParsedLine ==
  ASSUME NEW f \in Seq(Pieces), LoadOk(f), NEW j \in DOMAIN Lines(f)
  PROVE  \E e \in Events : /\ LoadResult(f)[j] = e
                           /\ \A d : Has(Lines(f)[j], Beginning(d)) <=> d = e
<1>1. PICK e \in Events : Lines(f)[j] = Text(e)
  BY DEF LoadOk, LinesToParse, Parses
<1>2. j \in 1 .. Len(Lines(f))
  BY LinesTyped
<1>3. LoadResult(f)[j] = Text(e)[1].event
  BY <1>1, <1>2, ResultOf
<1>4. Text(e)[1].event = e
  BY PiecesApart DEF Text
<1> QED BY <1>1, <1>3, <1>4, LineHas

----------------------------------------------------------------------------
(* The record                                                              *)

\* The types of the variables.
TypeOK ==
  /\ file \in Seq(Pieces)
  /\ called \in 0 .. MaxEvents
  /\ writing \in [Writers -> 0 .. MaxEvents]
  /\ buffer \in [Writers -> Seq(Pieces)]
  /\ returned \in Seq(Events)

\* What an append under way has still to write is of its own event, which no
\* other append has; with what it has written it is the whole line.
AppendInv(w) ==
  writing[w] # 0 =>
    /\ writing[w] <= called
    /\ \A v \in Writers : writing[v] = writing[w] => v = w
    /\ \A i \in DOMAIN buffer[w] :
         buffer[w][i] # Newline => buffer[w][i].event = writing[w]
    /\ Has(file \o buffer[w], Beginning(writing[w]))
    /\ Once(file \o buffer[w], Beginning(writing[w]))

\* Every piece is of an event given to append; no beginning is there twice; what
\* was acknowledged is there.
FileInv ==
  /\ \A i \in DOMAIN file : file[i] # Newline => file[i].event \in 1 .. called
  /\ \A e \in Events : Once(file, Beginning(e))
  /\ \A i \in DOMAIN returned : Has(file, Beginning(returned[i]))

\* What was loaded is the result of an earlier state of the file.
LoadedInv ==
  \E g \in Seq(Pieces) : \E h \in Seq(Pieces) :
    file = g \o h /\ loaded = LoadResult(g)

\* The inductive invariant.
StoreInv ==
  /\ TypeOK /\ FileInv /\ LoadedInv
  /\ \A w \in Writers : AppendInv(w)

\* Initially.
LEMMA StoreInit == Init => StoreInv
<1> SUFFICES ASSUME Init PROVE StoreInv
  OBVIOUS
<1>1. /\ file = << >> /\ called = 0 /\ returned = << >> /\ loaded = << >>
      /\ buffer = [w \in Writers |-> << >>] /\ writing = [w \in Writers |-> 0]
  BY DEF Init
<1>2. << >> \in Seq(Pieces) /\ << >> \in Seq(Events) /\ DOMAIN << >> = {}
  BY EmptySeq
<1>3. TypeOK
  BY <1>1, <1>2, BoundsAssumption DEF TypeOK
<1>4. FileInv
  BY <1>1, <1>2 DEF FileInv, Once
<1>5. LoadedInv
  <2>1. Lines(<< >>) = << >>
    <3>1. Lines(<< >>) = Ended(NothingRead)
      BY <1>2, LinesAreRead, ReadSteps
    <3> QED BY <3>1 DEF Ended, NothingRead
  <2>2. LoadResult(<< >>) = << >>
    BY <2>1, <1>2 DEF LoadResult, LinesToParse
  <2>3. << >> \o << >> = << >>
    BY <1>2, ConcatEmptySeq
  <2> QED BY <1>1, <1>2, <2>2, <2>3 DEF LoadedInv
<1>6. \A w \in Writers : AppendInv(w)
  BY <1>1 DEF AppendInv
<1> QED BY <1>3, <1>4, <1>5, <1>6 DEF StoreInv

\* An append begins, for an event no other append has.
LEMMA StoreStart ==
  ASSUME StoreInv, NEW w \in Writers, StartAppend(w)
  PROVE  StoreInv'
<1> DEFINE e == called + 1
<1>1. /\ writing[w] = 0 /\ called < MaxEvents
      /\ called' = e
      /\ writing' = [writing EXCEPT ![w] = e]
      /\ buffer' = [buffer EXCEPT ![w] = Line(e)]
      /\ file' = file /\ returned' = returned /\ loaded' = loaded
  BY DEF StartAppend
<1>2. TypeOK /\ FileInv /\ LoadedInv /\ \A v \in Writers : AppendInv(v)
  BY DEF StoreInv
<1>3. called \in Nat /\ MaxEvents \in Nat /\ e \in Events /\ e \in 1 .. MaxEvents
  BY <1>1, <1>2, BoundsAssumption DEF TypeOK, Events
<1>4. /\ Line(e) \in Seq(Pieces)
      /\ Has(Line(e), Beginning(e)) /\ Once(Line(e), Beginning(e))
      /\ \A i \in DOMAIN Line(e) : Line(e)[i] # Newline => Line(e)[i].event = e
  BY <1>3, LineHas
<1> HIDE DEF e
<1>5. e > called /\ \A i \in 1 .. called : i \in 1 .. e
  BY <1>3 DEF e
<1>6. TypeOK'
  BY <1>1, <1>2, <1>3, <1>4 DEF TypeOK
<1>7. FileInv'
  BY <1>1, <1>2, <1>5 DEF FileInv
<1>8. LoadedInv'
  BY <1>1, <1>2 DEF LoadedInv
<1>9. ASSUME NEW v \in Writers, v # w PROVE AppendInv(v)'
  <2>1. /\ writing'[v] = writing[v] /\ buffer'[v] = buffer[v] /\ writing'[w] = e
        /\ \A u \in Writers : u # w => writing'[u] = writing[u]
    BY <1>1, <1>2, <1>9 DEF TypeOK
  <2> SUFFICES ASSUME writing[v] # 0 PROVE AppendInv(v)'
    BY <2>1 DEF AppendInv
  <2>2. writing[v] \in Nat /\ writing[v] <= called
    BY <1>2 DEF AppendInv, TypeOK
  <2>3. writing'[v] <= called' /\ writing'[w] # writing'[v]
    BY <1>1, <1>3, <1>5, <2>1, <2>2
  <2>4. \A u \in Writers : writing'[u] = writing'[v] => u = v
    BY <1>2, <2>1, <2>3 DEF AppendInv
  <2> QED BY <1>1, <1>2, <2>1, <2>3, <2>4 DEF AppendInv
<1>10. AppendInv(w)'
  <2>1. /\ writing'[w] = e /\ buffer'[w] = Line(e)
        /\ \A u \in Writers : u # w => writing'[u] = writing[u]
    BY <1>1, <1>2 DEF TypeOK
  <2>2. ASSUME NEW u \in Writers, u # w PROVE writing'[u] # e
    <3>1. writing[u] \in Nat /\ (writing[u] # 0 => writing[u] <= called)
      BY <1>2 DEF AppendInv, TypeOK
    <3> QED BY <1>3, <1>5, <2>1, <2>2, <3>1
  <2>3. ~ Has(file, Beginning(e))
    <3> SUFFICES ASSUME NEW i \in DOMAIN file, file[i] = Beginning(e)
                 PROVE  FALSE
      BY DEF Has
    <3>1. file[i] # Newline /\ file[i].event = e
      BY PiecesApart
    <3>2. e \in 1 .. called
      BY <1>2, <3>1 DEF FileInv
    <3> QED BY <1>3, <1>5, <3>2
  <2>4. Once(file, Beginning(e))
    BY <2>3 DEF Has, Once
  <2>5. Has(file \o Line(e), Beginning(e)) /\ Once(file \o Line(e), Beginning(e))
    BY <1>2, <1>4, <2>3, <2>4, HasOfConcat DEF TypeOK
  <2>6. e <= called'
    BY <1>1, <1>3
  <2> QED BY <1>1, <1>4, <2>1, <2>2, <2>5, <2>6 DEF AppendInv
<1> QED BY <1>6, <1>7, <1>8, <1>9, <1>10 DEF StoreInv

\* What one write(2) took and what it left make up what there was.
LEMMA CutInTwo ==
  ASSUME NEW E, NEW s \in Seq(E), NEW n \in 1 .. Len(s)
  PROVE  LET p == SubSeq(s, 1, n)
             q == SubSeq(s, n + 1, Len(s))
         IN  p \in Seq(E) /\ q \in Seq(E) /\ p \o q = s
<1> DEFINE p == SubSeq(s, 1, n)
           m == Len(s)
           q == SubSeq(s, n + 1, m)
<1>1. m \in Nat /\ \A i \in 1 .. m : s[i] \in E
  BY LenProperties
<1> HIDE DEF m
<1>2. n \in Nat /\ n >= 1 /\ n <= m /\ 1 \in Int /\ n \in Int /\ n + 1 \in Int /\ m \in Int
      /\ (\A i \in 1 .. n : s[i] \in E) /\ (\A i \in n + 1 .. m : s[i] \in E)
  BY <1>1 DEF m
<1>3. /\ p \in Seq(E) /\ Len(p) = (IF 1 <= n THEN n - 1 + 1 ELSE 0)
      /\ \A i \in 1 .. n - 1 + 1 : p[i] = s[1 + i - 1]
  BY <1>2, SubSeqProperties
<1>4. /\ q \in Seq(E) /\ Len(q) = (IF n + 1 <= m THEN m - (n + 1) + 1 ELSE 0)
      /\ \A i \in 1 .. m - (n + 1) + 1 : q[i] = s[n + 1 + i - 1]
  BY <1>2, SubSeqProperties
<1> HIDE DEF p, q
<1>5. Len(p) = n /\ \A i \in 1 .. n : p[i] = s[i]
  BY <1>2, <1>3
<1>6. Len(q) = m - n /\ \A i \in 1 .. m - n : q[i] = s[n + i]
  BY <1>1, <1>2, <1>4
<1>7. /\ p \o q \in Seq(E) /\ Len(p \o q) = Len(p) + Len(q)
      /\ \A i \in 1 .. Len(p) + Len(q) :
           (p \o q)[i] = IF i <= Len(p) THEN p[i] ELSE q[i - Len(p)]
  BY <1>3, <1>4, ConcatProperties
<1>8. Len(p \o q) = m
  BY <1>1, <1>2, <1>5, <1>6, <1>7
<1>9. ASSUME NEW i \in 1 .. m PROVE (p \o q)[i] = s[i]
  <2>1. (p \o q)[i] = IF i <= n THEN p[i] ELSE q[i - n]
    BY <1>5, <1>7, <1>8
  <2>2. CASE i <= n
    <3>1. i \in 1 .. n
      BY <2>2
    <3> QED BY <1>5, <2>1, <2>2, <3>1
  <2>3. CASE ~ (i <= n)
    <3>1. i - n \in 1 .. m - n /\ n + (i - n) = i
      BY <1>1, <1>2, <2>3
    <3> QED BY <1>6, <2>1, <2>3, <3>1
  <2> QED BY <2>2, <2>3
<1>10. p \o q = s
  BY <1>7, <1>8, <1>9, SeqEqual DEF m
<1> QED BY <1>3, <1>4, <1>10 DEF p, q, m

\* Some of the line lands at the end of the file.
LEMMA StoreWrite ==
  ASSUME StoreInv, NEW w \in Writers, WriteSome(w)
  PROVE  StoreInv'
<1>1. PICK n \in 1 .. Len(buffer[w]) :
        /\ file' = file \o SubSeq(buffer[w], 1, n)
        /\ buffer' = [buffer EXCEPT ![w] = SubSeq(@, n + 1, Len(@))]
  BY DEF WriteSome
<1>2. /\ writing[w] # 0 /\ buffer[w] # << >>
      /\ writing' = writing /\ called' = called /\ returned' = returned
      /\ loaded' = loaded
  BY DEF WriteSome
<1> DEFINE e == writing[w]
           p == SubSeq(buffer[w], 1, n)
           q == SubSeq(buffer[w], n + 1, Len(buffer[w]))
<1>3. TypeOK /\ FileInv /\ LoadedInv /\ \A v \in Writers : AppendInv(v)
  BY DEF StoreInv
<1>4. /\ file \in Seq(Pieces) /\ buffer[w] \in Seq(Pieces)
      /\ called \in Nat /\ MaxEvents \in Nat
      /\ writing \in [Writers -> 0 .. MaxEvents]
  BY <1>3, BoundsAssumption DEF TypeOK
<1>5. p \in Seq(Pieces) /\ q \in Seq(Pieces) /\ p \o q = buffer[w]
  BY <1>4, CutInTwo
<1>6. /\ file' = file \o p /\ buffer' = [buffer EXCEPT ![w] = q]
      /\ buffer'[w] = q
      /\ \A v \in Writers : v # w => buffer'[v] = buffer[v]
  BY <1>1, <1>3 DEF TypeOK
<1> HIDE DEF p, q
<1>7. e \in 1 .. called /\ e \in Events
  <2>1. e \in Nat /\ e # 0 /\ e <= MaxEvents /\ e <= called
    BY <1>2, <1>3, <1>4 DEF AppendInv
  <2> QED BY <1>4, <2>1 DEF Events
<1>8. /\ \A i \in DOMAIN p : p[i] # Newline => p[i].event = e
      /\ \A i \in DOMAIN q : q[i] # Newline => q[i].event = e
  <2>1. \A x : Has(buffer[w], x) /\ x # Newline => x.event = e
    BY <1>2, <1>3 DEF AppendInv, Has
  <2>2. \A x : Has(p, x) \/ Has(q, x) <=> Has(buffer[w], x)
    <3>1. \A x : Has(p \o q, x) <=> Has(p, x) \/ Has(q, x)
      BY <1>5, HasOfConcat
    <3> QED BY <1>5, <3>1
  <2>3. /\ \A i \in DOMAIN p : Has(p, p[i])
        /\ \A i \in DOMAIN q : Has(q, q[i])
    BY DEF Has
  <2> QED BY <2>1, <2>2, <2>3
<1>9. \A d : d # e => ~ Has(p, Beginning(d))
  BY <1>8, PiecesApart DEF Has
<1>10. file' \in Seq(Pieces)
  BY <1>4, <1>5, <1>6, ConcatProperties
<1>11. file' \o q = file \o buffer[w]
  <2>1. (file \o p) \o q = file \o (p \o q)
    <3>1. file \in Seq(Pieces) /\ p \in Seq(Pieces) /\ q \in Seq(Pieces)
      BY <1>4, <1>5
    <3> HIDE DEF Pieces, e
    <3> QED BY ONLY <3>1, ConcatAssociative
  <2> QED BY <1>5, <1>6, <2>1
<1>12. TypeOK'
  BY <1>2, <1>3, <1>5, <1>6, <1>10 DEF TypeOK
<1>13. FileInv'
  <2>1. ASSUME NEW i \in DOMAIN file', file'[i] # Newline
        PROVE  file'[i].event \in 1 .. called
    <3>1. Has(file', file'[i])
      BY <2>1 DEF Has
    <3>2. Has(file, file'[i]) \/ Has(p, file'[i])
      BY <1>4, <1>5, <1>6, <3>1, HasOfConcat
    <3>3. CASE Has(file, file'[i])
      BY <1>3, <2>1, <3>3 DEF Has, FileInv
    <3>4. CASE Has(p, file'[i])
      BY <1>7, <1>8, <2>1, <3>4 DEF Has
    <3> QED BY <3>2, <3>3, <3>4
  <2>2. ASSUME NEW d \in Events PROVE Once(file', Beginning(d))
    <3>1. CASE d = e
      <4>1. Once(file' \o q, Beginning(e))
        BY <1>2, <1>3, <1>11 DEF AppendInv
      <4> QED BY <1>5, <1>10, <3>1, <4>1, HasOfConcat
    <3>2. CASE d # e
      <4>1. ~ Has(p, Beginning(d)) /\ Once(file, Beginning(d))
        BY <1>3, <1>9, <3>2 DEF FileInv
      <4>2. Once(p, Beginning(d))
        BY <4>1 DEF Has, Once
      <4> QED BY <1>4, <1>5, <1>6, <4>1, <4>2, HasOfConcat
    <3> QED BY <3>1, <3>2
  <2>3. ASSUME NEW i \in DOMAIN returned PROVE Has(file', Beginning(returned[i]))
    BY <1>3, <1>4, <1>5, <1>6, HasOfConcat DEF FileInv
  <2> QED BY <1>2, <2>1, <2>2, <2>3 DEF FileInv
<1>14. LoadedInv'
  <2>1. PICK g \in Seq(Pieces), h \in Seq(Pieces) :
          file = g \o h /\ loaded = LoadResult(g)
    BY <1>3 DEF LoadedInv
  <2>2. h \o p \in Seq(Pieces) /\ file' = g \o (h \o p)
    <3>1. h \o p \in Seq(Pieces)
      BY <1>5, ConcatProperties
    <3>2. (g \o h) \o p = g \o (h \o p)
      BY <1>5, ConcatAssociative
    <3> QED BY <1>6, <2>1, <3>1, <3>2
  <2> QED BY <1>2, <2>1, <2>2 DEF LoadedInv
<1>15. ASSUME NEW v \in Writers PROVE AppendInv(v)'
  <2> SUFFICES ASSUME writing[v] # 0 PROVE AppendInv(v)'
    BY <1>2 DEF AppendInv
  <2>1. /\ writing[v] <= called
        /\ \A u \in Writers : writing[u] = writing[v] => u = v
        /\ \A i \in DOMAIN buffer[v] :
             buffer[v][i] # Newline => buffer[v][i].event = writing[v]
        /\ Has(file \o buffer[v], Beginning(writing[v]))
        /\ Once(file \o buffer[v], Beginning(writing[v]))
    BY <1>3 DEF AppendInv
  <2>2. CASE v = w
    BY <1>2, <1>6, <1>8, <1>11, <2>1, <2>2 DEF AppendInv
  <2>3. CASE v # w
    <3> DEFINE x == Beginning(writing[v])
               b == buffer[v]
    <3>1. ~ Has(p, x)
      BY <1>9, <2>1, <2>3
    <3>2. b \in Seq(Pieces) /\ buffer'[v] = b
      BY <1>3, <1>6, <2>3 DEF TypeOK
    <3>3. Once(p, x)
      BY <3>1 DEF Has, Once
    <3> HIDE DEF x, b
    <3>4. /\ Has(file \o b, x) <=> Has(file, x) \/ Has(b, x)
          /\ Once(file \o b, x)
               <=> Once(file, x) /\ Once(b, x) /\ ~ (Has(file, x) /\ Has(b, x))
      BY <1>4, <3>2, HasOfConcat
    <3>5. /\ Has(file', x) <=> Has(file, x)
          /\ Once(file', x) <=> Once(file, x)
      BY <1>4, <1>5, <1>6, <3>1, <3>3, HasOfConcat
    <3>6. /\ Has(file' \o b, x) <=> Has(file', x) \/ Has(b, x)
          /\ Once(file' \o b, x)
               <=> Once(file', x) /\ Once(b, x) /\ ~ (Has(file', x) /\ Has(b, x))
      BY <1>10, <3>2, HasOfConcat
    <3>7. Has(file \o b, x) /\ Once(file \o b, x)
      BY <2>1 DEF x, b
    <3>8. Has(file' \o b, x) /\ Once(file' \o b, x)
      BY <3>4, <3>5, <3>6, <3>7
    <3> QED BY <1>2, <2>1, <3>2, <3>8 DEF AppendInv, x, b
  <2> QED BY <2>2, <2>3
<1> QED BY <1>12, <1>13, <1>14, <1>15 DEF StoreInv

\* An append returns Ok.
LEMMA StoreReturn ==
  ASSUME StoreInv, NEW w \in Writers, ReturnOk(w)
  PROVE  StoreInv'
<1> DEFINE e == writing[w]
<1>1. /\ e # 0 /\ buffer[w] = << >>
      /\ returned' = Append(returned, e)
      /\ writing' = [writing EXCEPT ![w] = 0]
      /\ file' = file /\ buffer' = buffer /\ called' = called /\ loaded' = loaded
  BY DEF ReturnOk
<1>2. TypeOK /\ FileInv /\ LoadedInv /\ \A v \in Writers : AppendInv(v)
  BY DEF StoreInv
<1>3. e \in Events /\ MaxEvents \in Nat
  BY <1>1, <1>2, BoundsAssumption DEF TypeOK, Events
<1>4. Has(file, Beginning(e))
  <2>1. Has(file \o buffer[w], Beginning(e))
    BY <1>1, <1>2 DEF AppendInv
  <2>2. file \o << >> = file
    BY <1>2, ConcatEmptySeq DEF TypeOK
  <2> QED BY <1>1, <2>1, <2>2
<1>5. returned \in Seq(Events)
  BY <1>2 DEF TypeOK
<1>6. /\ writing'[w] = 0
      /\ \A v \in Writers : v # w => writing'[v] = writing[v]
  BY <1>1, <1>2 DEF TypeOK
<1> HIDE DEF e
<1>7. TypeOK'
  <2>1. returned' \in Seq(Events)
    BY <1>1, <1>3, <1>5, AppendProperties
  <2> QED BY <1>1, <1>2, <1>3, <2>1 DEF TypeOK
<1>8. FileInv'
  <2>1. ASSUME NEW i \in DOMAIN returned' PROVE Has(file, Beginning(returned'[i]))
    <3>1. Has(returned', returned'[i])
      BY DEF Has
    <3>2. Has(returned, returned'[i]) \/ e = returned'[i]
      BY <1>1, <1>3, <1>5, <3>1, HasOfAppend
    <3>3. CASE Has(returned, returned'[i])
      BY <1>2, <3>3 DEF Has, FileInv
    <3>4. CASE e = returned'[i]
      BY <1>4, <3>4
    <3> QED BY <3>2, <3>3, <3>4
  <2> QED BY <1>1, <1>2, <2>1 DEF FileInv
<1>9. LoadedInv'
  BY <1>1, <1>2 DEF LoadedInv
<1>10. ASSUME NEW v \in Writers PROVE AppendInv(v)'
  <2> SUFFICES ASSUME writing'[v] # 0 PROVE AppendInv(v)'
    BY DEF AppendInv
  <2>1. v # w /\ writing'[v] = writing[v]
    BY <1>6
  <2>2. \A u \in Writers : writing'[u] = writing'[v] => u = v
    BY <1>2, <1>6, <2>1 DEF AppendInv
  <2> QED BY <1>1, <1>2, <2>1, <2>2 DEF AppendInv
<1> QED BY <1>7, <1>8, <1>9, <1>10 DEF StoreInv

\* A write fails or the process ends.
LEMMA StoreAbandon ==
  ASSUME StoreInv, NEW W, Abandon(W),
         file' = file, called' = called, returned' = returned, loaded' = loaded
  PROVE  StoreInv'
<1>1. /\ writing' = [w \in Writers |-> IF w \in W THEN 0 ELSE writing[w]]
      /\ buffer' = [w \in Writers |-> IF w \in W THEN << >> ELSE buffer[w]]
  BY DEF Abandon, Dropped
<1>2. TypeOK /\ FileInv /\ LoadedInv /\ \A v \in Writers : AppendInv(v)
  BY DEF StoreInv
<1>3. TypeOK'
  <2>1. << >> \in Seq(Pieces) /\ 0 \in 0 .. MaxEvents
    BY EmptySeq, BoundsAssumption
  <2>2. /\ \A w \in Writers : (IF w \in W THEN 0 ELSE writing[w]) \in 0 .. MaxEvents
        /\ \A w \in Writers : (IF w \in W THEN << >> ELSE buffer[w]) \in Seq(Pieces)
    BY <1>2, <2>1 DEF TypeOK
  <2> QED BY <1>1, <1>2, <2>2 DEF TypeOK
<1>4. FileInv' /\ LoadedInv'
  BY <1>2 DEF FileInv, LoadedInv
<1>5. ASSUME NEW v \in Writers PROVE AppendInv(v)'
  <2> SUFFICES ASSUME writing'[v] # 0 PROVE AppendInv(v)'
    BY DEF AppendInv
  <2>1. writing'[v] = writing[v] /\ buffer'[v] = buffer[v]
    BY <1>1
  <2>2. \A u \in Writers : writing'[u] = writing'[v] => u = v
    BY <1>1, <1>2, <2>1 DEF AppendInv
  <2> QED BY <1>2, <2>1, <2>2 DEF AppendInv
<1> QED BY <1>3, <1>4, <1>5 DEF StoreInv

\* A load succeeds.
LEMMA StoreLoad ==
  ASSUME StoreInv, Load
  PROVE  StoreInv'
<1>1. /\ loaded' = LoadResult(file)
      /\ file' = file /\ buffer' = buffer /\ writing' = writing
      /\ called' = called /\ returned' = returned
  BY DEF Load
<1>2. TypeOK /\ FileInv /\ \A v \in Writers : AppendInv(v)
  BY DEF StoreInv
<1>3. TypeOK' /\ FileInv'
  BY <1>1, <1>2 DEF TypeOK, FileInv
<1>4. \A v \in Writers : AppendInv(v)'
  BY <1>1, <1>2 DEF AppendInv
<1>5. LoadedInv'
  <2>1. file \in Seq(Pieces) /\ << >> \in Seq(Pieces)
    BY <1>2, EmptySeq DEF TypeOK
  <2>2. file \o << >> = file
    BY <2>1, ConcatEmptySeq
  <2>3. file' = file \o << >> /\ loaded' = LoadResult(file)
    BY <1>1, <2>2
  <2> QED BY <2>1, <2>3 DEF LoadedInv
<1> QED BY <1>3, <1>4, <1>5 DEF StoreInv

\* Every step keeps the invariant.
LEMMA StoreNext ==
  ASSUME StoreInv, [Next]_vars
  PROVE  StoreInv'
<1>1. ASSUME NEW w \in Writers, StartAppend(w) PROVE StoreInv'
  BY <1>1, StoreStart
<1>2. ASSUME NEW w \in Writers, WriteSome(w) PROVE StoreInv'
  BY <1>2, StoreWrite
<1>3. ASSUME NEW w \in Writers, ReturnOk(w) PROVE StoreInv'
  BY <1>3, StoreReturn
<1>4. ASSUME NEW w \in Writers, WriteFails(w) PROVE StoreInv'
  BY <1>4, StoreAbandon DEF WriteFails
<1>5. CASE Crash
  BY <1>5, StoreAbandon DEF Crash
<1>6. CASE Load
  BY <1>6, StoreLoad
<1>7. CASE UNCHANGED vars
  BY <1>7 DEF vars, StoreInv, TypeOK, FileInv, LoadedInv, AppendInv
<1> QED BY <1>1, <1>2, <1>3, <1>4, <1>5, <1>6, <1>7 DEF Next

\* append and load of JsonlSessionStore (session.rs), with short writes of
\* several writers interleaved, failed writes and crashes, keep the inductive
\* invariant.
THEOREM StoreCorrect == Spec => []StoreInv
<1>1. Init => StoreInv
  BY StoreInit
<1>2. StoreInv /\ [Next]_vars => StoreInv'
  BY StoreNext
<1> QED BY <1>1, <1>2, PTL DEF Spec

\* Whenever load succeeds, it returns every event whose append returned Ok, each
\* one once, and none that was not given to append.
THEOREM EveryLoadIsComplete == Spec => []LoadIsComplete
<1>1. ASSUME StoreInv PROVE LoadIsComplete
  <2> DEFINE r == LoadResult(file)
  <2> SUFFICES ASSUME LoadOk(file)
               PROVE  /\ ToSet(returned) \subseteq ToSet(r)
                      /\ ToSet(r) \subseteq 1 .. called
                      /\ \A i, j \in DOMAIN r : r[i] = r[j] => i = j
    BY DEF LoadIsComplete
  <2>1. TypeOK /\ FileInv
    BY <1>1 DEF StoreInv
  <2>2. file \in Seq(Pieces) /\ returned \in Seq(Events)
    BY <2>1 DEF TypeOK
  <2>3. DOMAIN r = DOMAIN Lines(file)
    BY <2>2, ResultOf, LinesTyped
  <2>4. \A j \in DOMAIN r :
          /\ r[j] \in Events
          /\ \A d : Has(Lines(file)[j], Beginning(d)) <=> d = r[j]
    BY <2>2, <2>3, ParsedLine
  <2>5. ASSUME NEW e \in Events
        PROVE  /\ Has(file, Beginning(e)) <=> In(Lines(file), Beginning(e))
               /\ InOne(Lines(file), Beginning(e))
    <3>1. Beginning(e) \in Pieces \ {Newline}
      BY PiecesApart DEF Pieces
    <3>2. Once(file, Beginning(e))
      BY <2>1 DEF FileInv
    <3> QED BY <2>2, <3>1, <3>2, LinesPlace
  <2> HIDE DEF r
  <2>6. ASSUME NEW k \in DOMAIN returned
        PROVE  \E j \in DOMAIN r : r[j] = returned[k]
    <3>1. returned[k] \in Events
      BY <2>2, LenProperties
    <3>2. Has(file, Beginning(returned[k]))
      BY <2>1 DEF FileInv
    <3>3. PICK j \in DOMAIN Lines(file) :
            Has(Lines(file)[j], Beginning(returned[k]))
      BY <2>5, <3>1, <3>2 DEF In
    <3> QED BY <2>3, <2>4, <3>3
  <2>7. ASSUME NEW j \in DOMAIN r PROVE r[j] \in 1 .. called
    <3>1. r[j] \in Events /\ Has(Lines(file)[j], Beginning(r[j]))
      BY <2>4
    <3>2. Has(file, Beginning(r[j]))
      BY <2>3, <2>5, <3>1 DEF In
    <3>3. PICK i \in DOMAIN file : file[i] = Beginning(r[j])
      BY <3>2 DEF Has
    <3>4. file[i] # Newline /\ file[i].event = r[j]
      BY <3>3, PiecesApart
    <3> QED BY <2>1, <3>4 DEF FileInv
  <2>8. ASSUME NEW i \in DOMAIN r, NEW j \in DOMAIN r, r[i] = r[j]
        PROVE  i = j
    <3>1. /\ r[i] \in Events
          /\ Has(Lines(file)[i], Beginning(r[i]))
          /\ Has(Lines(file)[j], Beginning(r[i]))
      BY <2>4, <2>8
    <3> QED BY <2>3, <2>5, <3>1 DEF InOne
  <2> QED BY <2>6, <2>7, <2>8 DEF ToSet
<1> QED BY <1>1, StoreCorrect, PTL

\* A later load that succeeds extends every earlier one: no event that a caller
\* has seen replayed is missing, replaced or moved afterwards.
THEOREM EveryHistoryGrows == Spec => []HistoryOnlyGrows
<1>1. ASSUME StoreInv PROVE HistoryOnlyGrows
  <2>1. PICK g \in Seq(Pieces), h \in Seq(Pieces) :
          file = g \o h /\ loaded = LoadResult(g)
    BY <1>1 DEF StoreInv, LoadedInv
  <2>2. IsPrefix(LoadResult(g), LoadResult(g \o h))
    BY ResultsPersist
  <2> QED BY <2>1, <2>2 DEF HistoryOnlyGrows
<1> QED BY <1>1, StoreCorrect, PTL
============================================================================

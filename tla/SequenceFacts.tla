--------------------------- MODULE SequenceFacts ---------------------------
(***************************************************************************)
(* What FoldLeft and FlattenSeq of the community modules compute, for      *)
(* every sequence.                                                         *)
(*                                                                         *)
(* SequencesExt defines both by a function that is recursive over a set of *)
(* indices or over an index.  That the recursion has a solution, and that  *)
(* the solution proceeds from Append to Append, is proved here by          *)
(* induction, so that a proof about a fold has the two facts of FoldLaws   *)
(* to go on and never sees the recursion again.                            *)
(*                                                                         *)
(* The library's induction theorems take the predicate as an operator      *)
(* parameter.  Here the predicate is a set: a set that has the first       *)
(* number, or the empty sequence, and is closed under one step more has    *)
(* them all. A proof by induction defines the set of what satisfies its    *)
(* claim.                                                                  *)
(***************************************************************************)
EXTENDS Integers, SequencesExt, SequenceTheorems, WellFoundedInduction, TLAPS
(* Induction                                                               *)

----------------------------------------------------------------------------
(* Induction                                                               *)

\* Induction over the naturals, for the members of a set.
LEMMA InductionOnNat ==
  ASSUME NEW S, 0 \in S, \A n \in Nat : n \in S => n + 1 \in S
  PROVE  Nat \subseteq S
<1> DEFINE T == Nat \ S
<1> SUFFICES ASSUME T # {} PROVE FALSE
  OBVIOUS
<1>1. T \subseteq Nat
  OBVIOUS
<1> HIDE DEF T
<1>2. PICK x \in T : \A y \in T : ~ (<<y, x>> \in OpToRel(<, Nat))
  BY <1>1, NatLessThanWellFounded, WFMin
<1>3. \A y \in T : ~ (y < x)
  BY <1>1, <1>2 DEF OpToRel
<1>4. x \in Nat /\ x \notin S /\ x # 0
  BY <1>2 DEF T
<1>5. x - 1 \in Nat /\ x - 1 \notin T /\ (x - 1) + 1 = x
  BY <1>3, <1>4
<1>6. x - 1 \in S
  BY <1>5 DEF T
<1> QED BY <1>4, <1>5, <1>6

\* Induction over sequences, one element at the end at a time.
LEMMA InductionOnSeq ==
  ASSUME NEW E, NEW S, << >> \in S,
         \A s \in Seq(E) : s \in S => \A x \in E : Append(s, x) \in S
  PROVE  Seq(E) \subseteq S
<1> DEFINE L == {n \in Nat : \A s \in Seq(E) : Len(s) = n => s \in S}
<1>1. 0 \in L
  BY EmptySeq
<1>2. \A n \in Nat : n \in L => n + 1 \in L
  <2> SUFFICES ASSUME NEW n \in Nat, n \in L,
                      NEW s \in Seq(E), Len(s) = n + 1
               PROVE  s \in S
    OBVIOUS
  <2>1. s # << >>
    BY EmptySeq
  <2>2. PICK t \in Seq(E), x \in E : s = Append(t, x)
    BY <2>1, SequenceEmptyOrAppend
  <2>3. Len(t) \in Nat /\ Len(s) = Len(t) + 1
    BY <2>2, AppendProperties, LenProperties
  <2>4. t \in S
    BY <2>3
  <2> QED BY <2>2, <2>4
<1> HIDE DEF L
<1>3. Nat \subseteq L
  BY <1>1, <1>2, InductionOnNat
<1> QED BY <1>3, LenProperties DEF L

(* FoldLeft                                                                *)

----------------------------------------------------------------------------
(* FoldLeft                                                                *)

\* The greatest index of a set of indices, by which FoldLeft proceeds.
LEMMA MaxOfIndices ==
  ASSUME NEW n \in Nat
  PROVE  \A s \in SUBSET (1 .. n) : s # {} =>
           /\ Max(s) \in s
           /\ \A y \in s : y <= Max(s)
<1> DEFINE L == {k \in Nat : \A s \in SUBSET (1 .. k) : s # {} =>
                   \E x \in s : \A y \in s : x >= y}
<1>1. 0 \in L
  BY 1 .. 0 = {}
<1>2. \A k \in Nat : k \in L => k + 1 \in L
  <2> SUFFICES ASSUME NEW k \in Nat, k \in L,
                      NEW s \in SUBSET (1 .. k + 1), s # {}
               PROVE  \E x \in s : \A y \in s : x >= y
    OBVIOUS
  <2>1. CASE k + 1 \in s
    BY <2>1
  <2>2. CASE k + 1 \notin s
    <3>1. s \in SUBSET (1 .. k)
      BY <2>2
    <3> QED BY <3>1
  <2> QED BY <2>1, <2>2
<1> HIDE DEF L
<1>3. n \in L
  BY <1>1, <1>2, InductionOnNat
<1> SUFFICES ASSUME NEW s \in SUBSET (1 .. n), s # {}
             PROVE  /\ Max(s) \in s
                    /\ \A y \in s : y <= Max(s)
  OBVIOUS
<1>4. \E x \in s : \A y \in s : x >= y
  BY <1>3 DEF L
<1>5. /\ Max(s) \in s
      /\ \A y \in s : Max(s) >= y
  BY <1>4 DEF Max
<1> QED BY <1>5

\* The greatest of a set of indices, and the rest of the set.
LEMMA MaxOfRest ==
  ASSUME NEW n \in Nat, NEW s \in SUBSET (1 .. n), s # {}
  PROVE  /\ Max(s) \in 1 .. n
         /\ s \ {Max(s)} \in SUBSET (1 .. n - 1)
         /\ n \in s => Max(s) = n
<1> DEFINE m == Max(s)
<1>1. m \in s /\ \A y \in s : y <= m
  BY MaxOfIndices
<1> HIDE DEF m
<1>2. m \in 1 .. n /\ (n \in s => m = n)
  BY <1>1
<1>3. \A y \in s \ {m} : y \in 1 .. n - 1
  BY <1>1, <1>2
<1> QED BY <1>2, <1>3 DEF m

\* The indices of a sequence with one element more.
LEMMA MaxOfAll ==
  ASSUME NEW n \in Nat
  PROVE  /\ 1 .. n + 1 # {}
         /\ Max(1 .. n + 1) = n + 1
         /\ (1 .. n + 1) \ {n + 1} = 1 .. n
<1>1. n + 1 \in 1 .. n + 1 /\ n + 1 \in Nat
  OBVIOUS
<1>2. Max(1 .. n + 1) = n + 1
  <2> DEFINE s == 1 .. n + 1
  <2>1. s \in SUBSET (1 .. n + 1) /\ s # {} /\ n + 1 \in s
    BY <1>1
  <2> HIDE DEF s
  <2>2. Max(s) = n + 1
    BY <1>1, <2>1, MaxOfRest
  <2> QED BY <2>2 DEF s
<1>3. (1 .. n + 1) \ {n + 1} = 1 .. n
  OBVIOUS
<1> QED BY <1>1, <1>2, <1>3

\* Two functions on sets of indices that agree, and that take the same step
\* wherever they agree on the smaller indices.
Agree(f, g, n) == \A s \in SUBSET (1 .. n) : f[s] = g[s]

StepAlike(f, g, n) ==
  /\ f[{}] = g[{}]
  /\ \A s \in SUBSET (1 .. n) :
       s # {} /\ f[s \ {Max(s)}] = g[s \ {Max(s)}] => f[s] = g[s]

\* Two functions on sets of indices that do the same at every step agree.
LEMMA FoldsAgree ==
  ASSUME NEW n \in Nat, NEW f, NEW g, StepAlike(f, g, n)
  PROVE  Agree(f, g, n)
<1> DEFINE L == {k \in Nat : k <= n => \A s \in SUBSET (1 .. k) : f[s] = g[s]}
<1>1. 0 \in L
  BY \A s \in SUBSET (1 .. 0) : s = {} DEF StepAlike
<1>2. \A k \in Nat : k \in L => k + 1 \in L
  <2> SUFFICES ASSUME NEW k \in Nat, k \in L, k + 1 <= n,
                      NEW s \in SUBSET (1 .. k + 1)
               PROVE  f[s] = g[s]
    OBVIOUS
  <2> SUFFICES ASSUME s # {} PROVE f[s] = g[s]
    OBVIOUS
  <2>1. s \ {Max(s)} \in SUBSET (1 .. (k + 1) - 1) /\ (k + 1) - 1 = k
    BY k + 1 \in Nat, MaxOfRest
  <2>2. f[s \ {Max(s)}] = g[s \ {Max(s)}]
    BY <2>1
  <2>3. s \in SUBSET (1 .. n)
    OBVIOUS
  <2> QED BY <2>2, <2>3 DEF StepAlike
<1> HIDE DEF L
<1>3. n \in L
  BY <1>1, <1>2, InductionOnNat
<1> QED BY <1>3 DEF L, Agree

\* f folds G from b, with values in A, over the sets of the first n indices.
FoldsOver(f, n, A, b, G) ==
  /\ f \in [SUBSET (1 .. n) -> A]
  /\ \A s \in SUBSET (1 .. n) :
       f[s] = IF s = {} THEN b ELSE G[<<Max(s), f[s \ {Max(s)}]>>]

\* The function that a fold evaluates exists: one step takes an index and what
\* the fold of the smaller indices gave.
LEMMA FoldExists ==
  ASSUME NEW n \in Nat, NEW A, NEW b \in A, NEW G \in [(1 .. n) \X A -> A]
  PROVE  \E f : FoldsOver(f, n, A, b, G)
<1> DEFINE L == {k \in Nat : k <= n => \E f : FoldsOver(f, k, A, b, G)}
<1>1. 0 \in L
  <2> DEFINE f == [s \in SUBSET (1 .. 0) |-> b]
  <2>1. FoldsOver(f, 0, A, b, G)
    BY \A s \in SUBSET (1 .. 0) : s = {} DEF FoldsOver
  <2> QED BY <2>1
<1>2. \A k \in Nat : k \in L => k + 1 \in L
  <2> SUFFICES ASSUME NEW k \in Nat, k + 1 <= n,
                      NEW f, FoldsOver(f, k, A, b, G)
               PROVE  \E g : FoldsOver(g, k + 1, A, b, G)
    OBVIOUS
  <2> DEFINE g == [s \in SUBSET (1 .. k + 1) |->
                     IF s = {} THEN b ELSE G[<<Max(s), f[s \ {Max(s)}]>>]]
  <2>1. \A s \in SUBSET (1 .. k + 1) : s # {} =>
          /\ Max(s) \in 1 .. n
          /\ s \ {Max(s)} \in SUBSET (1 .. k)
    <3> SUFFICES ASSUME NEW s \in SUBSET (1 .. k + 1), s # {}
                 PROVE  Max(s) \in 1 .. n /\ s \ {Max(s)} \in SUBSET (1 .. k)
      OBVIOUS
    <3>1. Max(s) \in 1 .. k + 1 /\ s \ {Max(s)} \in SUBSET (1 .. (k + 1) - 1)
      BY MaxOfRest, k + 1 \in Nat
    <3> QED BY <3>1
  <2>2. \A s \in SUBSET (1 .. k) : g[s] = f[s]
    BY DEF FoldsOver
  <2>3. g \in [SUBSET (1 .. k + 1) -> A]
    BY <2>1 DEF FoldsOver
  <2>4. FoldsOver(g, k + 1, A, b, G)
    BY <2>1, <2>2, <2>3 DEF FoldsOver
  <2> QED BY <2>4
<1> HIDE DEF L
<1>3. n \in L
  BY <1>1, <1>2, InductionOnNat
<1> QED BY <1>3 DEF L

\* FoldLeft with a function for the operator, and the function it evaluates.
Folded(St, b, s) == FoldLeft(LAMBDA a, x : St[<<a, x>>], b, s)

Recurs(f, St, b, s) ==
  f = [q \in SUBSET DOMAIN s |->
         IF q = {} THEN b ELSE St[<<f[q \ {Max(q)}], s[Max(q)]>>]]

Iter(St, b, s) == CHOOSE f : Recurs(f, St, b, s)

\* St takes a value in A and an element in E to a value in A.
IsStep(St, A, E) == St \in [A \X E -> A]

StepsBy(f, St, b, s, A) ==
  /\ f \in [SUBSET (1 .. Len(s)) -> A]
  /\ \A q \in SUBSET (1 .. Len(s)) :
       f[q] = IF q = {} THEN b ELSE St[<<f[q \ {Max(q)}], s[Max(q)]>>]

\* The function that evaluates a fold is defined, and takes St at each step.
LEMMA IterSteps ==
  ASSUME NEW A, NEW E, NEW b \in A, NEW St, IsStep(St, A, E), NEW s \in Seq(E)
  PROVE  StepsBy(Iter(St, b, s), St, b, s, A)
<1> DEFINE n == Len(s)
           G == [p \in (1 .. n) \X A |-> St[<<p[2], s[p[1]]>>]]
<1>1. n \in Nat /\ DOMAIN s = 1 .. n /\ \A i \in 1 .. n : s[i] \in E
  BY LenProperties
<1>2. G \in [(1 .. n) \X A -> A]
  BY <1>1 DEF IsStep
<1> HIDE DEF n
<1>3. PICK f : FoldsOver(f, n, A, b, G)
  <2> HIDE DEF G
  <2> QED BY <1>1, <1>2, FoldExists
<1>4. \A q \in SUBSET (1 .. n) : q # {} =>
        /\ Max(q) \in 1 .. n
        /\ q \ {Max(q)} \in SUBSET (1 .. n)
  <2> SUFFICES ASSUME NEW q \in SUBSET (1 .. n), q # {}
               PROVE  Max(q) \in 1 .. n
    OBVIOUS
  <2> QED BY <1>1, MaxOfRest
<1>5. \A q \in SUBSET (1 .. n) :
        f[q] = IF q = {} THEN b ELSE St[<<f[q \ {Max(q)}], s[Max(q)]>>]
  BY <1>3, <1>4 DEF FoldsOver
<1>6. f = [q \in SUBSET DOMAIN s |->
             IF q = {} THEN b ELSE St[<<f[q \ {Max(q)}], s[Max(q)]>>]]
  BY <1>1, <1>3, <1>5 DEF FoldsOver
<1> DEFINE h == Iter(St, b, s)
<1>7. h = [q \in SUBSET DOMAIN s |->
             IF q = {} THEN b ELSE St[<<h[q \ {Max(q)}], s[Max(q)]>>]]
  BY <1>6 DEF Iter, Recurs
<1> HIDE DEF h
<1>8. Agree(h, f, n)
  <2>1. StepAlike(h, f, n)
    BY <1>1, <1>5, <1>7 DEF StepAlike
  <2> QED BY <1>1, <2>1, FoldsAgree
<1>9. h \in [SUBSET (1 .. n) -> A]
  BY <1>1, <1>3, <1>7, <1>8 DEF FoldsOver, Agree
<1>10. StepsBy(h, St, b, s, A)
  BY <1>1, <1>7, <1>9 DEF StepsBy, n
<1> QED BY <1>10 DEF h

\* A fold is the value of that function at all indices.
LEMMA FoldedIsIter ==
  ASSUME NEW St, NEW b, NEW s
  PROVE  Folded(St, b, s) = Iter(St, b, s)[DOMAIN s]
  BY DEF Folded, Iter, Recurs, FoldLeft, MapThenFoldSet

\* The fold of the empty sequence.
LEMMA FoldedEmpty ==
  ASSUME NEW A, NEW E, NEW b \in A, NEW St, IsStep(St, A, E)
  PROVE  Folded(St, b, << >>) = b
<1>1. << >> \in Seq(E) /\ Len(<< >>) = 0 /\ DOMAIN << >> = {} /\ 1 .. 0 = {}
  BY EmptySeq
<1>2. StepsBy(Iter(St, b, << >>), St, b, << >>, A)
  BY <1>1, IterSteps
<1>3. Iter(St, b, << >>)[{}] = b
  BY <1>1, <1>2 DEF StepsBy
<1> QED BY <1>1, <1>3, FoldedIsIter

\* A fold of typed elements has the type of its steps.
LEMMA FoldedTyped ==
  ASSUME NEW A, NEW E, NEW b \in A, NEW St, IsStep(St, A, E), NEW s \in Seq(E)
  PROVE  Folded(St, b, s) \in A
<1>1. Len(s) \in Nat /\ DOMAIN s = 1 .. Len(s)
  BY LenProperties
<1>2. StepsBy(Iter(St, b, s), St, b, s, A)
  BY IterSteps
<1>3. Folded(St, b, s) = Iter(St, b, s)[1 .. Len(s)]
  BY <1>1, FoldedIsIter
<1> QED BY <1>2, <1>3 DEF StepsBy

\* The fold of one element more is one step more.
LEMMA FoldedAppend ==
  ASSUME NEW A, NEW E, NEW b \in A, NEW St, IsStep(St, A, E), NEW s \in Seq(E),
         NEW x \in E
  PROVE  Folded(St, b, Append(s, x)) = St[<<Folded(St, b, s), x>>]
<1> DEFINE n == Len(s)
           f == Iter(St, b, s)
<1>2. n \in Nat /\ DOMAIN s = 1 .. n /\ 1 .. n \in SUBSET (1 .. n)
  BY LenProperties
<1>3. StepsBy(f, St, b, s, A)
  BY IterSteps
<1>4. Folded(St, b, s) = f[1 .. n]
  BY <1>2, FoldedIsIter
<1> DEFINE t == Append(s, x)
           h == Iter(St, b, t)
<1>5. /\ t \in Seq(E) /\ Len(t) = n + 1 /\ DOMAIN t = 1 .. n + 1
      /\ t[n + 1] = x
      /\ \A i \in 1 .. n : t[i] = s[i]
  BY AppendProperties, LenProperties
<1>6. StepsBy(h, St, b, t, A)
  BY <1>5, IterSteps
<1>7. Folded(St, b, t) = h[1 .. n + 1]
  BY <1>5, FoldedIsIter
<1> HIDE DEF n, f, t, h
<1>8. h[1 .. n] = f[1 .. n]
  <2>1. h[{}] = f[{}]
    BY <1>3, <1>6 DEF StepsBy
  <2>2. ASSUME NEW q \in SUBSET (1 .. n), q # {},
               h[q \ {Max(q)}] = f[q \ {Max(q)}]
        PROVE  h[q] = f[q]
    <3>1. Max(q) \in 1 .. n
      BY <1>2, <2>2, MaxOfRest
    <3>2. q \in SUBSET (1 .. n + 1)
      BY <1>2
    <3>3. t[Max(q)] = s[Max(q)]
      BY <1>5, <3>1
    <3> QED BY <1>3, <1>5, <1>6, <2>2, <3>2, <3>3 DEF StepsBy, n
  <2>3. StepAlike(h, f, n)
    BY <2>1, <2>2 DEF StepAlike
  <2>4. Agree(h, f, n)
    BY <1>2, <2>3, FoldsAgree
  <2> QED BY <1>2, <2>4 DEF Agree
<1>9. h[1 .. n + 1] = St[<<h[1 .. n], t[n + 1]>>]
  <2>1. 1 .. n + 1 \in SUBSET (1 .. Len(t))
    BY <1>5
  <2> QED BY <1>2, <1>6, <2>1, MaxOfAll DEF StepsBy
<1> QED BY <1>4, <1>5, <1>7, <1>8, <1>9 DEF t

\* How a fold proceeds along a sequence.
FoldLaws(St, b, A, E) ==
  /\ Folded(St, b, << >>) = b
  /\ \A s \in Seq(E) :
       /\ Folded(St, b, s) \in A
       /\ \A x \in E :
            Folded(St, b, Append(s, x)) = St[<<Folded(St, b, s), x>>]

\* Every fold whose step is typed has the three laws.
LEMMA FoldHasLaws ==
  ASSUME NEW A, NEW E, NEW b \in A, NEW St, IsStep(St, A, E)
  PROVE  FoldLaws(St, b, A, E)
  BY FoldedEmpty, FoldedTyped, FoldedAppend DEF FoldLaws

\* What a fold of a concrete operator has to be shown to do, for it to be the
\* fold of the function St.
StepsAs(h, St, b, s, A, E) ==
  /\ h[{}] = b
  /\ \A q \in SUBSET DOMAIN s :
       q # {} /\ h[q \ {Max(q)}] \in A /\ s[Max(q)] \in E
         => h[q] = St[<<h[q \ {Max(q)}], s[Max(q)]>>]

\* Every step of the fold of St is from a value in A and an element in E.
TypedSteps(f, s, A, E) ==
  \A q \in SUBSET DOMAIN s :
    q # {} => f[q \ {Max(q)}] \in A /\ s[Max(q)] \in E

\* Each step of the fold is from a value in A and an element in E.
LEMMA IterTyped ==
  ASSUME NEW A, NEW E, NEW b \in A, NEW St, IsStep(St, A, E), NEW s \in Seq(E)
  PROVE  /\ TypedSteps(Iter(St, b, s), s, A, E)
         /\ Recurs(Iter(St, b, s), St, b, s)
<1> DEFINE f == Iter(St, b, s)
<1>1. StepsBy(f, St, b, s, A)
  BY IterSteps
<1>2. DOMAIN s = 1 .. Len(s) /\ Len(s) \in Nat /\ \A i \in DOMAIN s : s[i] \in E
  BY LenProperties
<1>3. \A q \in SUBSET DOMAIN s : q # {} => Max(q) \in DOMAIN s
  BY <1>2, MaxOfIndices
<1> HIDE DEF f
<1>4. TypedSteps(f, s, A, E)
  BY <1>1, <1>2, <1>3 DEF StepsBy, TypedSteps
<1>5. Recurs(f, St, b, s)
  BY <1>1, <1>2 DEF StepsBy, Recurs
<1> QED BY <1>4, <1>5 DEF f

\* The function h evaluates the fold of St.
Evaluates(h, St, b, s) == h[DOMAIN s] = Folded(St, b, s)

\* A fold of an operator that steps as the function St does is the fold of St.
LEMMA FoldBridge ==
  ASSUME NEW A, NEW E, NEW b \in A, NEW St, IsStep(St, A, E), NEW s \in Seq(E),
         NEW h, StepsAs(h, St, b, s, A, E)
  PROVE  Evaluates(h, St, b, s)
<1> DEFINE f == Iter(St, b, s)
           n == Len(s)
<1>1. StepsBy(f, St, b, s, A)
  BY IterSteps
<1>2. DOMAIN s = 1 .. n /\ n \in Nat
  BY LenProperties
<1>3. TypedSteps(f, s, A, E)
  BY IterTyped
<1>4. Folded(St, b, s) = f[DOMAIN s]
  BY FoldedIsIter
<1> HIDE DEF f
<1>5. StepAlike(h, f, n)
  <2>1. h[{}] = f[{}]
    BY <1>1, <1>2 DEF StepsAs, StepsBy
  <2>2. ASSUME NEW q \in SUBSET (1 .. n), q # {},
               h[q \ {Max(q)}] = f[q \ {Max(q)}]
        PROVE  h[q] = f[q]
    <3>1. h[q] = St[<<h[q \ {Max(q)}], s[Max(q)]>>]
      BY <1>2, <1>3, <2>2 DEF StepsAs, TypedSteps
    <3>2. f[q] = St[<<f[q \ {Max(q)}], s[Max(q)]>>]
      BY <1>1, <2>2 DEF StepsBy, n
    <3> QED BY <2>2, <3>1, <3>2
  <2> QED BY <2>1, <2>2 DEF StepAlike
<1>6. Agree(h, f, n)
  BY <1>2, <1>5, FoldsAgree
<1> QED BY <1>2, <1>4, <1>6 DEF Agree, Evaluates

(* FlattenSeq                                                              *)

----------------------------------------------------------------------------
(* FlattenSeq                                                              *)

\* FlattenSeq, one sequence at the end at a time.
Flattens(f, ss) ==
  f = [i \in 1 .. Len(ss) |-> IF i = 1 THEN ss[i] ELSE f[i - 1] \o ss[i]]

\* The recursive function of FlattenSeq is defined.
LEMMA FlattenExists ==
  ASSUME NEW E
  PROVE  \A ss \in Seq(Seq(E)) :
           \E f \in [1 .. Len(ss) -> Seq(E)] : Flattens(f, ss)
<1> DEFINE L == {ss \in Seq(Seq(E)) :
                   \E f \in [1 .. Len(ss) -> Seq(E)] : Flattens(f, ss)}
<1>1. << >> \in L
  <2>1. << >> \in Seq(Seq(E)) /\ Len(<< >>) = 0 /\ 1 .. 0 = {}
    BY EmptySeq
  <2> DEFINE f == [i \in 1 .. 0 |-> << >>]
  <2>2. f \in [1 .. Len(<< >>) -> Seq(E)] /\ Flattens(f, << >>)
    BY <2>1 DEF Flattens
  <2> QED BY <2>1, <2>2
<1>2. \A ss \in Seq(Seq(E)) : ss \in L => \A s \in Seq(E) : Append(ss, s) \in L
  <2> SUFFICES ASSUME NEW ss \in Seq(Seq(E)), NEW s \in Seq(E),
                      NEW f \in [1 .. Len(ss) -> Seq(E)], Flattens(f, ss)
               PROVE  Append(ss, s) \in L
    OBVIOUS
  <2> DEFINE n == Len(ss)
             t == Append(ss, s)
             last == IF n = 0 THEN s ELSE f[n] \o s
             g == [i \in 1 .. n + 1 |-> IF i = n + 1 THEN last ELSE f[i]]
  <2>1. n \in Nat /\ (n # 0 => f[n] \in Seq(E))
    BY LenProperties
  <2>2. /\ t \in Seq(Seq(E)) /\ Len(t) = n + 1 /\ t[n + 1] = s
        /\ \A i \in 1 .. n : t[i] = ss[i]
    BY AppendProperties
  <2>3. last \in Seq(E)
    BY <2>1, ConcatProperties
  <2> HIDE DEF n, t, last
  <2>4. g \in [1 .. n + 1 -> Seq(E)]
    BY <2>1, <2>3 DEF n
  <2>5. \A i \in 1 .. n + 1 : g[i] = IF i = 1 THEN t[i] ELSE g[i - 1] \o t[i]
    <3> SUFFICES ASSUME NEW i \in 1 .. n + 1
                 PROVE  g[i] = IF i = 1 THEN t[i] ELSE g[i - 1] \o t[i]
      OBVIOUS
    <3>1. CASE i = n + 1
      <4>1. CASE n = 0
        BY <2>1, <2>2, <3>1, <4>1 DEF last
      <4>2. CASE n # 0
        <5>1. g[i] = f[n] \o s /\ i # 1 /\ i - 1 = n /\ n \in 1 .. n + 1 /\ n # n + 1
          BY <2>1, <3>1, <4>2 DEF last
        <5>2. g[i - 1] = f[n]
          BY <5>1
        <5> HIDE DEF g
        <5> QED BY <2>2, <3>1, <5>1, <5>2
      <4> QED BY <4>1, <4>2
    <3>2. CASE i # n + 1
      <4>1. i \in 1 .. n /\ i \in 1 .. Len(ss) /\ t[i] = ss[i]
        BY <2>1, <2>2, <3>2 DEF n
      <4>2. f[i] = IF i = 1 THEN ss[i] ELSE f[i - 1] \o ss[i]
        BY <4>1 DEF Flattens
      <4>3. g[i] = f[i]
        BY <3>2
      <4>4. i # 1 => g[i - 1] = f[i - 1]
        BY <2>1, <4>1
      <4> HIDE DEF g
      <4> QED BY <4>1, <4>2, <4>3, <4>4
    <3> QED BY <3>1, <3>2
  <2>6. Flattens(g, t)
    BY <2>2, <2>5 DEF Flattens
  <2> QED BY <2>2, <2>4, <2>6 DEF t
<1> HIDE DEF L
<1>3. Seq(Seq(E)) \subseteq L
  BY <1>1, <1>2, InductionOnSeq
<1> QED BY <1>3 DEF L

\* f and g have the same first n values.
SameUpTo(f, g, n) == \A i \in 1 .. n : f[i] = g[i]

\* Sequences with the same first n elements flatten alike that far.
LEMMA FlattenAgree ==
  ASSUME NEW E, NEW ss \in Seq(Seq(E)), NEW tt \in Seq(Seq(E)),
         NEW f, Flattens(f, ss), NEW g, Flattens(g, tt),
         NEW n \in Nat, n <= Len(ss), n <= Len(tt),
         SameUpTo(ss, tt, n)
  PROVE  SameUpTo(f, g, n)
<1> DEFINE L == {k \in Nat : k \in 1 .. n => f[k] = g[k]}
<1>0. Len(ss) \in Nat /\ Len(tt) \in Nat
  BY LenProperties
<1>1. 0 \in L
  OBVIOUS
<1>2. \A k \in Nat : k \in L => k + 1 \in L
  <2> SUFFICES ASSUME NEW k \in Nat, k \in L, k + 1 \in 1 .. n
               PROVE  f[k + 1] = g[k + 1]
    OBVIOUS
  <2>1. k + 1 \in 1 .. Len(ss) /\ k + 1 \in 1 .. Len(tt)
    BY <1>0
  <2>2. f[k + 1] = IF k + 1 = 1 THEN ss[k + 1] ELSE f[(k + 1) - 1] \o ss[k + 1]
    BY <2>1 DEF Flattens
  <2>3. g[k + 1] = IF k + 1 = 1 THEN tt[k + 1] ELSE g[(k + 1) - 1] \o tt[k + 1]
    BY <2>1 DEF Flattens
  <2>4. ss[k + 1] = tt[k + 1] /\ (k + 1) - 1 = k
    BY DEF SameUpTo
  <2>5. CASE k = 0
    BY <2>2, <2>3, <2>4, <2>5
  <2>6. CASE k # 0
    BY <2>2, <2>3, <2>4, <2>6
  <2> QED BY <2>5, <2>6
<1> HIDE DEF L
<1>3. Nat \subseteq L
  BY <1>1, <1>2, InductionOnNat
<1> QED BY <1>3 DEF L, SameUpTo

\* FlattenSeq is the last value of that function.
LEMMA FlattenIs ==
  ASSUME NEW E, NEW ss \in Seq(Seq(E)), ss # << >>
  PROVE  \E f \in [1 .. Len(ss) -> Seq(E)] :
           Flattens(f, ss) /\ FlattenSeq(ss) = f[Len(ss)]
<1>1. \E f : Flattens(f, ss)
  BY FlattenExists
<1> DEFINE g == CHOOSE f : Flattens(f, ss)
<1>2. Flattens(g, ss)
  BY <1>1
<1>3. FlattenSeq(ss) = g[Len(ss)]
  BY EmptySeq DEF FlattenSeq, Flattens
<1> HIDE DEF g
<1>4. PICK f \in [1 .. Len(ss) -> Seq(E)] : Flattens(f, ss)
  BY FlattenExists
<1>5. Len(ss) \in Nat /\ Len(ss) # 0
  BY EmptySeq
<1>6. SameUpTo(g, f, Len(ss))
  <2>1. SameUpTo(ss, ss, Len(ss))
    BY DEF SameUpTo
  <2> QED BY <1>2, <1>4, <1>5, <2>1, FlattenAgree
<1>7. FlattenSeq(ss) = f[Len(ss)]
  BY <1>3, <1>5, <1>6 DEF SameUpTo
<1> QED BY <1>4, <1>7

\* FlattenSeq of one sequence more is the concatenation with it.
LEMMA FlattenSteps ==
  ASSUME NEW E
  PROVE  /\ FlattenSeq(<< >>) = << >>
         /\ \A ss \in Seq(Seq(E)) :
              /\ FlattenSeq(ss) \in Seq(E)
              /\ \A s \in Seq(E) :
                   FlattenSeq(Append(ss, s)) = FlattenSeq(ss) \o s
<1>1. FlattenSeq(<< >>) = << >>
  BY EmptySeq DEF FlattenSeq
<1>2. ASSUME NEW ss \in Seq(Seq(E)) PROVE FlattenSeq(ss) \in Seq(E)
  <2>1. CASE ss = << >>
    BY <1>1, <2>1, EmptySeq
  <2>2. CASE ss # << >>
    <3>1. PICK f \in [1 .. Len(ss) -> Seq(E)] : FlattenSeq(ss) = f[Len(ss)]
      BY <2>2, FlattenIs
    <3>2. Len(ss) \in 1 .. Len(ss)
      BY <2>2, EmptySeq
    <3> QED BY <3>1, <3>2
  <2> QED BY <2>1, <2>2
<1>3. ASSUME NEW ss \in Seq(Seq(E)), NEW s \in Seq(E)
      PROVE  FlattenSeq(Append(ss, s)) = FlattenSeq(ss) \o s
  <2> DEFINE n == Len(ss)
             t == Append(ss, s)
  <2>1. /\ t \in Seq(Seq(E)) /\ t # << >> /\ Len(t) = n + 1 /\ t[n + 1] = s
        /\ \A i \in 1 .. n : t[i] = ss[i]
        /\ n \in Nat
    BY AppendProperties, LenProperties
  <2> HIDE DEF n, t
  <2>2. PICK g \in [1 .. Len(t) -> Seq(E)] :
          Flattens(g, t) /\ FlattenSeq(t) = g[Len(t)]
    BY <2>1, FlattenIs
  <2>3. g[n + 1] = IF n + 1 = 1 THEN t[n + 1] ELSE g[(n + 1) - 1] \o t[n + 1]
    <3>1. n + 1 \in 1 .. Len(t)
      BY <2>1
    <3> QED BY <2>2, <3>1 DEF Flattens
  <2>4. CASE ss = << >>
    BY <1>1, <2>1, <2>2, <2>3, <2>4, EmptySeq, ConcatEmptySeq DEF n, t
  <2>5. CASE ss # << >>
    <3>1. PICK f \in [1 .. Len(ss) -> Seq(E)] :
            Flattens(f, ss) /\ FlattenSeq(ss) = f[Len(ss)]
      BY <2>5, FlattenIs
    <3>2. n # 0 /\ n <= Len(ss) /\ n <= Len(t)
      BY <2>1, <2>5, EmptySeq DEF n
    <3>3. SameUpTo(f, g, n)
      <4>1. SameUpTo(ss, t, n)
        BY <2>1 DEF SameUpTo
      <4> QED BY <2>1, <2>2, <3>1, <3>2, <4>1, FlattenAgree
    <3>4. f[n] = g[n] /\ (n + 1) - 1 = n /\ n + 1 # 1
      BY <2>1, <3>2, <3>3 DEF SameUpTo
    <3> QED BY <2>1, <2>2, <2>3, <3>1, <3>4 DEF n, t
  <2> QED BY <2>4, <2>5
<1> QED BY <1>1, <1>2, <1>3

----------------------------------------------------------------------------
(* Concatenation                                                           *)

\* u is s followed by t.
Joins(u, s, t, E) ==
  /\ u \in Seq(E) /\ Len(s) \in Nat /\ Len(t) \in Nat
  /\ Len(u) = Len(s) + Len(t)
  /\ \A i \in 1 .. Len(s) : u[i] = s[i]
  /\ \A i \in 1 .. Len(t) : u[Len(s) + i] = t[i]

\* Where the two parts of a concatenation are.
LEMMA PartsOfConcat ==
  ASSUME NEW E, NEW s \in Seq(E), NEW t \in Seq(E)
  PROVE  Joins(s \o t, s, t, E)
<1> DEFINE u == s \o t
           m == Len(s)
           n == Len(t)
<1>1. /\ u \in Seq(E) /\ Len(u) = m + n
      /\ \A i \in 1 .. m + n : u[i] = IF i <= m THEN s[i] ELSE t[i - m]
  BY ConcatProperties
<1>2. m \in Nat /\ n \in Nat
  BY LenProperties
<1> HIDE DEF u, m, n
<1>3. ASSUME NEW i \in 1 .. m PROVE u[i] = s[i]
  BY <1>1, <1>2, <1>3
<1>4. ASSUME NEW i \in 1 .. n PROVE u[m + i] = t[i]
  <2> DEFINE k == m + i
  <2>1. k \in 1 .. m + n /\ ~ (k <= m) /\ k - m = i
    BY <1>2, <1>4
  <2> HIDE DEF k
  <2>2. u[k] = t[i]
    BY <1>1, <2>1
  <2> QED BY <2>2 DEF k
<1> QED BY <1>1, <1>2, <1>3, <1>4 DEF Joins, u, m, n
============================================================================

------------------------------- MODULE FoldProofs -------------------------------
(***************************************************************************)
(* Induction over data: what FoldLeft computes, for any operator Op and    *)
(* sequences of any length.  FoldLeft is the value of a function that is   *)
(* CHOOSEn; that the function exists is proved by induction over the       *)
(* number of positions, and the rest follows from what it is.  A module    *)
(* that folds with an operator of its own instantiates this one with it.   *)
(***************************************************************************)
EXTENDS Integers, Sequences, SequencesExt, WellFoundedInduction, TLAPS

CONSTANT Op(_, _)

Fold(base, s) == FoldLeft(Op, base, s)

(* A set of naturals that is not empty has a least element.                *)
LEMMA LeastNat ==
  ASSUME NEW T \in SUBSET Nat, T # {}
  PROVE  \E n \in T : \A m \in T : n <= m
<1> DEFINE R == OpToRel(<, Nat)
<1>1. IsWellFoundedOn(R, Nat)
  BY NatLessThanWellFounded
<1>2. \A x, y \in Nat : x < y => <<x, y>> \in R
  BY DEF OpToRel
<1> HIDE DEF R
<1>3. PICK n \in T : \A m \in T : ~(<<m, n>> \in R)
  BY <1>1, WFMin, Zenon
<1>4. \A m \in T : ~(m < n)
  BY <1>2, <1>3, Zenon
<1>5. \A m \in T : n <= m
  BY <1>4
<1> QED
  BY <1>5

(* A set with zero in it, and with every successor of its elements, has    *)
(* all naturals in it: induction over the numbers, with a set for the      *)
(* predicate.                                                              *)
LEMMA NatSetInduction ==
  ASSUME NEW S, 0 \in S, \A n \in Nat : n \in S => n + 1 \in S
  PROVE  Nat \subseteq S
<1> DEFINE T == {n \in Nat : n \notin S}
<1> SUFFICES ASSUME T # {} PROVE FALSE
  OBVIOUS
<1>1. PICK n \in T : \A m \in T : n <= m
  BY LeastNat
<1>2. n # 0
  OBVIOUS
<1>3. n - 1 \in Nat /\ n - 1 \notin T
  BY <1>1, <1>2
<1> QED
  BY <1>3

--------------------------------------------------------------------------------
\* The function that FoldLeft is the value of, over the first n positions of s.
Step(g, base, s, n) ==
  [x \in SUBSET (1 .. n) |->
     IF x = {} THEN base ELSE Op(g[x \ {Max(x)}], s[Max(x)])]

(* The last position of the fold over n + 1 positions.                     *)
LEMMA MaxOfInterval ==
  ASSUME NEW n \in Nat, NEW x \in SUBSET (1 .. n + 1), n + 1 \in x
  PROVE  Max(x) = n + 1
<1>1. \A y \in x : n + 1 >= y
  OBVIOUS
<1>2. \A m \in x : m >= n + 1 => m = n + 1
  OBVIOUS
<1> QED
  BY <1>1, <1>2 DEF Max

(* The function FoldLeft chooses exists. By induction over n.              *)
LEMMA StepExists ==
  ASSUME NEW base, NEW s
  PROVE  \A n \in Nat : \E g : g = Step(g, base, s, n)
<1> DEFINE S == {n \in Nat : \E g : g = Step(g, base, s, n)}
<1>1. 0 \in S
  <2> DEFINE g == [x \in SUBSET (1 .. 0) |-> base]
  <2>1. \A x \in SUBSET (1 .. 0) : x = {}
    OBVIOUS
  <2>2. g = Step(g, base, s, 0)
    BY <2>1 DEF Step
  <2> HIDE DEF g
  <2> QED
    BY <2>2
<1>2. ASSUME NEW n \in Nat, n \in S PROVE n + 1 \in S
  <2>1. PICK g : g = Step(g, base, s, n)
    BY <1>2
  <2> DEFINE h == [x \in SUBSET (1 .. n + 1) |->
                     IF n + 1 \in x THEN Op(g[x \ {n + 1}], s[n + 1]) ELSE g[x]]
  <2>2. \A x \in SUBSET (1 .. n) : h[x] = g[x]
    OBVIOUS
  <2>3. ASSUME NEW x \in SUBSET (1 .. n + 1), n + 1 \in x
        PROVE  h[x] = Op(h[x \ {Max(x)}], s[Max(x)])
    <3>1. Max(x) = n + 1
      BY <2>3, MaxOfInterval
    <3>2. x \ {n + 1} \in SUBSET (1 .. n)
      OBVIOUS
    <3>3. h[x \ {n + 1}] = g[x \ {n + 1}]
      BY <2>2, <3>2
    <3> QED
      BY <2>3, <3>1, <3>3
  <2>4. ASSUME NEW x \in SUBSET (1 .. n + 1), n + 1 \notin x, x # {}
        PROVE  h[x] = Op(h[x \ {Max(x)}], s[Max(x)])
    <3>1. x \in SUBSET (1 .. n)
      <4>1. \A y \in x : y \in 1 .. n
        BY <2>4
      <4> QED
        BY <4>1
    <3>3. x \ {Max(x)} \in SUBSET (1 .. n)
      BY <3>1
    <3>2. g[x] = Op(g[x \ {Max(x)}], s[Max(x)])
      BY <2>1, <2>4, <3>1, <3>3 DEF Step
    <3> HIDE DEF h
    <3> QED
      BY <2>2, <3>1, <3>2, <3>3
  <2>5. h[{}] = base
    BY <2>1, <2>2 DEF Step
  <2>6. h = Step(h, base, s, n + 1)
    <3>1. h = [x \in SUBSET (1 .. n + 1) |-> h[x]]
      OBVIOUS
    <3> HIDE DEF h
    <3>2. \A x \in SUBSET (1 .. n + 1) :
            h[x] = IF x = {} THEN base ELSE Op(h[x \ {Max(x)}], s[Max(x)])
      BY <2>3, <2>4, <2>5
    <3> QED
      BY <3>1, <3>2 DEF Step
  <2> HIDE DEF h
  <2> QED
    BY <2>6
<1> HIDE DEF S
<1>3. Nat \subseteq S
  BY <1>1, <1>2, NatSetInduction
<1> QED
  BY <1>3 DEF S

Iter(base, s, n) == CHOOSE g : g = Step(g, base, s, n)

(* FoldLeft is its value for all positions of the sequence.                *)
LEMMA FoldIsIter ==
  ASSUME NEW base, NEW S, NEW s \in Seq(S)
  PROVE  Fold(base, s) = Iter(base, s, Len(s))[1 .. Len(s)]
<1>1. DOMAIN s = 1 .. Len(s)
  OBVIOUS
<1> QED
  BY <1>1 DEF Fold, FoldLeft, MapThenFoldSet, Iter, Step

(* The chosen function is one.                                             *)
LEMMA IterIsStep ==
  ASSUME NEW base, NEW s, NEW n \in Nat
  PROVE  Iter(base, s, n) = Step(Iter(base, s, n), base, s, n)
  BY StepExists DEF Iter

(* It starts with the base, and takes one element at a time.               *)
LEMMA IterValue ==
  ASSUME NEW base, NEW s, NEW n \in Nat
  PROVE  /\ Iter(base, s, n)[1 .. 0] = base
         /\ \A k \in 1 .. n :
              Iter(base, s, n)[1 .. k] = Op(Iter(base, s, n)[1 .. k - 1], s[k])
<1> DEFINE g == Iter(base, s, n)
<1>1. g = Step(g, base, s, n)
  BY IterIsStep
<1> HIDE DEF g
<1>2. g[1 .. 0] = base
  <2>1. 1 .. 0 = {} /\ {} \in SUBSET (1 .. n)
    OBVIOUS
  <2> QED
    BY <1>1, <2>1 DEF Step
<1>3. ASSUME NEW k \in 1 .. n PROVE g[1 .. k] = Op(g[1 .. k - 1], s[k])
  <2>1. 1 .. k \in SUBSET (1 .. n) /\ 1 .. k # {} /\ k \in 1 .. k
    OBVIOUS
  <2>2. Max(1 .. k) = k
    <3>1. k - 1 \in Nat /\ (k - 1) + 1 = k
      OBVIOUS
    <3> QED
      BY <2>1, <3>1, MaxOfInterval
  <2>3. (1 .. k) \ {k} = 1 .. k - 1
    OBVIOUS
  <2> QED
    BY <1>1, <2>1, <2>2, <2>3 DEF Step
<1> QED
  BY <1>2, <1>3 DEF g

(* Its value for the first m positions depends on nothing that comes       *)
(* behind them.                                                            *)
LEMMA IterAgrees ==
  ASSUME NEW base, NEW s, NEW t, NEW m \in Nat, NEW n \in Nat, m <= n,
         \A k \in 1 .. m : s[k] = t[k]
  PROVE  Iter(base, s, m)[1 .. m] = Iter(base, t, n)[1 .. m]
<1> DEFINE g == Iter(base, s, m)
           h == Iter(base, t, n)
           S == {k \in Nat : k <= m => g[1 .. k] = h[1 .. k]}
<1>1. /\ g[1 .. 0] = base /\ h[1 .. 0] = base
      /\ \A k \in 1 .. m : g[1 .. k] = Op(g[1 .. k - 1], s[k])
      /\ \A k \in 1 .. n : h[1 .. k] = Op(h[1 .. k - 1], t[k])
  BY IterValue
<1> HIDE DEF g, h
<1>2. 0 \in S
  BY <1>1
<1>3. ASSUME NEW k \in Nat, k \in S PROVE k + 1 \in S
  <2> SUFFICES ASSUME k + 1 <= m PROVE g[1 .. k + 1] = h[1 .. k + 1]
    OBVIOUS
  <2>1. k + 1 \in 1 .. m /\ k + 1 \in 1 .. n /\ (k + 1) - 1 = k
    OBVIOUS
  <2>2. g[1 .. k] = h[1 .. k]
    BY <1>3
  <2> QED
    BY <1>1, <2>1, <2>2
<1> HIDE DEF S
<1>4. m \in S
  BY <1>2, <1>3, NatSetInduction
<1> QED
  BY <1>4 DEF S, g, h

(* The fold of the empty sequence is the base.                             *)
LEMMA FoldEmpty ==
  ASSUME NEW base PROVE Fold(base, <<>>) = base
<1>1. <<>> \in Seq({}) /\ Len(<<>>) = 0
  OBVIOUS
<1>2. Fold(base, <<>>) = Iter(base, <<>>, 0)[1 .. 0]
  BY <1>1, FoldIsIter
<1> QED
  BY <1>2, IterValue

(* The fold of a sequence with one more element is one more step.          *)
LEMMA FoldAppend ==
  ASSUME NEW base, NEW S, NEW s \in Seq(S), NEW e \in S
  PROVE  Fold(base, Append(s, e)) = Op(Fold(base, s), e)
<1> DEFINE t == Append(s, e)
           m == Len(s)
<1>1. t \in Seq(S) /\ Len(t) = m + 1 /\ t[m + 1] = e /\ m \in Nat
      /\ \A k \in 1 .. m : s[k] = t[k]
  OBVIOUS
<1> HIDE DEF t, m
<1>2. Fold(base, t) = Iter(base, t, m + 1)[1 .. m + 1]
  BY <1>1, FoldIsIter
<1>3. Iter(base, t, m + 1)[1 .. m + 1] = Op(Iter(base, t, m + 1)[1 .. m], e)
  <2>1. m + 1 \in 1 .. m + 1 /\ (m + 1) - 1 = m /\ m + 1 \in Nat
    BY <1>1
  <2> QED
    BY <1>1, <2>1, IterValue
<1>4. Fold(base, s) = Iter(base, s, m)[1 .. m]
  BY FoldIsIter DEF m
<1>5. Iter(base, s, m)[1 .. m] = Iter(base, t, m + 1)[1 .. m]
  BY <1>1, IterAgrees
<1> QED
  BY <1>2, <1>3, <1>4, <1>5 DEF t

(* The same for the prefixes of a sequence: the form a proof by induction  *)
(* over the data needs.                                                    *)
LEMMA FoldPrefix ==
  ASSUME NEW base, NEW S, NEW s \in Seq(S), NEW k \in 1 .. Len(s)
  PROVE  Fold(base, SubSeq(s, 1, k)) = Op(Fold(base, SubSeq(s, 1, k - 1)), s[k])
<1>1. SubSeq(s, 1, k - 1) \in Seq(S) /\ s[k] \in S
  OBVIOUS
<1>2. SubSeq(s, 1, k) = Append(SubSeq(s, 1, k - 1), s[k])
  OBVIOUS
<1>3. Fold(base, Append(SubSeq(s, 1, k - 1), s[k]))
        = Op(Fold(base, SubSeq(s, 1, k - 1)), s[k])
  BY <1>1, FoldAppend
<1> QED
  BY <1>2, <1>3

(* Whatever takes the same steps as the fold is where the fold is.         *)
LEMMA FoldFollows ==
  ASSUME NEW S, NEW s \in Seq(S), NEW g,
         \A k \in 1 .. Len(s) : g[k] = Op(g[k - 1], s[k])
  PROVE  Fold(g[0], s) = g[Len(s)]
<1> DEFINE n == Len(s)
           f == Iter(g[0], s, n)
           T == {k \in Nat : k <= n => f[1 .. k] = g[k]}
<1>1. n \in Nat
  OBVIOUS
<1>2. Fold(g[0], s) = f[1 .. n]
  BY FoldIsIter
<1>3. f[1 .. 0] = g[0] /\ \A k \in 1 .. n : f[1 .. k] = Op(f[1 .. k - 1], s[k])
  BY <1>1, IterValue
<1>4. \A k \in 1 .. n : g[k] = Op(g[k - 1], s[k])
  OBVIOUS
<1> HIDE DEF n, f
<1>5. 0 \in T
  BY <1>3
<1>6. ASSUME NEW k \in Nat, k \in T PROVE k + 1 \in T
  <2> SUFFICES ASSUME k + 1 <= n PROVE f[1 .. k + 1] = g[k + 1]
    OBVIOUS
  <2>1. k + 1 \in 1 .. n /\ (k + 1) - 1 = k /\ k <= n
    BY <1>1
  <2>2. f[1 .. k] = g[k]
    BY <1>6, <2>1
  <2> QED
    BY <1>3, <1>4, <2>1, <2>2
<1> HIDE DEF T
<1>7. n \in T
  BY <1>1, <1>5, <1>6, NatSetInduction
<1> QED
  BY <1>1, <1>2, <1>7 DEF T, n
================================================================================

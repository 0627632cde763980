----------------------------- MODULE TextProofs -----------------------------
(***************************************************************************)
(* Proofs about Text, for every set of bytes that are typed and for texts  *)
(* of every length.                                                        *)
(*                                                                         *)
(* The properties follow by induction over the length of a text.  The      *)
(* induction is that of a set: the texts that have the property hold the   *)
(* empty one, and with a text every one that is one byte longer; if some   *)
(* text were left out, the lengths of those left out would have a least    *)
(* member (WFMin of WellFoundedInduction), which is not zero and whose     *)
(* predecessor is the length of a text that is in.                         *)
(*                                                                         *)
(* Text goes over a sequence with FoldLeft and FlattenSeq, whose           *)
(* definitions choose a recursive function.  The parts about folds and     *)
(* about FlattenSeq show that this function exists, so that the choice has *)
(* its equation, and what one element more adds (FoldAppend,               *)
(* FlattenAppend); the parts about the code cite these.                    *)
(***************************************************************************)
EXTENDS Text, WellFoundedInduction, SequenceTheorems, TLAPS

(* A set of naturals that is not empty has a least member.                 *)
LEMMA LeastNat ==
  ASSUME NEW T, T \subseteq Nat, T # {}
  PROVE  \E n \in T : \A m \in T : n <= m
  <1>1. PICK x \in T : \A y \in T : ~ (<<y, x>> \in OpToRel(<, Nat))
    BY NatLessThanWellFounded, WFMin
  <1>2. \A y \in T : ~ (y < x)
    BY <1>1 DEF OpToRel
  <1>3. QED BY <1>2

(* Induction over the naturals, for a set instead of a predicate.          *)
LEMMA NatInd ==
  ASSUME NEW P, 0 \in P, \A n \in Nat : n \in P => n + 1 \in P
  PROVE  \A n \in Nat : n \in P
  <1> DEFINE T == Nat \ P
  <1> SUFFICES ASSUME T # {} PROVE FALSE
    OBVIOUS
  <1>1. PICK n \in T : \A m \in T : n <= m
    BY LeastNat
  <1>2. QED BY <1>1, n - 1 \in Nat

(* Induction over sequences: what holds of the empty one and goes on to    *)
(* one element more holds of all.                                          *)
LEMMA SeqInd ==
  ASSUME NEW A, NEW P, <<>> \in P,
         \A s \in Seq(A), e \in A : s \in P => Append(s, e) \in P
  PROVE  \A s \in Seq(A) : s \in P
  <1> DEFINE N == {n \in Nat : \A s \in Seq(A) : Len(s) = n => s \in P}
  <1>1. 0 \in N
    BY EmptySeq
  <1>2. ASSUME NEW n \in Nat, n \in N PROVE n + 1 \in N
    <2> SUFFICES ASSUME NEW s \in Seq(A), Len(s) = n + 1 PROVE s \in P
      OBVIOUS
    <2>1. PICK t \in Seq(A), e \in A : s = Append(t, e)
      BY SequenceEmptyOrAppend, EmptySeq
    <2>2. Len(t) = n
      BY <2>1, AppendProperties, LenProperties
    <2>3. QED BY <1>2, <2>1, <2>2
  <1>3. \A n \in Nat : n \in N
    <2> HIDE DEF N
    <2> QED BY <1>1, <1>2, NatInd
  <1>4. QED BY <1>3, LenProperties

(* Max and Min of SequencesExt are chosen; these say what is chosen.       *)
LEMMA MaxIs ==
  ASSUME NEW T, T \subseteq Int, NEW m \in T, \A y \in T : m >= y
  PROVE  Max(T) = m
  <1>1. \E x \in T : \A y \in T : x >= y
    OBVIOUS
  <1>2. Max(T) \in T /\ \A y \in T : Max(T) >= y
    BY <1>1 DEF Max
  <1>3. Max(T) >= m /\ m >= Max(T) /\ Max(T) \in Int /\ m \in Int
    BY <1>2
  <1>4. QED BY <1>3

LEMMA MinIs ==
  ASSUME NEW T, T \subseteq Int, NEW m \in T, \A y \in T : m <= y
  PROVE  Min(T) = m
  <1>1. \E x \in T : \A y \in T : x <= y
    OBVIOUS
  <1>2. Min(T) \in T /\ \A y \in T : Min(T) <= y
    BY <1>1 DEF Min
  <1>3. Min(T) <= m /\ m <= Min(T) /\ Min(T) \in Int /\ m \in Int
    BY <1>2
  <1>4. QED BY <1>3

(* A set of naturals has a minimum, and one below a bound a maximum.       *)
LEMMA MinIn ==
  ASSUME NEW T, T \subseteq Nat, T # {}
  PROVE  Min(T) \in T /\ \A y \in T : Min(T) <= y
  BY LeastNat DEF Min

LEMMA MaxIn ==
  ASSUME NEW T, NEW n \in Nat, T \subseteq 1 .. n, T # {}
  PROVE  Max(T) \in T /\ \A y \in T : Max(T) >= y
  <1> DEFINE U == {k \in Nat : \A y \in T : y <= k}
  <1>1. n \in U
    OBVIOUS
  <1>2. PICK k \in U : \A l \in U : k <= l
    BY <1>1, LeastNat
  <1>3. k \in T
    <2> SUFFICES ASSUME k \notin T PROVE FALSE
      OBVIOUS
    <2>1. PICK z \in T : TRUE
      OBVIOUS
    <2>2. z \in 1 .. n /\ z <= k /\ z # k
      BY <1>2
    <2>3. k - 1 \in Nat
      BY <2>2
    <2>4. \A y \in T : y <= k - 1
      BY <1>2
    <2>5. QED BY <1>2, <2>3, <2>4
  <1>4. QED BY <1>2, <1>3 DEF Max

-----------------------------------------------------------------------------
(* The three steps that Text folds, under one name.                        *)
Step(op, st, x) ==
  IF op[1] = "decode" THEN DecodeChar(st, x)
  ELSE IF op[1] = "hex" THEN HexStep(st, x)
  ELSE SplitStep(st, x, op[2])

Split(c) == <<"split", c>>

Partial(h, op, base, s, n) ==
  h = [q \in SUBSET (1 .. n) |->
         IF q = {} THEN base ELSE Step(op, h[q \ {Max(q)}], s[Max(q)])]

(* The recursive function that MapThenFoldSet chooses exists.              *)
LEMMA FoldExists ==
  ASSUME NEW op, NEW base, NEW s, NEW n \in Nat
  PROVE  \E h : Partial(h, op, base, s, n)
  <1> DEFINE P == {m \in Nat : \E h : Partial(h, op, base, s, m)}
  <1>1. 0 \in P
    <2>1. Partial([q \in SUBSET (1 .. 0) |-> base], op, base, s, 0)
      BY DEF Partial
    <2>2. QED BY <2>1
  <1>2. ASSUME NEW m \in Nat, m \in P PROVE m + 1 \in P
    <2>1. PICK g : Partial(g, op, base, s, m)
      BY <1>2
    <2> DEFINE h == [q \in SUBSET (1 .. m + 1) |->
                  IF m + 1 \in q THEN Step(op, g[q \ {m + 1}], s[m + 1])
                  ELSE g[q]]
    <2>2. ASSUME NEW q \in SUBSET (1 .. m + 1)
          PROVE  h[q] = IF q = {} THEN base
                        ELSE Step(op, h[q \ {Max(q)}], s[Max(q)])
      <3>1. CASE m + 1 \in q
        <4>1. Max(q) = m + 1
          <5> HIDE DEF h
          <5>1. q \subseteq Int /\ \A y \in q : m + 1 >= y
            OBVIOUS
          <5>2. QED BY <3>1, <5>1, MaxIs
        <4>2. q \ {m + 1} \in SUBSET (1 .. m)
          OBVIOUS
        <4>3. h[q \ {m + 1}] = g[q \ {m + 1}]
          BY <4>2
        <4>4. h[q] = Step(op, g[q \ {m + 1}], s[m + 1])
          BY <3>1
        <4>5. QED
          BY <3>1, <4>1, <4>3, <4>4
      <3>2. CASE m + 1 \notin q
        <4>1. q \in SUBSET (1 .. m)
          BY <3>2
        <4>2. q \ {Max(q)} \in SUBSET (1 .. m)
          BY <4>1
        <4>3. h[q] = g[q] /\ h[q \ {Max(q)}] = g[q \ {Max(q)}]
          BY <3>2, <4>1, <4>2
        <4>4. g[q] = IF q = {} THEN base
                     ELSE Step(op, g[q \ {Max(q)}], s[Max(q)])
          BY <2>1, <4>1 DEF Partial
        <4>5. QED BY <4>3, <4>4
      <3>3. QED BY <3>1, <3>2
    <2>3. h = [q \in SUBSET (1 .. m + 1) |-> h[q]]
      OBVIOUS
    <2>4. Partial(h, op, base, s, m + 1)
      <3> HIDE DEF h
      <3>1. QED BY <2>2, <2>3 DEF Partial
    <2>5. QED
      <3> HIDE DEF h
      <3>1. QED BY <2>4
  <1>3. QED
    <2> HIDE DEF P
    <2>1. n \in P
      BY <1>1, <1>2, NatInd
    <2>2. QED BY <2>1 DEF P

(* Along the initial segments it takes one element at a time.              *)
LEMMA FoldLast ==
  ASSUME NEW h, NEW op, NEW base, NEW s, NEW n \in Nat,
         Partial(h, op, base, s, n)
  PROVE  /\ h[1 .. 0] = base
         /\ \A k \in 0 .. n - 1 :
              h[1 .. k + 1] = Step(op, h[1 .. k], s[k + 1])
  <1>1. h[1 .. 0] = base
    <2>1. 1 .. 0 = {} /\ {} \in SUBSET (1 .. n)
      OBVIOUS
    <2>2. h[{}] = base
      BY <2>1 DEF Partial
    <2>3. QED BY <2>1, <2>2
  <1>2. ASSUME NEW k \in 0 .. n - 1
        PROVE  h[1 .. k + 1] = Step(op, h[1 .. k], s[k + 1])
    <2>1. Max(1 .. k + 1) = k + 1
      <3>1. /\ 1 .. k + 1 \subseteq Int /\ k + 1 \in 1 .. k + 1
            /\ \A y \in 1 .. k + 1 : k + 1 >= y
        OBVIOUS
      <3>2. QED BY <3>1, MaxIs
    <2>2. 1 .. k + 1 \in SUBSET (1 .. n) /\ (1 .. k + 1) \ {k + 1} = 1 .. k
      OBVIOUS
    <2>3. 1 .. k + 1 # {}
      OBVIOUS
    <2>4. QED BY <2>1, <2>2, <2>3 DEF Partial
  <1>3. QED BY <1>1, <1>2

(* Two of them agree as far as their sequences do.                         *)
LEMMA FoldAgree ==
  ASSUME NEW op, NEW base, NEW s, NEW t, NEW g, NEW h,
         NEW n \in Nat, NEW m \in Nat, n <= m,
         Partial(g, op, base, s, n), Partial(h, op, base, t, m),
         \A i \in 1 .. n : s[i] = t[i]
  PROVE  g[1 .. n] = h[1 .. n]
  <1> DEFINE P == {k \in Nat : k <= n => g[1 .. k] = h[1 .. k]}
  <1>1. 0 \in P
    BY FoldLast
  <1>2. ASSUME NEW k \in Nat, k \in P PROVE k + 1 \in P
    <2> SUFFICES ASSUME k + 1 <= n PROVE g[1 .. k + 1] = h[1 .. k + 1]
      OBVIOUS
    <2>1. g[1 .. k + 1] = Step(op, g[1 .. k], s[k + 1])
      BY FoldLast
    <2>2. h[1 .. k + 1] = Step(op, h[1 .. k], t[k + 1])
      BY FoldLast
    <2>3. QED BY <1>2, <2>1, <2>2
  <1>3. QED
    <2> HIDE DEF P
    <2>1. n \in P
      BY <1>1, <1>2, NatInd
    <2>2. QED BY <2>1 DEF P

IsFold(v, op, base, s) ==
  \E h : Partial(h, op, base, s, Len(s)) /\ v = h[1 .. Len(s)]

(* What a fold yields: nothing was taken, or one element more.             *)
LEMMA FoldEmpty ==
  ASSUME NEW v, NEW op, NEW base, IsFold(v, op, base, <<>>)
  PROVE  v = base
  BY FoldLast, EmptySeq DEF IsFold

LEMMA FoldOnce ==
  ASSUME NEW op, NEW base, NEW s, NEW t, NEW n \in Nat, NEW m \in Nat,
         m = n + 1, \A i \in 1 .. n : s[i] = t[i],
         NEW g, Partial(g, op, base, s, n),
         NEW h, Partial(h, op, base, t, m)
  PROVE  h[1 .. m] = Step(op, g[1 .. n], t[m])
  <1>1. g[1 .. n] = h[1 .. n]
    <2>1. n <= m
      OBVIOUS
    <2>2. QED BY <2>1, FoldAgree
  <1>2. \A k \in 0 .. m - 1 :
          h[1 .. k + 1] = Step(op, h[1 .. k], t[k + 1])
    BY FoldLast
  <1>3. h[1 .. m] = Step(op, h[1 .. n], t[m])
    BY <1>2, n \in 0 .. m - 1
  <1>4. QED BY <1>1, <1>3

LEMMA FoldAppend ==
  ASSUME NEW op, NEW base, NEW A, NEW s \in Seq(A), NEW e \in A,
         NEW u, IsFold(u, op, base, s),
         NEW v, IsFold(v, op, base, Append(s, e))
  PROVE  v = Step(op, u, e)
  <1>1. PICK t : t = Append(s, e)
    OBVIOUS
  <1>2. /\ Len(s) \in Nat /\ Len(t) \in Nat /\ Len(t) = Len(s) + 1
        /\ t[Len(t)] = e
        /\ \A i \in 1 .. Len(s) : s[i] = t[i]
    BY <1>1, AppendProperties, LenProperties
  <1>3. PICK g : Partial(g, op, base, s, Len(s)) /\ u = g[1 .. Len(s)]
    BY DEF IsFold
  <1>4. PICK h : Partial(h, op, base, t, Len(t)) /\ v = h[1 .. Len(t)]
    BY <1>1 DEF IsFold
  <1>5. h[1 .. Len(t)] = Step(op, g[1 .. Len(s)], t[Len(t)])
    BY <1>2, <1>3, <1>4, FoldOnce
  <1>6. QED BY <1>2, <1>3, <1>4, <1>5

-----------------------------------------------------------------------------
(* The three folds of Text are such functions.                             *)
LEMMA SplitIsFold ==
  ASSUME NEW A, NEW s \in Seq(A), NEW c
  PROVE  IsFold(bsplit(s, c), Split(c), << <<>> >>, s)
  <1> DEFINE n == Len(s)
             H == CHOOSE h :
                    h = [q \in SUBSET (1 .. n) |->
                           IF q = {} THEN << <<>> >>
                           ELSE SplitStep(h[q \ {Max(q)}], s[Max(q)], c)]
  <1>1. n \in Nat /\ DOMAIN s = 1 .. n
    BY LenProperties
  <1>2. PICK h : Partial(h, Split(c), << <<>> >>, s, n)
    BY <1>1, FoldExists
  <1>3. h = [q \in SUBSET (1 .. n) |->
               IF q = {} THEN << <<>> >>
               ELSE SplitStep(h[q \ {Max(q)}], s[Max(q)], c)]
    BY <1>2 DEF Partial, Step, Split
  <1>4. H = [q \in SUBSET (1 .. n) |->
               IF q = {} THEN << <<>> >>
               ELSE SplitStep(H[q \ {Max(q)}], s[Max(q)], c)]
    BY <1>3
  <1>5. Partial(H, Split(c), << <<>> >>, s, n)
    <2> HIDE DEF H
    <2>1. QED BY <1>4 DEF Partial, Step, Split
  <1>6. bsplit(s, c) = H[1 .. n]
    BY <1>1 DEF bsplit, FoldLeft, MapThenFoldSet, SplitStep
  <1>7. QED
    <2> HIDE DEF H
    <2>1. QED BY <1>5, <1>6 DEF IsFold

LEMMA DecodeIsFold ==
  ASSUME NEW A, NEW s \in Seq(A), NEW base
  PROVE  IsFold(FoldLeft(DecodeChar, base, s), <<"decode">>, base, s)
  <1> DEFINE n == Len(s)
             H == CHOOSE h :
                    h = [q \in SUBSET (1 .. n) |->
                           IF q = {} THEN base
                           ELSE DecodeChar(h[q \ {Max(q)}], s[Max(q)])]
  <1>1. n \in Nat /\ DOMAIN s = 1 .. n
    BY LenProperties
  <1>2. PICK h : Partial(h, <<"decode">>, base, s, n)
    BY <1>1, FoldExists
  <1>3. h = [q \in SUBSET (1 .. n) |->
               IF q = {} THEN base
               ELSE DecodeChar(h[q \ {Max(q)}], s[Max(q)])]
    BY <1>2 DEF Partial, Step
  <1>4. H = [q \in SUBSET (1 .. n) |->
               IF q = {} THEN base
               ELSE DecodeChar(H[q \ {Max(q)}], s[Max(q)])]
    BY <1>3
  <1>5. Partial(H, <<"decode">>, base, s, n)
    <2> HIDE DEF H
    <2>1. QED BY <1>4 DEF Partial, Step
  <1>6. FoldLeft(DecodeChar, base, s) = H[1 .. n]
    BY <1>1 DEF FoldLeft, MapThenFoldSet
  <1>7. QED
    <2> HIDE DEF H
    <2>1. QED BY <1>5, <1>6 DEF IsFold

LEMMA HexIsFold ==
  ASSUME NEW A, NEW s \in Seq(A)
  PROVE  IsFold(FoldLeft(HexStep, 0, s), <<"hex">>, 0, s)
  <1> DEFINE n == Len(s)
             H == CHOOSE h :
                    h = [q \in SUBSET (1 .. n) |->
                           IF q = {} THEN 0
                           ELSE HexStep(h[q \ {Max(q)}], s[Max(q)])]
  <1>1. n \in Nat /\ DOMAIN s = 1 .. n
    BY LenProperties
  <1>2. PICK h : Partial(h, <<"hex">>, 0, s, n)
    BY <1>1, FoldExists
  <1>3. h = [q \in SUBSET (1 .. n) |->
               IF q = {} THEN 0
               ELSE HexStep(h[q \ {Max(q)}], s[Max(q)])]
    BY <1>2 DEF Partial, Step
  <1>4. H = [q \in SUBSET (1 .. n) |->
               IF q = {} THEN 0
               ELSE HexStep(H[q \ {Max(q)}], s[Max(q)])]
    BY <1>3
  <1>5. Partial(H, <<"hex">>, 0, s, n)
    <2> HIDE DEF H
    <2>1. QED BY <1>4 DEF Partial, Step
  <1>6. FoldLeft(HexStep, 0, s) = H[1 .. n]
    BY <1>1 DEF FoldLeft, MapThenFoldSet
  <1>7. QED
    <2> HIDE DEF H
    <2>1. QED BY <1>5, <1>6 DEF IsFold

-----------------------------------------------------------------------------
(* bsplit, one byte at a time.                                             *)
Nowhere(c, s) == \A i \in 1 .. Len(s) : s[i] # c

(* bsplit takes one byte at a time.                                        *)
LEMMA SplitEmpty ==
  ASSUME NEW c PROVE bsplit(<<>>, c) = << <<>> >>
  <1>1. <<>> \in Seq(Int)
    OBVIOUS
  <1>2. QED BY <1>1, SplitIsFold, FoldEmpty

LEMMA SplitAppend ==
  ASSUME NEW A, NEW s \in Seq(A), NEW e \in A, NEW c
  PROVE  bsplit(Append(s, e), c) = SplitStep(bsplit(s, c), e, c)
  <1>1. Append(s, e) \in Seq(A)
    BY AppendProperties
  <1>2. IsFold(bsplit(s, c), Split(c), << <<>> >>, s)
    BY SplitIsFold
  <1>3. IsFold(bsplit(Append(s, e), c), Split(c), << <<>> >>, Append(s, e))
    BY <1>1, SplitIsFold
  <1>4. bsplit(Append(s, e), c) = Step(Split(c), bsplit(s, c), e)
    BY <1>2, <1>3, FoldAppend
  <1>5. QED BY <1>4 DEF Step, Split

(* Facts about short sequences, by themselves, for the provers.            *)
LEMMA OneElement ==
  ASSUME NEW A, NEW e \in A
  PROVE  /\ <<e>> \in Seq(A) /\ Len(<<e>>) = 1 /\ <<e>>[1] = e
         /\ <<e>> # <<>>
  OBVIOUS

(* There is always a part.                                                 *)
LEMMA SplitType ==
  ASSUME NEW A, NEW c
  PROVE  \A s \in Seq(A) : bsplit(s, c) \in Seq(Seq(A)) \ {<<>>}
  <1> DEFINE P == {s \in Seq(A) : bsplit(s, c) \in Seq(Seq(A)) \ {<<>>}}
  <1>1. <<>> \in P
    <2>1. PICK empty : empty = <<>>
      OBVIOUS
    <2>2. empty \in Seq(A)
      BY <2>1, EmptySeq
    <2>3. <<empty>> \in Seq(Seq(A)) \ {<<>>}
      BY <2>2, OneElement
    <2>4. bsplit(empty, c) = <<empty>>
      BY <2>1, SplitEmpty
    <2>5. QED BY <2>1, <2>2, <2>3, <2>4
  <1>2. ASSUME NEW s \in Seq(A), NEW e \in A, s \in P
        PROVE  Append(s, e) \in P
    <2>1. bsplit(s, c) \in Seq(Seq(A)) /\ bsplit(s, c) # <<>>
      BY <1>2
    <2>2. ASSUME NEW p \in Seq(Seq(A)), p # <<>>
          PROVE  SplitStep(p, e, c) \in Seq(Seq(A)) \ {<<>>}
      <3>1. Append(p, <<>>) \in Seq(Seq(A)) \ {<<>>}
        <4>1. PICK empty : empty = <<>>
          OBVIOUS
        <4>2. empty \in Seq(A)
          BY <4>1, EmptySeq
        <4>3. Append(p, empty) \in Seq(Seq(A)) \ {<<>>}
          BY <4>2, AppendProperties
        <4>4. QED BY <4>1, <4>3
      <3>2. Len(p) \in 1 .. Len(p) /\ p[Len(p)] \in Seq(A)
        BY <2>2, EmptySeq, ElementOfSeq
      <3>3. Append(p[Len(p)], e) \in Seq(A)
        BY <3>2, AppendProperties
      <3>4. /\ [p EXCEPT ![Len(p)] = Append(p[Len(p)], e)] \in Seq(Seq(A))
            /\ Len([p EXCEPT ![Len(p)] = Append(p[Len(p)], e)]) = Len(p)
        BY <3>2, <3>3, ExceptSeq
      <3>5. QED BY <2>2, <3>1, <3>2, <3>4, EmptySeq DEF SplitStep
    <2>3. QED BY <2>1, <2>2, SplitAppend
  <1>3. QED
    <2> HIDE DEF P
    <2>1. \A s \in Seq(A) : s \in P
      BY <1>1, <1>2, SeqInd
    <2>2. QED BY <2>1 DEF P

LEMMA ConcatAppend ==
  ASSUME NEW A, NEW s \in Seq(A), NEW t \in Seq(A), NEW e \in A
  PROVE  s \o Append(t, e) = Append(s \o t, e)
  OBVIOUS

(* Without the separator there is one part.                                *)
LEMMA SplitWhole ==
  ASSUME NEW A, NEW c
  PROVE  \A s \in Seq(A) : Nowhere(c, s) => bsplit(s, c) = <<s>>
  <1> DEFINE P == {s \in Seq(A) : Nowhere(c, s) => bsplit(s, c) = <<s>>}
  <1>1. <<>> \in P
    <2>1. <<>> \in Seq(A)
      BY EmptySeq
    <2>2. QED BY <2>1, SplitEmpty
  <1>2. ASSUME NEW s \in Seq(A), NEW e \in A, s \in P
        PROVE  Append(s, e) \in P
    <2> SUFFICES ASSUME Nowhere(c, Append(s, e))
                 PROVE  bsplit(Append(s, e), c) = <<Append(s, e)>>
      BY AppendProperties
    <2>1. e # c /\ Nowhere(c, s)
      <3>1. /\ Len(Append(s, e)) = Len(s) + 1 /\ Len(s) \in Nat
            /\ Append(s, e)[Len(s) + 1] = e
            /\ \A i \in 1 .. Len(s) : Append(s, e)[i] = s[i]
        BY AppendProperties, LenProperties
      <3>2. QED BY <3>1 DEF Nowhere
    <2>2. bsplit(Append(s, e), c) = SplitStep(<<s>>, e, c)
      BY <1>2, <2>1, SplitAppend
    <2>3. SplitStep(<<s>>, e, c) = <<Append(s, e)>>
      BY <2>1 DEF SplitStep
    <2>4. QED BY <2>2, <2>3
  <1>3. QED
    <2> HIDE DEF P
    <2>1. \A s \in Seq(A) : s \in P
      BY <1>1, <1>2, SeqInd
    <2>2. QED BY <2>1 DEF P

(* A part that is complete stays as it is.                                 *)
LEMMA StepAfterFirst ==
  ASSUME NEW A, NEW s \in Seq(A), NEW p \in Seq(Seq(A)), p # <<>>,
         NEW e \in A, NEW c
  PROVE  SplitStep(<<s>> \o p, e, c) = <<s>> \o SplitStep(p, e, c)
  <1>1. <<s>> \in Seq(Seq(A)) /\ Len(<<s>>) = 1
    BY OneElement
  <1>2. PICK n \in Nat : n = Len(p) /\ n > 0
    BY EmptySeq, LenProperties
  <1>3. PICK w : w = <<s>> \o p
    OBVIOUS
  <1>4. /\ w \in Seq(Seq(A)) /\ Len(w) = n + 1
        /\ \A i \in 1 .. n + 1 : w[i] = IF i = 1 THEN s ELSE p[i - 1]
    BY <1>1, <1>2, <1>3, ConcatProperties
  <1>5. CASE e = c
    <2>1. PICK empty : empty = <<>>
      OBVIOUS
    <2>2. empty \in Seq(A)
      BY <2>1, EmptySeq
    <2>3. <<s>> \o Append(p, empty) = Append(<<s>> \o p, empty)
      BY <1>1, <2>2, ConcatAppend
    <2>4. QED BY <1>5, <2>1, <2>3 DEF SplitStep
  <1>6. CASE e # c
    <2>1. PICK x : x = Append(p[n], e)
      OBVIOUS
    <2>2. x \in Seq(A) /\ n \in 1 .. n
      BY <1>2, <2>1, ElementOfSeq, AppendProperties
    <2> DEFINE q == [p EXCEPT ![n] = x]
               v == [w EXCEPT ![n + 1] = x]
    <2>3. /\ q \in Seq(Seq(A)) /\ Len(q) = n
          /\ \A i \in 1 .. n : q[i] = IF i = n THEN x ELSE p[i]
      BY <1>2, <2>2, ExceptSeq
    <2>4. /\ v \in Seq(Seq(A)) /\ Len(v) = n + 1
          /\ \A i \in 1 .. n + 1 : v[i] = IF i = n + 1 THEN x ELSE w[i]
      BY <1>4, <2>2, ExceptSeq
    <2>5. PICK r : r = <<s>> \o q
      OBVIOUS
    <2>6. v = r
      <3> HIDE DEF q, v
      <3>1. /\ r \in Seq(Seq(A)) /\ Len(r) = n + 1
            /\ \A i \in 1 .. n + 1 : r[i] = IF i = 1 THEN s ELSE q[i - 1]
        BY <1>1, <2>3, <2>5, ConcatProperties
      <3>2. ASSUME NEW i \in 1 .. n + 1 PROVE v[i] = r[i]
        <4>1. CASE i = 1
          BY <4>1, <1>2, <1>4, <2>4, <3>1
        <4>2. CASE i # 1
          <5>1. i - 1 \in 1 .. n /\ (i - 1 = n <=> i = n + 1)
            BY <4>2, <1>2
          <5>2. QED BY <4>2, <5>1, <1>4, <2>3, <2>4, <3>1
        <4>3. QED BY <4>1, <4>2
      <3>3. QED BY <2>4, <3>1, <3>2, SeqEqual
    <2>7. SplitStep(p, e, c) = q
      BY <1>2, <1>6, <2>1 DEF SplitStep
    <2>8. w[n + 1] = p[n]
      BY <1>2, <1>4
    <2>9. SplitStep(w, e, c) = v
      BY <1>4, <1>6, <2>1, <2>8 DEF SplitStep
    <2>10. QED BY <1>3, <2>5, <2>6, <2>7, <2>9
  <1>7. QED BY <1>5, <1>6

(* The first part ends at the first separator.                             *)
LEMMA SplitFirst ==
  ASSUME NEW A, NEW c \in A, NEW s \in Seq(A), Nowhere(c, s)
  PROVE  \A t \in Seq(A) :
           bsplit(s \o <<c>> \o t, c) = <<s>> \o bsplit(t, c)
  <1> DEFINE P == {t \in Seq(A) :
                     bsplit(s \o <<c>> \o t, c) = <<s>> \o bsplit(t, c)}
             sc == s \o <<c>>
  <1>1. sc \in Seq(A) /\ sc = Append(s, c)
    BY OneElement, ConcatProperties, AppendIsConcat
  <1>2. <<>> \in P
    <2>1. sc \o <<>> = sc /\ <<>> \in Seq(A)
      BY <1>1, ConcatEmptySeq, EmptySeq
    <2>2. bsplit(sc, c) = SplitStep(<<s>>, c, c)
      <3>1. bsplit(s, c) = <<s>>
        BY SplitWhole
      <3>2. QED BY <1>1, <3>1, SplitAppend
    <2>3. SplitStep(<<s>>, c, c) = <<s>> \o << <<>> >>
      <3>1. PICK empty : empty = <<>>
        OBVIOUS
      <3>2. empty \in Seq(A) /\ <<s>> \in Seq(Seq(A))
        BY <3>1, EmptySeq, OneElement
      <3>3. Append(<<s>>, empty) = <<s>> \o <<empty>>
        BY <3>2, AppendIsConcat
      <3>4. QED BY <3>1, <3>3 DEF SplitStep
    <2>4. QED BY <2>1, <2>2, <2>3, SplitEmpty
  <1>3. ASSUME NEW t \in Seq(A), NEW e \in A, t \in P
        PROVE  Append(t, e) \in P
    <2>1. sc \o Append(t, e) = Append(sc \o t, e) /\ sc \o t \in Seq(A)
      BY <1>1, ConcatAppend, ConcatProperties
    <2>2. bsplit(sc \o Append(t, e), c) = SplitStep(bsplit(sc \o t, c), e, c)
      BY <2>1, SplitAppend
    <2>3. bsplit(t, c) \in Seq(Seq(A)) /\ bsplit(t, c) # <<>>
      BY SplitType
    <2>4. SplitStep(<<s>> \o bsplit(t, c), e, c)
            = <<s>> \o SplitStep(bsplit(t, c), e, c)
      BY <2>3, StepAfterFirst
    <2>5. bsplit(Append(t, e), c) = SplitStep(bsplit(t, c), e, c)
      BY SplitAppend
    <2>6. Append(t, e) \in Seq(A)
      BY AppendProperties
    <2>7. QED BY <1>3, <2>2, <2>4, <2>5, <2>6
  <1>4. QED
    <2> HIDE DEF P
    <2>1. \A t \in Seq(A) : t \in P
      BY <1>2, <1>3, SeqInd
    <2>2. QED BY <2>1 DEF P

-----------------------------------------------------------------------------
(* FlattenSeq, one sequence at a time.                                     *)
Joined(h, u, n) ==
  h = [i \in 1 .. n |-> IF i = 1 THEN u[i] ELSE h[i - 1] \o u[i]]

(* What FlattenSeq computes, one sequence at a time.                       *)
LEMMA JoinedFirst ==
  ASSUME NEW h, NEW u, NEW n \in Nat, Joined(h, u, n), n > 0
  PROVE  h[1] = u[1]
  BY 1 \in 1 .. n DEF Joined

LEMMA JoinedNext ==
  ASSUME NEW h, NEW u, NEW n \in Nat, Joined(h, u, n),
         NEW k \in Nat, k > 0, k < n
  PROVE  h[k + 1] = h[k] \o u[k + 1]
  <1>1. PICK j \in 1 .. n : j = k + 1
    OBVIOUS
  <1>2. j # 1 /\ j - 1 = k
    BY <1>1
  <1>3. h[j] = h[j - 1] \o u[j]
    BY <1>2 DEF Joined
  <1>4. QED BY <1>1, <1>2, <1>3

(* The recursive function that FlattenSeq chooses exists.                  *)
LEMMA JoinedExists ==
  ASSUME NEW u, NEW n \in Nat
  PROVE  \E h : Joined(h, u, n)
  <1> DEFINE P == {m \in Nat : \E h : Joined(h, u, m)}
  <1>1. 0 \in P
    <2>1. Joined([i \in 1 .. 0 |-> u], u, 0)
      BY DEF Joined
    <2>2. QED BY <2>1
  <1>2. ASSUME NEW m \in Nat, m \in P PROVE m + 1 \in P
    <2>1. PICK g : Joined(g, u, m)
      BY <1>2
    <2> DEFINE h == [i \in 1 .. m + 1 |->
                       IF i = 1 THEN u[i] ELSE g[i - 1] \o u[i]]
    <2>2. ASSUME NEW i \in 1 .. m PROVE h[i] = g[i]
      <3>1. g[i] = IF i = 1 THEN u[i] ELSE g[i - 1] \o u[i]
        BY <2>1 DEF Joined
      <3>2. h[i] = IF i = 1 THEN u[i] ELSE g[i - 1] \o u[i]
        OBVIOUS
      <3>3. QED BY <3>1, <3>2
    <2>3. ASSUME NEW i \in 1 .. m + 1
          PROVE  h[i] = IF i = 1 THEN u[i] ELSE h[i - 1] \o u[i]
      <3>1. CASE i = 1
        BY <3>1
      <3>2. CASE i # 1
        <4>1. i - 1 \in 1 .. m
          BY <3>2
        <4>2. h[i - 1] = g[i - 1]
          BY <2>2, <4>1
        <4>3. h[i] = g[i - 1] \o u[i]
          BY <3>2
        <4>4. QED
          BY <3>2, <4>2, <4>3
      <3>3. QED BY <3>1, <3>2
    <2>4. h = [i \in 1 .. m + 1 |-> h[i]]
      OBVIOUS
    <2>5. Joined(h, u, m + 1)
      <3> HIDE DEF h
      <3>1. QED BY <2>3, <2>4 DEF Joined
    <2>6. QED
      <3> HIDE DEF h
      <3>1. QED BY <2>5
  <1>3. QED
    <2> HIDE DEF P
    <2>1. n \in P
      BY <1>1, <1>2, NatInd
    <2>2. QED BY <2>1 DEF P

(* Two of them agree as far as their sequences do.                         *)
LEMMA JoinedAgree ==
  ASSUME NEW u, NEW w, NEW g, NEW h, NEW n \in Nat, NEW m \in Nat, n <= m,
         Joined(g, u, n), Joined(h, w, m), \A i \in 1 .. n : u[i] = w[i]
  PROVE  \A i \in 1 .. n : g[i] = h[i]
  <1> DEFINE P == {k \in Nat : k \in 1 .. n => g[k] = h[k]}
  <1>1. 0 \in P
    OBVIOUS
  <1>2. ASSUME NEW k \in Nat, k \in P PROVE k + 1 \in P
    <2> SUFFICES ASSUME k + 1 \in 1 .. n PROVE g[k + 1] = h[k + 1]
      OBVIOUS
    <2>1. CASE k = 0
      <3>1. n > 0 /\ m > 0 /\ 1 \in 1 .. n
        BY <2>1
      <3>2. g[1] = u[1] /\ h[1] = w[1]
        BY <3>1, JoinedFirst
      <3>3. QED BY <2>1, <3>1, <3>2
    <2>2. CASE k # 0
      <3>1. k > 0 /\ k < n /\ k < m /\ k \in 1 .. n
        BY <2>2
      <3>2. g[k + 1] = g[k] \o u[k + 1] /\ h[k + 1] = h[k] \o w[k + 1]
        BY <3>1, JoinedNext
      <3>3. QED BY <1>2, <3>1, <3>2
    <2>3. QED BY <2>1, <2>2
  <1>3. QED
    <2> HIDE DEF P
    <2>1. \A k \in Nat : k \in P
      BY <1>1, <1>2, NatInd
    <2>2. QED BY <2>1 DEF P

(* FlattenSeq is its last value.                                           *)
LEMMA FlattenIsJoined ==
  ASSUME NEW u, Len(u) \in Nat, Len(u) # 0
  PROVE  \E h : Joined(h, u, Len(u)) /\ FlattenSeq(u) = h[Len(u)]
  <1> DEFINE H == CHOOSE h :
                    h = [i \in 1 .. Len(u) |->
                           IF i = 1 THEN u[i] ELSE h[i - 1] \o u[i]]
  <1>1. PICK h : Joined(h, u, Len(u))
    BY JoinedExists
  <1>2. H = [i \in 1 .. Len(u) |-> IF i = 1 THEN u[i] ELSE H[i - 1] \o u[i]]
    BY <1>1 DEF Joined
  <1>3. FlattenSeq(u) = H[Len(u)]
    BY DEF FlattenSeq
  <1>4. QED
    <2> HIDE DEF H
    <2>1. Joined(H, u, Len(u))
      BY <1>2 DEF Joined
    <2>2. QED BY <1>3, <2>1

LEMMA FlattenEmpty == FlattenSeq(<<>>) = <<>>
  BY DEF FlattenSeq

(* One sequence more is put after the others.                              *)
LEMMA FlattenAppend ==
  ASSUME NEW A, NEW u \in Seq(Seq(A)), NEW v \in Seq(A)
  PROVE  FlattenSeq(Append(u, v)) = FlattenSeq(u) \o v
  <1>1. PICK w : w = Append(u, v)
    OBVIOUS
  <1>2. PICK n \in Nat : n = Len(u)
    BY LenProperties
  <1>3. /\ w \in Seq(Seq(A)) /\ Len(w) = n + 1 /\ w[n + 1] = v
        /\ \A i \in 1 .. n : u[i] = w[i]
    BY <1>1, <1>2, AppendProperties
  <1>4. PICK h : Joined(h, w, n + 1) /\ FlattenSeq(w) = h[n + 1]
    BY <1>3, FlattenIsJoined
  <1>5. CASE n = 0
    <2>1. u = <<>>
      BY <1>2, <1>5, EmptySeq
    <2>2. h[n + 1] = w[n + 1]
      BY <1>4, <1>5 DEF Joined
    <2>3. QED BY <1>1, <1>3, <1>4, <2>1, <2>2, FlattenEmpty, ConcatEmptySeq
  <1>6. CASE n # 0
    <2>1. PICK g : Joined(g, u, n) /\ FlattenSeq(u) = g[n]
      BY <1>2, <1>6, FlattenIsJoined
    <2>2. n <= n + 1 /\ n + 1 \in Nat /\ n \in 1 .. n
      BY <1>6
    <2>3. g[n] = h[n]
      <3>1. PICK m : m = n + 1
        OBVIOUS
      <3>2. n <= m /\ m \in Nat /\ Joined(h, w, m)
        BY <1>4, <3>1
      <3>3. \A i \in 1 .. n : g[i] = h[i]
        BY <1>3, <2>1, <3>2, JoinedAgree
      <3>4. QED BY <2>2, <3>3
    <2>4. h[n + 1] = h[n] \o w[n + 1]
      <3>1. PICK m : m = n + 1
        OBVIOUS
      <3>2. m \in Nat /\ Joined(h, w, m) /\ n > 0 /\ n < m
        BY <1>4, <1>6, <3>1
      <3>3. QED BY <3>2, JoinedNext
    <2>5. QED BY <1>1, <1>3, <1>4, <2>1, <2>3, <2>4
  <1>7. QED BY <1>5, <1>6

(* The bytes of the whole are those of its parts.                          *)
LEMMA FlattenType ==
  ASSUME NEW A
  PROVE  \A u \in Seq(Seq(A)) : FlattenSeq(u) \in Seq(A)
  <1> DEFINE P == {u \in Seq(Seq(A)) : FlattenSeq(u) \in Seq(A)}
  <1>1. <<>> \in P
    BY EmptySeq, FlattenEmpty
  <1>2. ASSUME NEW u \in Seq(Seq(A)), NEW v \in Seq(A), u \in P
        PROVE  Append(u, v) \in P
    <2>1. FlattenSeq(u) \o v \in Seq(A)
      BY <1>2, ConcatProperties
    <2>2. QED BY <2>1, FlattenAppend, AppendProperties
  <1>3. QED
    <2> HIDE DEF P
    <2>1. \A u \in Seq(Seq(A)) : u \in P
      BY <1>1, <1>2, SeqInd
    <2>2. QED BY <2>1 DEF P

-----------------------------------------------------------------------------
(* What the browser sends for one more character.                          *)
Typed == Seq(1 .. 255)

HexCode == (48 .. 57) \cup (65 .. 70)

(* A byte is sent as it is, as a plus sign, or as a percent sign and two   *)
(* digits that give it back.                                               *)
LEMMA CodeCases ==
  ASSUME NEW c \in 1 .. 255
  PROVE  \/ /\ FormCode(c) = <<c>> /\ c \in Alnum
         \/ FormCode(c) = <<Plus>> /\ c = Space
         \/ \E a, b \in HexCode :
              /\ FormCode(c) = <<Percent, a, b>>
              /\ c = 16 * (IF a <= 57 THEN a - 48 ELSE a - 55)
                      + (IF b <= 57 THEN b - 48 ELSE b - 55)
  <1>1. CASE c \in Alnum
    BY <1>1 DEF FormCode
  <1>2. CASE c \notin Alnum /\ c = Space
    BY <1>2 DEF FormCode
  <1>3. CASE c \notin Alnum /\ c # Space
    <2>1. PICK hi, lo \in 0 .. 15 :
             hi = c \div 16 /\ lo = c % 16 /\ c = 16 * hi + lo
      OBVIOUS
    <2>2. PICK a, b \in Int : a = HexDigit(hi) /\ b = HexDigit(lo)
      BY DEF HexDigit
    <2>3. /\ a \in HexCode /\ b \in HexCode
          /\ hi = (IF a <= 57 THEN a - 48 ELSE a - 55)
          /\ lo = (IF b <= 57 THEN b - 48 ELSE b - 55)
      BY <2>2 DEF HexDigit, HexCode
    <2>4. FormCode(c) = <<Percent, a, b>>
      BY <1>3, <2>1, <2>2 DEF FormCode
    <2>5. QED BY <2>1, <2>3, <2>4
  <1>4. QED BY <1>1, <1>2, <1>3

(* The code of a byte, and of a text, is a text.                           *)
LEMMA CodeType ==
  ASSUME NEW c \in 1 .. 255
  PROVE  FormCode(c) \in Seq(Int)
  <1>1. \A a, b \in Int : <<a>> \in Seq(Int) /\ <<Percent, a, b>> \in Seq(Int)
    BY DEF Percent
  <1>2. Alnum \subseteq Int /\ HexCode \subseteq Int /\ Plus \in Int
    BY DEF Alnum, HexCode, Plus
  <1>3. CASE FormCode(c) = <<c>> /\ c \in Alnum
    BY <1>1, <1>2, <1>3
  <1>4. CASE FormCode(c) = <<Plus>> /\ c = Space
    BY <1>1, <1>2, <1>4
  <1>5. ASSUME NEW a \in HexCode, NEW b \in HexCode,
               FormCode(c) = <<Percent, a, b>>
        PROVE  FormCode(c) \in Seq(Int)
    BY <1>1, <1>2, <1>5
  <1>6. QED BY <1>3, <1>4, <1>5, CodeCases

LEMMA MapIsSeq ==
  ASSUME NEW A, NEW n \in Nat, NEW f \in [1 .. n -> A]
  PROVE  f \in Seq(A) /\ Len(f) = n
  <1>1. f \in Seq(A)
    BY SeqDef
  <1>2. QED BY <1>1, LenProperties

(* The browser encodes one byte at a time.                                 *)
LEMMA EncodeAppend ==
  ASSUME NEW s \in Typed, NEW c \in 1 .. 255
  PROVE  UrlEncode(Append(s, c)) = UrlEncode(s) \o FormCode(c)
  <1>1. PICK n \in Nat : n = Len(s)
    BY LenProperties DEF Typed
  <1>2. PICK w : w = Append(s, c)
    OBVIOUS
  <1>3. /\ Len(w) = n + 1 /\ w[n + 1] = c /\ \A i \in 1 .. n : w[i] = s[i]
        /\ \A i \in 1 .. n : s[i] \in 1 .. 255
    <2>1. PICK A : A = 1 .. 255
      OBVIOUS
    <2>2. s \in Seq(A) /\ c \in A
      BY <2>1 DEF Typed
    <2>3. /\ Len(w) = n + 1 /\ w[n + 1] = c
          /\ \A i \in 1 .. n : w[i] = s[i]
      BY <1>1, <1>2, <2>2, AppendProperties
    <2>4. \A i \in 1 .. n : s[i] \in A
      BY <1>1, <2>2, ElementOfSeq
    <2>5. QED BY <2>1, <2>3, <2>4
  <1>4. \A x \in 1 .. 255 : FormCode(x) \in Seq(Int)
    BY CodeType
  <1>5. PICK d \in Seq(Int) : d = FormCode(c)
    BY <1>4
  <1> DEFINE u == [i \in 1 .. n |-> FormCode(s[i])]
             x == [i \in 1 .. n + 1 |-> FormCode(w[i])]
  <1>6. u \in Seq(Seq(Int)) /\ Len(u) = n
    <2>1. u \in [1 .. n -> Seq(Int)]
      BY <1>3, <1>4
    <2> HIDE DEF u
    <2>2. QED BY <2>1, MapIsSeq
  <1>7. x = Append(u, d)
    <2>1. x \in Seq(Seq(Int)) /\ Len(x) = n + 1
      <3>1. ASSUME NEW i \in 1 .. n + 1 PROVE w[i] \in 1 .. 255
        <4>1. i \in 1 .. n \/ i = n + 1
          OBVIOUS
        <4>2. QED BY <1>3, <4>1
      <3>2. \A i \in 1 .. n + 1 : FormCode(w[i]) \in Seq(Int)
        BY <3>1, CodeType
      <3>3. x \in [1 .. n + 1 -> Seq(Int)] /\ n + 1 \in Nat
        BY <3>2
      <3> HIDE DEF x
      <3>4. QED BY <3>3, MapIsSeq
    <2>2. /\ Append(u, d) \in Seq(Seq(Int)) /\ Len(Append(u, d)) = n + 1
          /\ Append(u, d)[n + 1] = d
          /\ \A i \in 1 .. n : Append(u, d)[i] = u[i]
      <3> HIDE DEF u
      <3>1. QED BY <1>6, AppendProperties
    <2>3. x[n + 1] = d
      BY <1>3, <1>5
    <2>4. \A i \in 1 .. n : x[i] = u[i]
      BY <1>3
    <2> HIDE DEF x, u
    <2>5. \A i \in 1 .. n + 1 : x[i] = Append(u, d)[i]
      BY <2>2, <2>3, <2>4
    <2>6. QED BY <2>1, <2>2, <2>5, SeqEqual
  <1>8. UrlEncode(w) = FlattenSeq(x) /\ UrlEncode(s) = FlattenSeq(u)
    BY <1>1, <1>3 DEF UrlEncode
  <1> HIDE DEF x, u
  <1>9. FlattenSeq(Append(u, d)) = FlattenSeq(u) \o d
    BY <1>6, FlattenAppend
  <1>10. QED
    BY <1>2, <1>5, <1>7, <1>8, <1>9

LEMMA EncodeEmpty == UrlEncode(<<>>) = <<>>
  BY FlattenEmpty DEF UrlEncode

-----------------------------------------------------------------------------
(* bcgi_urldecode, one byte at a time.                                     *)
Start == [out |-> <<>>, buf |-> <<>>, inside |-> FALSE]

Decoded(s) == FoldLeft(DecodeChar, Start, s)

(* One byte more is one turn of the loop more.                             *)
LEMMA DecodedEmpty == Decoded(<<>>) = Start
  <1>1. <<>> \in Seq(Int)
    OBVIOUS
  <1>2. QED BY <1>1, DecodeIsFold, FoldEmpty DEF Decoded

LEMMA DecodedAppend ==
  ASSUME NEW A, NEW s \in Seq(A), NEW e \in A
  PROVE  Decoded(Append(s, e)) = DecodeChar(Decoded(s), e)
  <1>1. Append(s, e) \in Seq(A)
    BY AppendProperties
  <1>2. IsFold(Decoded(s), <<"decode">>, Start, s)
    BY DecodeIsFold DEF Decoded
  <1>3. IsFold(Decoded(Append(s, e)), <<"decode">>, Start, Append(s, e))
    BY <1>1, DecodeIsFold DEF Decoded
  <1>4. Decoded(Append(s, e)) = Step(<<"decode">>, Decoded(s), e)
    BY <1>2, <1>3, FoldAppend
  <1>5. QED BY <1>4 DEF Step

(* strtol of two digits.                                                   *)
LEMMA HexValue ==
  ASSUME NEW a \in HexCode, NEW b \in HexCode
  PROVE  Strtol(<<a, b>>) = 16 * (IF a <= 57 THEN a - 48 ELSE a - 55)
                              + (IF b <= 57 THEN b - 48 ELSE b - 55)
  <1> DEFINE f(s) == FoldLeft(HexStep, 0, s)
  <1>1. /\ <<>> \in Seq(Int) /\ <<a>> \in Seq(Int) /\ <<a, b>> \in Seq(Int)
        /\ a \in Int /\ b \in Int
        /\ <<a>> = Append(<<>>, a) /\ <<a, b>> = Append(<<a>>, b)
    BY DEF HexCode
  <1>2. /\ IsFold(f(<<>>), <<"hex">>, 0, <<>>)
        /\ IsFold(f(<<a>>), <<"hex">>, 0, Append(<<>>, a))
        /\ IsFold(f(<<a, b>>), <<"hex">>, 0, Append(<<a>>, b))
    BY <1>1, HexIsFold
  <1> HIDE DEF f
  <1>3. f(<<>>) = 0
    BY <1>2, FoldEmpty
  <1>4. f(<<a>>) = Step(<<"hex">>, f(<<>>), a)
    BY <1>1, <1>2, FoldAppend
  <1>5. f(<<a, b>>) = Step(<<"hex">>, f(<<a>>), b)
    BY <1>1, <1>2, FoldAppend
  <1>6. f(<<a, b>>) = HexStep(HexStep(0, a), b)
    BY <1>3, <1>4, <1>5 DEF Step
  <1>7. Strtol(<<a, b>>) = f(<<a, b>>)
    <2>1. {i \in 1 .. Len(<<a, b>>) : <<a, b>>[i] \in 58 .. 63} = {}
      BY DEF HexCode
    <2>2. QED BY <2>1 DEF Strtol, f
  <1>8. QED BY <1>1, <1>6, <1>7 DEF HexStep, HexCode

State(out, buf, inside) == [out |-> out, buf |-> buf, inside |-> inside]

(* Where the decoder is after the code of text s: all of it is out, or the *)
(* last character waits in the buffer.                                     *)
DecodedTo(st, s) ==
  \/ st = State(s, <<>>, FALSE)
  \/ \E a, b \in HexCode, t \in Typed :
       st = State(t, <<a, b>>, TRUE) /\ Append(t, Strtol(<<a, b>>)) = s

(* The turns of the loop that the code of a byte takes.                    *)
LEMMA DecodeOutside ==
  ASSUME NEW s, NEW x, x # Plus, x # Percent
  PROVE  DecodeChar(State(s, <<>>, FALSE), x) = State(Append(s, x), <<>>, FALSE)
  BY DEF DecodeChar, DecodeNone, State

LEMMA DecodePlus ==
  ASSUME NEW s
  PROVE  DecodeChar(State(s, <<>>, FALSE), Plus)
           = State(Append(s, Space), <<>>, FALSE)
  <1>1. PICK st, x : st = State(s, <<>>, FALSE) /\ x = Plus
    OBVIOUS
  <1>2. DecodeChar(st, x) = DecodeNone(st, x)
    BY <1>1 DEF DecodeChar, State
  <1>3. x # Percent
    BY <1>1 DEF Plus, Percent
  <1>4. DecodeNone(st, x) = [st EXCEPT !.out = Append(@, Space)]
    BY <1>1, <1>3 DEF DecodeNone
  <1>5. QED BY <1>1, <1>2, <1>4 DEF State

LEMMA DecodePercent ==
  ASSUME NEW s
  PROVE  DecodeChar(State(s, <<>>, FALSE), Percent) = State(s, <<>>, TRUE)
  <1>1. PICK st, x : st = State(s, <<>>, FALSE) /\ x = Percent
    OBVIOUS
  <1>2. DecodeChar(st, x) = DecodeNone(st, x)
    BY <1>1 DEF DecodeChar, State
  <1>3. x # Plus
    BY <1>1 DEF Plus, Percent
  <1>4. DecodeNone(st, x) = [st EXCEPT !.inside = TRUE]
    BY <1>1, <1>3 DEF DecodeNone
  <1>5. QED BY <1>1, <1>2, <1>4 DEF State

LEMMA DecodeDigits ==
  ASSUME NEW s, NEW a \in HexCode, NEW b \in HexCode
  PROVE  /\ DecodeChar(State(s, <<>>, TRUE), a) = State(s, <<a>>, TRUE)
         /\ DecodeChar(State(s, <<a>>, TRUE), b) = State(s, <<a, b>>, TRUE)
  <1>1. IsHexDigit(a) /\ IsHexDigit(b)
    BY DEF IsHexDigit, HexCode
  <1>2. a \in Int /\ b \in Int /\ <<>> \in Seq(Int)
    BY DEF HexCode
  <1>3. <<a>> = Append(<<>>, a) /\ <<a, b>> = Append(<<a>>, b)
    BY <1>2
  <1>4. Len(<<>>) = 0 /\ Len(<<a>>) = 1
    BY <1>2, EmptySeq, OneElement
  <1>5. DecodeChar(State(s, <<>>, TRUE), a) = State(s, <<a>>, TRUE)
    <2>1. PICK st, empty : st = State(s, empty, TRUE) /\ empty = <<>>
      OBVIOUS
    <2>2. st.inside /\ st.buf = empty /\ Len(st.buf) < 2
      BY <1>4, <2>1 DEF State
    <2>3. DecodeChar(st, a) = [st EXCEPT !.buf = Append(@, a)]
      BY <1>1, <2>2 DEF DecodeChar
    <2>4. DecodeChar(st, a) = State(s, Append(empty, a), TRUE)
      BY <2>1, <2>3 DEF State
    <2>5. QED BY <1>3, <2>1, <2>4
  <1>6. DecodeChar(State(s, <<a>>, TRUE), b) = State(s, <<a, b>>, TRUE)
    <2>1. PICK st, one : st = State(s, one, TRUE) /\ one = <<a>>
      OBVIOUS
    <2>2. st.inside /\ st.buf = one /\ Len(st.buf) < 2
      BY <1>4, <2>1 DEF State
    <2>3. DecodeChar(st, b) = [st EXCEPT !.buf = Append(@, b)]
      BY <1>1, <2>2 DEF DecodeChar
    <2>4. DecodeChar(st, b) = State(s, Append(one, b), TRUE)
      BY <2>1, <2>3 DEF State
    <2>5. QED BY <1>3, <2>1, <2>4
  <1>7. QED BY <1>5, <1>6

(* What waits in the buffer is out as soon as a character follows.         *)
LEMMA DecodeNext ==
  ASSUME NEW st, NEW s, DecodedTo(st, s), NEW x
  PROVE  DecodeChar(st, x) = DecodeChar(State(s, <<>>, FALSE), x)
  <1>1. CASE st = State(s, <<>>, FALSE)
    BY <1>1
  <1>2. ASSUME NEW a \in HexCode, NEW b \in HexCode, NEW t \in Typed,
               st = State(t, <<a, b>>, TRUE), Append(t, Strtol(<<a, b>>)) = s
        PROVE  DecodeChar(st, x) = DecodeChar(State(s, <<>>, FALSE), x)
    <2>1. ~ (Len(<<a, b>>) < 2)
      OBVIOUS
    <2>2. DecodeChar(st, x) = DecodeNone(DecodeEntity(st), x)
      BY <1>2, <2>1 DEF DecodeChar, State
    <2>3. DecodeEntity(st) = State(s, <<>>, FALSE)
      BY <1>2 DEF DecodeEntity, State
    <2>4. DecodeChar(State(s, <<>>, FALSE), x)
            = DecodeNone(State(s, <<>>, FALSE), x)
      BY DEF DecodeChar, State
    <2>5. QED BY <2>2, <2>3, <2>4
  <1>3. QED BY <1>1, <1>2 DEF DecodedTo

(* The code of a byte adds this byte.                                      *)
LEMMA DecodeCode ==
  ASSUME NEW u \in Seq(Int), NEW s \in Typed, DecodedTo(Decoded(u), s),
         NEW c \in 1 .. 255
  PROVE  DecodedTo(Decoded(u \o FormCode(c)), Append(s, c))
  <1>1. \A x \in Int : /\ u \o <<x>> \in Seq(Int)
                       /\ Decoded(u \o <<x>>)
                            = DecodeChar(State(s, <<>>, FALSE), x)
    <2> SUFFICES ASSUME NEW x \in Int
                 PROVE  /\ u \o <<x>> \in Seq(Int)
                        /\ Decoded(u \o <<x>>)
                             = DecodeChar(State(s, <<>>, FALSE), x)
      OBVIOUS
    <2>1. Append(u, x) = u \o <<x>> /\ Append(u, x) \in Seq(Int)
      BY AppendIsConcat, AppendProperties
    <2>2. Decoded(Append(u, x)) = DecodeChar(Decoded(u), x)
      BY DecodedAppend
    <2>3. QED BY <2>1, <2>2, DecodeNext
  <1>2. CASE FormCode(c) = <<c>> /\ c \in Alnum
    <2>1. c # Plus /\ c # Percent /\ c \in Int
      BY <1>2 DEF Alnum, Plus, Percent
    <2>2. QED BY <1>1, <1>2, <2>1, DecodeOutside DEF DecodedTo
  <1>3. CASE FormCode(c) = <<Plus>> /\ c = Space
    <2>1. Plus \in Int
      BY DEF Plus
    <2>2. QED BY <1>1, <1>3, <2>1, DecodePlus DEF DecodedTo
  <1>4. ASSUME NEW a \in HexCode, NEW b \in HexCode,
               FormCode(c) = <<Percent, a, b>>,
               c = 16 * (IF a <= 57 THEN a - 48 ELSE a - 55)
                      + (IF b <= 57 THEN b - 48 ELSE b - 55)
        PROVE  DecodedTo(Decoded(u \o FormCode(c)), Append(s, c))
    <2>1. a \in Int /\ b \in Int /\ Percent \in Int
      BY DEF HexCode, Percent
    <2>2. PICK v : v = u \o <<Percent>>
      OBVIOUS
    <2>3. v \in Seq(Int) /\ Decoded(v) = State(s, <<>>, TRUE)
      BY <1>1, <2>1, <2>2, DecodePercent
    <2>4. PICK w : w = Append(v, a)
      OBVIOUS
    <2>5. w \in Seq(Int) /\ Decoded(w) = State(s, <<a>>, TRUE)
      <3>1. Decoded(w) = DecodeChar(Decoded(v), a)
        BY <2>1, <2>3, <2>4, DecodedAppend
      <3>2. w \in Seq(Int)
        BY <2>1, <2>3, <2>4, AppendProperties
      <3>3. QED BY <2>3, <3>1, <3>2, DecodeDigits
    <2>6. Decoded(Append(w, b)) = State(s, <<a, b>>, TRUE)
      <3>1. Decoded(Append(w, b)) = DecodeChar(Decoded(w), b)
        BY <2>1, <2>5, DecodedAppend
      <3>2. QED BY <2>5, <3>1, DecodeDigits
    <2>7. Append(w, b) = u \o FormCode(c)
      BY <1>4, <2>1, <2>2, <2>4
    <2>8. Strtol(<<a, b>>) = c
      BY <1>4, HexValue
    <2>9. QED BY <2>6, <2>7, <2>8 DEF DecodedTo
  <1>5. QED BY <1>2, <1>3, <1>4, CodeCases

(* An encoded text is a text.                                              *)
LEMMA EncodeType ==
  \A s \in Typed : UrlEncode(s) \in Seq(Int)
  <1> DEFINE P == {s \in Typed : UrlEncode(s) \in Seq(Int)}
  <1>1. <<>> \in P
    BY EmptySeq, EncodeEmpty DEF Typed
  <1>2. ASSUME NEW s \in Typed, NEW c \in 1 .. 255, s \in P
        PROVE  Append(s, c) \in P
    <2>1. UrlEncode(s) \o FormCode(c) \in Seq(Int)
      BY <1>2, CodeType, ConcatProperties
    <2>2. Append(s, c) \in Typed
      BY AppendProperties DEF Typed
    <2>3. QED BY <2>1, <2>2, EncodeAppend
  <1>3. QED
    <2> HIDE DEF P
    <2>1. PICK A : A = 1 .. 255
      OBVIOUS
    <2>2. /\ <<>> \in P
          /\ \A s \in Seq(A), e \in A : s \in P => Append(s, e) \in P
      BY <1>1, <1>2, <2>1 DEF Typed
    <2>3. \A s \in Seq(A) : s \in P
      BY <2>2, SeqInd
    <2>4. QED BY <2>1, <2>3 DEF P, Typed

(* What is decoded of an encoded text, with what still waits in the        *)
(* buffer, is the text.                                                    *)
LEMMA EncodeDecoded ==
  \A s \in Typed : DecodedTo(Decoded(UrlEncode(s)), s)
  <1> DEFINE P == {s \in Typed : DecodedTo(Decoded(UrlEncode(s)), s)}
  <1>1. <<>> \in P
    BY EmptySeq, EncodeEmpty, DecodedEmpty DEF Typed, DecodedTo, State, Start
  <1>2. ASSUME NEW s \in Typed, NEW c \in 1 .. 255, s \in P
        PROVE  Append(s, c) \in P
    <2>1. DecodedTo(Decoded(UrlEncode(s) \o FormCode(c)), Append(s, c))
      BY <1>2, EncodeType, DecodeCode
    <2>2. Append(s, c) \in Typed
      BY AppendProperties DEF Typed
    <2>3. QED BY <2>1, <2>2, EncodeAppend
  <1>3. QED
    <2> HIDE DEF P
    <2>1. PICK A : A = 1 .. 255
      OBVIOUS
    <2>2. /\ <<>> \in P
          /\ \A s \in Seq(A), e \in A : s \in P => Append(s, e) \in P
      BY <1>1, <1>2, <2>1 DEF Typed
    <2>3. \A s \in Seq(A) : s \in P
      BY <2>2, SeqInd
    <2>4. QED BY <2>1, <2>3 DEF P, Typed

(* bcgi_urldecode undoes the encoding of the browser, for every text.      *)
THEOREM DecodeUndoesEncode ==
  \A s \in Typed : bcgi_urldecode(UrlEncode(s)) = s
  <1> SUFFICES ASSUME NEW s \in Typed PROVE bcgi_urldecode(UrlEncode(s)) = s
    OBVIOUS
  <1>1. PICK st : st = Decoded(UrlEncode(s))
    OBVIOUS
  <1>2. bcgi_urldecode(UrlEncode(s))
          = IF st.inside THEN DecodeEntity(st).out ELSE st.out
    BY <1>1 DEF bcgi_urldecode, Decoded, Start
  <1>3. DecodedTo(st, s)
    BY <1>1, EncodeDecoded
  <1>4. CASE st = State(s, <<>>, FALSE)
    BY <1>2, <1>4 DEF State
  <1>5. ASSUME NEW a \in HexCode, NEW b \in HexCode, NEW t \in Typed,
               st = State(t, <<a, b>>, TRUE), Append(t, Strtol(<<a, b>>)) = s
        PROVE  bcgi_urldecode(UrlEncode(s)) = s
    BY <1>2, <1>5 DEF State, DecodeEntity
  <1>6. QED BY <1>3, <1>4, <1>5 DEF DecodedTo

-----------------------------------------------------------------------------
(* The entries of a form.                                                  *)
LEMMA NowhereConcat ==
  ASSUME NEW A, NEW c, NEW s \in Seq(A), NEW t \in Seq(A),
         Nowhere(c, s), Nowhere(c, t)
  PROVE  Nowhere(c, s \o t)
  <1>1. PICK w : w = s \o t
    OBVIOUS
  <1>2. PICK m, n \in Nat : m = Len(s) /\ n = Len(t)
    BY LenProperties
  <1>3. /\ Len(w) = m + n
        /\ \A i \in 1 .. m + n : w[i] = IF i <= m THEN s[i] ELSE t[i - m]
    BY <1>1, <1>2, ConcatProperties
  <1>4. ASSUME NEW i \in 1 .. m + n PROVE w[i] # c
    <2>1. CASE i <= m
      BY <1>2, <1>3, <2>1, i \in 1 .. m DEF Nowhere
    <2>2. CASE ~ (i <= m)
      BY <1>2, <1>3, <2>2, i - m \in 1 .. n DEF Nowhere
    <2>3. QED BY <2>1, <2>2
  <1>5. QED BY <1>1, <1>3, <1>4 DEF Nowhere

(* A separator that is in neither of two texts is not in both together,    *)
(* nor in another byte.                                                    *)
LEMMA NowhereOne ==
  ASSUME NEW A, NEW c, NEW e \in A, e # c
  PROVE  Nowhere(c, <<e>>)
  BY DEF Nowhere

(* No ampersand and no equals sign is left in the code of a byte.          *)
LEMMA CodeWithout ==
  ASSUME NEW c \in 1 .. 255, NEW x \in {Amp, Equal}
  PROVE  Nowhere(x, FormCode(c))
  <1>1. x \in {38, 61}
    BY DEF Amp, Equal
  <1>2. CASE FormCode(c) = <<c>> /\ c \in Alnum
    BY <1>1, <1>2 DEF Nowhere, Alnum
  <1>3. CASE FormCode(c) = <<Plus>> /\ c = Space
    BY <1>1, <1>3 DEF Nowhere, Plus
  <1>4. ASSUME NEW a \in HexCode, NEW b \in HexCode,
               FormCode(c) = <<Percent, a, b>>
        PROVE  Nowhere(x, FormCode(c))
    <2>1. a \in Int /\ a # x /\ b \in Int /\ b # x
      BY <1>1 DEF HexCode
    <2>2. Percent \in Int /\ Percent # x
      BY <1>1 DEF Percent
    <2>3. \A i \in 1 .. 3 : <<Percent, a, b>>[i] # x
      BY <2>1, <2>2
    <2>4. QED BY <1>4, <2>3 DEF Nowhere
  <1>5. QED BY <1>2, <1>3, <1>4, CodeCases

(* No separator is left in an encoded text.                                *)
LEMMA EncodeWithout ==
  ASSUME NEW x \in {Amp, Equal}
  PROVE  \A s \in Typed : Nowhere(x, UrlEncode(s))
  <1> DEFINE P == {s \in Typed : Nowhere(x, UrlEncode(s))}
  <1>1. <<>> \in P
    BY EmptySeq, EncodeEmpty DEF Typed, Nowhere
  <1>2. ASSUME NEW s \in Typed, NEW c \in 1 .. 255, s \in P
        PROVE  Append(s, c) \in P
    <2>1. UrlEncode(s) \in Seq(Int) /\ FormCode(c) \in Seq(Int)
      BY EncodeType, CodeType
    <2>2. Nowhere(x, UrlEncode(s) \o FormCode(c))
      BY <1>2, <2>1, CodeWithout, NowhereConcat
    <2>3. Append(s, c) \in Typed
      BY AppendProperties DEF Typed
    <2>4. QED BY <2>2, <2>3, EncodeAppend
  <1>3. QED
    <2> HIDE DEF P
    <2>1. PICK A : A = 1 .. 255
      OBVIOUS
    <2>2. /\ <<>> \in P
          /\ \A s \in Seq(A), e \in A : s \in P => Append(s, e) \in P
      BY <1>1, <1>2, <2>1 DEF Typed
    <2>3. \A s \in Seq(A) : s \in P
      BY <2>2, SeqInd
    <2>4. QED BY <2>1, <2>3 DEF P, Typed

(* Tuples are concatenations of shorter ones.                              *)
LEMMA Tuples ==
  ASSUME NEW A, NEW s \in A, NEW t \in A, NEW u \in A
  PROVE  /\ <<s>> \o <<t>> = <<s, t>>
         /\ <<s>> \o <<t, u>> = <<s, t, u>>
  <1>1. <<s, t, u>> = <<s>> \o <<t, u>>
    OBVIOUS
  <1>2. <<s, t>> = Append(<<s>>, t)
    OBVIOUS
  <1>3. Append(<<s>>, t) = <<s>> \o <<t>>
    BY OneElement, AppendIsConcat
  <1>4. QED BY <1>1, <1>2, <1>3

(* Two and three parts glued by a separator come apart again.              *)
LEMMA SplitTwo ==
  ASSUME NEW A, NEW c \in A, NEW s \in Seq(A), NEW t \in Seq(A),
         Nowhere(c, s), Nowhere(c, t)
  PROVE  bsplit(s \o <<c>> \o t, c) = <<s, t>>
  <1>1. bsplit(s \o <<c>> \o t, c) = <<s>> \o bsplit(t, c)
    BY SplitFirst
  <1>2. bsplit(t, c) = <<t>>
    BY SplitWhole
  <1>3. <<s>> \o <<t>> = <<s, t>>
    BY Tuples
  <1>4. QED BY <1>1, <1>2, <1>3

Glued(c, s, t, u) == s \o <<c>> \o t \o <<c>> \o u

LEMMA SplitThree ==
  ASSUME NEW A, NEW c \in A,
         NEW s \in Seq(A), NEW t \in Seq(A), NEW u \in Seq(A),
         Nowhere(c, s), Nowhere(c, t), Nowhere(c, u)
  PROVE  bsplit(Glued(c, s, t, u), c) = <<s, t, u>>
  <1>1. PICK sep \in Seq(A) : sep = <<c>>
    BY OneElement
  <1>2. s \o sep \o t \o sep \o u = s \o sep \o (t \o sep \o u)
    <2>1. PICK x \in Seq(A) : x = s \o sep
      BY ConcatProperties
    <2>2. PICK y \in Seq(A) : y = t \o sep
      BY ConcatProperties
    <2>3. (x \o t) \o sep = x \o y
      BY <2>2
    <2>4. (x \o y) \o u = x \o (y \o u)
      OBVIOUS
    <2>5. QED BY <2>1, <2>2, <2>3, <2>4
  <1>3. t \o sep \o u \in Seq(A)
    BY ConcatProperties
  <1>4. bsplit(s \o <<c>> \o (t \o <<c>> \o u), c)
          = <<s>> \o bsplit(t \o <<c>> \o u, c)
    BY <1>1, <1>3, SplitFirst
  <1>5. bsplit(t \o <<c>> \o u, c) = <<t, u>>
    BY SplitTwo
  <1>6. <<s>> \o <<t, u>> = <<s, t, u>>
    BY Tuples
  <1>7. QED BY <1>1, <1>2, <1>4, <1>5, <1>6 DEF Glued

(* bcgi_query_key, if one entry has the key.                               *)
LEMMA QueryKeyOnly ==
  ASSUME NEW list, NEW key, Len(list) \in Nat, NEW n \in 1 .. Len(list),
         \A i \in 1 .. Len(list) :
           (bsplit(list[i], Equal)[1] = key) <=> (i = n)
  PROVE  bcgi_query_key(list, key) = bsplit(list[n], Equal)[2]
  <1> DEFINE at == {i \in 1 .. Len(list) : bsplit(list[i], Equal)[1] = key}
  <1>1. at = {n}
    OBVIOUS
  <1>2. Min(at) = n
    BY <1>1, MinIs
  <1>3. QED
    BY <1>1, <1>2 DEF bcgi_query_key

(* An entry of a form has its key and its value as its parts.              *)
LEMMA EntryParts ==
  ASSUME NEW k \in {120, 121, 122}, NEW s \in Typed
  PROVE  /\ FormEntry(<<k>>, s) \in Seq(Int)
         /\ Nowhere(Amp, FormEntry(<<k>>, s))
         /\ bsplit(FormEntry(<<k>>, s), Equal) = << <<k>>, UrlEncode(s) >>
  <1>1. k \in Int /\ Equal \in Int /\ k # Amp /\ k # Equal /\ Equal # Amp
    BY DEF Equal, Amp
  <1>2. PICK sep \in Seq(Int) : sep = <<Equal>>
    BY <1>1, OneElement
  <1>3. PICK name \in Seq(Int) : name = <<k>>
    BY <1>1, OneElement
  <1>4. PICK value \in Seq(Int) : value = UrlEncode(s)
    BY EncodeType
  <1>5. Nowhere(Amp, value) /\ Nowhere(Equal, value)
    BY <1>4, EncodeWithout
  <1>6. Nowhere(Amp, name) /\ Nowhere(Equal, name) /\ Nowhere(Amp, sep)
    BY <1>1, <1>2, <1>3, NowhereOne
  <1>7. name \o sep \in Seq(Int) /\ Nowhere(Amp, name \o sep)
    BY <1>6, NowhereConcat, ConcatProperties
  <1>8. /\ name \o sep \o value \in Seq(Int)
        /\ Nowhere(Amp, name \o sep \o value)
    BY <1>5, <1>7, NowhereConcat, ConcatProperties
  <1>9. bsplit(name \o sep \o value, Equal) = <<name, value>>
    BY <1>1, <1>2, <1>5, <1>6, SplitTwo
  <1>10. FormEntry(<<k>>, s) = name \o sep \o value
    BY <1>2, <1>3, <1>4 DEF FormEntry
  <1>11. QED BY <1>3, <1>4, <1>8, <1>9, <1>10

(* A form of three fields gives back what stands in each of them.          *)
THEOREM FormGivesBack ==
  ASSUME NEW s \in Typed, NEW t \in Typed, NEW u \in Typed, NEW form,
         form = bsplit(FormEntry(<< 120 >>, s) \o <<Amp>>
                         \o FormEntry(<< 121 >>, t) \o <<Amp>>
                         \o FormEntry(<< 122 >>, u), Amp)
  PROVE  /\ bcgi_urldecode(bcgi_query_key(form, << 120 >>)) = s
         /\ bcgi_urldecode(bcgi_query_key(form, << 121 >>)) = t
         /\ bcgi_urldecode(bcgi_query_key(form, << 122 >>)) = u
  <1>1. PICK x, y, z : /\ x = FormEntry(<< 120 >>, s)
                       /\ y = FormEntry(<< 121 >>, t)
                       /\ z = FormEntry(<< 122 >>, u)
    OBVIOUS
  <1>2. /\ x \in Seq(Int) /\ y \in Seq(Int) /\ z \in Seq(Int)
        /\ Nowhere(Amp, x) /\ Nowhere(Amp, y) /\ Nowhere(Amp, z)
        /\ bsplit(x, Equal) = << << 120 >>, UrlEncode(s) >>
        /\ bsplit(y, Equal) = << << 121 >>, UrlEncode(t) >>
        /\ bsplit(z, Equal) = << << 122 >>, UrlEncode(u) >>
    BY <1>1, EntryParts
  <1>3. Amp \in Int
    BY DEF Amp
  <1>4. form = <<x, y, z>>
    <2>1. form = bsplit(Glued(Amp, x, y, z), Amp)
      BY <1>1 DEF Glued
    <2>2. PICK A, c : A = Int /\ c = Amp
      OBVIOUS
    <2>3. /\ c \in A /\ x \in Seq(A) /\ y \in Seq(A) /\ z \in Seq(A)
          /\ Nowhere(c, x) /\ Nowhere(c, y) /\ Nowhere(c, z)
      BY <1>2, <1>3, <2>2
    <2>4. bsplit(Glued(c, x, y, z), c) = <<x, y, z>>
      BY <2>3, SplitThree
    <2>5. QED BY <2>1, <2>2, <2>4
  <1>5. Len(form) = 3 /\ form[1] = x /\ form[2] = y /\ form[3] = z
    BY <1>4
  <1>6. /\ bsplit(form[1], Equal)[1] = << 120 >>
        /\ bsplit(form[2], Equal)[1] = << 121 >>
        /\ bsplit(form[3], Equal)[1] = << 122 >>
    BY <1>2, <1>5
  <1>7. << 120 >> # << 121 >> /\ << 120 >> # << 122 >> /\ << 121 >> # << 122 >>
    OBVIOUS
  <1>8. \A n \in 1 .. 3, i \in 1 .. 3 :
          (bsplit(form[i], Equal)[1] = bsplit(form[n], Equal)[1]) <=> (i = n)
    BY <1>6, <1>7
  <1>9. \A n \in 1 .. 3 :
          bcgi_query_key(form, bsplit(form[n], Equal)[1])
            = bsplit(form[n], Equal)[2]
    BY <1>5, <1>8, QueryKeyOnly
  <1>10. /\ bcgi_query_key(form, << 120 >>) = UrlEncode(s)
         /\ bcgi_query_key(form, << 121 >>) = UrlEncode(t)
         /\ bcgi_query_key(form, << 122 >>) = UrlEncode(u)
    <2>1. /\ bsplit(form[1], Equal)[2] = UrlEncode(s)
          /\ bsplit(form[2], Equal)[2] = UrlEncode(t)
          /\ bsplit(form[3], Equal)[2] = UrlEncode(u)
      BY <1>2, <1>5
    <2>2. 1 \in 1 .. 3 /\ 2 \in 1 .. 3 /\ 3 \in 1 .. 3
      OBVIOUS
    <2>3. QED BY <1>6, <1>9, <2>1, <2>2
  <1>11. QED BY <1>10, DecodeUndoesEncode

(* What is typed, in whatever order, is a text.                            *)
LEMMA ReverseType ==
  ASSUME NEW s \in Typed PROVE Reverse(s) \in Typed
  <1>1. PICK n \in Nat : n = Len(s)
    BY LenProperties DEF Typed
  <1>2. \A i \in 1 .. n : s[i] \in 1 .. 255
    BY <1>1, ElementOfSeq DEF Typed
  <1> DEFINE r == [i \in 1 .. n |-> s[(n - i) + 1]]
  <1>3. r \in [1 .. n -> 1 .. 255]
    <2>1. \A i \in 1 .. n : (n - i) + 1 \in 1 .. n
      OBVIOUS
    <2>2. QED BY <1>2, <2>1
  <1>4. Reverse(s) = r
    BY <1>1 DEF Reverse
  <1> HIDE DEF r
  <1>5. QED BY <1>3, <1>4, MapIsSeq DEF Typed

TextTyped == typed \in Seq(Typeable)

LEMMA TypedBytes == TextTyped => typed \in Typed
  BY TextAssumption, SeqMonotonic DEF TextTyped, Typed

(* The first property, in a state.                                         *)
LEMMA FormField == TextTyped => FormFieldAsTyped
  <1> SUFFICES ASSUME TextTyped PROVE FormFieldAsTyped
    OBVIOUS
  <1>1. PICK s, t, u \in Typed : s = typed /\ t = <<>> /\ u = Reverse(typed)
    BY TypedBytes, ReverseType, EmptySeq DEF Typed
  <1>2. PICK form : form = bsplit(FormEntry(<< 120 >>, s) \o <<Amp>>
                                    \o FormEntry(<< 121 >>, t) \o <<Amp>>
                                    \o FormEntry(<< 122 >>, u), Amp)
    OBVIOUS
  <1>3. /\ bcgi_urldecode(bcgi_query_key(form, << 120 >>)) = s
        /\ bcgi_urldecode(bcgi_query_key(form, << 121 >>)) = t
        /\ bcgi_urldecode(bcgi_query_key(form, << 122 >>)) = u
    BY <1>2, FormGivesBack
  <1>4. 119 + 1 = 120 /\ 119 + 2 = 121 /\ 119 + 3 = 122
    OBVIOUS
  <1> DEFINE values == <<typed, <<>>, Reverse(typed)>>
             key(n) == <<119 + n>>
             f == bsplit(FormEntry(key(1), values[1]) \o <<Amp>>
                         \o FormEntry(key(2), values[2]) \o <<Amp>>
                         \o FormEntry(key(3), values[3]), Amp)
  <1>5. values[1] = s /\ values[2] = t /\ values[3] = u
    BY <1>1
  <1>6. key(1) = << 120 >> /\ key(2) = << 121 >> /\ key(3) = << 122 >>
    BY <1>4
  <1>7. f = form
    <2> HIDE DEF values, key
    <2>1. QED BY <1>2, <1>5, <1>6
  <1>8. \A n \in 1 .. 3 : bcgi_urldecode(bcgi_query_key(f, key(n))) = values[n]
    <2> HIDE DEF values, key, f
    <2>1. \A n \in 1 .. 3 : n = 1 \/ n = 2 \/ n = 3
      OBVIOUS
    <2>2. QED BY <1>3, <1>5, <1>6, <1>7, <2>1
  <1>9. QED BY <1>8 DEF FormFieldAsTyped

-----------------------------------------------------------------------------
(* btrimws.                                                                *)
Kept(s) == {i \in 1 .. Len(s) : s[i] \notin Whitespace}

(* btrimws cuts at the first and the last byte that is kept.               *)
LEMMA TrimKept ==
  ASSUME NEW A, NEW s \in Seq(A), Kept(s) # {}
  PROVE  /\ Min(Kept(s)) \in Kept(s) /\ Max(Kept(s)) \in Kept(s)
         /\ \A i \in Kept(s) : Min(Kept(s)) <= i /\ i <= Max(Kept(s))
         /\ Kept(s) \subseteq 1 .. Len(s) /\ Len(s) \in Nat
         /\ btrimws(s) = SubSeq(s, Min(Kept(s)), Max(Kept(s)))
  <1>1. PICK n \in Nat : n = Len(s)
    BY LenProperties
  <1>2. PICK K : K = Kept(s)
    OBVIOUS
  <1>3. K \subseteq 1 .. n /\ K \subseteq Nat /\ K # {}
    BY <1>1, <1>2 DEF Kept
  <1>4. Min(K) \in K /\ \A y \in K : Min(K) <= y
    BY <1>3, MinIn
  <1>5. Max(K) \in K /\ \A y \in K : Max(K) >= y
    BY <1>3, MaxIn
  <1>6. btrimws(s) = SubSeq(s, Min(K), Max(K))
    BY <1>2, <1>3 DEF btrimws, Kept
  <1>7. \A y \in K : y \in Int
    BY <1>3
  <1>8. QED BY <1>1, <1>2, <1>3, <1>4, <1>5, <1>6, <1>7

(* Of blanks alone nothing is left.                                        *)
LEMMA TrimNothing ==
  ASSUME NEW s, Kept(s) = {} PROVE btrimws(s) = <<>>
  BY DEF btrimws, Kept

(* A blank before a text makes no difference.                              *)
LEMMA TrimBlank ==
  ASSUME NEW A, Space \in A, NEW t \in Seq(A)
  PROVE  btrimws(<<Space>> \o t) = btrimws(t)
  <1>1. PICK w : w = <<Space>> \o t
    OBVIOUS
  <1>2. PICK n \in Nat : n = Len(t)
    BY LenProperties
  <1>3. w \in Seq(A) /\ Len(w) = n + 1 /\ w[1] = Space
        /\ \A i \in 1 .. n : w[i + 1] = t[i]
    <2>1. PICK u \in Seq(A) : u = <<Space>> /\ Len(u) = 1 /\ u[1] = Space
      BY OneElement
    <2>2. /\ w \in Seq(A) /\ Len(w) = 1 + n
          /\ \A i \in 1 .. 1 + n : w[i] = IF i <= 1 THEN u[i] ELSE t[i - 1]
      BY <1>1, <1>2, <2>1, ConcatProperties
    <2>3. \A i \in 1 .. n : i + 1 \in 1 .. 1 + n /\ (i + 1) - 1 = i
                            /\ ~ (i + 1 <= 1)
      OBVIOUS
    <2>4. QED BY <2>1, <2>2, <2>3
  <1>4. Space \in Whitespace
    BY DEF Space, Whitespace
  <1>5. \A i \in Kept(t) : i \in 1 .. n /\ i + 1 \in Kept(w)
    BY <1>2, <1>3 DEF Kept
  <1>6. \A i \in Kept(w) : i \in 2 .. n + 1 /\ i - 1 \in Kept(t)
    <2> SUFFICES ASSUME NEW i \in Kept(w)
                 PROVE  i \in 2 .. n + 1 /\ i - 1 \in Kept(t)
      OBVIOUS
    <2>1. i \in 1 .. n + 1 /\ w[i] \notin Whitespace
      BY <1>3 DEF Kept
    <2>2. i # 1
      BY <1>3, <1>4, <2>1
    <2>3. PICK j \in 1 .. n : i = j + 1 /\ j = i - 1
      BY <2>1, <2>2
    <2>4. w[i] = t[j]
      BY <1>3, <2>3
    <2>5. j \in Kept(t)
      BY <1>2, <2>1, <2>4 DEF Kept
    <2>6. QED BY <2>3, <2>5
  <1>7. CASE Kept(t) = {}
    <2>1. Kept(w) = {}
      BY <1>6, <1>7
    <2>2. QED BY <1>1, <1>7, <2>1, TrimNothing
  <1>8. CASE Kept(t) # {}
    <2>1. Kept(w) # {}
      BY <1>5, <1>8
    <2>2. PICK a, b : a = Min(Kept(t)) /\ b = Max(Kept(t))
      OBVIOUS
    <2>3. /\ a \in Kept(t) /\ b \in Kept(t)
          /\ \A i \in Kept(t) : a <= i /\ i <= b
          /\ btrimws(t) = SubSeq(t, a, b)
      BY <1>8, <2>2, TrimKept
    <2>4. a \in 1 .. n /\ b \in 1 .. n /\ a <= b
      BY <1>5, <2>3
    <2>5. PICK c, d : c = a + 1 /\ d = b + 1
      OBVIOUS
    <2>6. /\ c \in Kept(w) /\ d \in Kept(w) /\ c \in Int /\ d \in Int
          /\ \A i \in Kept(w) : c <= i /\ d >= i
      <3>1. c \in Kept(w) /\ d \in Kept(w) /\ c \in Int /\ d \in Int
        BY <1>5, <2>3, <2>4, <2>5
      <3>2. ASSUME NEW i \in Kept(w) PROVE c <= i /\ d >= i
        <4>1. i \in 2 .. n + 1 /\ i - 1 \in Kept(t)
          BY <1>6
        <4>2. a <= i - 1 /\ i - 1 <= b
          BY <2>3, <4>1
        <4>3. QED BY <2>4, <2>5, <4>1, <4>2
      <3>3. QED BY <3>1, <3>2
    <2>7. Kept(w) \subseteq Int
      BY <1>6
    <2>8. Min(Kept(w)) = c /\ Max(Kept(w)) = d
      BY <2>6, <2>7, MinIs, MaxIs
    <2>9. btrimws(w) = SubSeq(w, c, d)
      BY <1>3, <2>1, <2>8, TrimKept
    <2>10. SubSeq(w, c, d) = SubSeq(t, a, b)
      <3>1. \A i \in a .. b : t[i] \in A
        BY <1>2, <2>4, ElementOfSeq
      <3>2. \A i \in c .. d : w[i] \in A
        <4>1. c .. d \subseteq 1 .. n + 1
          BY <2>4, <2>5
        <4>2. QED BY <1>3, <4>1, ElementOfSeq
      <3>3. PICK m \in Nat : m = b - a + 1 /\ m = d - c + 1
        BY <2>4, <2>5
      <3>4. /\ SubSeq(t, a, b) \in Seq(A) /\ Len(SubSeq(t, a, b)) = m
            /\ \A i \in 1 .. m : SubSeq(t, a, b)[i] = t[a + i - 1]
        BY <2>4, <3>1, <3>3, SubSeqProperties
      <3>5. /\ SubSeq(w, c, d) \in Seq(A) /\ Len(SubSeq(w, c, d)) = m
            /\ \A i \in 1 .. m : SubSeq(w, c, d)[i] = w[c + i - 1]
        BY <2>4, <2>5, <2>6, <3>2, <3>3, SubSeqProperties
      <3>6. \A i \in 1 .. m : w[c + i - 1] = t[a + i - 1]
        <4> SUFFICES ASSUME NEW i \in 1 .. m
                     PROVE  w[c + i - 1] = t[a + i - 1]
          OBVIOUS
        <4>1. PICK j \in 1 .. n : j = a + i - 1 /\ c + i - 1 = j + 1
          BY <2>4, <2>5, <3>3
        <4>2. QED BY <1>3, <4>1
      <3>7. QED BY <3>4, <3>5, <3>6, SeqEqual
    <2>11. QED BY <1>1, <2>3, <2>9, <2>10
  <1>9. QED BY <1>7, <1>8

(* Nothing is cut off before a text that does not begin with a blank, and  *)
(* nothing at all if it does not end with one either.                      *)
LEMMA TrimTail ==
  ASSUME NEW A, NEW s \in Seq(A), NEW k \in 1 .. Len(s),
         s[1] \notin Whitespace, s[k] \notin Whitespace
  PROVE  \E m \in k .. Len(s) : btrimws(s) = SubSeq(s, 1, m)
  <1>1. Len(s) \in Nat
    BY LenProperties
  <1>2. k \in Kept(s) /\ 1 \in Kept(s)
    BY <1>1 DEF Kept
  <1>3. PICK a, b : /\ a = Min(Kept(s)) /\ b = Max(Kept(s))
                    /\ a \in Kept(s) /\ b \in Kept(s)
                    /\ \A i \in Kept(s) : a <= i /\ i <= b
                    /\ Kept(s) \subseteq 1 .. Len(s)
                    /\ btrimws(s) = SubSeq(s, a, b)
    BY <1>2, TrimKept
  <1>4. a \in 1 .. Len(s) /\ b \in 1 .. Len(s) /\ a <= 1 /\ k <= b
    BY <1>2, <1>3
  <1>5. a = 1 /\ b \in k .. Len(s)
    BY <1>1, <1>4
  <1>6. QED BY <1>3, <1>5

(* A text that begins and ends with no blank is left as it is.             *)
LEMMA TrimWhole ==
  ASSUME NEW A, NEW s \in Seq(A), s # <<>>,
         s[1] \notin Whitespace, s[Len(s)] \notin Whitespace
  PROVE  btrimws(s) = s
  <1>1. Len(s) \in Nat /\ Len(s) \in 1 .. Len(s)
    BY EmptySeq
  <1>2. PICK m \in Len(s) .. Len(s) : btrimws(s) = SubSeq(s, 1, m)
    BY <1>1, TrimTail
  <1>3. m = Len(s)
    BY <1>1
  <1>4. QED BY <1>2, <1>3, SubSeqFull

-----------------------------------------------------------------------------
(* The line of a PRIVMSG.                                                  *)
Bytes == Int

(* What is typed is a sequence of bytes.                                   *)
LEMMA TypedIsBytes == TextTyped => typed \in Seq(Bytes)
  <1>1. 1 .. 255 \subseteq Bytes
    BY DEF Bytes
  <1>2. QED BY <1>1, TypedBytes, SeqMonotonic DEF Typed

(* bstrchr finds the first of its kind.                                    *)
LEMMA FirstAt ==
  ASSUME NEW s, Len(s) \in Nat, NEW k \in 1 .. Len(s), NEW c, s[k] = c,
         \A i \in 1 .. k - 1 : s[i] # c
  PROVE  bstrchr(s, c) = k - 1
  <1> DEFINE at == {i \in 1 .. Len(s) : s[i] = c}
  <1>1. k \in at /\ at \subseteq Int /\ at # {}
    OBVIOUS
  <1>2. \A i \in at : k <= i
    OBVIOUS
  <1>3. Min(at) = k
    <2> HIDE DEF at
    <2>1. QED BY <1>1, <1>2, MinIs
  <1>4. QED BY <1>1, <1>3 DEF bstrchr

(* A concatenation, place by place.                                        *)
LEMMA ConcatParts ==
  ASSUME NEW A, NEW p \in Seq(A), NEW q \in Seq(A), NEW w, w = p \o q,
         NEW m \in Nat, m = Len(p)
  PROVE  /\ w \in Seq(A) /\ Len(q) \in Nat /\ Len(w) = m + Len(q)
         /\ \A i \in 1 .. m : w[i] = p[i]
         /\ \A i \in 1 .. Len(q) : w[m + i] = q[i]
  <1>1. PICK n \in Nat : n = Len(q)
    BY LenProperties
  <1>2. /\ w \in Seq(A) /\ Len(w) = m + n
        /\ \A i \in 1 .. m + n : w[i] = IF i <= m THEN p[i] ELSE q[i - m]
    BY <1>1, ConcatProperties
  <1>3. \A i \in 1 .. m : w[i] = p[i]
    BY <1>2
  <1>4. \A i \in 1 .. n : w[m + i] = q[i]
    <2> SUFFICES ASSUME NEW i \in 1 .. n PROVE w[m + i] = q[i]
      OBVIOUS
    <2>1. PICK j \in 1 .. m + n : j = m + i /\ j - m = i /\ ~ (j <= m)
      OBVIOUS
    <2>2. QED BY <1>2, <2>1
  <1>5. QED BY <1>1, <1>2, <1>3, <1>4

Concat(w, p, q) ==
  /\ Len(w) = Len(p) + Len(q)
  /\ \A i \in 1 .. Len(p) : w[i] = p[i]
  /\ \A i \in 1 .. Len(q) : w[Len(p) + i] = q[i]

LEMMA ConcatIs ==
  ASSUME NEW A, NEW p \in Seq(A), NEW q \in Seq(A)
  PROVE  p \o q \in Seq(A) /\ Concat(p \o q, p, q)
  <1>1. PICK w : w = p \o q
    OBVIOUS
  <1>2. PICK m \in Nat : m = Len(p)
    BY LenProperties
  <1>3. QED BY <1>1, <1>2, ConcatParts DEF Concat

(* The line chat.js sends, place by place.                                 *)
LEMMA SendIs ==
  ASSUME NEW t \in Seq(Bytes), NEW w, w = SendLine(t)
  PROVE  /\ w \in Seq(Bytes)
         /\ Len(t) \in Nat
         /\ Len(w) = 10 + Len(t)
         /\ \A i \in 1 .. 7 : w[i] = PRIVMSG[i]
         /\ w[8] = Space /\ w[9] = Colon /\ w[10] = Space
         /\ \A i \in 1 .. Len(t) : w[10 + i] = t[i]
  <1>1. PICK p, h, v : /\ p = PRIVMSG /\ h = <<Space, Colon, Space>>
                       /\ v = p \o h
    OBVIOUS
  <1>2. p \in Seq(Bytes) /\ Len(p) = 7
    BY <1>1 DEF PRIVMSG, Bytes
  <1>3. /\ h \in Seq(Bytes) /\ Len(h) = 3
        /\ h[1] = Space /\ h[2] = Colon /\ h[3] = Space
    BY <1>1 DEF Space, Colon, Bytes
  <1>4. w = v \o t
    BY <1>1 DEF SendLine
  <1>5. PICK m, k \in Nat : m = 7 /\ k = 10
    OBVIOUS
  <1>6. /\ v \in Seq(Bytes) /\ Len(v) = m + Len(h)
        /\ \A i \in 1 .. m : v[i] = p[i]
        /\ \A i \in 1 .. Len(h) : v[m + i] = h[i]
    <2>1. v = p \o h /\ p \in Seq(Bytes) /\ h \in Seq(Bytes)
      BY <1>1, <1>2, <1>3
    <2>2. v \in Seq(Bytes) /\ Concat(v, p, h)
      BY <2>1, ConcatIs
    <2>3. m = Len(p)
      BY <1>2, <1>5
    <2>4. QED BY <2>2, <2>3 DEF Concat
  <1>7. Len(v) = k /\ v[8] = h[1] /\ v[9] = h[2] /\ v[10] = h[3]
    <2>1. /\ Len(v) = 7 + 3
          /\ \A i \in 1 .. 3 : v[7 + i] = h[i]
      BY <1>3, <1>5, <1>6
    <2>2. QED BY <1>5, <2>1, 7 + 1 = 8, 7 + 2 = 9, 7 + 3 = 10
  <1>8. /\ w \in Seq(Bytes) /\ Len(t) \in Nat /\ Len(w) = k + Len(t)
        /\ \A i \in 1 .. k : w[i] = v[i]
        /\ \A i \in 1 .. Len(t) : w[k + i] = t[i]
    <2>1. v \in Seq(Bytes)
      BY <1>6
    <2>2. w \in Seq(Bytes) /\ Concat(w, v, t)
      BY <1>4, <2>1, ConcatIs
    <2>3. k = Len(v)
      BY <1>7
    <2>4. QED BY <2>2, <2>3, LenProperties DEF Concat
  <1>9. \A i \in 1 .. 7 : w[i] = PRIVMSG[i]
    <2>1. \A i \in 1 .. 7 : w[i] = p[i]
      BY <1>5, <1>6, <1>8
    <2>2. p = PRIVMSG
      BY <1>1
    <2>3. QED BY <2>1, <2>2
  <1>10. w[8] = Space /\ w[9] = Colon /\ w[10] = Space
    BY <1>3, <1>5, <1>7, <1>8
  <1>11. QED BY <1>5, <1>8, <1>9, <1>10

(* Its first space is the one after the command, its first colon the one   *)
(* before the text.                                                        *)
LEMMA SendSpace ==
  ASSUME NEW t \in Seq(Bytes), NEW w, w = SendLine(t)
  PROVE  bstrchr(w, Space) = 7 /\ bstrchr(w, Colon) = 8
  <1>1. PICK n \in Nat : n = Len(w) /\ n >= 10
    <2>1. Len(t) \in Nat /\ Len(w) = 10 + Len(t)
      BY SendIs
    <2>2. QED BY <2>1
  <1>2. /\ w[8] = Space /\ w[9] = Colon
        /\ \A i \in 1 .. 7 : w[i] = PRIVMSG[i]
    BY SendIs
  <1>3. \A i \in 1 .. 7 : PRIVMSG[i] \in 65 .. 90
    <2>1. /\ PRIVMSG[1] = 80 /\ PRIVMSG[2] = 82 /\ PRIVMSG[3] = 73
          /\ PRIVMSG[4] = 86 /\ PRIVMSG[5] = 77 /\ PRIVMSG[6] = 83
          /\ PRIVMSG[7] = 71
      BY DEF PRIVMSG
    <2>2. /\ PRIVMSG[1] \in 65 .. 90 /\ PRIVMSG[2] \in 65 .. 90
          /\ PRIVMSG[3] \in 65 .. 90 /\ PRIVMSG[4] \in 65 .. 90
          /\ PRIVMSG[5] \in 65 .. 90 /\ PRIVMSG[6] \in 65 .. 90
          /\ PRIVMSG[7] \in 65 .. 90
      BY <2>1
    <2>3. \A i \in 1 .. 7 : i = 1 \/ i = 2 \/ i = 3 \/ i = 4 \/ i = 5
                            \/ i = 6 \/ i = 7
      OBVIOUS
    <2>4. QED BY <2>2, <2>3
  <1>4. Space \notin 65 .. 90 /\ Colon \notin 65 .. 90 /\ Space # Colon
    BY DEF Space, Colon
  <1>5. \A i \in 1 .. 7 : w[i] # Space /\ w[i] # Colon
    BY <1>2, <1>3, <1>4
  <1>6. \A i \in 1 .. 8 : w[i] # Colon
    <2>1. \A i \in 1 .. 8 : i \in 1 .. 7 \/ i = 8
      OBVIOUS
    <2>2. QED BY <1>2, <1>4, <1>5, <2>1
  <1>7. bstrchr(w, Space) = 7
    <2>1. PICK k \in 1 .. n : k = 8 /\ k - 1 = 7
      BY <1>1
    <2>2. w[k] = Space /\ \A i \in 1 .. k - 1 : w[i] # Space
      BY <1>2, <1>5, <2>1
    <2>3. bstrchr(w, Space) = k - 1
      BY <1>1, <2>2, FirstAt
    <2>4. QED BY <2>1, <2>3
  <1>8. bstrchr(w, Colon) = 8
    <2>1. PICK k \in 1 .. n : k = 9 /\ k - 1 = 8
      BY <1>1
    <2>2. w[k] = Colon /\ \A i \in 1 .. k - 1 : w[i] # Colon
      BY <1>2, <1>6, <2>1
    <2>3. bstrchr(w, Colon) = k - 1
      BY <1>1, <2>2, FirstAt
    <2>4. QED BY <2>1, <2>3
  <1>9. QED BY <1>7, <1>8

(* rtproto_command takes it for a PRIVMSG.                                 *)
LEMMA SendIsPrivmsg ==
  ASSUME NEW t \in Seq(Bytes)
  PROVE  IsPrivmsg(SendLine(t))
  <1>1. PICK w : w = SendLine(t)
    OBVIOUS
  <1>2. bstrchr(w, Space) = 7
    BY <1>1, SendSpace
  <1>3. PICK n \in Nat : n = Len(w) /\ n >= 10
    <2>1. Len(t) \in Nat /\ Len(w) = 10 + Len(t)
      BY <1>1, SendIs
    <2>2. QED BY <2>1
  <1>4. Len(PRIVMSG) = 7
    BY DEF PRIVMSG
  <1>5. Min({7, n, 7}) = 7
    <2>1. PICK T : T = {7, n, 7}
      OBVIOUS
    <2>2. T \subseteq Int /\ 7 \in T /\ \A y \in T : 7 <= y
      BY <1>3, <2>1
    <2>3. Min(T) = 7
      BY <2>2, MinIs
    <2>4. QED BY <2>1, <2>3
  <1>6. \A i \in 1 .. 7 : w[i] = PRIVMSG[i]
    BY <1>1, SendIs
  <1>7. bstreqn(w, PRIVMSG, 7)
    BY <1>3, <1>4, <1>5, <1>6 DEF bstreqn
  <1>8. QED BY <1>1, <1>2, <1>7 DEF IsPrivmsg

(* rtproto_cmd_privmsg takes the trimmed text from it.                     *)
LEMMA SendText ==
  ASSUME NEW t \in Seq(Bytes)
  PROVE  PrivmsgText(SendLine(t))
           = IF btrimws(t) = <<>> THEN Null ELSE btrimws(t)
  <1>1. PICK w : w = SendLine(t)
    OBVIOUS
  <1>2. PICK n \in Nat : n = Len(t)
    BY LenProperties
  <1>3. /\ w \in Seq(Bytes) /\ Len(w) = 10 + n /\ w[10] = Space
        /\ \A i \in 1 .. n : w[10 + i] = t[i]
    BY <1>1, <1>2, SendIs
  <1>4. bstrchr(w, Colon) = 8
    BY <1>1, SendSpace
  <1>5. Space \in Bytes
    BY DEF Space, Bytes
  <1>6. PICK m : m = 10 + n
    OBVIOUS
  <1>7. SubSeq(w, 10, m) = <<Space>> \o t
    <2>1. PICK sp \in Seq(Bytes) : sp = <<Space>> /\ Len(sp) = 1 /\ sp[1] = Space
      BY <1>5, OneElement
    <2>2. PICK u, v : u = SubSeq(w, 10, m) /\ v = sp \o t
      OBVIOUS
    <2>3. /\ v \in Seq(Bytes) /\ Len(v) = 1 + n
          /\ \A i \in 1 .. 1 : v[i] = sp[i]
          /\ \A i \in 1 .. n : v[1 + i] = t[i]
      BY <1>2, <2>1, <2>2, 1 \in Nat, ConcatParts
    <2>4. \A i \in 10 .. m : w[i] \in Bytes
      BY <1>3, <1>6, ElementOfSeq
    <2>5. /\ u \in Seq(Bytes) /\ Len(u) = 1 + n
          /\ \A i \in 1 .. 1 + n : u[i] = w[10 + i - 1]
      <3>1. m \in Int /\ 10 <= m /\ m - 10 + 1 = 1 + n
        BY <1>6
      <3>2. /\ SubSeq(w, 10, m) \in Seq(Bytes)
            /\ Len(SubSeq(w, 10, m)) = IF 10 <= m THEN m - 10 + 1 ELSE 0
            /\ \A i \in 1 .. m - 10 + 1 : SubSeq(w, 10, m)[i] = w[10 + i - 1]
        BY <2>4, <3>1, SubSeqProperties
      <3>3. QED BY <2>2, <3>1, <3>2
    <2>6. \A i \in 1 .. 1 + n : u[i] = v[i]
      <3> SUFFICES ASSUME NEW i \in 1 .. 1 + n PROVE u[i] = v[i]
        OBVIOUS
      <3>1. CASE i = 1
        <4>1. 10 + i - 1 = 10 /\ i \in 1 .. 1
          BY <3>1
        <4>2. u[i] = w[10] /\ v[i] = sp[1]
          BY <2>3, <2>5, <3>1, <4>1
        <4>3. QED BY <1>3, <2>1, <4>2
      <3>2. CASE i # 1
        <4>1. PICK j \in 1 .. n : i = 1 + j /\ 10 + i - 1 = 10 + j
          BY <3>2
        <4>2. u[i] = w[10 + j] /\ v[i] = t[j]
          BY <2>3, <2>5, <4>1
        <4>3. QED BY <1>3, <4>2
      <3>3. QED BY <3>1, <3>2
    <2>7. u = v
      BY <2>3, <2>5, <2>6, SeqEqual
    <2>8. QED BY <2>1, <2>2, <2>7
  <1>8. btrimws(SubSeq(w, 10, m)) = btrimws(t)
    BY <1>5, <1>7, TrimBlank
  <1>9. PrivmsgText(w) = IF btrimws(t) = <<>> THEN Null ELSE btrimws(t)
    <2>1. 8 + 2 = 10 /\ ~ (8 <= 0) /\ ~ (m <= 8 + 1)
      BY <1>6
    <2>2. QED BY <1>3, <1>4, <1>6, <1>8, <2>1 DEF PrivmsgText
  <1>10. QED BY <1>1, <1>9

(* The third property, in a state.                                         *)
LEMMA Line == TextTyped => LineAsTyped
  <1> SUFFICES ASSUME TextTyped PROVE LineAsTyped
    OBVIOUS
  <1>1. QED BY TypedIsBytes, SendIsPrivmsg, SendText DEF LineAsTyped

-----------------------------------------------------------------------------
(* The cookies.                                                            *)
LEMMA PaddingOff ==
  ASSUME NEW s \in Seq(Bytes), Nowhere(Equal, s), NEW n \in Nat
  PROVE  TrimPadding(s \o [i \in 1 .. n |-> Equal]) = s
  <1>1. PICK p, w : p = [i \in 1 .. n |-> Equal] /\ w = s \o p
    OBVIOUS
  <1>2. PICK k \in Nat : k = Len(s)
    BY LenProperties
  <1>3. Equal \in Bytes
    BY DEF Equal, Bytes
  <1>4. p \in Seq(Bytes) /\ Len(p) = n
    <2>1. p \in [1 .. n -> Bytes]
      BY <1>1, <1>3
    <2>2. QED BY <2>1, MapIsSeq
  <1>5. w \in Seq(Bytes) /\ Concat(w, s, p)
    BY <1>1, <1>4, ConcatIs
  <1>6. /\ Len(w) = k + n
        /\ \A i \in 1 .. k : w[i] = s[i]
        /\ \A i \in 1 .. n : w[k + i] = Equal
    <2>1. \A i \in 1 .. n : p[i] = Equal
      BY <1>1
    <2>2. QED BY <1>2, <1>4, <1>5, <2>1 DEF Concat
  <1>7. Range(w) = {w[i] : i \in 1 .. Len(w)}
    BY <1>5, LenProperties DEF Range
  <1>8. CASE n = 0
    <2>1. p = <<>>
      BY <1>4, <1>8, EmptySeq
    <2>2. w = s
      BY <1>1, <2>1, ConcatEmptySeq
    <2>3. Equal \notin Range(w)
      BY <1>7, <2>2 DEF Nowhere
    <2>4. QED BY <1>1, <2>2, <2>3 DEF TrimPadding
  <1>9. CASE n # 0
    <2>1. PICK j \in 1 .. k + n : j = k + 1 /\ j - 1 = k
      BY <1>9
    <2>2. w[j] = Equal
      BY <1>6, <1>9, <2>1, 1 \in 1 .. n
    <2>3. \A i \in 1 .. j - 1 : w[i] # Equal
      BY <1>2, <1>6, <2>1 DEF Nowhere
    <2>4. bstrchr(w, Equal) = k
      <3>1. Len(w) \in Nat /\ j \in 1 .. Len(w)
        BY <1>6
      <3>2. bstrchr(w, Equal) = j - 1
        BY <2>2, <2>3, <3>1, FirstAt
      <3>3. QED BY <2>1, <3>2
    <2>5. Equal \in Range(w)
      BY <1>6, <1>7, <2>1, <2>2
    <2>6. TrimPadding(w) = SubSeq(w, 1, k)
      BY <2>4, <2>5 DEF TrimPadding
    <2>7. SubSeq(w, 1, k) = s
      <3>1. PICK u : u = SubSeq(w, 1, k)
        OBVIOUS
      <3>2. \A i \in 1 .. k : w[i] \in Bytes
        BY <1>2, <1>6, ElementOfSeq
      <3>3. /\ u \in Seq(Bytes) /\ Len(u) = k
            /\ \A i \in 1 .. k : u[i] = w[i]
        <4>1. /\ SubSeq(w, 1, k) \in Seq(Bytes)
              /\ Len(SubSeq(w, 1, k)) = IF 1 <= k THEN k - 1 + 1 ELSE 0
              /\ \A i \in 1 .. k - 1 + 1 : SubSeq(w, 1, k)[i] = w[1 + i - 1]
          BY <3>2, SubSeqProperties
        <4>2. k - 1 + 1 = k /\ (~ (1 <= k) => k = 0)
              /\ \A i \in 1 .. k : 1 + i - 1 = i
          OBVIOUS
        <4>3. QED BY <3>1, <4>1, <4>2
      <3>4. \A i \in 1 .. k : u[i] = s[i]
        BY <1>6, <3>3
      <3>5. u = s
        BY <1>2, <3>3, <3>4, SeqEqual
      <3>6. QED BY <3>1, <3>5
    <2>8. QED BY <1>1, <2>6, <2>7
  <1>10. QED BY <1>8, <1>9

Plain == Base64 \cup {Equal}

(* Base64 has none of the bytes that separate or blank cookies.            *)
LEMMA PlainBytes ==
  /\ Plain \subseteq Bytes /\ Base64 \subseteq Plain /\ Equal \in Plain
  /\ Semicolon \notin Plain /\ Plain \cap Whitespace = {}
  /\ Equal \notin Base64
  BY DEF Plain, Base64, Equal, Semicolon, Whitespace, Bytes

LEMMA NotIn ==
  ASSUME NEW A, NEW s \in Seq(A), NEW c, c \notin A
  PROVE  Nowhere(c, s)
  BY ElementOfSeq DEF Nowhere

(* The cookie of the session and any other one, by themselves.             *)
LEMMA SessionCookie ==
  ASSUME NEW s \in Seq(Base64), NEW w, w = SessionKey \o <<Equal>> \o s
  PROVE  /\ w \in Seq(Bytes) /\ Nowhere(Semicolon, w)
         /\ btrimws(w) = w
         /\ bsplit(w, Equal) = <<SessionKey, s>>
  <1>1. PICK key : key = SessionKey
    OBVIOUS
  <1>2. key \in Seq(Base64) /\ Len(key) = 7
    BY <1>1 DEF SessionKey, Base64
  <1>3. key \in Seq(Plain) /\ s \in Seq(Plain)
    BY <1>2, PlainBytes, SeqMonotonic
  <1>4. PICK sep \in Seq(Plain) : sep = <<Equal>>
    BY PlainBytes, OneElement
  <1>5. PICK head : head = key \o sep
    OBVIOUS
  <1>6. head \in Seq(Plain)
    BY <1>3, <1>5, ConcatProperties
  <1>7. w = head \o s
    BY <1>1, <1>4, <1>5
  <1>8. w \in Seq(Plain)
    BY <1>3, <1>6, <1>7, ConcatProperties
  <1>9. w \in Seq(Bytes) /\ Nowhere(Semicolon, w)
    BY <1>8, PlainBytes, SeqMonotonic, NotIn
  <1>10. btrimws(w) = w
    <2>1. w # <<>>
      <3>1. Concat(head, key, sep) /\ Concat(w, head, s)
        BY <1>3, <1>4, <1>5, <1>6, <1>7, ConcatIs
      <3>2. Len(w) = Len(head) + Len(s) /\ Len(head) = 7 + Len(sep)
        BY <1>2, <3>1 DEF Concat
      <3>3. Len(s) \in Nat /\ Len(sep) \in Nat
        BY <1>3, <1>4, LenProperties
      <3>4. Len(w) # 0
        BY <3>2, <3>3
      <3>5. QED BY <3>4, EmptySeq
    <2>2. 1 \in 1 .. Len(w) /\ Len(w) \in 1 .. Len(w)
      BY <1>8, <2>1, EmptySeq
    <2>3. w[1] \in Plain /\ w[Len(w)] \in Plain
      BY <1>8, <2>2, ElementOfSeq
    <2>4. w[1] \notin Whitespace /\ w[Len(w)] \notin Whitespace
      BY <2>3, PlainBytes
    <2>5. QED BY <1>8, <2>1, <2>4, TrimWhole
  <1>11. bsplit(w, Equal) = <<key, s>>
    <2>1. Nowhere(Equal, key) /\ Nowhere(Equal, s)
      BY <1>2, PlainBytes, NotIn
    <2>2. bsplit(key \o <<Equal>> \o s, Equal) = <<key, s>>
      BY <1>3, <2>1, PlainBytes, SplitTwo
    <2>3. QED BY <1>1, <2>2
  <1>12. QED BY <1>1, <1>9, <1>10, <1>11

LEMMA OtherCookie ==
  ASSUME NEW r \in Seq(Bytes), Nowhere(Semicolon, r),
         NEW w, w = <<120, Equal>> \o r
  PROVE  /\ w \in Seq(Bytes) /\ Nowhere(Semicolon, w)
         /\ bsplit(btrimws(w), Equal)[1] = << 120 >>
  <1>1. PICK x, one, sep : x = 120 /\ one = <<x>> /\ sep = <<Equal>>
    OBVIOUS
  <1>2. /\ x \in Bytes /\ Equal \in Bytes /\ x # Semicolon /\ x # Equal
        /\ Equal # Semicolon /\ x \notin Whitespace /\ Equal \notin Whitespace
    BY <1>1 DEF Bytes, Equal, Semicolon, Whitespace
  <1>3. one \in Seq(Bytes) /\ sep \in Seq(Bytes)
    BY <1>1, <1>2, OneElement
  <1>4. PICK key : key = <<x, Equal>>
    OBVIOUS
  <1>5. key = one \o sep
    BY <1>1, <1>2, <1>4, Tuples
  <1>6. key \in Seq(Bytes)
    BY <1>3, <1>5, ConcatProperties
  <1>7. Len(key) = 2 /\ key[1] = x /\ key[2] = Equal
    BY <1>4
  <1>8. w = key \o r
    BY <1>1, <1>4
  <1>9. w \in Seq(Bytes) /\ Concat(w, key, r)
    BY <1>6, <1>8, ConcatIs
  <1>10. PICK n \in Nat : n = Len(r)
    BY LenProperties
  <1>11. /\ Len(w) = 2 + n /\ w[1] = x /\ w[2] = Equal
    BY <1>7, <1>9, <1>10 DEF Concat
  <1>12. Nowhere(Semicolon, w)
    <2>1. Nowhere(Semicolon, one) /\ Nowhere(Semicolon, sep)
      BY <1>1, <1>2, NowhereOne
    <2>2. Nowhere(Semicolon, key)
      BY <1>3, <1>5, <2>1, NowhereConcat
    <2>3. QED BY <1>6, <1>8, <2>2, NowhereConcat
  <1>13. PICK m \in 2 .. 2 + n : btrimws(w) = SubSeq(w, 1, m)
    <2>1. PICK k \in 1 .. Len(w) : k = 2 /\ k .. Len(w) = 2 .. 2 + n
      BY <1>11
    <2>2. PICK j \in k .. Len(w) : btrimws(w) = SubSeq(w, 1, j)
      BY <1>2, <1>9, <1>11, <2>1, TrimTail
    <2>3. QED BY <2>1, <2>2
  <1>14. PICK u : u = SubSeq(w, 3, m)
    OBVIOUS
  <1>15. SubSeq(w, 1, m) = one \o sep \o u /\ u \in Seq(Bytes)
    <2>1. m \in 1 .. Len(w) /\ m \in Int /\ 2 <= m
      BY <1>11
    <2>2. SubSeq(w, 1, m) = SubSeq(w, 1, 2) \o SubSeq(w, 3, m)
      <3>1. /\ 1 \in 1 .. Len(w) + 1 /\ 2 \in 1 - 1 .. Len(w)
            /\ m \in 2 .. Len(w) /\ 2 + 1 = 3
        BY <1>11
      <3>2. QED BY <1>9, <3>1, ConcatAdjacentSubSeq
    <2>3. SubSeq(w, 1, 2) = key
      <3>1. PICK v : v = SubSeq(w, 1, 2)
        OBVIOUS
      <3>2. /\ v \in Seq(Bytes) /\ Len(v) = 2
            /\ \A i \in 1 .. 2 : v[i] = w[i]
        <4>1. \A i \in 1 .. 2 : w[i] \in Bytes
          BY <1>9, <1>11, ElementOfSeq
        <4>2. /\ SubSeq(w, 1, 2) \in Seq(Bytes)
              /\ Len(SubSeq(w, 1, 2)) = IF 1 <= 2 THEN 2 - 1 + 1 ELSE 0
              /\ \A i \in 1 .. 2 - 1 + 1 : SubSeq(w, 1, 2)[i] = w[1 + i - 1]
          BY <4>1, SubSeqProperties
        <4>3. \A i \in 1 .. 2 : 1 + i - 1 = i
          OBVIOUS
        <4>4. QED BY <3>1, <4>2, <4>3
      <3>3. \A i \in 1 .. 2 : v[i] = key[i]
        <4>1. \A i \in 1 .. 2 : i = 1 \/ i = 2
          OBVIOUS
        <4>2. QED BY <1>7, <1>11, <3>2, <4>1
      <3>4. v = key
        BY <1>6, <1>7, <3>2, <3>3, SeqEqual
      <3>5. QED BY <3>1, <3>2, <3>4
    <2>4. u \in Seq(Bytes)
      <3>1. \A i \in 3 .. m : w[i] \in Bytes
        BY <1>9, <1>11, ElementOfSeq
      <3>2. 3 \in Int /\ m \in Int
        OBVIOUS
      <3>3. SubSeq(w, 3, m) \in Seq(Bytes)
        BY <3>1, <3>2, SubSeqProperties
      <3>4. QED BY <1>14, <3>3
    <2>5. QED BY <1>5, <1>14, <2>2, <2>3, <2>4
  <1>16. bsplit(one \o <<Equal>> \o u, Equal) = <<one>> \o bsplit(u, Equal)
    <2>1. Nowhere(Equal, one)
      BY <1>1, <1>2, NowhereOne
    <2>2. QED BY <1>2, <1>3, <1>15, <2>1, SplitFirst
  <1>17. (<<one>> \o bsplit(u, Equal))[1] = one
    <2>1. PICK p, q : p = <<one>> /\ q = bsplit(u, Equal)
      OBVIOUS
    <2>2. p \in Seq(Seq(Bytes)) /\ Len(p) = 1 /\ p[1] = one
      BY <1>3, <2>1, OneElement
    <2>3. q \in Seq(Seq(Bytes))
      BY <1>15, <2>1, SplitType
    <2>4. Concat(p \o q, p, q)
      BY <2>2, <2>3, ConcatIs
    <2>5. (p \o q)[1] = p[1]
      BY <2>2, <2>4, 1 \in 1 .. 1 DEF Concat
    <2>6. QED BY <2>1, <2>2, <2>5
  <1>18. QED BY <1>1, <1>9, <1>12, <1>13, <1>15, <1>16, <1>17

(* The blank after a semicolon is trimmed away.                            *)
LEMMA BlankPart ==
  ASSUME NEW w \in Seq(Bytes), Nowhere(Semicolon, w), NEW b, b = <<Space>> \o w
  PROVE  /\ b \in Seq(Bytes) /\ Nowhere(Semicolon, b)
         /\ btrimws(b) = btrimws(w)
  <1>1. Space \in Bytes /\ Space # Semicolon
    BY DEF Space, Semicolon, Bytes
  <1>2. <<Space>> \in Seq(Bytes) /\ Nowhere(Semicolon, <<Space>>)
    BY <1>1, OneElement, NowhereOne
  <1>3. b \in Seq(Bytes) /\ Nowhere(Semicolon, b)
    BY <1>2, ConcatProperties, NowhereConcat
  <1>4. QED BY <1>1, <1>3, TrimBlank

SessionPart(s) == SessionKey \o <<Equal>> \o s
OtherPart(r) == <<120, Equal>> \o r
Header(v, w) == v \o <<Semicolon, Space>> \o w

(* The parts of a header of two cookies.                                   *)
LEMMA HeaderParts ==
  ASSUME NEW v \in Seq(Bytes), NEW w \in Seq(Bytes),
         Nowhere(Semicolon, v), Nowhere(Semicolon, w),
         NEW header, header = Header(v, w)
  PROVE  /\ Len(bsplit(header, Semicolon)) = 2
         /\ btrimws(bsplit(header, Semicolon)[1]) = btrimws(v)
         /\ btrimws(bsplit(header, Semicolon)[2]) = btrimws(w)
  <1>1. Semicolon \in Bytes /\ Space \in Bytes
    BY DEF Semicolon, Space, Bytes
  <1>2. PICK sep, blank, b : /\ sep = <<Semicolon>> /\ blank = <<Space>>
                             /\ b = blank \o w
    OBVIOUS
  <1>3. sep \in Seq(Bytes) /\ blank \in Seq(Bytes)
    BY <1>1, <1>2, OneElement
  <1>4. <<Semicolon, Space>> = sep \o blank
    BY <1>1, <1>2, Tuples
  <1>5. header = v \o sep \o b
    <2>1. PICK x \in Seq(Bytes) : x = sep \o blank
      BY <1>3, ConcatProperties
    <2>2. header = (v \o x) \o w
      BY <1>4, <2>1 DEF Header
    <2>3. v \o x = (v \o sep) \o blank
      BY <1>3, <2>1
    <2>4. PICK y \in Seq(Bytes) : y = v \o sep
      BY <1>3, ConcatProperties
    <2>5. (y \o blank) \o w = y \o b
      BY <1>2, <1>3
    <2>6. QED BY <2>2, <2>3, <2>4, <2>5
  <1>6. /\ b \in Seq(Bytes) /\ Nowhere(Semicolon, b)
        /\ btrimws(b) = btrimws(w)
    BY <1>2, BlankPart
  <1>7. bsplit(v \o <<Semicolon>> \o b, Semicolon) = <<v, b>>
    BY <1>1, <1>6, SplitTwo
  <1>8. bsplit(header, Semicolon) = <<v, b>>
    BY <1>2, <1>5, <1>7
  <1>9. QED BY <1>6, <1>8

Trimmed(parts) == [i \in 1 .. Len(parts) |-> btrimws(parts[i])]

(* Both threads look the key up in the same trimmed parts.                 *)
LEMMA BothReadTrimmed ==
  ASSUME NEW header, NEW key
  PROVE  /\ bcgi_query_key_str(header, Semicolon, key)
              = bcgi_query_key(Trimmed(bsplit(header, Semicolon)), key)
         /\ webutil_get_cookies(header) = Trimmed(bsplit(header, Semicolon))
  BY DEF bcgi_query_key_str, webutil_get_cookies, Trimmed

(* The key is found in the part that has it.                               *)
LEMMA SessionFound ==
  ASSUME NEW parts, Len(parts) = 2, NEW n \in 1 .. 2, NEW s, NEW v,
         btrimws(parts[n]) = v, bsplit(v, Equal) = <<SessionKey, s>>,
         \A i \in 1 .. 2 :
           i # n => bsplit(btrimws(parts[i]), Equal)[1] = << 120 >>
  PROVE  bcgi_query_key(Trimmed(parts), SessionKey) = s
  <1>1. PICK list : list = Trimmed(parts)
    OBVIOUS
  <1>2. /\ list = [i \in 1 .. 2 |-> btrimws(parts[i])]
        /\ Len(list) = 2
    BY <1>1 DEF Trimmed
  <1>3. \A i \in 1 .. 2 : list[i] = btrimws(parts[i])
    BY <1>2
  <1>4. SessionKey # << 120 >>
    BY DEF SessionKey
  <1>5. bsplit(list[n], Equal) = <<SessionKey, s>>
    BY <1>3
  <1>6. \A i \in 1 .. 2 : (bsplit(list[i], Equal)[1] = SessionKey) <=> (i = n)
    <2> SUFFICES ASSUME NEW i \in 1 .. 2
                 PROVE  (bsplit(list[i], Equal)[1] = SessionKey) <=> (i = n)
      OBVIOUS
    <2>1. CASE i = n
      BY <1>5, <2>1
    <2>2. CASE i # n
      BY <1>3, <1>4, <2>2
    <2>3. QED BY <2>1, <2>2
  <1>7. bcgi_query_key(list, SessionKey) = bsplit(list[n], Equal)[2]
    <2>1. Len(list) \in Nat /\ n \in 1 .. Len(list)
      BY <1>2
    <2>2. \A i \in 1 .. Len(list) :
            (bsplit(list[i], Equal)[1] = SessionKey) <=> (i = n)
      BY <1>2, <1>6
    <2>3. QED BY <2>1, <2>2, QueryKeyOnly
  <1>8. QED BY <1>1, <1>5, <1>7

(* Whichever cookie comes first.                                           *)
LEMMA HeaderFound ==
  ASSUME NEW s \in Seq(Base64), NEW r \in Seq(Bytes), Nowhere(Semicolon, r),
         NEW session, session = SessionPart(s), NEW other, other = OtherPart(r),
         NEW header \in {Header(session, other), Header(other, session)}
  PROVE  /\ bcgi_query_key_str(header, Semicolon, SessionKey) = s
         /\ bcgi_query_key(webutil_get_cookies(header), SessionKey) = s
  <1>1. /\ session \in Seq(Bytes) /\ Nowhere(Semicolon, session)
        /\ btrimws(session) = session
        /\ bsplit(session, Equal) = <<SessionKey, s>>
    BY SessionCookie DEF SessionPart
  <1>2. /\ other \in Seq(Bytes) /\ Nowhere(Semicolon, other)
        /\ bsplit(btrimws(other), Equal)[1] = << 120 >>
    BY OtherCookie DEF OtherPart
  <1>3. PICK parts : parts = bsplit(header, Semicolon)
    OBVIOUS
  <1>4. bcgi_query_key(Trimmed(parts), SessionKey) = s
    <2>1. CASE header = Header(session, other)
      <3>1. /\ Len(parts) = 2
            /\ btrimws(parts[1]) = btrimws(session)
            /\ btrimws(parts[2]) = btrimws(other)
        BY <1>1, <1>2, <1>3, <2>1, HeaderParts
      <3>2. \A i \in 1 .. 2 :
              i # 1 => bsplit(btrimws(parts[i]), Equal)[1] = << 120 >>
        <4>1. \A i \in 1 .. 2 : i # 1 => i = 2
          OBVIOUS
        <4>2. QED BY <1>2, <3>1, <4>1
      <3>3. 1 \in 1 .. 2 /\ btrimws(parts[1]) = session
        BY <1>1, <3>1
      <3>4. QED BY <1>1, <3>1, <3>2, <3>3, SessionFound
    <2>2. CASE header = Header(other, session)
      <3>1. /\ Len(parts) = 2
            /\ btrimws(parts[1]) = btrimws(other)
            /\ btrimws(parts[2]) = btrimws(session)
        BY <1>1, <1>2, <1>3, <2>2, HeaderParts
      <3>2. \A i \in 1 .. 2 :
              i # 2 => bsplit(btrimws(parts[i]), Equal)[1] = << 120 >>
        <4>1. \A i \in 1 .. 2 : i # 2 => i = 1
          OBVIOUS
        <4>2. QED BY <1>2, <3>1, <4>1
      <3>3. 2 \in 1 .. 2 /\ btrimws(parts[2]) = session
        BY <1>1, <3>1
      <3>4. QED BY <1>1, <3>1, <3>2, <3>3, SessionFound
    <2>3. QED BY <2>1, <2>2
  <1>5. QED BY <1>3, <1>4, BothReadTrimmed

(* A part of a text is a text, and has no other bytes.                     *)
LEMMA SubSeqIs ==
  ASSUME NEW A, NEW s \in Seq(A), NEW n \in Nat, n = Len(s),
         NEW a \in 1 .. n + 1, NEW b \in 0 .. n
  PROVE  /\ SubSeq(s, a, b) \in Seq(A)
         /\ \A i \in 1 .. Len(SubSeq(s, a, b)) :
              \E j \in a .. b : SubSeq(s, a, b)[i] = s[j]
  <1>1. \A i \in a .. b : s[i] \in A
    BY ElementOfSeq
  <1>2. /\ SubSeq(s, a, b) \in Seq(A)
        /\ Len(SubSeq(s, a, b)) = IF a <= b THEN b - a + 1 ELSE 0
        /\ \A i \in 1 .. b - a + 1 : SubSeq(s, a, b)[i] = s[a + i - 1]
    BY <1>1, SubSeqProperties
  <1>3. PICK u : u = SubSeq(s, a, b)
    OBVIOUS
  <1>4. ASSUME NEW i \in 1 .. Len(u) PROVE \E j \in a .. b : u[i] = s[j]
    <2>1. a <= b /\ i \in 1 .. b - a + 1
      BY <1>2, <1>3
    <2>2. PICK j \in a .. b : j = a + i - 1
      BY <2>1
    <2>3. u[i] = s[j]
      BY <1>2, <1>3, <2>1, <2>2
    <2>4. QED BY <2>2, <2>3
  <1>5. QED BY <1>2, <1>3, <1>4

Padded(s, m) == TrimPadding(s \o [i \in 1 .. m |-> Equal])

Headers(hash, r) == {Header(SessionPart(hash), OtherPart(r)),
                     Header(OtherPart(r), SessionPart(hash))}

Found(header, hash) ==
  /\ bcgi_query_key_str(header, Semicolon, SessionKey) = hash
  /\ bcgi_query_key(webutil_get_cookies(header), SessionKey) = hash

(* The second property, in a state.                                        *)
LEMMA Session == TextTyped => BothThreadsFindTheSession
  <1> SUFFICES ASSUME TextTyped, typed # <<>>, Semicolon \notin Range(typed)
               PROVE  BothThreadsFindTheSession
    BY DEF BothThreadsFindTheSession
  <1>1. PICK n \in Nat : n = Len(typed)
    BY TypedIsBytes, LenProperties
  <1>2. \A i \in 1 .. n : typed[i] # Semicolon
    BY <1>1, TypedIsBytes, RangeEquality
  <1>3. ASSUME NEW k \in 0 .. n, NEW m \in 0 .. 2,
               NEW salt, salt = SubSeq(typed, 1, k),
               Range(salt) \subseteq Base64, NEW hash, hash = Padded(salt, m),
               NEW rest, rest = SubSeq(typed, k + 1, n),
               NEW header \in Headers(hash, rest)
        PROVE  Found(header, hash)
    <2>1. salt \in Seq(Bytes)
      <3>1. 1 \in 1 .. n + 1
        OBVIOUS
      <3>2. QED BY <1>1, <1>3, <3>1, TypedIsBytes, SubSeqIs
    <2>2. salt \in Seq(Base64)
      BY <1>3, <2>1, SeqOfRange, SeqMonotonic
    <2>3. hash = salt
      <3>1. Nowhere(Equal, salt)
        BY <2>2, PlainBytes, NotIn
      <3>2. m \in Nat
        OBVIOUS
      <3>3. QED BY <1>3, <2>1, <3>1, <3>2, PaddingOff DEF Padded
    <2>4. rest \in Seq(Bytes) /\ Nowhere(Semicolon, rest)
      <3>1. PICK a \in 1 .. n + 1 : a = k + 1
        OBVIOUS
      <3>2. n \in 0 .. n /\ rest = SubSeq(typed, a, n)
        BY <1>3, <3>1
      <3>3. /\ rest \in Seq(Bytes)
            /\ \A i \in 1 .. Len(rest) : \E j \in a .. n : rest[i] = typed[j]
        BY <1>1, <3>1, <3>2, TypedIsBytes, SubSeqIs
      <3>4. QED BY <1>2, <3>1, <3>3 DEF Nowhere
    <2>5. PICK session, other : session = SessionPart(hash)
                                /\ other = OtherPart(rest)
      OBVIOUS
    <2>6. header \in {Header(session, other), Header(other, session)}
      BY <2>5 DEF Headers
    <2>7. QED
      <3>1. hash \in Seq(Base64)
        BY <2>2, <2>3
      <3> HIDE <1>3
      <3>2. QED BY <2>4, <2>5, <2>6, <3>1, HeaderFound DEF Found
  <1>4. \A k \in 0 .. n, m \in 0 .. 2 :
          LET salt == SubSeq(typed, 1, k)
              hash == Padded(salt, m)
          IN Range(salt) \subseteq Base64 =>
               \A header \in Headers(hash, SubSeq(typed, k + 1, n)) :
                 Found(header, hash)
    BY <1>3
  <1>5. QED
    BY <1>1, <1>4 DEF BothThreadsFindTheSession, Padded, Headers, Header,
                      SessionPart, OtherPart, Found

-----------------------------------------------------------------------------
(* bfindreplace, one byte at a time.                                       *)
Replaced(x, c, by) == IF x = c THEN by ELSE <<x>>

(* What stands for a byte, and what for one byte more.                     *)
LEMMA ReplacedType ==
  ASSUME NEW x \in Bytes, NEW c, NEW by \in Seq(Bytes)
  PROVE  Replaced(x, c, by) \in Seq(Bytes)
  BY OneElement DEF Replaced

LEMMA ReplaceEmpty ==
  ASSUME NEW c, NEW by PROVE bfindreplace(<<>>, c, by) = <<>>
  BY FlattenEmpty DEF bfindreplace

LEMMA ReplaceAppend ==
  ASSUME NEW c, NEW by \in Seq(Bytes), NEW s \in Seq(Bytes), NEW e \in Bytes
  PROVE  bfindreplace(Append(s, e), c, by)
           = bfindreplace(s, c, by) \o Replaced(e, c, by)
  <1>1. PICK n \in Nat : n = Len(s)
    BY LenProperties
  <1>2. PICK w : w = Append(s, e)
    OBVIOUS
  <1>3. /\ Len(w) = n + 1 /\ w[n + 1] = e /\ \A i \in 1 .. n : w[i] = s[i]
        /\ \A i \in 1 .. n : s[i] \in Bytes
    BY <1>1, <1>2, AppendProperties, ElementOfSeq
  <1>4. PICK d \in Seq(Bytes) : d = Replaced(e, c, by)
    BY ReplacedType
  <1> DEFINE u == [i \in 1 .. n |-> Replaced(s[i], c, by)]
             x == [i \in 1 .. n + 1 |-> Replaced(w[i], c, by)]
  <1>5. u \in Seq(Seq(Bytes)) /\ Len(u) = n
    <2>1. u \in [1 .. n -> Seq(Bytes)]
      BY <1>3, ReplacedType
    <2> HIDE DEF u
    <2>2. QED BY <2>1, MapIsSeq
  <1>6. x = Append(u, d)
    <2>1. x \in Seq(Seq(Bytes)) /\ Len(x) = n + 1
      <3>1. ASSUME NEW i \in 1 .. n + 1 PROVE w[i] \in Bytes
        <4>1. i \in 1 .. n \/ i = n + 1
          OBVIOUS
        <4>2. QED BY <1>3, <4>1
      <3>2. x \in [1 .. n + 1 -> Seq(Bytes)] /\ n + 1 \in Nat
        BY <3>1, ReplacedType
      <3> HIDE DEF x
      <3>3. QED BY <3>2, MapIsSeq
    <2>2. /\ Append(u, d) \in Seq(Seq(Bytes)) /\ Len(Append(u, d)) = n + 1
          /\ Append(u, d)[n + 1] = d
          /\ \A i \in 1 .. n : Append(u, d)[i] = u[i]
      <3> HIDE DEF u
      <3>1. QED BY <1>5, AppendProperties
    <2>3. x[n + 1] = d
      BY <1>3, <1>4
    <2>4. \A i \in 1 .. n : x[i] = u[i]
      BY <1>3
    <2> HIDE DEF x, u
    <2>5. \A i \in 1 .. n + 1 : x[i] = Append(u, d)[i]
      BY <2>2, <2>3, <2>4
    <2>6. QED BY <2>1, <2>2, <2>5, SeqEqual
  <1>7. /\ bfindreplace(w, c, by) = FlattenSeq(x)
        /\ bfindreplace(s, c, by) = FlattenSeq(u)
    BY <1>1, <1>3 DEF bfindreplace, Replaced
  <1> HIDE DEF x, u
  <1>8. FlattenSeq(Append(u, d)) = FlattenSeq(u) \o d
    BY <1>5, FlattenAppend
  <1>9. QED BY <1>2, <1>4, <1>6, <1>7, <1>8

(* A text stays a text.                                                    *)
LEMMA ReplaceType ==
  ASSUME NEW c, NEW by \in Seq(Bytes)
  PROVE  \A s \in Seq(Bytes) : bfindreplace(s, c, by) \in Seq(Bytes)
  <1> DEFINE P == {s \in Seq(Bytes) : bfindreplace(s, c, by) \in Seq(Bytes)}
  <1>1. <<>> \in P
    BY EmptySeq, ReplaceEmpty
  <1>2. ASSUME NEW s \in Seq(Bytes), NEW e \in Bytes, s \in P
        PROVE  Append(s, e) \in P
    <2>1. bfindreplace(s, c, by) \o Replaced(e, c, by) \in Seq(Bytes)
      BY <1>2, ReplacedType, ConcatProperties
    <2>2. QED BY <2>1, ReplaceAppend, AppendProperties
  <1>3. QED
    <2> HIDE DEF P
    <2>1. \A s \in Seq(Bytes) : s \in P
      BY <1>1, <1>2, SeqInd
    <2>2. QED BY <2>1 DEF P

(* Two texts are replaced one after the other.                             *)
LEMMA ReplaceConcat ==
  ASSUME NEW c, NEW by \in Seq(Bytes), NEW s \in Seq(Bytes)
  PROVE  \A t \in Seq(Bytes) :
           bfindreplace(s \o t, c, by)
             = bfindreplace(s, c, by) \o bfindreplace(t, c, by)
  <1> DEFINE P == {t \in Seq(Bytes) :
                     bfindreplace(s \o t, c, by)
                       = bfindreplace(s, c, by) \o bfindreplace(t, c, by)}
  <1>1. <<>> \in P
    <2>1. PICK r \in Seq(Bytes) : r = bfindreplace(s, c, by)
      BY ReplaceType
    <2>2. r \o <<>> = r /\ s \o <<>> = s /\ <<>> \in Seq(Bytes)
      BY ConcatEmptySeq, EmptySeq
    <2>3. QED BY <2>1, <2>2, ReplaceEmpty
  <1>2. ASSUME NEW t \in Seq(Bytes), NEW e \in Bytes, t \in P
        PROVE  Append(t, e) \in P
    <2>1. s \o Append(t, e) = Append(s \o t, e) /\ s \o t \in Seq(Bytes)
      BY ConcatAppend, ConcatProperties
    <2>2. PICK a, b, d \in Seq(Bytes) :
             /\ a = bfindreplace(s, c, by) /\ b = bfindreplace(t, c, by)
             /\ d = Replaced(e, c, by)
      BY ReplaceType, ReplacedType
    <2>3. bfindreplace(Append(s \o t, e), c, by) = (a \o b) \o d
      <3>1. PICK st \in Seq(Bytes) : st = s \o t
        BY <2>1
      <3>2. bfindreplace(Append(st, e), c, by)
              = bfindreplace(st, c, by) \o Replaced(e, c, by)
        BY ReplaceAppend
      <3>3. bfindreplace(st, c, by) = a \o b
        BY <1>2, <2>2, <3>1
      <3>4. QED BY <2>2, <3>1, <3>2, <3>3
    <2>4. bfindreplace(Append(t, e), c, by) = b \o d
      BY <2>2, ReplaceAppend
    <2>5. (a \o b) \o d = a \o (b \o d)
      OBVIOUS
    <2>6. Append(t, e) \in Seq(Bytes)
      BY AppendProperties
    <2>7. QED BY <2>1, <2>2, <2>3, <2>4, <2>5, <2>6
  <1>3. QED
    <2> HIDE DEF P
    <2>1. \A t \in Seq(Bytes) : t \in P
      BY <1>1, <1>2, SeqInd
    <2>2. QED BY <2>1 DEF P

(* A byte that is nowhere in a text is not its last and not before.        *)
LEMMA NowherePrefix ==
  ASSUME NEW A, NEW s \in Seq(A), NEW e \in A, NEW c
  PROVE  Nowhere(c, Append(s, e)) <=> Nowhere(c, s) /\ e # c
  <1>1. PICK w : w = Append(s, e)
    OBVIOUS
  <1>2. PICK n \in Nat : n = Len(s)
    BY LenProperties
  <1>3. /\ Len(w) = n + 1 /\ w[n + 1] = e
        /\ \A i \in 1 .. n : w[i] = s[i]
    BY <1>1, <1>2, AppendProperties
  <1>4. (\A i \in 1 .. n + 1 : w[i] # c)
          <=> (\A i \in 1 .. n : s[i] # c) /\ e # c
    <2>1. \A i \in 1 .. n + 1 : i \in 1 .. n \/ i = n + 1
      OBVIOUS
    <2>2. QED BY <1>3, <2>1
  <1>5. QED BY <1>1, <1>2, <1>3, <1>4 DEF Nowhere

(* Without the byte nothing changes.                                       *)
LEMMA ReplaceNone ==
  ASSUME NEW c, NEW by \in Seq(Bytes)
  PROVE  \A s \in Seq(Bytes) : Nowhere(c, s) => bfindreplace(s, c, by) = s
  <1> DEFINE P == {s \in Seq(Bytes) :
                     Nowhere(c, s) => bfindreplace(s, c, by) = s}
  <1>1. <<>> \in P
    BY EmptySeq, ReplaceEmpty
  <1>2. ASSUME NEW s \in Seq(Bytes), NEW e \in Bytes, s \in P
        PROVE  Append(s, e) \in P
    <2> SUFFICES ASSUME Nowhere(c, Append(s, e))
                 PROVE  bfindreplace(Append(s, e), c, by) = Append(s, e)
      BY AppendProperties
    <2>1. Nowhere(c, s) /\ e # c
      BY NowherePrefix
    <2>2. bfindreplace(Append(s, e), c, by) = s \o <<e>>
      <3>1. bfindreplace(Append(s, e), c, by)
              = bfindreplace(s, c, by) \o Replaced(e, c, by)
        BY ReplaceAppend
      <3>2. bfindreplace(s, c, by) = s
        BY <1>2, <2>1
      <3>3. Replaced(e, c, by) = <<e>>
        BY <2>1 DEF Replaced
      <3>4. QED BY <3>1, <3>2, <3>3
    <2>3. QED BY <2>2, AppendIsConcat
  <1>3. QED
    <2> HIDE DEF P
    <2>1. \A s \in Seq(Bytes) : s \in P
      BY <1>1, <1>2, SeqInd
    <2>2. QED BY <2>1 DEF P

-----------------------------------------------------------------------------
(* What is sent live, one byte at a time, and what the page makes of it.   *)
EscapeOf(x) == IF x = Less THEN LT ELSE IF x = Greater THEN GT ELSE <<x>>

(* The two signs, byte by byte, have no markup in them.                    *)
LEMMA EntityBytes ==
  /\ LT \in Seq(Bytes) /\ GT \in Seq(Bytes)
  /\ Len(LT) = 4 /\ LT[1] = 38 /\ LT[2] = 108 /\ LT[3] = 116 /\ LT[4] = 59
  /\ Len(GT) = 4 /\ GT[1] = 38 /\ GT[2] = 103 /\ GT[3] = 116 /\ GT[4] = 59
  BY DEF LT, GT, Bytes

LEMMA EntityPlain ==
  /\ Nowhere(Less, LT) /\ Nowhere(Less, GT)
  /\ Nowhere(Greater, LT) /\ Nowhere(Greater, GT)
  BY DEF Nowhere, Less, Greater, LT, GT

LEMMA LiveEmpty == LiveHtml(<<>>) = <<>>
  BY ReplaceEmpty DEF LiveHtml, bcgi_html_escape

(* One byte more of a text is its escape more of what is sent.             *)
LEMMA LiveAppend ==
  ASSUME NEW s \in Seq(Bytes), NEW x \in Bytes
  PROVE  /\ EscapeOf(x) \in Seq(Bytes)
         /\ Nowhere(Less, EscapeOf(x)) /\ Nowhere(Greater, EscapeOf(x))
         /\ LiveHtml(Append(s, x)) = LiveHtml(s) \o EscapeOf(x)
  <1>1. PICK u \in Seq(Bytes) : u = bfindreplace(s, Less, LT)
    BY EntityBytes, ReplaceType
  <1>2. PICK d \in Seq(Bytes) : d = Replaced(x, Less, LT)
    BY EntityBytes, ReplacedType
  <1>3. bfindreplace(Append(s, x), Less, LT) = u \o d
    BY <1>1, <1>2, EntityBytes, ReplaceAppend
  <1>4. LiveHtml(Append(s, x))
          = bfindreplace(u, Greater, GT) \o bfindreplace(d, Greater, GT)
    <2>1. GT \in Seq(Bytes)
      BY EntityBytes
    <2>2. bfindreplace(u \o d, Greater, GT)
            = bfindreplace(u, Greater, GT) \o bfindreplace(d, Greater, GT)
      BY <2>1, ReplaceConcat
    <2>3. LiveHtml(Append(s, x)) = bfindreplace(u \o d, Greater, GT)
      BY <1>3 DEF LiveHtml, bcgi_html_escape
    <2>4. QED BY <2>2, <2>3
  <1>5. LiveHtml(s) = bfindreplace(u, Greater, GT)
    BY <1>1 DEF LiveHtml, bcgi_html_escape
  <1>6. Less # Greater
    BY DEF Less, Greater
  <1>7. /\ bfindreplace(d, Greater, GT) = EscapeOf(x)
        /\ Nowhere(Less, EscapeOf(x)) /\ Nowhere(Greater, EscapeOf(x))
        /\ EscapeOf(x) \in Seq(Bytes)
    <2>1. CASE x = Less
      <3>1. d = LT /\ EscapeOf(x) = LT
        BY <1>2, <2>1 DEF Replaced, EscapeOf
      <3>2. QED BY <3>1, EntityBytes, EntityPlain, ReplaceNone
    <2>2. CASE x # Less
      <3>1. d = <<x>>
        BY <1>2, <2>2 DEF Replaced
      <3>2. PICK empty \in Seq(Bytes) : empty = <<>>
        BY EmptySeq
      <3>3. Append(empty, x) = <<x>>
        <4>1. Append(empty, x) = empty \o <<x>>
          BY AppendIsConcat
        <4>2. <<x>> \in Seq(Bytes)
          BY OneElement
        <4>3. QED BY <3>2, <4>1, <4>2, ConcatEmptySeq
      <3>4. PICK v \in Seq(Bytes) : v = Replaced(x, Greater, GT)
        BY EntityBytes, ReplacedType
      <3>5. bfindreplace(d, Greater, GT) = empty \o v
        <4>1. GT \in Seq(Bytes)
          BY EntityBytes
        <4>2. bfindreplace(Append(empty, x), Greater, GT)
                = bfindreplace(empty, Greater, GT) \o v
          BY <3>4, <4>1, ReplaceAppend
        <4>3. bfindreplace(empty, Greater, GT) = empty
          BY <3>2, ReplaceEmpty
        <4>4. QED BY <3>1, <3>3, <4>2, <4>3
      <3>6. bfindreplace(d, Greater, GT) = v
        BY <3>2, <3>5, ConcatEmptySeq
      <3>7. v = EscapeOf(x)
        BY <2>2, <3>4 DEF Replaced, EscapeOf
      <3>8. Nowhere(Less, v) /\ Nowhere(Greater, v)
        BY <2>2, <3>4, EntityPlain, NowhereOne DEF Replaced
      <3>9. QED BY <3>4, <3>6, <3>7, <3>8
    <2>3. QED BY <2>1, <2>2
  <1>8. QED BY <1>4, <1>5, <1>7

(* What is sent is a text.                                                 *)
LEMMA LiveType == \A s \in Seq(Bytes) : LiveHtml(s) \in Seq(Bytes)
  BY EntityBytes, ReplaceType DEF LiveHtml, bcgi_html_escape

(* No markup is left in it.                                                *)
LEMMA LivePlain ==
  \A s \in Seq(Bytes) :
    Nowhere(Less, LiveHtml(s)) /\ Nowhere(Greater, LiveHtml(s))
  <1> DEFINE P == {s \in Seq(Bytes) : /\ Nowhere(Less, LiveHtml(s))
                                      /\ Nowhere(Greater, LiveHtml(s))}
  <1>1. <<>> \in P
    BY EmptySeq, LiveEmpty DEF Nowhere
  <1>2. ASSUME NEW s \in Seq(Bytes), NEW e \in Bytes, s \in P
        PROVE  Append(s, e) \in P
    <2>1. PICK h, d : h = LiveHtml(s) /\ d = EscapeOf(e)
      OBVIOUS
    <2>2. /\ h \in Seq(Bytes) /\ d \in Seq(Bytes)
          /\ Nowhere(Less, h) /\ Nowhere(Greater, h)
          /\ Nowhere(Less, d) /\ Nowhere(Greater, d)
          /\ LiveHtml(Append(s, e)) = h \o d
      BY <1>2, <2>1, LiveType, LiveAppend
    <2>3. Nowhere(Less, h \o d) /\ Nowhere(Greater, h \o d)
      BY <2>2, NowhereConcat
    <2>4. QED BY <2>2, <2>3, AppendProperties
  <1>3. QED
    <2> HIDE DEF P
    <2>1. \A s \in Seq(Bytes) : s \in P
      BY <1>1, <1>2, SeqInd
    <2>2. QED BY <2>1 DEF P

(* The page, which escapes it again, changes nothing.                      *)
LEMMA PageIsLive == \A s \in Seq(Bytes) : PageHtml(s) = LiveHtml(s)
  <1> SUFFICES ASSUME NEW s \in Seq(Bytes) PROVE PageHtml(s) = LiveHtml(s)
    OBVIOUS
  <1>1. PICK h \in Seq(Bytes) : h = LiveHtml(s)
    BY LiveType
  <1>2. bfindreplace(h, Less, LT) = h /\ bfindreplace(h, Greater, GT) = h
    BY <1>1, EntityBytes, LivePlain, ReplaceNone
  <1>3. QED BY <1>1, <1>2 DEF PageHtml, bcgi_html_escape

-----------------------------------------------------------------------------
(* What is on the screen, up to a place.                                   *)
Sign(h, i) ==
  h[i] = 38 /\ h[i + 1] \in {103, 108} /\ h[i + 2] = 116 /\ h[i + 3] = 59

(* A sign is recognised by its four bytes, and which one by the second.    *)
LEMMA EntityIs ==
  ASSUME NEW h \in Seq(Bytes), NEW n \in Nat, n = Len(h), NEW i \in 1 .. n
  PROVE  /\ EntityAt(h, i) <=> i + 3 <= n /\ Sign(h, i)
         /\ EntityAt(h, i) => (SubSeq(h, i, i + 3) = LT <=> h[i + 1] = 108)
  <1>1. CASE i + 3 <= n
    <2>1. PICK u : u = SubSeq(h, i, i + 3)
      OBVIOUS
    <2>2. /\ u \in Seq(Bytes) /\ Len(u) = 4
          /\ u[1] = h[i] /\ u[2] = h[i + 1] /\ u[3] = h[i + 2]
          /\ u[4] = h[i + 3]
      <3>1. PICK j \in 1 .. n : j = i + 3
        BY <1>1
      <3>2. \A k \in i .. j : h[k] \in Bytes
        <4>1. i .. j \subseteq 1 .. n
          BY <3>1
        <4>2. QED BY <4>1, ElementOfSeq
      <3>3. /\ SubSeq(h, i, j) \in Seq(Bytes)
            /\ Len(SubSeq(h, i, j)) = IF i <= j THEN j - i + 1 ELSE 0
            /\ \A k \in 1 .. j - i + 1 : SubSeq(h, i, j)[k] = h[i + k - 1]
        BY <3>2, SubSeqProperties
      <3>4. /\ j - i + 1 = 4 /\ i <= j /\ i + 1 - 1 = i /\ i + 2 - 1 = i + 1
            /\ i + 3 - 1 = i + 2 /\ i + 4 - 1 = i + 3
        BY <3>1
      <3>5. /\ u \in Seq(Bytes) /\ Len(u) = 4
            /\ \A k \in 1 .. 4 : u[k] = h[i + k - 1]
        BY <2>1, <3>1, <3>3, <3>4
      <3>6. QED BY <3>4, <3>5
    <2>3. u = LT <=> u[1] = 38 /\ u[2] = 108 /\ u[3] = 116 /\ u[4] = 59
      <3>1. \A k \in 1 .. 4 : k = 1 \/ k = 2 \/ k = 3 \/ k = 4
        OBVIOUS
      <3>2. ASSUME u[1] = 38, u[2] = 108, u[3] = 116, u[4] = 59
            PROVE  u = LT
        <4>1. PICK w : w = LT
          OBVIOUS
        <4>2. /\ w \in Seq(Bytes) /\ Len(w) = 4
              /\ w[1] = 38 /\ w[2] = 108 /\ w[3] = 116 /\ w[4] = 59
          BY <4>1, EntityBytes
        <4>3. \A k \in 1 .. 4 : u[k] = w[k]
          BY <3>1, <3>2, <4>2
        <4>4. u = w
          BY <2>2, <4>2, <4>3, SeqEqual
        <4>5. QED BY <4>1, <4>4
      <3>3. QED BY <3>2, EntityBytes
    <2>4. u = GT <=> u[1] = 38 /\ u[2] = 103 /\ u[3] = 116 /\ u[4] = 59
      <3>1. \A k \in 1 .. 4 : k = 1 \/ k = 2 \/ k = 3 \/ k = 4
        OBVIOUS
      <3>2. ASSUME u[1] = 38, u[2] = 103, u[3] = 116, u[4] = 59
            PROVE  u = GT
        <4>1. PICK w : w = GT
          OBVIOUS
        <4>2. /\ w \in Seq(Bytes) /\ Len(w) = 4
              /\ w[1] = 38 /\ w[2] = 103 /\ w[3] = 116 /\ w[4] = 59
          BY <4>1, EntityBytes
        <4>3. \A k \in 1 .. 4 : u[k] = w[k]
          BY <3>1, <3>2, <4>2
        <4>4. u = w
          BY <2>2, <4>2, <4>3, SeqEqual
        <4>5. QED BY <4>1, <4>4
      <3>3. QED BY <3>2, EntityBytes
    <2>5. EntityAt(h, i) <=> u \in {LT, GT}
      BY <1>1, <2>1 DEF EntityAt
    <2>6. QED BY <1>1, <2>1, <2>2, <2>3, <2>4, <2>5 DEF Sign
  <1>2. CASE ~ (i + 3 <= n)
    BY <1>2 DEF EntityAt
  <1>3. QED BY <1>1, <1>2

(* The signs of a text of n bytes.                                         *)
Signs(h, n) ==
  \A i \in 1 .. n :
    /\ EntityAt(h, i) <=> i + 3 <= n /\ Sign(h, i)
    /\ EntityAt(h, i) => (SubSeq(h, i, i + 3) = LT <=> h[i + 1] = 108)

LEMMA SignsOf ==
  ASSUME NEW h \in Seq(Bytes), NEW n \in Nat, n = Len(h)
  PROVE  Signs(h, n)
  BY EntityIs DEF Signs

(* What a place shows is a text.                                           *)
LEMMA ShownType ==
  ASSUME NEW h \in Seq(Bytes), NEW i \in 1 .. Len(h)
  PROVE  ShownAt(h, i) \in Seq(Bytes)
  <1>1. h[i] \in Bytes /\ Less \in Bytes /\ Greater \in Bytes
    BY ElementOfSeq DEF Bytes, Less, Greater
  <1>2. /\ <<h[i]>> \in Seq(Bytes) /\ <<Less>> \in Seq(Bytes)
        /\ <<Greater>> \in Seq(Bytes) /\ <<>> \in Seq(Bytes)
    BY <1>1, OneElement, EmptySeq
  <1>3. QED BY <1>2 DEF ShownAt

ShownTo(h, n) == FlattenSeq([i \in 1 .. n |-> ShownAt(h, i)])

(* One place more shows what stands there.                                 *)
LEMMA ShownNext ==
  ASSUME NEW h \in Seq(Bytes), NEW n \in Nat, NEW m \in Nat, m = n + 1,
         m <= Len(h)
  PROVE  ShownTo(h, m) = ShownTo(h, n) \o ShownAt(h, m)
  <1>1. \A i \in 1 .. m : ShownAt(h, i) \in Seq(Bytes)
    <2>1. Len(h) \in Nat
      BY LenProperties
    <2>2. \A i \in 1 .. m : i \in 1 .. Len(h)
      BY <2>1
    <2>3. QED BY <2>2, ShownType
  <1>2. PICK d \in Seq(Bytes) : d = ShownAt(h, m)
    BY <1>1, m \in 1 .. m
  <1> DEFINE u == [i \in 1 .. n |-> ShownAt(h, i)]
             x == [i \in 1 .. m |-> ShownAt(h, i)]
  <1>3. u \in Seq(Seq(Bytes)) /\ Len(u) = n
    <2>1. u \in [1 .. n -> Seq(Bytes)]
      BY <1>1
    <2> HIDE DEF u
    <2>2. QED BY <2>1, MapIsSeq
  <1>4. x \in Seq(Seq(Bytes)) /\ Len(x) = m
    <2>1. x \in [1 .. m -> Seq(Bytes)]
      BY <1>1
    <2> HIDE DEF x
    <2>2. QED BY <2>1, MapIsSeq
  <1>5. (\A i \in 1 .. n : x[i] = u[i]) /\ x[m] = d
    BY <1>2
  <1> HIDE DEF u, x
  <1>6. /\ Append(u, d) \in Seq(Seq(Bytes)) /\ Len(Append(u, d)) = n + 1
        /\ Append(u, d)[n + 1] = d
        /\ \A i \in 1 .. n : Append(u, d)[i] = u[i]
    BY <1>3, AppendProperties
  <1>7. \A i \in 1 .. m : x[i] = Append(u, d)[i]
    <2>1. \A i \in 1 .. m : i \in 1 .. n \/ i = m
      OBVIOUS
    <2>2. Append(u, d)[m] = d
      BY <1>6
    <2>3. QED BY <1>5, <1>6, <2>1, <2>2
  <1>8. x = Append(u, d)
    BY <1>4, <1>6, <1>7, SeqEqual
  <1>9. FlattenSeq(Append(u, d)) = FlattenSeq(u) \o d
    BY <1>3, FlattenAppend
  <1>10. QED BY <1>2, <1>8, <1>9 DEF ShownTo, u, x

(* A longer text that has no sign across the place where it goes on shows  *)
(* the same up to there.                                                   *)
LEMMA ShownSame ==
  ASSUME NEW g \in Seq(Bytes), NEW d \in Seq(Bytes), NEW h, h = g \o d,
         NEW m \in Nat, m = Len(g),
         \A i \in 1 .. m : EntityAt(h, i) => i + 3 <= m
  PROVE  ShownTo(h, m) = Shown(g)
  <1>1. PICK n \in Nat : n = Len(d)
    BY LenProperties
  <1>2. h \in Seq(Bytes) /\ Concat(h, g, d)
    BY ConcatIs
  <1>3. Len(h) = m + n /\ \A i \in 1 .. m : h[i] = g[i]
    BY <1>1, <1>2 DEF Concat
  <1>4. \A i \in 1 .. m : /\ EntityAt(h, i) <=> EntityAt(g, i)
                          /\ EntityAt(h, i) =>
                               (SubSeq(h, i, i + 3) = LT
                                  <=> SubSeq(g, i, i + 3) = LT)
    <2> SUFFICES ASSUME NEW i \in 1 .. m
                 PROVE  /\ EntityAt(h, i) <=> EntityAt(g, i)
                        /\ EntityAt(h, i) =>
                             (SubSeq(h, i, i + 3) = LT
                                <=> SubSeq(g, i, i + 3) = LT)
      OBVIOUS
    <2>1. /\ EntityAt(g, i) <=> i + 3 <= m /\ Sign(g, i)
          /\ EntityAt(g, i) => (SubSeq(g, i, i + 3) = LT <=> g[i + 1] = 108)
      <3>1. Signs(g, m)
        BY SignsOf
      <3>2. QED BY <3>1 DEF Signs
    <2>2. /\ EntityAt(h, i) <=> i + 3 <= m + n /\ Sign(h, i)
          /\ EntityAt(h, i) => (SubSeq(h, i, i + 3) = LT <=> h[i + 1] = 108)
      <3>1. PICK k \in Nat : k = m + n
        OBVIOUS
      <3>2. Signs(h, k)
        BY <1>2, <1>3, <3>1, SignsOf
      <3>3. i \in 1 .. k
        BY <1>1, <3>1
      <3>4. /\ EntityAt(h, i) <=> i + 3 <= k /\ Sign(h, i)
            /\ EntityAt(h, i) =>
                 (SubSeq(h, i, i + 3) = LT <=> h[i + 1] = 108)
        BY <3>2, <3>3 DEF Signs
      <3>5. QED BY <3>1, <3>4
    <2>3. CASE i + 3 <= m
      <3>1. /\ i \in 1 .. m /\ i + 1 \in 1 .. m /\ i + 2 \in 1 .. m
            /\ i + 3 \in 1 .. m /\ i + 3 <= m + n
        BY <2>3
      <3>2. /\ h[i] = g[i] /\ h[i + 1] = g[i + 1]
            /\ h[i + 2] = g[i + 2] /\ h[i + 3] = g[i + 3]
        BY <1>3, <3>1
      <3>3. Sign(h, i) <=> Sign(g, i)
        BY <3>2 DEF Sign
      <3>4. QED BY <2>1, <2>2, <3>1, <3>2, <3>3
    <2>4. CASE ~ (i + 3 <= m)
      BY <2>1, <2>4
    <2>5. QED BY <2>3, <2>4
  <1>5. \A i \in 1 .. m : ShownAt(h, i) = ShownAt(g, i)
    <2> SUFFICES ASSUME NEW i \in 1 .. m PROVE ShownAt(h, i) = ShownAt(g, i)
      OBVIOUS
    <2>1. InsideEntity(h, i) <=> InsideEntity(g, i)
      <3>1. \A j \in 1 .. i - 1 : EntityAt(h, j) <=> EntityAt(g, j)
        <4>1. \A j \in 1 .. i - 1 : j \in 1 .. m
          OBVIOUS
        <4>2. QED BY <1>4, <4>1
      <3>2. QED BY <3>1 DEF InsideEntity
    <2>2. h[i] = g[i]
      BY <1>3
    <2>3. QED BY <1>4, <2>1, <2>2 DEF ShownAt
  <1>6. [i \in 1 .. m |-> ShownAt(h, i)] = [i \in 1 .. m |-> ShownAt(g, i)]
    BY <1>5
  <1>7. QED BY <1>6 DEF Shown, ShownTo

(* A sequence with one element more, place by place.                       *)
LEMMA AppendIs ==
  ASSUME NEW A, NEW s \in Seq(A), NEW e \in A, NEW w, w = Append(s, e),
         NEW m \in Nat, m = Len(s)
  PROVE  /\ w \in Seq(A) /\ Len(w) = m + 1 /\ w[m + 1] = e
         /\ \A i \in 1 .. m : w[i] = s[i]
  BY AppendProperties

(* The text ends in y, and what is sent for the rest of it is h without    *)
(* its last byte.                                                          *)
EndsIn(s, y, h, n) ==
  \E p, g \in Seq(Bytes) :
    /\ s = Append(p, y) /\ g = LiveHtml(p)
    /\ Len(g) = n /\ \A j \in 1 .. n : g[j] = h[j]

(* Only an escape ends in a semicolon: any other last byte of what is sent *)
(* is the last byte of the text.                                           *)
LEMMA LastOfLive ==
  ASSUME NEW s \in Seq(Bytes), NEW h \in Seq(Bytes), h = LiveHtml(s),
         NEW n \in Nat, NEW m \in Nat, m = Len(h), m = n + 1,
         NEW y, y = h[m], y # 59
  PROVE  EndsIn(s, y, h, n)
  <1>1. s # <<>>
    <2>1. m # 0
      OBVIOUS
    <2>2. QED BY <2>1, LiveEmpty, EmptySeq
  <1>2. PICK p \in Seq(Bytes), x \in Bytes : s = Append(p, x)
    BY <1>1, SequenceEmptyOrAppend
  <1>3. PICK g, d \in Seq(Bytes) : g = LiveHtml(p) /\ d = EscapeOf(x)
    BY LiveType, LiveAppend
  <1>4. h = g \o d
    BY <1>2, <1>3, LiveAppend
  <1>5. PICK k \in Nat : k = Len(g)
    BY LenProperties
  <1>6. Len(h) = k + Len(d) /\ \A i \in 1 .. Len(d) : h[k + i] = d[i]
    <2>1. Concat(h, g, d)
      BY <1>4, ConcatIs
    <2>2. QED BY <1>5, <2>1 DEF Concat
  <1>7. CASE x = Less \/ x = Greater
    <2>1. Len(d) = 4 /\ d[4] = 59
      BY <1>3, <1>7, EntityBytes DEF EscapeOf
    <2>2. h[k + 4] = 59 /\ m = k + 4
      BY <1>6, <2>1, 4 \in 1 .. 4
    <2>3. QED BY <2>2
  <1>8. CASE x # Less /\ x # Greater
    <2>1. d = <<x>>
      BY <1>3, <1>8 DEF EscapeOf
    <2>2. h = Append(g, x)
      BY <1>4, <2>1, AppendIsConcat
    <2>3. /\ Len(h) = k + 1 /\ h[k + 1] = x
          /\ \A j \in 1 .. k : h[j] = g[j]
      <3>1. PICK w : w = Append(g, x)
        OBVIOUS
      <3>2. /\ Len(w) = k + 1 /\ w[k + 1] = x
            /\ \A j \in 1 .. k : w[j] = g[j]
        BY <1>5, <3>1, AppendIs
      <3>3. QED BY <2>2, <3>1, <3>2
    <2>4. k = n /\ y = x
      <3>1. k + 1 = m
        BY <2>3
      <3>2. h[m] = x
        BY <2>3, <3>1
      <3>3. QED BY <3>1, <3>2
    <2>5. s = Append(p, y) /\ Len(g) = n /\ \A j \in 1 .. n : g[j] = h[j]
      BY <1>2, <1>5, <2>3, <2>4
    <2>6. g = LiveHtml(p)
      BY <1>3
    <2>7. \E q, f \in Seq(Bytes) :
            /\ s = Append(q, y) /\ f = LiveHtml(q)
            /\ Len(f) = n /\ \A j \in 1 .. n : f[j] = h[j]
      <3> WITNESS p \in Seq(Bytes), g \in Seq(Bytes)
      <3> QED BY <2>5, <2>6
    <2>8. QED BY <2>7 DEF EndsIn
  <1>9. QED BY <1>7, <1>8

NoEscape(s) == \A i \in 1 .. Len(s) : ~ EntityAt(s, i)

(* What four bytes in a row are a sign.                                    *)
LEMMA SignTyped ==
  ASSUME NEW p \in Seq(Bytes), NEW a \in Bytes, a \in {103, 108},
         NEW p1 \in Seq(Bytes), p1 = Append(p, 38),
         NEW p2 \in Seq(Bytes), p2 = Append(p1, a),
         NEW p3 \in Seq(Bytes), p3 = Append(p2, 116),
         NEW p4 \in Seq(Bytes), p4 = Append(p3, 59)
  PROVE  ~ NoEscape(p4)
  <1>1. PICK k, k1, k2, k3 \in Nat : /\ k = Len(p) /\ k1 = k + 1
                                     /\ k2 = k1 + 1 /\ k3 = k2 + 1
    BY LenProperties
  <1>2. PICK b, c, d \in Bytes : b = 38 /\ c = 116 /\ d = 59
    BY DEF Bytes
  <1>3. /\ Len(p1) = k1 /\ p1[k1] = b
    BY <1>1, <1>2, AppendIs
  <1>4. /\ Len(p2) = k2 /\ p2[k2] = a /\ \A i \in 1 .. k1 : p2[i] = p1[i]
    BY <1>1, <1>3, AppendIs
  <1>5. /\ Len(p3) = k3 /\ p3[k3] = c /\ \A i \in 1 .. k2 : p3[i] = p2[i]
    BY <1>1, <1>2, <1>4, AppendIs
  <1>6. /\ Len(p4) = k3 + 1 /\ p4[k3 + 1] = d
        /\ \A i \in 1 .. k3 : p4[i] = p3[i]
    BY <1>1, <1>2, <1>5, AppendIs
  <1>7. p4[k1] = 38 /\ p4[k1 + 1] = a /\ p4[k1 + 2] = 116 /\ p4[k1 + 3] = 59
    <2>1. /\ k1 \in 1 .. k1 /\ k1 \in 1 .. k2 /\ k1 \in 1 .. k3
          /\ k2 \in 1 .. k2 /\ k2 \in 1 .. k3 /\ k3 \in 1 .. k3
          /\ k1 + 1 = k2 /\ k1 + 2 = k3 /\ k1 + 3 = k3 + 1
      BY <1>1
    <2>2. p4[k1] = b /\ p4[k2] = a /\ p4[k3] = c
      BY <1>3, <1>4, <1>5, <1>6, <2>1
    <2>3. QED BY <1>2, <1>6, <2>1, <2>2
  <1>8. Sign(p4, k1)
    BY <1>7 DEF Sign
  <1>9. PICK n \in Nat : n = Len(p4) /\ k1 + 3 <= n /\ k1 \in 1 .. n
    <2>1. Len(p4) = k3 + 1
      BY <1>6
    <2>2. PICK n \in Nat : n = k3 + 1
      OBVIOUS
    <2>3. k1 + 3 <= n /\ k1 \in 1 .. n
      BY <1>1, <2>2
    <2>4. QED BY <2>1, <2>2, <2>3
  <1>10. EntityAt(p4, k1)
    BY <1>8, <1>9, EntityIs
  <1>11. QED BY <1>9, <1>10 DEF NoEscape

(* No sign begins in what was sent before a byte and ends in what is sent  *)
(* for it, if the text has none.                                           *)
LEMMA NothingAcross ==
  ASSUME NEW s \in Seq(Bytes), NEW x \in Bytes, NoEscape(Append(s, x)),
         NEW g, g = LiveHtml(s), NEW m \in Nat, m = Len(g),
         NEW h, h = LiveHtml(Append(s, x)),
         NEW i \in 1 .. m, EntityAt(h, i)
  PROVE  i + 3 <= m
  <1> SUFFICES ASSUME ~ (i + 3 <= m) PROVE FALSE
    OBVIOUS
  <1>1. g \in Seq(Bytes)
    BY LiveType
  <1>2. PICK d \in Seq(Bytes) : d = EscapeOf(x) /\ h = g \o d
    BY LiveAppend
  <1>3. /\ h \in Seq(Bytes) /\ Len(h) = m + Len(d)
        /\ \A j \in 1 .. m : h[j] = g[j]
        /\ \A j \in 1 .. Len(d) : h[m + j] = d[j]
    BY <1>1, <1>2, ConcatIs DEF Concat
  <1>4. PICK n \in Nat : n = m + Len(d) /\ n = Len(h) /\ i \in 1 .. n
    <2>1. Len(d) \in Nat
      BY LenProperties
    <2>2. QED BY <1>3, <2>1
  <1>5. i + 3 <= n /\ Sign(h, i)
    BY <1>3, <1>4, EntityIs
  <1>6. /\ h[i] = 38 /\ h[i + 1] \in {103, 108} /\ h[i + 2] = 116
        /\ h[i + 3] = 59
    BY <1>5 DEF Sign
  <1>7. CASE x = Less \/ x = Greater
    <2>1. Len(d) = 4 /\ d[1] = 38
      BY <1>2, <1>7, EntityBytes DEF EscapeOf
    <2>2. h[m + 1] = 38
      BY <1>3, <2>1, 1 \in 1 .. 4
    <2>3. m + 1 = i + 1 \/ m + 1 = i + 2 \/ m + 1 = i + 3
      OBVIOUS
    <2>4. QED BY <1>6, <2>2, <2>3
  <1>8. CASE x # Less /\ x # Greater
    <2>1. d = <<x>>
      BY <1>2, <1>8 DEF EscapeOf
    <2>2. Len(d) = 1 /\ d[1] = x
      BY <2>1, OneElement
    <2>3. m + 1 = i + 3
      BY <1>4, <1>5, <2>2
    <2>4. PICK m1, m2 \in Nat : /\ m1 = i + 1 /\ m2 = i
                                /\ m = m1 + 1 /\ m1 = m2 + 1
                                /\ m = i + 2 /\ m1 # 0 /\ m2 # 0
      BY <2>3
    <2>5. g[m] = 116 /\ g[m1] \in {103, 108} /\ g[m2] = 38 /\ x = 59
      <3>1. m \in 1 .. m /\ m1 \in 1 .. m /\ m2 \in 1 .. m
        BY <2>4
      <3>2. h[m + 1] = x
        BY <1>3, <2>2, 1 \in 1 .. 1
      <3>3. h[m] = g[m] /\ h[m1] = g[m1] /\ h[m2] = g[m2]
        BY <1>3, <3>1
      <3>4. QED BY <1>6, <2>3, <2>4, <3>2, <3>3
    <2>6. PICK a, b, c : a = g[m1] /\ b = g[m2] /\ c = g[m]
      OBVIOUS
    <2>7. c = 116 /\ a \in {103, 108} /\ b = 38 /\ c # 59 /\ a # 59 /\ b # 59
      BY <2>5, <2>6
    <2>8. a \in Bytes
      BY <2>7 DEF Bytes
    <2>9. PICK s1, g1 \in Seq(Bytes) :
             /\ s = Append(s1, c) /\ g1 = LiveHtml(s1)
             /\ Len(g1) = m1 /\ \A j \in 1 .. m1 : g1[j] = g[j]
      <3>1. EndsIn(s, c, g, m1)
        <4>1. m = Len(g) /\ m = m1 + 1 /\ c = g[m] /\ c # 59
          BY <2>4, <2>6, <2>7
        <4>2. QED BY <1>1, <4>1, LastOfLive
      <3>2. QED BY <3>1 DEF EndsIn
    <2>10. g1[m1] = a /\ g1[m2] = b
      BY <2>4, <2>6, <2>9, m1 \in 1 .. m1, m2 \in 1 .. m1
    <2>11. PICK s2, g2 \in Seq(Bytes) :
              /\ s1 = Append(s2, a) /\ g2 = LiveHtml(s2)
              /\ Len(g2) = m2 /\ \A j \in 1 .. m2 : g2[j] = g1[j]
      <3>1. EndsIn(s1, a, g1, m2)
        <4>1. s1 \in Seq(Bytes) /\ g1 \in Seq(Bytes) /\ g1 = LiveHtml(s1)
          BY <2>9
        <4>2. m1 = Len(g1) /\ m1 = m2 + 1 /\ a = g1[m1] /\ a # 59
          BY <2>4, <2>7, <2>9, <2>10
        <4>3. QED BY <4>1, <4>2, LastOfLive
      <3>2. QED BY <3>1 DEF EndsIn
    <2>12. g2[m2] = b
      BY <2>4, <2>10, <2>11, m2 \in 1 .. m2
    <2>13. PICK m3 \in Nat : m2 = m3 + 1
      BY <2>4, m2 - 1 \in Nat
    <2>14. PICK s3 \in Seq(Bytes) : s2 = Append(s3, b)
      <3>1. EndsIn(s2, b, g2, m3)
        <4>1. s2 \in Seq(Bytes) /\ g2 \in Seq(Bytes) /\ g2 = LiveHtml(s2)
          BY <2>11
        <4>2. m2 = Len(g2) /\ b = g2[m2] /\ b # 59
          BY <2>7, <2>11, <2>12
        <4>3. QED BY <2>13, <4>1, <4>2, LastOfLive
      <3>2. QED BY <3>1 DEF EndsIn
    <2>15. /\ s2 = Append(s3, 38) /\ s1 = Append(s2, a) /\ s = Append(s1, 116)
           /\ a \in {103, 108}
      BY <2>7, <2>9, <2>11, <2>14
    <2>16. PICK w \in Seq(Bytes) : w = Append(s, x)
      BY AppendProperties
    <2>17. w = Append(s, 59) /\ NoEscape(w)
      BY <2>5, <2>16
    <2>18. ~ NoEscape(w)
      BY <2>8, <2>15, <2>17, SignTyped
    <2>19. QED BY <2>17, <2>18
  <1>9. QED BY <1>7, <1>8

(* A text without signs has none in its beginning.                         *)
LEMMA NoEscapePrefix ==
  ASSUME NEW s \in Seq(Bytes), NEW e \in Bytes, NoEscape(Append(s, e))
  PROVE  NoEscape(s)
  <1>1. PICK w \in Seq(Bytes) : w = Append(s, e)
    BY AppendProperties
  <1>2. PICK n, l \in Nat : n = Len(s) /\ l = n + 1
    BY LenProperties
  <1>3. Len(w) = l /\ \A j \in 1 .. n : w[j] = s[j]
    BY <1>1, <1>2, AppendIs
  <1>4. ASSUME NEW i \in 1 .. n, EntityAt(s, i) PROVE FALSE
    <2>1. i + 3 <= n /\ Sign(s, i)
      BY <1>2, <1>4, EntityIs
    <2>2. /\ i \in 1 .. n /\ i + 1 \in 1 .. n /\ i + 2 \in 1 .. n
          /\ i + 3 \in 1 .. n /\ i + 3 <= l /\ i \in 1 .. l
      BY <1>2, <2>1
    <2>3. Sign(w, i)
      BY <1>3, <2>1, <2>2 DEF Sign
    <2>4. EntityAt(w, i)
      BY <1>3, <2>2, <2>3, EntityIs
    <2>5. QED BY <1>1, <1>3, <2>2, <2>4 DEF NoEscape
  <1>5. QED BY <1>2, <1>4 DEF NoEscape

(* A byte that is no sign, and not in one, is shown as it is.              *)
LEMMA ShowsByte ==
  ASSUME NEW h \in Seq(Bytes), NEW m \in Nat, NEW n \in Nat,
         n = m + 1, n = Len(h), NEW x, h[n] = x,
         \A i \in 1 .. m : EntityAt(h, i) => i + 3 <= m
  PROVE  ShownAt(h, n) = <<x>>
  <1>1. ~ EntityAt(h, n)
    BY DEF EntityAt
  <1>2. ~ InsideEntity(h, n)
    <2>1. \A j \in 1 .. n - 1 : j \in 1 .. m
      OBVIOUS
    <2>2. QED BY <2>1 DEF InsideEntity
  <1>3. QED BY <1>1, <1>2 DEF ShownAt

(* An escaped sign at the end is shown as that sign, once.                 *)
LEMMA ShowsSign ==
  ASSUME NEW h \in Seq(Bytes), NEW m \in Nat, NEW n1 \in Nat, NEW n2 \in Nat,
         NEW n3 \in Nat, NEW n4 \in Nat, n1 = m + 1, n2 = n1 + 1, n3 = n2 + 1,
         n4 = n3 + 1, n4 = Len(h),
         NEW x \in {Less, Greater}, h[n1] = 38,
         h[n2] = IF x = Less THEN 108 ELSE 103, h[n3] = 116, h[n4] = 59
  PROVE  /\ ShownAt(h, n1) = <<x>>
         /\ ShownAt(h, n2) = <<>>
         /\ ShownAt(h, n3) = <<>>
         /\ ShownAt(h, n4) = <<>>
  <1>1. /\ n2 = n1 + 1 /\ n3 = n1 + 2 /\ n4 = n1 + 3 /\ n1 \in 1 .. n4
        /\ n1 + 3 <= n4
    OBVIOUS
  <1>2. Sign(h, n1)
    BY <1>1 DEF Sign
  <1>3. /\ EntityAt(h, n1)
        /\ SubSeq(h, n1, n1 + 3) = LT <=> h[n1 + 1] = 108
    <2>1. Signs(h, n4)
      BY SignsOf
    <2>2. EntityAt(h, n1)
      BY <1>1, <1>2, <2>1 DEF Signs
    <2>3. QED BY <1>1, <2>1, <2>2 DEF Signs
  <1>4. ShownAt(h, n1) = <<x>>
    <2>1. h[n1 + 1] = 108 <=> x = Less
      <3>1. n1 + 1 = n2
        OBVIOUS
      <3>2. h[n2] = 108 <=> x = Less
        OBVIOUS
      <3>3. QED BY <3>1, <3>2
    <2>2. QED BY <1>3, <2>1 DEF ShownAt
  <1>5. ASSUME NEW k \in {n2, n3, n4} PROVE ShownAt(h, k) = <<>>
    <2>1. k \in Nat /\ ~ (k + 3 <= n4) /\ n1 \in 1 .. k - 1 /\ k - n1 <= 3
      BY <1>1
    <2>2. ~ EntityAt(h, k)
      BY <2>1 DEF EntityAt
    <2>3. InsideEntity(h, k)
      BY <1>3, <2>1 DEF InsideEntity
    <2>4. QED BY <2>2, <2>3 DEF ShownAt
  <1>6. QED BY <1>4, <1>5

(* One byte more of a text is one byte more on the screen.                 *)
LEMMA ShowsNew ==
  ASSUME NEW s \in Seq(Bytes), NEW x \in Bytes, NoEscape(Append(s, x)),
         Shown(LiveHtml(s)) = s
  PROVE  Shown(LiveHtml(Append(s, x))) = Append(s, x)
  <1>1. PICK g, h, d : /\ g = LiveHtml(s) /\ h = LiveHtml(Append(s, x))
                       /\ d = EscapeOf(x)
    OBVIOUS
  <1>2. g \in Seq(Bytes) /\ d \in Seq(Bytes) /\ h = g \o d
    BY <1>1, LiveType, LiveAppend
  <1>3. h \in Seq(Bytes) /\ Concat(h, g, d)
    BY <1>2, ConcatIs
  <1>4. PICK m \in Nat : m = Len(g)
    BY <1>2, LenProperties
  <1>5. \A i \in 1 .. m : EntityAt(h, i) => i + 3 <= m
    BY <1>1, <1>4, NothingAcross
  <1>6. ShownTo(h, m) = s
    <2>1. ShownTo(h, m) = Shown(g)
      BY <1>2, <1>4, <1>5, ShownSame
    <2>2. QED BY <1>1, <2>1
  <1>7. /\ Len(h) = m + Len(d)
        /\ \A i \in 1 .. Len(d) : h[m + i] = d[i]
    BY <1>3, <1>4 DEF Concat
  <1>8. \A n \in Nat : n = Len(h) => Shown(h) = ShownTo(h, n)
    BY DEF Shown, ShownTo
  <1>9. s \o <<x>> = Append(s, x)
    BY AppendIsConcat
  <1>10. CASE x # Less /\ x # Greater
    <2>1. d = <<x>>
      BY <1>1, <1>10 DEF EscapeOf
    <2>2. Len(d) = 1 /\ d[1] = x
      BY <2>1, OneElement
    <2>3. PICK n \in Nat : n = m + 1
      OBVIOUS
    <2>4. n = Len(h) /\ h[n] = x
      BY <1>7, <2>2, <2>3, 1 \in 1 .. 1
    <2>5. ShownAt(h, n) = <<x>>
      BY <1>3, <1>5, <2>3, <2>4, ShowsByte
    <2>6. ShownTo(h, n) = ShownTo(h, m) \o ShownAt(h, n)
      BY <1>3, <2>3, <2>4, ShownNext
    <2>7. QED BY <1>1, <1>6, <1>8, <1>9, <2>4, <2>5, <2>6
  <1>11. CASE x = Less \/ x = Greater
    <2>1. /\ Len(d) = 4 /\ d[1] = 38 /\ d[3] = 116 /\ d[4] = 59
          /\ d[2] = IF x = Less THEN 108 ELSE 103
      <3>1. Less # Greater
        BY DEF Less, Greater
      <3>2. d = IF x = Less THEN LT ELSE GT
        BY <1>1, <1>11, <3>1 DEF EscapeOf
      <3>3. QED BY <3>2, EntityBytes
    <2>2. PICK n1, n2, n3, n4 \in Nat : /\ n1 = m + 1 /\ n2 = n1 + 1
                                        /\ n3 = n2 + 1 /\ n4 = n3 + 1
      OBVIOUS
    <2>3. n1 = m + 1 /\ n2 = m + 2 /\ n3 = m + 3 /\ n4 = m + 4
      BY <2>2
    <2>4. /\ n4 = Len(h) /\ h[n1] = 38 /\ h[n3] = 116 /\ h[n4] = 59
          /\ h[n2] = IF x = Less THEN 108 ELSE 103
      <3>1. 1 \in 1 .. 4 /\ 2 \in 1 .. 4 /\ 3 \in 1 .. 4 /\ 4 \in 1 .. 4
        OBVIOUS
      <3>2. /\ h[m + 1] = d[1] /\ h[m + 2] = d[2] /\ h[m + 3] = d[3]
            /\ h[m + 4] = d[4]
        BY <1>7, <2>1, <3>1
      <3>3. QED BY <1>7, <2>1, <2>3, <3>2
    <2>5. /\ ShownAt(h, n1) = <<x>> /\ ShownAt(h, n2) = <<>>
          /\ ShownAt(h, n3) = <<>> /\ ShownAt(h, n4) = <<>>
      <3>1. x \in {Less, Greater}
        BY <1>11
      <3>2. QED BY <1>3, <2>2, <2>4, <3>1, ShowsSign
    <2>6. n1 <= Len(h) /\ n2 <= Len(h) /\ n3 <= Len(h) /\ n4 <= Len(h)
      BY <2>2, <2>4
    <2>7. PICK w \in Seq(Bytes) : w = Append(s, x)
      BY AppendProperties
    <2>8. ShownTo(h, n1) = w
      <3>1. ShownTo(h, n1) = ShownTo(h, m) \o ShownAt(h, n1)
        BY <1>3, <2>2, <2>6, ShownNext
      <3>2. QED BY <1>6, <1>9, <2>5, <2>7, <3>1
    <2>9. w \o <<>> = w
      BY ConcatEmptySeq
    <2>10. ShownTo(h, n2) = w
      <3>1. ShownTo(h, n2) = ShownTo(h, n1) \o ShownAt(h, n2)
        BY <1>3, <2>2, <2>6, ShownNext
      <3>2. QED BY <2>5, <2>8, <2>9, <3>1
    <2>11. ShownTo(h, n3) = w
      <3>1. ShownTo(h, n3) = ShownTo(h, n2) \o ShownAt(h, n3)
        BY <1>3, <2>2, <2>6, ShownNext
      <3>2. QED BY <2>5, <2>9, <2>10, <3>1
    <2>12. ShownTo(h, n4) = w
      <3>1. ShownTo(h, n4) = ShownTo(h, n3) \o ShownAt(h, n4)
        BY <1>3, <2>2, <2>6, ShownNext
      <3>2. QED BY <2>5, <2>9, <2>11, <3>1
    <2>13. QED BY <1>1, <1>8, <2>4, <2>7, <2>12
  <1>12. QED BY <1>10, <1>11

(* Without signs that were typed, the screen shows the text.               *)
LEMMA ShowsAsTyped ==
  \A s \in Seq(Bytes) : NoEscape(s) => Shown(LiveHtml(s)) = s
  <1> DEFINE P == {s \in Seq(Bytes) : NoEscape(s) => Shown(LiveHtml(s)) = s}
  <1>1. <<>> \in P
    <2>1. [i \in 1 .. Len(<<>>) |-> ShownAt(<<>>, i)] = <<>>
      OBVIOUS
    <2>2. Shown(<<>>) = <<>>
      BY <2>1, FlattenEmpty DEF Shown
    <2>3. QED BY <2>2, LiveEmpty, EmptySeq
  <1>2. ASSUME NEW s \in Seq(Bytes), NEW e \in Bytes, s \in P
        PROVE  Append(s, e) \in P
    <2>1. Append(s, e) \in Seq(Bytes)
      BY AppendProperties
    <2>2. ASSUME NoEscape(Append(s, e))
          PROVE  Shown(LiveHtml(Append(s, e))) = Append(s, e)
      <3>1. NoEscape(s)
        BY <2>2, NoEscapePrefix
      <3>2. Shown(LiveHtml(s)) = s
        BY <1>2, <3>1
      <3>3. QED BY <2>2, <3>2, ShowsNew
    <2>3. QED BY <2>1, <2>2
  <1>3. QED
    <2> HIDE DEF P
    <2>1. \A s \in Seq(Bytes) : s \in P
      BY <1>1, <1>2, SeqInd
    <2>2. QED BY <2>1 DEF P

(* A trimmed text is a text.                                               *)
LEMMA TrimType == \A s \in Seq(Bytes) : btrimws(s) \in Seq(Bytes)
  <1> SUFFICES ASSUME NEW s \in Seq(Bytes) PROVE btrimws(s) \in Seq(Bytes)
    OBVIOUS
  <1>1. CASE Kept(s) = {}
    BY <1>1, TrimNothing, EmptySeq
  <1>2. CASE Kept(s) # {}
    <2>1. PICK a, b : a = Min(Kept(s)) /\ b = Max(Kept(s))
      OBVIOUS
    <2>2. PICK n \in Nat : n = Len(s)
      BY LenProperties
    <2>3. /\ a \in 1 .. n /\ b \in 1 .. n
          /\ btrimws(s) = SubSeq(s, a, b)
      BY <1>2, <2>1, <2>2, TrimKept
    <2>4. a \in 1 .. n + 1 /\ b \in 0 .. n
      BY <2>3
    <2>5. QED BY <2>2, <2>3, <2>4, SubSeqIs
  <1>3. QED BY <1>1, <1>2

(* Every ampersand begins a sign.                                          *)
Begun(h) == \A i \in 1 .. Len(h) : h[i] = 38 => EntityAt(h, i)

LEMMA BegunConcat ==
  ASSUME NEW h \in Seq(Bytes), NEW d \in Seq(Bytes), Begun(h), Begun(d)
  PROVE  Begun(h \o d)
  <1>1. PICK w \in Seq(Bytes) : w = h \o d
    BY ConcatIs
  <1>2. PICK n, k \in Nat : n = Len(h) /\ k = Len(d)
    BY LenProperties
  <1>3. /\ Len(w) = n + k
        /\ \A i \in 1 .. n : w[i] = h[i]
        /\ \A i \in 1 .. k : w[n + i] = d[i]
    BY <1>1, <1>2, ConcatIs DEF Concat
  <1>4. PICK m \in Nat : m = n + k
    OBVIOUS
  <1>5. ASSUME NEW i \in 1 .. m, w[i] = 38 PROVE EntityAt(w, i)
    <2>1. CASE i <= n
      <3>1. i \in 1 .. n /\ h[i] = 38
        BY <1>3, <1>5, <2>1
      <3>2. EntityAt(h, i)
        BY <1>2, <3>1 DEF Begun
      <3>3. i + 3 <= n /\ Sign(h, i)
        BY <1>2, <3>1, <3>2, EntityIs
      <3>4. i + 1 \in 1 .. n /\ i + 2 \in 1 .. n /\ i + 3 \in 1 .. n
        BY <3>3
      <3>5. Sign(w, i)
        BY <1>3, <3>1, <3>3, <3>4 DEF Sign
      <3>6. i + 3 <= m
        BY <1>4, <3>3
      <3>7. QED BY <1>3, <1>4, <3>5, <3>6, EntityIs
    <2>2. CASE ~ (i <= n)
      <3>1. PICK j \in 1 .. k : i = n + j
        <4>1. i - n \in 1 .. k /\ i = n + (i - n)
          BY <1>4, <2>2
        <4>2. QED BY <4>1
      <3>2. d[j] = 38
        BY <1>3, <1>5, <3>1
      <3>3. EntityAt(d, j)
        BY <1>2, <3>2 DEF Begun
      <3>4. j + 3 <= k /\ Sign(d, j)
        BY <1>2, <3>3, EntityIs
      <3>5. /\ j + 1 \in 1 .. k /\ j + 2 \in 1 .. k /\ j + 3 \in 1 .. k
            /\ i + 1 = n + (j + 1) /\ i + 2 = n + (j + 2)
            /\ i + 3 = n + (j + 3)
        BY <3>1, <3>4
      <3>6. /\ w[i + 1] = d[j + 1] /\ w[i + 2] = d[j + 2]
            /\ w[i + 3] = d[j + 3]
        BY <1>3, <3>5
      <3>7. Sign(w, i)
        BY <1>5, <3>4, <3>6 DEF Sign
      <3>8. i + 3 <= m
        BY <1>4, <3>1, <3>4
      <3>9. QED BY <1>3, <1>4, <3>7, <3>8, EntityIs
    <2>3. QED BY <2>1, <2>2
  <1>6. QED BY <1>1, <1>3, <1>4, <1>5 DEF Begun

(* So it is in what is sent for any byte but the ampersand.                *)
LEMMA BegunSign ==
  ASSUME NEW h \in Seq(Bytes), Len(h) = 4, h[1] = 38, h[2] \in {103, 108},
         h[3] = 116, h[4] = 59
  PROVE  Begun(h)
  <1>1. PICK n \in Nat : n = Len(h)
    BY LenProperties
  <1>2. Sign(h, 1)
    BY DEF Sign
  <1>3. PICK o \in 1 .. n : o = 1
    BY <1>1
  <1>4. EntityAt(h, o)
    <2>1. EntityAt(h, o) <=> o + 3 <= n /\ Sign(h, o)
      BY <1>1, EntityIs
    <2>2. Sign(h, o)
      BY <1>2, <1>3
    <2>3. o + 3 <= n
      BY <1>1, <1>3
    <2>4. QED BY <2>1, <2>2, <2>3
  <1>5. \A i \in 1 .. 4 : i = 1 \/ i = 2 \/ i = 3 \/ i = 4
    OBVIOUS
  <1>6. \A i \in 1 .. 4 : h[i] = 38 => i = o
    BY <1>3, <1>5
  <1>7. QED BY <1>4, <1>6 DEF Begun

LEMMA BegunEscape ==
  ASSUME NEW x \in Bytes, x # 38
  PROVE  Begun(EscapeOf(x))
  <1>1. Begun(LT) /\ Begun(GT)
    BY EntityBytes, BegunSign
  <1>2. Begun(<<x>>)
    <2>1. Nowhere(38, <<x>>)
      BY NowhereOne
    <2>2. QED BY <2>1 DEF Begun, Nowhere
  <1>3. QED BY <1>1, <1>2 DEF EscapeOf

(* And in what is sent for a text without one.                             *)
LEMMA LiveBegun ==
  \A s \in Seq(Bytes) : Nowhere(38, s) => Begun(LiveHtml(s))
  <1> DEFINE P == {s \in Seq(Bytes) : Nowhere(38, s) => Begun(LiveHtml(s))}
  <1>1. <<>> \in P
    BY EmptySeq, LiveEmpty DEF Begun
  <1>2. ASSUME NEW s \in Seq(Bytes), NEW e \in Bytes, s \in P
        PROVE  Append(s, e) \in P
    <2>1. PICK h, d \in Seq(Bytes) : h = LiveHtml(s) /\ d = EscapeOf(e)
      BY LiveType, LiveAppend
    <2>2. ASSUME Nowhere(38, Append(s, e))
          PROVE  Begun(LiveHtml(Append(s, e)))
      <3>1. Nowhere(38, s) /\ e # 38
        BY <2>2, NowherePrefix
      <3>2. Begun(h) /\ Begun(d)
        BY <1>2, <2>1, <3>1, BegunEscape
      <3>3. Begun(h \o d)
        BY <3>2, BegunConcat
      <3>4. QED BY <2>1, <3>3, LiveAppend
    <2>3. QED BY <2>2, AppendProperties
  <1>3. QED
    <2> HIDE DEF P
    <2>1. \A s \in Seq(Bytes) : s \in P
      BY <1>1, <1>2, SeqInd
    <2>2. QED BY <2>1 DEF P

ShowsLive(raw) ==
  LET html == PageHtml(raw)
  IN /\ html = LiveHtml(raw)
     /\ Range(html) \cap {Less, Greater} = {}
     /\ Amp \notin Range(raw) =>
          /\ \A i \in 1 .. Len(html) : html[i] = Amp => EntityAt(html, i)
          /\ Shown(html) = raw

(* The fourth property, of one text, and in a state.                       *)
LEMMA ShowsAny == \A raw \in Seq(Bytes) : ShowsLive(raw)
  <1> SUFFICES ASSUME NEW raw \in Seq(Bytes) PROVE ShowsLive(raw)
    OBVIOUS
  <1>1. PICK h \in Seq(Bytes) : h = LiveHtml(raw)
    BY LiveType
  <1>2. PageHtml(raw) = h
    BY <1>1, PageIsLive
  <1>3. Range(h) \cap {Less, Greater} = {}
    <2>1. Nowhere(Less, h) /\ Nowhere(Greater, h)
      BY <1>1, LivePlain
    <2>2. Range(h) = {h[i] : i \in 1 .. Len(h)}
      BY RangeEquality
    <2>3. QED BY <2>1, <2>2 DEF Nowhere
  <1>4. ASSUME Amp \notin Range(raw)
        PROVE  Begun(h) /\ Shown(h) = raw
    <2>1. Nowhere(38, raw)
      <3>1. Range(raw) = {raw[i] : i \in 1 .. Len(raw)}
        BY RangeEquality
      <3>2. QED BY <1>4, <3>1 DEF Nowhere, Amp
    <2>2. NoEscape(raw)
      <3>1. PICK n \in Nat : n = Len(raw)
        BY LenProperties
      <3>2. \A i \in 1 .. n : raw[i] # 38
        BY <2>1, <3>1 DEF Nowhere
      <3>3. \A i \in 1 .. n : ~ EntityAt(raw, i)
        BY <3>1, <3>2, EntityIs DEF Sign
      <3>4. QED BY <3>1, <3>3 DEF NoEscape
    <2>3. Shown(LiveHtml(raw)) = raw
      BY <2>2, ShowsAsTyped
    <2>4. Begun(LiveHtml(raw))
      BY <2>1, LiveBegun
    <2>5. QED BY <1>1, <2>3, <2>4
  <1>5. Amp \notin Range(raw) =>
          /\ \A i \in 1 .. Len(h) : h[i] = Amp => EntityAt(h, i)
          /\ Shown(h) = raw
    BY <1>4 DEF Begun, Amp
  <1>6. QED BY <1>1, <1>2, <1>3, <1>5 DEF ShowsLive

LEMMA Page == TextTyped => PageShowsTheLiveLine
  <1> SUFFICES ASSUME TextTyped PROVE PageShowsTheLiveLine
    OBVIOUS
  <1>1. typed \in Seq(Bytes) /\ LT \in Seq(Bytes) /\ GT \in Seq(Bytes)
    BY TypedIsBytes, EntityBytes
  <1>2. LT \o typed \in Seq(Bytes) /\ typed \o GT \in Seq(Bytes)
    BY <1>1, ConcatIs
  <1>3. {btrimws(typed), btrimws(LT \o typed), btrimws(typed \o GT)}
          \subseteq Seq(Bytes)
    BY <1>1, <1>2, TrimType
  <1>4. \A raw \in {btrimws(typed), btrimws(LT \o typed),
                    btrimws(typed \o GT)} : ShowsLive(raw)
    BY <1>3, ShowsAny
  <1>5. QED BY <1>4 DEF PageShowsTheLiveLine, ShowsLive

-----------------------------------------------------------------------------
(* The state: what is typed is a text, in every state the pages reach.     *)
LEMMA TextTypeInvariant == TextSpec => []TextTyped
  <1>1. TextInit => TextTyped
    BY EmptySeq DEF TextInit, TextTyped
  <1>2. TextTyped /\ [TextNext]_typed => TextTyped'
    <2> SUFFICES ASSUME TextTyped, [TextNext]_typed PROVE TextTyped'
      OBVIOUS
    <2>1. CASE TypeText
      BY <2>1, AppendProperties DEF TextTyped, TypeText
    <2>2. CASE SubmitText
      BY <2>2, EmptySeq DEF TextTyped, SubmitText
    <2>3. CASE UNCHANGED typed
      BY <2>3 DEF TextTyped
    <2>4. QED BY <2>1, <2>2, <2>3 DEF TextNext
  <1>3. QED BY <1>1, <1>2, PTL DEF TextSpec

(* For every set of bytes that are typed and every length: a route reads   *)
(* from its form what was typed into the field (bcgi_urldecode,            *)
(* bcgi_query_key, bsplit), with no other entry in its way.                *)
THEOREM FormFieldsReachTheRoutes == TextSpec => []FormFieldAsTyped
  BY TextTypeInvariant, FormField, PTL

(* For every hash and every other cookie before or after it, both threads  *)
(* read back the hash that chatdb_add_session stored, with its padding cut *)
(* off (bcgi_query_key_str, webutil_get_cookies).                          *)
THEOREM SessionCookiesAreFound == TextSpec => []BothThreadsFindTheSession
  BY TextTypeInvariant, Session, PTL

(* For every text, rtproto_command takes the line chat.js sends for a      *)
(* PRIVMSG, and rtproto_cmd_privmsg takes from it the trimmed text, or     *)
(* none if there are only blanks.                                          *)
THEOREM LinesArriveAsTyped == TextSpec => []LineAsTyped
  BY TextTypeInvariant, Line, PTL

(* For every text, the second bcgi_html_escape of a page changes nothing   *)
(* of what was sent live, and no markup passes; of a text without an       *)
(* ampersand every reference on the page is one of the escape, and the     *)
(* screen shows the text.                                                  *)
THEOREM PagesShowTheLiveLine == TextSpec => []PageShowsTheLiveLine
  BY TextTypeInvariant, Page, PTL
=============================================================================

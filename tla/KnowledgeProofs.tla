--------------------------- MODULE KnowledgeProofs ---------------------------
(***************************************************************************)
(* Theorems about Knowledge, for pages of any size, all limits, every hash *)
(* and every catalogue of questions: splitting keeps the text, points are  *)
(* those of their chunks, replies are kept.                                *)
(*                                                                         *)
(* The stages are recursive functions over texts.  Such a function exists  *)
(* because a loop does (LoopExists), and what it has built is shown up to  *)
(* every length (UpTo).  The ink of a text is what is left without blanks  *)
(* and marks; Without distributes over concatenation, and so what each     *)
(* stage of the splitting keeps adds up.                                   *)
(***************************************************************************)
EXTENDS Knowledge, SequenceTheorems, FiniteSetTheorems, WellFoundedInduction, TLAPS

-----------------------------------------------------------------------------
(* Induction and loops *)

\* Every set of numbers that is not empty has a least member.
LEMMA LeastExists ==
    ASSUME NEW T \in SUBSET Nat, T # {}
    PROVE  \E m \in T : \A n \in T : m <= n
<1> DEFINE R == {s \in Nat \X Nat : s[1] < s[2]}
<1>1. IsWellFoundedOn(R, Nat)
  BY NatLessThanWellFounded DEF OpToRel
<1>2. \E m \in T : \A n \in T : ~(<<n, m>> \in R)
  <2> HIDE DEF R
  <2> QED  BY <1>1, WFMin
<1>3. PICK m \in T : \A n \in T : ~(<<n, m>> \in R)
  BY <1>2
<1>4. ASSUME NEW n \in T PROVE m <= n
  <2>1. <<n, m>> \in Nat \X Nat /\ ~(n < m)
    BY <1>3
  <2> QED  BY <2>1
<1> QED  BY <1>4

\* Induction up to n, over a set of numbers.
LEMMA UpTo ==
    ASSUME NEW n \in Nat, NEW P, 0 \in P, \A k \in 1 .. n : k - 1 \in P => k \in P
    PROVE  \A k \in 0 .. n : k \in P
<1> DEFINE bad == {k \in 0 .. n : k \notin P}
<1> SUFFICES ASSUME bad # {} PROVE FALSE
  OBVIOUS
<1>1. PICK m \in bad : \A k \in bad : m <= k
  <2>1. bad \in SUBSET Nat
    OBVIOUS
  <2> HIDE DEF bad
  <2> QED  BY <2>1, LeastExists
<1>2. m # 0 /\ m \in 1 .. n
  BY <1>1
<1>3. m - 1 \in bad
  BY <1>1, <1>2
<1> QED  BY <1>1, <1>2, <1>3

\* Induction over sequences, over a set of sequences.
LEMMA SeqInduction ==
    ASSUME NEW S, NEW P, <<>> \in P, \A s \in Seq(S), e \in S : s \in P => Append(s, e) \in P
    PROVE  \A s \in Seq(S) : s \in P
<1> DEFINE Q == {n \in Nat : \A s \in Seq(S) : Len(s) = n => s \in P}
<1>1. 0 \in Q
  BY EmptySeq
<1>2. ASSUME NEW n \in Nat \ {0}, n - 1 \in Q PROVE n \in Q
  <2>1. ASSUME NEW s \in Seq(S), Len(s) = n PROVE s \in P
    <3>1. s # <<>>
      BY <2>1
    <3>2. PICK t \in Seq(S), e \in S : s = Append(t, e)
      BY <3>1, SequenceEmptyOrAppend
    <3>3. Len(t) = n - 1
      BY <2>1, <3>2, AppendProperties
    <3> QED  BY <1>2, <3>2, <3>3
  <2> QED  BY <2>1
<1>3. ASSUME NEW s \in Seq(S) PROVE s \in P
  <2>1. Len(s) \in Nat
    OBVIOUS
  <2>2. \A k \in 1 .. Len(s) : k - 1 \in Q => k \in Q
    <3> HIDE DEF Q
    <3> QED  BY <2>1, <1>2
  <2>3. \A k \in 0 .. Len(s) : k \in Q
    <3> HIDE DEF Q
    <3> QED  BY <1>1, <2>1, <2>2, UpTo
  <2>4. Len(s) \in Q
    BY <2>1, <2>3
  <2> QED  BY <2>4
<1> QED  BY <1>3

\* A loop: n steps, of which the k-th makes g[<<k, x>>] of x.
Loops(f, n, b, g) == f[0] = b /\ \A k \in 1 .. n : f[k] = g[<<k, f[k - 1]>>]

\* A loop that starts with b and applies g at every step has values.
LEMMA LoopExists ==
    ASSUME NEW S, NEW n \in Nat, NEW b \in S, NEW g \in [(1 .. n) \X S -> S]
    PROVE  \E f \in [0 .. n -> S] : Loops(f, n, b, g)
<1> DEFINE P == {k \in 0 .. n : \E f \in [0 .. k -> S] : Loops(f, k, b, g)}
<1>1. 0 \in P
  <2>1. [k \in 0 .. 0 |-> b] \in [0 .. 0 -> S] /\ Loops([k \in 0 .. 0 |-> b], 0, b, g)
    BY DEF Loops
  <2> QED  BY <2>1
<1>2. ASSUME NEW k \in 1 .. n, k - 1 \in P PROVE k \in P
  <2>1. PICK f \in [0 .. k - 1 -> S] : Loops(f, k - 1, b, g)
    BY <1>2
  <2> DEFINE h == [i \in 0 .. k |-> IF i = k THEN g[<<k, f[k - 1]>>] ELSE f[i]]
  <2>2. f[k - 1] \in S /\ g[<<k, f[k - 1]>>] \in S
    BY <2>1
  <2>3. h \in [0 .. k -> S]
    BY <2>1, <2>2
  <2>4. Loops(h, k, b, g)
    <3>1. h[0] = b
      BY <2>1 DEF Loops
    <3>2. ASSUME NEW i \in 1 .. k PROVE h[i] = g[<<i, h[i - 1]>>]
      <4>1. i - 1 \in 0 .. k - 1 /\ h[i - 1] = f[i - 1]
        OBVIOUS
      <4>2. CASE i = k
        <5>1. h[k] = g[<<k, f[k - 1]>>]
          OBVIOUS
        <5> HIDE DEF h
        <5> QED  BY <4>1, <4>2, <5>1
      <4>3. CASE i # k
        <5>1. i \in 1 .. k - 1 /\ h[i] = f[i]
          BY <4>3
        <5>2. f[i] = g[<<i, f[i - 1]>>]
          BY <2>1, <5>1 DEF Loops
        <5> HIDE DEF h
        <5> QED  BY <4>1, <5>1, <5>2
      <4> QED  BY <4>2, <4>3
    <3> HIDE DEF h
    <3> QED  BY <3>1, <3>2 DEF Loops
  <2> HIDE DEF h
  <2> QED  BY <2>3, <2>4
<1>3. \A k \in 0 .. n : k \in P
  <2> HIDE DEF P
  <2> QED  BY <1>1, <1>2, UpTo
<1>4. n \in P
  <2> HIDE DEF P
  <2> QED  BY <1>3
<1> QED  BY <1>4

-----------------------------------------------------------------------------
(* Sequences of sequences *)

\* Concatenation is associative; the provers need the equation by a name.
Associates(s, t, u) == (s \o t) \o u = s \o (t \o u)

\* Concatenation is associative.
LEMMA Associative ==
    \A S : \A s, t, u \in Seq(S) : Associates(s, t, u)
BY ConcatAssociative DEF Associates

\* FlattenSeq is a loop.
LEMMA FlattenLoop ==
    ASSUME NEW S, NEW ss \in Seq(Seq(S))
    PROVE  \E f \in [0 .. Len(ss) -> Seq(S)] :
              /\ f[0] = <<>>
              /\ \A k \in 1 .. Len(ss) : f[k] = f[k - 1] \o ss[k]
              /\ FlattenSeq(ss) = f[Len(ss)]
<1> DEFINE n == Len(ss)
           g == [p \in (1 .. n) \X Seq(S) |-> p[2] \o ss[p[1]]]
<1>1. n \in Nat /\ <<>> \in Seq(S) /\ \A k \in 1 .. n : ss[k] \in Seq(S)
  OBVIOUS
<1>2. g \in [(1 .. n) \X Seq(S) -> Seq(S)]
  BY <1>1
<1>3. PICK f \in [0 .. n -> Seq(S)] : Loops(f, n, <<>>, g)
  <2> HIDE DEF n, g
  <2> QED  BY <1>1, <1>2, LoopExists
<1>4. f[0] = <<>> /\ \A k \in 1 .. n : f[k] = f[k - 1] \o ss[k]
  <2>1. ASSUME NEW k \in 1 .. n PROVE f[k] = f[k - 1] \o ss[k]
    <3>1. f[k - 1] \in Seq(S) /\ f[k] = g[<<k, f[k - 1]>>]
      <4> HIDE DEF g, n
      <4>1. k - 1 \in 0 .. n
        BY <1>1
      <4> QED  BY <1>3, <4>1 DEF Loops
    <3>2. g[<<k, f[k - 1]>>] = f[k - 1] \o ss[k]
      BY <3>1
    <3> QED  BY <3>1, <3>2
  <2> HIDE DEF g, n
  <2> QED  BY <1>3, <2>1 DEF Loops
<1> HIDE DEF g
<1>5. CASE n = 0
  BY <1>3, <1>4, <1>5 DEF FlattenSeq
<1>6. CASE n # 0
  <2> DEFINE F == CHOOSE F : F = [i \in 1 .. n |-> IF i = 1 THEN ss[i] ELSE F[i - 1] \o ss[i]]
             h == [i \in 1 .. n |-> f[i]]
  <2>1. f[1] = ss[1]
    <3>0. 1 \in 1 .. n /\ 1 - 1 = 0
      BY <1>1, <1>6
    <3>1. f[1] = f[0] \o ss[1]
      <4> HIDE DEF n
      <4> QED  BY <1>4, <3>0
    <3>2. ss[1] \in Seq(S)
      BY <1>1, <1>6
    <3> QED  BY <1>4, <3>1, <3>2, ConcatEmptySeq
  <2>2. h = [i \in 1 .. n |-> IF i = 1 THEN ss[i] ELSE h[i - 1] \o ss[i]]
    <3>1. ASSUME NEW i \in 1 .. n PROVE h[i] = IF i = 1 THEN ss[i] ELSE h[i - 1] \o ss[i]
      <4>1. h[i] = f[i] /\ (i # 1 => h[i - 1] = f[i - 1])
        BY <1>1
      <4> HIDE DEF h
      <4> QED  BY <1>4, <2>1, <4>1
    <3>2. h = [i \in 1 .. n |-> h[i]]
      OBVIOUS
    <3> HIDE DEF h
    <3> QED  BY <3>1, <3>2
  <2>3. F = [i \in 1 .. n |-> IF i = 1 THEN ss[i] ELSE F[i - 1] \o ss[i]]
    <3>1. \E G : G = [i \in 1 .. n |-> IF i = 1 THEN ss[i] ELSE G[i - 1] \o ss[i]]
      BY <2>2
    <3> QED  BY <3>1
  <2> HIDE DEF F
  <2> DEFINE P == {k \in 0 .. n : k # 0 => F[k] = f[k]}
  <2>4. 0 \in P
    BY <1>1
  <2>5. ASSUME NEW k \in 1 .. n, k - 1 \in P PROVE k \in P
    <3>0. F[k] = IF k = 1 THEN ss[k] ELSE F[k - 1] \o ss[k]
      BY <2>3
    <3>1. CASE k = 1
      <4>1. F[k] = f[k] /\ k \in 0 .. n
        BY <1>1, <2>1, <3>0, <3>1
      <4> QED  BY <4>1
    <3>2. CASE k # 1
      <4>1. F[k - 1] = f[k - 1]
        BY <1>1, <2>5, <3>2
      <4>2. f[k] = f[k - 1] \o ss[k]
        <5> HIDE DEF n
        <5> QED  BY <1>4
      <4>3. F[k] = F[k - 1] \o ss[k]
        <5> HIDE DEF n
        <5> QED  BY <3>0, <3>2
      <4>4. F[k] = f[k]
        BY <4>1, <4>2, <4>3
      <4>5. k \in 0 .. n
        BY <1>1
      <4> QED  BY <4>4, <4>5
    <3> QED  BY <3>1, <3>2
  <2>6. \A k \in 0 .. n : k \in P
    <3> HIDE DEF P
    <3> QED  BY <1>1, <2>4, <2>5, UpTo
  <2>7. F[n] = f[n]
    BY <1>1, <1>6, <2>6
  <2>8. FlattenSeq(ss) = F[n]
    BY <1>6 DEF FlattenSeq, F
  <2> QED  BY <1>4, <2>7, <2>8
<1> QED  BY <1>5, <1>6

\* FlattenSeq returns a sequence of the members of its sequences.
LEMMA FlattenType ==
    ASSUME NEW S, NEW ss \in Seq(Seq(S))
    PROVE  FlattenSeq(ss) \in Seq(S)
<1>1. Len(ss) \in 0 .. Len(ss)
  OBVIOUS
<1>2. PICK f \in [0 .. Len(ss) -> Seq(S)] : FlattenSeq(ss) = f[Len(ss)]
  BY FlattenLoop
<1> QED  BY <1>1, <1>2

\* Nothing is flattened to nothing.
LEMMA FlattenEmpty == FlattenSeq(<<>>) = <<>>
BY DEF FlattenSeq

\* One more sequence is appended to what is flattened.
LEMMA FlattenAppend ==
    ASSUME NEW S, NEW ss \in Seq(Seq(S)), NEW s \in Seq(S)
    PROVE  FlattenSeq(Append(ss, s)) = FlattenSeq(ss) \o s
<1> DEFINE n == Len(ss)
           more == Append(ss, s)
<1>1. n \in Nat /\ more \in Seq(Seq(S)) /\ Len(more) = n + 1 /\ more[n + 1] = s
      /\ \A k \in 1 .. n : more[k] = ss[k]
  OBVIOUS
<1>2. PICK f \in [0 .. n -> Seq(S)] :
         /\ f[0] = <<>>
         /\ \A k \in 1 .. n : f[k] = f[k - 1] \o ss[k]
         /\ FlattenSeq(ss) = f[n]
  BY FlattenLoop
<1> HIDE DEF more
<1>3. PICK g \in [0 .. n + 1 -> Seq(S)] :
         /\ g[0] = <<>>
         /\ \A k \in 1 .. n + 1 : g[k] = g[k - 1] \o more[k]
         /\ FlattenSeq(more) = g[n + 1]
  <2>1. \E g \in [0 .. Len(more) -> Seq(S)] :
           /\ g[0] = <<>>
           /\ \A k \in 1 .. Len(more) : g[k] = g[k - 1] \o more[k]
           /\ FlattenSeq(more) = g[Len(more)]
    BY <1>1, FlattenLoop
  <2> QED  BY <1>1, <2>1
<1> DEFINE P == {k \in 0 .. n : f[k] = g[k]}
<1>4. 0 \in P
  BY <1>1, <1>2, <1>3
<1>5. ASSUME NEW k \in 1 .. n, k - 1 \in P PROVE k \in P
  <2>1. k \in 1 .. n + 1 /\ k \in 0 .. n
    BY <1>1
  <2>2. f[k] = f[k - 1] \o ss[k] /\ g[k] = g[k - 1] \o more[k] /\ more[k] = ss[k]
    <3> HIDE DEF n
    <3> QED  BY <1>1, <1>2, <1>3, <2>1
  <2> QED  BY <1>5, <2>1, <2>2
<1>6. \A k \in 0 .. n : k \in P
  <2> HIDE DEF P
  <2> QED  BY <1>1, <1>4, <1>5, UpTo
<1>7. f[n] = g[n]
  BY <1>1, <1>6
<1>8. n + 1 \in 1 .. n + 1 /\ n + 1 - 1 = n
  BY <1>1
<1>9. g[n + 1] = g[n] \o more[n + 1]
  <2> DEFINE m == n + 1
  <2>1. m \in 1 .. n + 1 /\ m - 1 = n
    BY <1>8
  <2>2. g[m] = g[m - 1] \o more[m]
    <3> HIDE DEF n, m
    <3> QED  BY <1>3, <2>1
  <2> QED  BY <2>1, <2>2
<1> QED  BY <1>1, <1>2, <1>3, <1>7, <1>9 DEF more

\* One sequence is flattened to itself.
LEMMA FlattenOne ==
    ASSUME NEW S, NEW s \in Seq(S)
    PROVE  FlattenSeq(<<s>>) = s
<1>1. Append(<<>>, s) = <<s>> /\ <<>> \in Seq(Seq(S))
  OBVIOUS
<1>2. FlattenSeq(Append(<<>>, s)) = <<>> \o s
  BY <1>1, FlattenAppend, FlattenEmpty
<1> QED  BY <1>1, <1>2, ConcatEmptySeq

\* Flattening distributes over concatenation.
LEMMA FlattenConcat ==
    ASSUME NEW S, NEW ss \in Seq(Seq(S)), NEW tt \in Seq(Seq(S))
    PROVE  FlattenSeq(ss \o tt) = FlattenSeq(ss) \o FlattenSeq(tt)
<1> DEFINE P == {uu \in Seq(Seq(S)) : FlattenSeq(ss \o uu) = FlattenSeq(ss) \o FlattenSeq(uu)}
<1>1. FlattenSeq(ss) \in Seq(S)
  BY FlattenType
<1>2. <<>> \in P
  <2>1. ss \o <<>> = ss /\ FlattenSeq(ss) \o <<>> = FlattenSeq(ss)
    BY <1>1, ConcatEmptySeq
  <2>2. <<>> \in Seq(Seq(S))
    OBVIOUS
  <2> QED  BY <2>1, <2>2, FlattenEmpty
<1>3. ASSUME NEW uu \in Seq(Seq(S)), NEW s \in Seq(S), uu \in P PROVE Append(uu, s) \in P
  <2>1. ss \o Append(uu, s) = Append(ss \o uu, s) /\ ss \o uu \in Seq(Seq(S))
        /\ Append(uu, s) \in Seq(Seq(S))
    OBVIOUS
  <2>2. FlattenSeq(uu) \in Seq(S)
    BY FlattenType
  <2>3. FlattenSeq(ss \o Append(uu, s)) = FlattenSeq(ss \o uu) \o s
    BY <2>1, FlattenAppend
  <2>4. FlattenSeq(Append(uu, s)) = FlattenSeq(uu) \o s
    BY FlattenAppend
  <2>5. (FlattenSeq(ss) \o FlattenSeq(uu)) \o s = FlattenSeq(ss) \o (FlattenSeq(uu) \o s)
    BY <1>1, <2>2, Associative, SMTT(30) DEF Associates
  <2> QED  BY <1>3, <2>1, <2>3, <2>4, <2>5
<1>4. \A uu \in Seq(Seq(S)) : uu \in P
  <2> HIDE DEF P
  <2> QED  BY <1>2, <1>3, SeqInduction
<1> QED  BY <1>4

-----------------------------------------------------------------------------
(* Members of sequences *)

\* The members of a concatenation are those of its parts.
LEMMA ToSetConcat ==
    ASSUME NEW S, NEW s \in Seq(S), NEW t \in Seq(S)
    PROVE  ToSet(s \o t) = ToSet(s) \cup ToSet(t)
<1>1. /\ Len(s) \in Nat /\ Len(t) \in Nat /\ DOMAIN s = 1 .. Len(s) /\ DOMAIN t = 1 .. Len(t)
      /\ DOMAIN (s \o t) = 1 .. Len(s) + Len(t)
      /\ \A i \in 1 .. Len(s) : (s \o t)[i] = s[i]
      /\ \A i \in 1 .. Len(t) : (s \o t)[Len(s) + i] = t[i]
  OBVIOUS
<1>2. ASSUME NEW i \in 1 .. Len(s) + Len(t) PROVE (s \o t)[i] \in ToSet(s) \cup ToSet(t)
  <2>1. CASE i <= Len(s)
    BY <1>1, <2>1 DEF ToSet
  <2>2. CASE ~(i <= Len(s))
    <3>1. i - Len(s) \in 1 .. Len(t) /\ Len(s) + (i - Len(s)) = i
      BY <1>1, <2>2
    <3>2. (s \o t)[Len(s) + (i - Len(s))] = t[i - Len(s)]
      BY <1>1, <3>1
    <3> QED  BY <1>1, <3>1, <3>2 DEF ToSet
  <2> QED  BY <2>1, <2>2
<1>3. ToSet(s \o t) \subseteq ToSet(s) \cup ToSet(t)
  BY <1>1, <1>2 DEF ToSet
<1>4. ASSUME NEW i \in 1 .. Len(s) PROVE s[i] \in ToSet(s \o t)
  <2>1. i \in 1 .. Len(s) + Len(t) /\ (s \o t)[i] = s[i]
    BY <1>1
  <2> QED  BY <1>1, <2>1 DEF ToSet
<1>5. ASSUME NEW i \in 1 .. Len(t) PROVE t[i] \in ToSet(s \o t)
  <2>1. Len(s) + i \in 1 .. Len(s) + Len(t) /\ (s \o t)[Len(s) + i] = t[i]
    BY <1>1
  <2> QED  BY <1>1, <2>1 DEF ToSet
<1> QED  BY <1>1, <1>3, <1>4, <1>5, ZenonT(30) DEF ToSet

\* Append adds one member.
LEMMA ToSetAppend ==
    ASSUME NEW S, NEW s \in Seq(S), NEW e \in S
    PROVE  ToSet(Append(s, e)) = ToSet(s) \cup {e}
<1>1. Append(s, e) = s \o <<e>>
  OBVIOUS
<1>2. <<e>> \in Seq(S)
  OBVIOUS
<1>3. ToSet(<<e>>) = {e}
  BY DEF ToSet
<1>4. \A t \in Seq(S) : ToSet(s \o t) = ToSet(s) \cup ToSet(t)
  BY ToSetConcat
<1>5. ToSet(s \o <<e>>) = ToSet(s) \cup ToSet(<<e>>)
  BY <1>2, <1>4
<1> QED  BY <1>1, <1>3, <1>5

\* The empty sequence has no members.
LEMMA ToSetEmpty == ToSet(<<>>) = {}
BY DEF ToSet

\* The members of a sequence, and its type by them.
LEMMA ToSetType ==
    ASSUME NEW S, NEW s \in Seq(S)
    PROVE  /\ DOMAIN s = 1 .. Len(s) /\ Len(s) \in Nat
           /\ ToSet(s) = {s[i] : i \in 1 .. Len(s)} /\ ToSet(s) \subseteq S
           /\ s \in Seq(ToSet(s))
<1>1. DOMAIN s = 1 .. Len(s) /\ Len(s) \in Nat /\ \A i \in 1 .. Len(s) : s[i] \in S
  OBVIOUS
<1>2. ToSet(s) = {s[i] : i \in 1 .. Len(s)} /\ ToSet(s) \subseteq S
  BY <1>1 DEF ToSet
<1>3. s \in Seq(ToSet(s))
  <2>1. s \in [1 .. Len(s) -> ToSet(s)]
    <3>1. s = [i \in 1 .. Len(s) |-> s[i]]
      BY <1>1
    <3>2. \A i \in 1 .. Len(s) : s[i] \in ToSet(s)
      BY <1>2
    <3> QED  BY <3>1, <3>2
  <2> QED  BY <1>1, <2>1
<1> QED  BY <1>1, <1>2, <1>3

\* What is in the concatenation is in one of the sequences.
LEMMA FlattenToSet ==
    ASSUME NEW S, NEW ss \in Seq(Seq(S))
    PROVE  ToSet(FlattenSeq(ss)) = UNION {ToSet(s) : s \in ToSet(ss)}
<1> DEFINE P == {uu \in Seq(Seq(S)) : ToSet(FlattenSeq(uu)) = UNION {ToSet(s) : s \in ToSet(uu)}}
<1>1. <<>> \in P
  BY FlattenEmpty, ToSetEmpty
<1>2. ASSUME NEW uu \in Seq(Seq(S)), NEW s \in Seq(S), uu \in P PROVE Append(uu, s) \in P
  <2>1. FlattenSeq(Append(uu, s)) = FlattenSeq(uu) \o s /\ FlattenSeq(uu) \in Seq(S)
    BY FlattenAppend, FlattenType
  <2>2. ToSet(FlattenSeq(Append(uu, s))) = ToSet(FlattenSeq(uu)) \cup ToSet(s)
    BY <2>1, ToSetConcat
  <2>3. ToSet(Append(uu, s)) = ToSet(uu) \cup {s}
    BY ToSetAppend
  <2>4. Append(uu, s) \in Seq(Seq(S))
    OBVIOUS
  <2> QED  BY <1>2, <2>2, <2>3, <2>4
<1>3. \A uu \in Seq(Seq(S)) : uu \in P
  <2> HIDE DEF P
  <2> QED  BY <1>1, <1>2, SeqInduction
<1> QED  BY <1>3

-----------------------------------------------------------------------------
(* Without *)

\* What a token becomes.
Left(x, T) == IF x \in T THEN <<>> ELSE <<x>>

\* Without flattens what is left of each member, and returns a sequence.
LEMMA WithoutIs ==
    ASSUME NEW S, NEW s \in Seq(S), NEW T
    PROVE  /\ Without(s, T) = FlattenSeq([i \in 1 .. Len(s) |-> Left(s[i], T)])
           /\ [i \in 1 .. Len(s) |-> Left(s[i], T)] \in Seq(Seq(S))
           /\ Len([i \in 1 .. Len(s) |-> Left(s[i], T)]) = Len(s)
           /\ Without(s, T) \in Seq(S)
<1>1. DOMAIN s = 1 .. Len(s) /\ Len(s) \in Nat
  OBVIOUS
<1>2. Without(s, T) = FlattenSeq([i \in 1 .. Len(s) |-> Left(s[i], T)])
  BY <1>1 DEF Without, Left
<1>3. \A i \in 1 .. Len(s) : Left(s[i], T) \in Seq(S)
  BY DEF Left
<1>4. [i \in 1 .. Len(s) |-> Left(s[i], T)] \in Seq(Seq(S))
  BY <1>1, <1>3
<1>5. Len([i \in 1 .. Len(s) |-> Left(s[i], T)]) = Len(s)
  BY <1>1
<1> QED  BY <1>2, <1>4, <1>5, FlattenType

\* Nothing is left of the empty sequence.
LEMMA WithoutEmpty == \A T : Without(<<>>, T) = <<>>
<1>1. ASSUME NEW T PROVE Without(<<>>, T) = <<>>
  <2>1. [i \in DOMAIN <<>> |-> IF <<>>[i] \in T THEN <<>> ELSE <<<<>>[i]>>] = <<>>
    OBVIOUS
  <2> QED  BY <2>1, FlattenEmpty DEF Without
<1> QED  BY <1>1

\* What is left of an appended member comes last.
LEMMA WithoutAppend ==
    ASSUME NEW S, NEW s \in Seq(S), NEW e \in S, NEW T
    PROVE  Without(Append(s, e), T) = Without(s, T) \o Left(e, T)
<1> DEFINE n == Len(s)
           left(t) == [i \in 1 .. Len(t) |-> Left(t[i], T)]
<1>1. /\ n \in Nat /\ Append(s, e) \in Seq(S) /\ Len(Append(s, e)) = n + 1
      /\ Append(s, e)[n + 1] = e /\ \A i \in 1 .. n : Append(s, e)[i] = s[i]
  OBVIOUS
<1>2. left(s) \in Seq(Seq(S)) /\ Len(left(s)) = n /\ Left(e, T) \in Seq(S)
  <2>1. left(s) \in Seq(Seq(S)) /\ Len(left(s)) = n
    BY WithoutIs
  <2> QED  BY <2>1 DEF Left
<1>3. left(Append(s, e)) = Append(left(s), Left(e, T))
  <2> DEFINE more == Append(s, e)
             l == left(s)
             x == Left(e, T)
             both == Append(l, x)
  <2>1. /\ both \in Seq(Seq(S)) /\ Len(both) = n + 1 /\ both[n + 1] = x
        /\ \A i \in 1 .. n : both[i] = l[i]
    <3>1. l \in Seq(Seq(S)) /\ x \in Seq(S) /\ Len(l) = n
      BY <1>2
    <3> HIDE DEF l, x
    <3> QED  BY <1>1, <3>1
  <2>2. left(more) \in Seq(Seq(S)) /\ Len(left(more)) = n + 1
    <3>1. more \in Seq(S) /\ Len(more) = n + 1
      BY <1>1
    <3> HIDE DEF more
    <3>2. left(more) \in Seq(Seq(S)) /\ Len(left(more)) = Len(more)
      BY <3>1, WithoutIs
    <3> QED  BY <3>1, <3>2
  <2>3. ASSUME NEW i \in 1 .. n + 1 PROVE left(more)[i] = both[i]
    <3>0. left(more)[i] = Left(more[i], T)
      BY <1>1
    <3>1. CASE i = n + 1
      <4>1. more[i] = e
        BY <1>1, <3>1
      <4>2. both[i] = x
        <5> HIDE DEF both
        <5> QED  BY <2>1, <3>1
      <4> QED  BY <3>0, <4>1, <4>2
    <3>2. CASE i # n + 1
      <4>1. i \in 1 .. n
        BY <1>1, <3>2
      <4>2. more[i] = s[i]
        BY <1>1, <4>1
      <4>3. both[i] = l[i]
        <5> HIDE DEF both, l
        <5> QED  BY <2>1, <4>1
      <4>4. l[i] = Left(s[i], T)
        BY <4>1
      <4> QED  BY <3>0, <4>2, <4>3, <4>4
    <3> QED  BY <3>1, <3>2
  <2> HIDE DEF left, both, more
  <2>4. left(more) = both
    BY <2>1, <2>2, <2>3, SeqEqual
  <2> QED  BY <2>4 DEF both, more
<1>4. FlattenSeq(left(Append(s, e))) = FlattenSeq(left(s)) \o Left(e, T)
  <2> HIDE DEF left
  <2> QED  BY <1>2, <1>3, FlattenAppend
<1> QED  BY <1>1, <1>4, WithoutIs, ZenonT(30)

\* Without distributes over concatenation.
LEMMA WithoutConcat ==
    ASSUME NEW S, NEW s \in Seq(S), NEW t \in Seq(S), NEW T
    PROVE  Without(s \o t, T) = Without(s, T) \o Without(t, T)
<1> DEFINE P == {u \in Seq(S) : Without(s \o u, T) = Without(s, T) \o Without(u, T)}
<1>1. Without(s, T) \in Seq(S)
  BY WithoutIs
<1>2. <<>> \in P
  <2>1. s \o <<>> = s /\ Without(s, T) \o <<>> = Without(s, T) /\ <<>> \in Seq(S)
    BY <1>1, ConcatEmptySeq, EmptySeq
  <2> QED  BY <2>1, WithoutEmpty
<1>3. ASSUME NEW u \in Seq(S), NEW e \in S, u \in P PROVE Append(u, e) \in P
  <2>1. s \o Append(u, e) = Append(s \o u, e) /\ s \o u \in Seq(S) /\ Append(u, e) \in Seq(S)
    OBVIOUS
  <2>2. Without(u, T) \in Seq(S) /\ Left(e, T) \in Seq(S)
    <3>1. Without(u, T) \in Seq(S)
      BY WithoutIs
    <3>2. Left(e, T) \in Seq(S)
      BY DEF Left
    <3> QED  BY <3>1, <3>2
  <2>3. Without(s \o Append(u, e), T) = (Without(s, T) \o Without(u, T)) \o Left(e, T)
    <3>1. Without(Append(s \o u, e), T) = Without(s \o u, T) \o Left(e, T)
      BY <2>1, WithoutAppend
    <3>2. Without(s \o u, T) = Without(s, T) \o Without(u, T)
      BY <1>3
    <3> QED  BY <2>1, <3>1, <3>2
  <2>4. Without(Append(u, e), T) = Without(u, T) \o Left(e, T)
    BY WithoutAppend
  <2>5. (Without(s, T) \o Without(u, T)) \o Left(e, T) = Without(s, T) \o (Without(u, T) \o Left(e, T))
    BY <1>1, <2>2, Associative, SMTT(30) DEF Associates
  <2> QED  BY <2>1, <2>3, <2>4, <2>5
<1>4. \A u \in Seq(S) : u \in P
  <2> HIDE DEF P
  <2> QED  BY <1>2, <1>3, SeqInduction
<1> QED  BY <1>4

\* The same for all sequences at once.
LEMMA WithoutConcats ==
    \A S, T : \A s, t \in Seq(S) : Without(s \o t, T) = Without(s, T) \o Without(t, T)
BY WithoutConcat

\* Without takes out the members of the set, and no others.
LEMMA WithoutToSet ==
    ASSUME NEW S, NEW s \in Seq(S), NEW T
    PROVE  ToSet(Without(s, T)) = ToSet(s) \ T
<1> DEFINE P == {u \in Seq(S) : ToSet(Without(u, T)) = ToSet(u) \ T}
<1>1. <<>> \in P
  BY WithoutEmpty, ToSetEmpty, EmptySeq
<1>2. ASSUME NEW u \in Seq(S), NEW e \in S, u \in P PROVE Append(u, e) \in P
  <2>1. Without(u, T) \in Seq(S) /\ Left(e, T) \in Seq(S) /\ ToSet(Left(e, T)) = {e} \ T
    <3>1. Left(e, T) \in Seq(S) /\ ToSet(Left(e, T)) = {e} \ T
      BY DEF Left, ToSet
    <3> QED  BY <3>1, WithoutIs
  <2>2. ToSet(Without(Append(u, e), T)) = ToSet(Without(u, T)) \cup ToSet(Left(e, T))
    <3>1. Without(Append(u, e), T) = Without(u, T) \o Left(e, T)
      BY WithoutAppend
    <3>2. ToSet(Without(u, T) \o Left(e, T)) = ToSet(Without(u, T)) \cup ToSet(Left(e, T))
      BY <2>1, ToSetConcat
    <3> QED  BY <3>1, <3>2
  <2>3. ToSet(Append(u, e)) = ToSet(u) \cup {e} /\ Append(u, e) \in Seq(S)
    BY ToSetAppend, AppendProperties
  <2> QED  BY <1>2, <2>1, <2>2, <2>3
<1>3. \A u \in Seq(S) : u \in P
  <2> HIDE DEF P
  <2> QED  BY <1>1, <1>2, SeqInduction
<1> QED  BY <1>3

\* A sequence without members is empty.
LEMMA EmptyToSet ==
    ASSUME NEW S, NEW s \in Seq(S), ToSet(s) = {}
    PROVE  s = <<>>
BY ToSetType

\* Nothing is left of a sequence whose members all go.
LEMMA WithoutAll ==
    ASSUME NEW S, NEW s \in Seq(S), NEW T, ToSet(s) \subseteq T
    PROVE  Without(s, T) = <<>>
<1>1. ToSet(Without(s, T)) = ToSet(s) \ T
  BY WithoutToSet
<1>2. ToSet(Without(s, T)) = {}
  BY <1>1
<1>3. Without(s, T) \in Seq(S)
  BY WithoutIs
<1> QED  BY <1>2, <1>3, EmptyToSet

-----------------------------------------------------------------------------
(* Parts of sequences *)

\* The length and the members of a part of a sequence.
LEMMA SubSeqIs ==
    ASSUME NEW S, NEW s \in Seq(S), NEW m \in 1 .. Len(s) + 1, NEW n \in 0 .. Len(s)
    PROVE  /\ SubSeq(s, m, n) \in Seq(S)
           /\ m <= n => Len(SubSeq(s, m, n)) = n - m + 1
           /\ m > n => SubSeq(s, m, n) = <<>>
           /\ \A i \in 1 .. n - m + 1 : SubSeq(s, m, n)[i] = s[m + i - 1]
<1>1. Len(s) \in Nat /\ m \in Int /\ n \in Int
  OBVIOUS
<1>2. \A i \in m .. n : s[i] \in S
  <2>1. ASSUME NEW i \in m .. n PROVE s[i] \in S
    <3>1. i \in 1 .. Len(s)
      BY <1>1
    <3> QED  BY <3>1, ElementOfSeq
  <2> QED  BY <2>1
<1>3. m > n => SubSeq(s, m, n) = <<>>
  BY <1>1, SubSeqEmpty
<1>4. /\ SubSeq(s, m, n) \in Seq(S)
      /\ Len(SubSeq(s, m, n)) = IF m <= n THEN n - m + 1 ELSE 0
      /\ \A i \in 1 .. n - m + 1 : SubSeq(s, m, n)[i] = s[m + i - 1]
  BY <1>1, <1>2, SubSeqProperties
<1> QED  BY <1>1, <1>3, <1>4

\* The least and the greatest of some positions.
LEMMA MinMax ==
    ASSUME NEW n \in Nat, NEW I \in SUBSET (0 .. n), I # {}
    PROVE  /\ Min(I) \in I /\ \A i \in I : Min(I) <= i
           /\ Max(I) \in I /\ \A i \in I : i <= Max(I)
<1>1. \E m \in I : \A i \in I : m <= i
  <2>1. I \in SUBSET Nat
    OBVIOUS
  <2> QED  BY <2>1, LeastExists
<1>2. Min(I) \in I /\ \A i \in I : Min(I) <= i
  BY <1>1 DEF Min
<1> DEFINE J == {n - i : i \in I}
<1>3. PICK j \in J : \A k \in J : j <= k
  <2>1. \A i \in I : n - i \in Nat
    OBVIOUS
  <2>2. J \in SUBSET Nat /\ J # {}
    BY <2>1
  <2> HIDE DEF J
  <2> QED  BY <2>2, LeastExists
<1>4. PICK m \in I : j = n - m
  BY <1>3
<1>5. ASSUME NEW i \in I PROVE m >= i
  <2>1. n - m <= n - i
    BY <1>3, <1>4
  <2>2. m \in Int /\ i \in Int
    OBVIOUS
  <2> QED  BY <2>1, <2>2
<1>6. Max(I) \in I /\ \A i \in I : Max(I) >= i
  BY <1>5 DEF Max
<1>7. \A i \in I : i <= Max(I)
  BY <1>6
<1> QED  BY <1>2, <1>6, <1>7

\* The smaller and the larger of two numbers.
LEMMA MinMaxOfTwo ==
    ASSUME NEW a \in Nat, NEW b \in Nat
    PROVE  /\ Min({a, b}) = IF a <= b THEN a ELSE b
           /\ Max({a, b}) = IF a <= b THEN b ELSE a
<1>1. {a, b} \in SUBSET (0 .. a + b) /\ {a, b} # {} /\ a + b \in Nat
  OBVIOUS
<1>2. /\ Min({a, b}) \in {a, b} /\ \A i \in {a, b} : Min({a, b}) <= i
      /\ Max({a, b}) \in {a, b} /\ \A i \in {a, b} : i <= Max({a, b})
  BY <1>1, MinMax
<1> QED  BY <1>2

-----------------------------------------------------------------------------
(* Strip *)

\* No blank at either end.
Edges(text) == text # <<>> => text[1] \notin Blank /\ text[Len(text)] \notin Blank

\* Strip takes away blanks at both ends.
LEMMA StripIs ==
    ASSUME NEW S, NEW text \in Seq(S)
    PROVE  \/ (\A i \in 1 .. Len(text) : text[i] \in Blank) /\ Strip(text) = <<>>
           \/ \E a, b \in 1 .. Len(text) :
                 /\ a <= b /\ text[a] \notin Blank /\ text[b] \notin Blank
                 /\ \A i \in 1 .. a - 1 : text[i] \in Blank
                 /\ \A i \in b + 1 .. Len(text) : text[i] \in Blank
                 /\ Strip(text) = SubSeq(text, a, b)
<1> DEFINE ink == {i \in DOMAIN text : text[i] \notin Blank}
<1>1. DOMAIN text = 1 .. Len(text) /\ Len(text) \in Nat
  OBVIOUS
<1>2. Strip(text) = IF ink = {} THEN <<>> ELSE SubSeq(text, Min(ink), Max(ink))
  BY DEF Strip
<1>3. CASE ink = {}
  BY <1>1, <1>2, <1>3
<1>4. CASE ink # {}
  <2>1. ink \in SUBSET (0 .. Len(text))
    BY <1>1
  <2>2. /\ Min(ink) \in ink /\ \A i \in ink : Min(ink) <= i
        /\ Max(ink) \in ink /\ \A i \in ink : i <= Max(ink)
    <3> HIDE DEF ink
    <3> QED  BY <1>1, <1>4, <2>1, MinMax
  <2> DEFINE a == Min(ink)
             b == Max(ink)
  <2>3. Strip(text) = SubSeq(text, a, b)
    BY <1>2, <1>4
  <2> HIDE DEF a, b
  <2>4. a \in ink /\ b \in ink /\ \A i \in ink : a <= i /\ i <= b
    BY <2>2 DEF a, b
  <2>5. a \in 1 .. Len(text) /\ b \in 1 .. Len(text) /\ text[a] \notin Blank /\ text[b] \notin Blank
    BY <1>1, <2>4
  <2>6. a <= b
    BY <2>4
  <2>7. ASSUME NEW i \in 1 .. a - 1 PROVE text[i] \in Blank
    <3>1. i \in DOMAIN text /\ ~(a <= i)
      BY <1>1, <2>5
    <3> QED  BY <2>4, <3>1
  <2>8. ASSUME NEW i \in b + 1 .. Len(text) PROVE text[i] \in Blank
    <3>1. i \in DOMAIN text /\ ~(i <= b)
      BY <1>1, <2>5
    <3> QED  BY <2>4, <3>1
  <2> QED  BY <2>3, <2>5, <2>6, <2>7, <2>8
<1> QED  BY <1>3, <1>4

\* Strip returns a part of the text without blanks at its ends.
LEMMA StripType ==
    ASSUME NEW S, NEW text \in Seq(S)
    PROVE  Strip(text) \in Seq(S) /\ Len(Strip(text)) <= Len(text) /\ Edges(Strip(text))
<1>1. CASE Strip(text) = <<>>
  BY <1>1 DEF Edges
<1>2. CASE Strip(text) # <<>>
  <2>1. PICK a, b \in 1 .. Len(text) :
           /\ a <= b /\ text[a] \notin Blank /\ text[b] \notin Blank
           /\ Strip(text) = SubSeq(text, a, b)
    BY <1>2, StripIs
  <2>2. Len(text) \in Nat /\ a \in 1 .. Len(text) + 1 /\ b \in 0 .. Len(text)
    OBVIOUS
  <2>3. /\ SubSeq(text, a, b) \in Seq(S) /\ Len(SubSeq(text, a, b)) = b - a + 1
        /\ \A i \in 1 .. b - a + 1 : SubSeq(text, a, b)[i] = text[a + i - 1]
    BY <2>1, <2>2, SubSeqIs
  <2>4. 1 \in 1 .. b - a + 1 /\ b - a + 1 \in 1 .. b - a + 1 /\ a + 1 - 1 = a
        /\ a + (b - a + 1) - 1 = b
    BY <2>1
  <2>5. SubSeq(text, a, b)[1] = text[a] /\ SubSeq(text, a, b)[b - a + 1] = text[b]
    <3> DEFINE l == b - a + 1
               sub == SubSeq(text, a, b)
    <3>1. 1 \in 1 .. l /\ l \in 1 .. l /\ a + 1 - 1 = a /\ a + l - 1 = b
      BY <2>4
    <3>2. \A i \in 1 .. l : sub[i] = text[a + i - 1]
      BY <2>3
    <3> HIDE DEF l, sub
    <3>3. sub[1] = text[a] /\ sub[l] = text[b]
      BY <3>1, <3>2
    <3> QED  BY <3>3 DEF l, sub
  <2>6. Edges(SubSeq(text, a, b))
    BY <2>1, <2>3, <2>5 DEF Edges
  <2>7. b - a + 1 <= Len(text)
    BY <2>2
  <2> QED  BY <2>1, <2>3, <2>6, <2>7
<1> QED  BY <1>1, <1>2

\* A text is what precedes a part of it, the part, and what follows.
LEMMA SplitAt ==
    ASSUME NEW S, NEW text \in Seq(S), NEW a \in 1 .. Len(text) + 1, NEW b \in a - 1 .. Len(text)
    PROVE  text = SubSeq(text, 1, a - 1) \o (SubSeq(text, a, b) \o SubSeq(text, b + 1, Len(text)))
<1>1. Len(text) \in Nat
  OBVIOUS
<1>2. SubSeq(text, 1, Len(text)) = text
  BY SubSeqFull
<1>3. SubSeq(text, a, b) \o SubSeq(text, b + 1, Len(text)) = SubSeq(text, a, Len(text))
  <2>1. Len(text) \in b .. Len(text) /\ b \in a - 1 .. Len(text)
    BY <1>1
  <2> QED  BY <2>1, ConcatAdjacentSubSeq
<1>4. SubSeq(text, 1, a - 1) \o SubSeq(text, a, Len(text)) = SubSeq(text, 1, Len(text))
  <2> DEFINE k == a - 1
  <2>1. 1 \in 1 .. Len(text) + 1 /\ k \in 1 - 1 .. Len(text) /\ Len(text) \in k .. Len(text)
        /\ k + 1 = a
    BY <1>1
  <2>2. SubSeq(text, 1, k) \o SubSeq(text, k + 1, Len(text)) = SubSeq(text, 1, Len(text))
    <3> HIDE DEF k
    <3> QED  BY <2>1, ConcatAdjacentSubSeq
  <2> QED  BY <2>1, <2>2
<1> QED  BY <1>2, <1>3, <1>4

\* A set of tokens with the blanks in it loses as much of the text as of the stripped one.
LEMMA StripInk ==
    ASSUME NEW S, NEW text \in Seq(S), NEW T, Blank \subseteq T
    PROVE  Without(Strip(text), T) = Without(text, T)
<1>1. Len(text) \in Nat
  OBVIOUS
<1>2. CASE (\A i \in 1 .. Len(text) : text[i] \in Blank) /\ Strip(text) = <<>>
  <2>1. ToSet(text) \subseteq T
    <3>1. ToSet(text) = {text[i] : i \in 1 .. Len(text)}
      BY ToSetType
    <3> QED  BY <1>2, <3>1
  <2> QED  BY <1>2, <2>1, WithoutAll, WithoutEmpty
<1>3. ASSUME NEW a \in 1 .. Len(text), NEW b \in 1 .. Len(text), a <= b,
             \A i \in 1 .. a - 1 : text[i] \in Blank,
             \A i \in b + 1 .. Len(text) : text[i] \in Blank,
             Strip(text) = SubSeq(text, a, b)
      PROVE  Without(Strip(text), T) = Without(text, T)
  <2> DEFINE x == SubSeq(text, 1, a - 1)
             y == SubSeq(text, a, b)
             z == SubSeq(text, b + 1, Len(text))
  <2>1. text = x \o (y \o z)
    <3>1. a \in 1 .. Len(text) + 1 /\ b \in a - 1 .. Len(text)
      BY <1>1, <1>3
    <3> QED  BY <3>1, SplitAt
  <2>2. x \in Seq(S) /\ ToSet(x) \subseteq T
    <3>1. 1 \in 1 .. Len(text) + 1 /\ a - 1 \in 0 .. Len(text)
      BY <1>1
    <3>2. x \in Seq(S) /\ (1 <= a - 1 => Len(x) = a - 1 - 1 + 1) /\ (1 > a - 1 => x = <<>>)
          /\ \A i \in 1 .. a - 1 - 1 + 1 : x[i] = text[1 + i - 1]
      BY <3>1, SubSeqIs
    <3> HIDE DEF x
    <3>3. Len(x) = a - 1
      BY <1>1, <3>1, <3>2
    <3>4. \A i \in 1 .. Len(x) : x[i] \in Blank
      <4>1. ASSUME NEW i \in 1 .. Len(x) PROVE x[i] \in Blank
        <5>1. i \in 1 .. a - 1 - 1 + 1 /\ i \in 1 .. a - 1 /\ 1 + i - 1 = i
          BY <3>3
        <5>2. x[i] = text[i] /\ text[i] \in Blank
          BY <1>3, <3>2, <5>1
        <5> QED  BY <5>2
      <4> QED  BY <4>1
    <3>5. ToSet(x) = {x[i] : i \in 1 .. Len(x)}
      BY <3>2, ToSetType
    <3> QED  BY <3>2, <3>4, <3>5
  <2>3. y \in Seq(S)
    <3>1. a \in 1 .. Len(text) + 1 /\ b \in 0 .. Len(text)
      BY <1>1
    <3> QED  BY <3>1, SubSeqIs
  <2>4. z \in Seq(S) /\ ToSet(z) \subseteq T
    <3> DEFINE c == b + 1
    <3>1. c \in 1 .. Len(text) + 1 /\ Len(text) \in 0 .. Len(text)
      BY <1>1
    <3>2. z \in Seq(S) /\ (c <= Len(text) => Len(z) = Len(text) - c + 1) /\ (c > Len(text) => z = <<>>)
          /\ \A i \in 1 .. Len(text) - c + 1 : z[i] = text[c + i - 1]
      <4> HIDE DEF c
      <4>1. /\ SubSeq(text, c, Len(text)) \in Seq(S)
            /\ c <= Len(text) => Len(SubSeq(text, c, Len(text))) = Len(text) - c + 1
            /\ c > Len(text) => SubSeq(text, c, Len(text)) = <<>>
            /\ \A i \in 1 .. Len(text) - c + 1 : SubSeq(text, c, Len(text))[i] = text[c + i - 1]
        BY <3>1, SubSeqIs
      <4> QED  BY <4>1 DEF c
    <3> HIDE DEF z
    <3>3. ASSUME NEW i \in 1 .. Len(z) PROVE z[i] \in Blank
      <4>1. CASE c > Len(text)
        BY <3>2, <4>1
      <4>2. CASE c <= Len(text)
        <5>1. i \in 1 .. Len(text) - c + 1 /\ c + i - 1 \in b + 1 .. Len(text)
          BY <1>1, <3>1, <3>2, <4>2
        <5>2. z[i] = text[c + i - 1]
          <6> HIDE DEF c
          <6> QED  BY <3>2, <5>1
        <5> QED  BY <1>3, <5>1, <5>2
      <4> QED  BY <1>1, <4>1, <4>2
    <3>5. ToSet(z) = {z[i] : i \in 1 .. Len(z)}
      BY <3>2, ToSetType
    <3> QED  BY <3>2, <3>3, <3>5
  <2> HIDE DEF x, y, z
  <2>5. y \o z \in Seq(S)
    BY <2>3, <2>4
  <2>6. Without(text, T) = Without(x, T) \o Without(y \o z, T)
    <3> DEFINE w == y \o z
    <3> HIDE DEF w
    <3>1. w \in Seq(S)
      BY <2>5 DEF w
    <3>2. Without(x \o w, T) = Without(x, T) \o Without(w, T)
      BY <2>2, <3>1, WithoutConcat
    <3> QED  BY <2>1, <3>2 DEF w
  <2>7. Without(y \o z, T) = Without(y, T) \o Without(z, T)
    BY <2>3, <2>4, WithoutConcat
  <2>8. Without(x, T) = <<>> /\ Without(z, T) = <<>>
    BY <2>2, <2>4, WithoutAll
  <2>9. Without(y, T) \in Seq(S)
    BY <2>3, WithoutIs
  <2>10. <<>> \o (Without(y, T) \o <<>>) = Without(y, T)
    BY <2>9, ConcatEmptySeq
  <2> QED  BY <1>3, <2>6, <2>7, <2>8, <2>10 DEF y
<1> QED  BY <1>2, <1>3, StripIs

\* Strip leaves a text alone that has no blanks at its ends.
LEMMA StripSame ==
    ASSUME NEW S, NEW text \in Seq(S), Edges(text)
    PROVE  Strip(text) = text
<1>1. CASE text = <<>>
  <2>1. Strip(text) = <<>>
    <3>1. 1 .. Len(text) = {}
      BY <1>1
    <3>2. Strip(text) = <<>> \/ \E a \in 1 .. Len(text) : TRUE
      BY StripIs
    <3> QED  BY <3>1, <3>2
  <2> QED  BY <1>1, <2>1
<1>2. CASE text # <<>>
  <2>1. Len(text) \in Nat /\ 1 \in 1 .. Len(text) /\ Len(text) \in 1 .. Len(text)
    BY <1>2, EmptySeq
  <2>2. text[1] \notin Blank /\ text[Len(text)] \notin Blank
    BY <1>2 DEF Edges
  <2>3. PICK a, b \in 1 .. Len(text) :
           /\ \A i \in 1 .. a - 1 : text[i] \in Blank
           /\ \A i \in b + 1 .. Len(text) : text[i] \in Blank
           /\ Strip(text) = SubSeq(text, a, b)
    BY <2>1, <2>2, StripIs
  <2>4. a = 1
    <3>1. ~(1 \in 1 .. a - 1)
      BY <2>2, <2>3
    <3> QED  BY <2>1, <3>1
  <2>5. b = Len(text)
    <3>1. ~(Len(text) \in b + 1 .. Len(text))
      BY <2>2, <2>3
    <3> QED  BY <2>1, <3>1
  <2> QED  BY <2>3, <2>4, <2>5, SubSeqFull
<1> QED  BY <1>1, <1>2

\* The end of a concatenation is a suffix of it.
LEMMA SuffixOfConcat ==
    ASSUME NEW S, NEW u \in Seq(S), NEW s \in Seq(S)
    PROVE  IsSuffix(s, u \o s)
<1> DEFINE t == u \o s
           n == Len(s)
<1>1. t \in Seq(S) /\ Len(t) = Len(u) + n /\ Len(u) \in Nat /\ n \in Nat
      /\ \A i \in 1 .. n : t[Len(u) + i] = s[i]
  OBVIOUS
<1> HIDE DEF t
<1> DEFINE rs == Reverse(s)
           rt == Reverse(t)
<1>2. rs = [i \in 1 .. n |-> s[(n - i) + 1]]
      /\ rt = [i \in 1 .. Len(t) |-> t[(Len(t) - i) + 1]]
  BY DEF Reverse
<1>3. rs \in Seq(S) /\ Len(rs) = n
  <2>1. \A i \in 1 .. n : s[(n - i) + 1] \in S
    BY <1>1
  <2> QED  BY <1>1, <1>2, <2>1
<1>4. rt \in Seq(S) /\ Len(rt) = Len(t)
  <2>1. \A i \in 1 .. Len(t) : t[(Len(t) - i) + 1] \in S
    BY <1>1
  <2> QED  BY <1>1, <1>2, <2>1
<1>5. ASSUME NEW i \in 1 .. n PROVE rs[i] = rt[i]
  <2>1. (Len(t) - i) + 1 = Len(u) + ((n - i) + 1) /\ (n - i) + 1 \in 1 .. n /\ i \in 1 .. Len(t)
    BY <1>1
  <2>2. t[Len(u) + ((n - i) + 1)] = s[(n - i) + 1]
    <3> DEFINE m == (n - i) + 1
    <3>1. m \in 1 .. n
      BY <2>1
    <3> HIDE DEF m
    <3>2. t[Len(u) + m] = s[m]
      BY <1>1, <3>1
    <3> QED  BY <3>2 DEF m
  <2> QED  BY <1>2, <2>1, <2>2
<1> HIDE DEF rs, rt
<1>6. SubSeq(rs, 1, n) = rs
  BY <1>3, SubSeqFull
<1>7. SubSeq(rt, 1, n) \in Seq(S) /\ Len(SubSeq(rt, 1, n)) = n
      /\ \A i \in 1 .. n : SubSeq(rt, 1, n)[i] = rt[i]
  <2>1. 1 \in 1 .. Len(rt) + 1 /\ n \in 0 .. Len(rt)
    BY <1>1, <1>4
  <2>2. /\ SubSeq(rt, 1, n) \in Seq(S)
        /\ 1 <= n => Len(SubSeq(rt, 1, n)) = n - 1 + 1
        /\ 1 > n => SubSeq(rt, 1, n) = <<>>
        /\ \A i \in 1 .. n - 1 + 1 : SubSeq(rt, 1, n)[i] = rt[1 + i - 1]
    BY <1>4, <2>1, SubSeqIs
  <2>3. Len(SubSeq(rt, 1, n)) = n
    BY <1>1, <2>2
  <2>4. ASSUME NEW i \in 1 .. n PROVE SubSeq(rt, 1, n)[i] = rt[i]
    <3>1. i \in 1 .. n - 1 + 1 /\ 1 + i - 1 = i
      BY <1>1
    <3> QED  BY <2>2, <3>1
  <2> QED  BY <2>2, <2>3, <2>4
<1>8. SubSeq(rt, 1, n) = rs
  <2> DEFINE sub == SubSeq(rt, 1, n)
  <2>1. sub \in Seq(S) /\ Len(sub) = Len(rs) /\ \A i \in 1 .. Len(sub) : sub[i] = rs[i]
    BY <1>3, <1>5, <1>7
  <2> HIDE DEF sub
  <2>2. sub = rs
    BY <1>3, <2>1, SeqEqual
  <2> QED  BY <2>2 DEF sub
<1>9. Len(rs) <= Len(rt) /\ SubSeq(rs, 1, Len(rs)) = SubSeq(rt, 1, Len(rs))
  BY <1>1, <1>3, <1>4, <1>6, <1>8
<1> QED  BY <1>9 DEF IsSuffix, IsPrefix, rs, rt, t

\* What stripping leaves of a text ends with its last part, if that has no blanks at its ends.
LEMMA StripAfter ==
    ASSUME NEW S, NEW x \in Seq(S), NEW p \in Seq(S), p # <<>>, Edges(p)
    PROVE  /\ IsSuffix(p, Strip(x \o p)) /\ Len(p) <= Len(Strip(x \o p))
           /\ Strip(x \o p) # <<>>
<1> DEFINE t == x \o p
<1>1. /\ t \in Seq(S) /\ Len(t) = Len(x) + Len(p) /\ Len(x) \in Nat /\ Len(p) \in Nat
      /\ Len(p) >= 1
      /\ \A i \in 1 .. Len(p) : t[Len(x) + i] = p[i]
  <2>1. Len(p) \in Nat \ {0}
    BY EmptySeq
  <2> QED  BY <2>1
<1>2. t[Len(x) + 1] \notin Blank /\ t[Len(t)] \notin Blank
  <2>1. 1 \in 1 .. Len(p) /\ Len(p) \in 1 .. Len(p)
    BY <1>1
  <2>2. t[Len(x) + 1] = p[1] /\ t[Len(x) + Len(p)] = p[Len(p)]
    <3> HIDE DEF t
    <3> QED  BY <1>1, <2>1
  <2> HIDE DEF t
  <2> QED  BY <1>1, <2>2 DEF Edges
<1>3. Len(x) + 1 \in 1 .. Len(t) /\ Len(t) \in 1 .. Len(t)
  BY <1>1
<1> HIDE DEF t
<1>4. PICK a, b \in 1 .. Len(t) :
         /\ a <= b
         /\ \A i \in 1 .. a - 1 : t[i] \in Blank
         /\ \A i \in b + 1 .. Len(t) : t[i] \in Blank
         /\ Strip(t) = SubSeq(t, a, b)
  BY <1>1, <1>2, <1>3, StripIs
<1>5. b = Len(t)
  <2>1. ~(Len(t) \in b + 1 .. Len(t))
    BY <1>2, <1>4
  <2> QED  BY <1>3, <2>1
<1>6. a <= Len(x) + 1
  <2>1. ~(Len(x) + 1 \in 1 .. a - 1)
    BY <1>2, <1>4
  <2> QED  BY <1>3, <2>1
<1> DEFINE u == SubSeq(t, a, Len(x))
           l == Len(x)
<1>7. Strip(t) = u \o SubSeq(t, l + 1, Len(t))
  <2>1. a \in 1 .. Len(t) + 1 /\ l \in a - 1 .. Len(t) /\ Len(t) \in l .. Len(t)
    BY <1>1, <1>6
  <2>2. SubSeq(t, a, l) \o SubSeq(t, l + 1, Len(t)) = SubSeq(t, a, Len(t))
    <3> HIDE DEF l
    <3> QED  BY <1>1, <2>1, ConcatAdjacentSubSeq
  <2> QED  BY <1>4, <1>5, <2>2
<1>8. u \in Seq(S)
  <2>1. a \in 1 .. Len(t) + 1 /\ Len(x) \in 0 .. Len(t)
    BY <1>1
  <2> QED  BY <1>1, <2>1, SubSeqIs
<1>9. SubSeq(t, l + 1, Len(t)) = p
  <2> DEFINE m == l + 1
             sub == SubSeq(t, m, Len(t))
  <2>1. m \in 1 .. Len(t) + 1 /\ Len(t) \in 0 .. Len(t) /\ m <= Len(t) /\ Len(t) - m + 1 = Len(p)
    BY <1>1
  <2>2. sub \in Seq(S) /\ Len(sub) = Len(t) - m + 1
        /\ \A i \in 1 .. Len(t) - m + 1 : sub[i] = t[m + i - 1]
    <3> HIDE DEF m
    <3> QED  BY <1>1, <2>1, SubSeqIs
  <2>3. Len(sub) = Len(p)
    BY <2>1, <2>2
  <2>4. ASSUME NEW i \in 1 .. Len(p) PROVE sub[i] = p[i]
    <3>1. i \in 1 .. Len(t) - m + 1 /\ m + i - 1 = Len(x) + i
      BY <1>1
    <3>2. sub[i] = t[m + i - 1]
      <4> HIDE DEF m, sub
      <4> QED  BY <2>2, <3>1
    <3>3. t[Len(x) + i] = p[i]
      BY <1>1
    <3> QED  BY <3>1, <3>2, <3>3
  <2> HIDE DEF sub
  <2>5. sub = p
    BY <2>2, <2>3, <2>4, SeqEqual
  <2> QED  BY <2>5 DEF sub
<1>10. Strip(t) = u \o p
  BY <1>7, <1>9
<1> HIDE DEF u
<1>11. IsSuffix(p, u \o p)
  BY <1>8, SuffixOfConcat
<1>12. Len(p) <= Len(u \o p)
  <2>1. Len(u \o p) = Len(u) + Len(p) /\ Len(u) \in Nat
    BY <1>8
  <2> QED  BY <1>1, <2>1
<1>13. IsSuffix(p, Strip(t)) /\ Len(p) <= Len(Strip(t))
  BY <1>10, <1>11, <1>12
<1>14. Strip(t) # <<>>
  BY <1>1, <1>13
<1> QED  BY <1>13, <1>14 DEF t

-----------------------------------------------------------------------------
(* Concatenations that keep the ink *)

\* Sequences of texts with the same ink have the same ink when flattened.
LEMMA FlattenInk ==
    ASSUME NEW S, NEW T, NEW ss \in Seq(Seq(S)), NEW tt \in Seq(Seq(S)), Len(ss) = Len(tt),
           \A i \in 1 .. Len(ss) : Without(ss[i], T) = Without(tt[i], T)
    PROVE  Without(FlattenSeq(ss), T) = Without(FlattenSeq(tt), T)
<1> DEFINE n == Len(ss)
<1>1. n \in Nat /\ n = Len(tt) /\ (\A i \in 1 .. n : ss[i] \in Seq(S) /\ tt[i] \in Seq(S))
      /\ \A i \in 1 .. n : Without(ss[i], T) = Without(tt[i], T)
  OBVIOUS
<1>2. PICK f \in [0 .. n -> Seq(S)] :
         f[0] = <<>> /\ (\A k \in 1 .. n : f[k] = f[k - 1] \o ss[k]) /\ FlattenSeq(ss) = f[n]
  BY FlattenLoop
<1>3. PICK g \in [0 .. n -> Seq(S)] :
         g[0] = <<>> /\ (\A k \in 1 .. n : g[k] = g[k - 1] \o tt[k]) /\ FlattenSeq(tt) = g[n]
  <2>1. \E g \in [0 .. Len(tt) -> Seq(S)] :
           /\ g[0] = <<>> /\ (\A k \in 1 .. Len(tt) : g[k] = g[k - 1] \o tt[k])
           /\ FlattenSeq(tt) = g[Len(tt)]
    BY FlattenLoop
  <2> QED  BY <1>1, <2>1
<1> HIDE DEF n
<1> DEFINE P == {k \in 0 .. n : Without(f[k], T) = Without(g[k], T)}
<1>4. 0 \in P
  BY <1>1, <1>2, <1>3
<1>5. ASSUME NEW k \in 1 .. n, k - 1 \in P PROVE k \in P
  <2>1. k \in 0 .. n /\ k - 1 \in 0 .. n
    BY <1>1
  <2>2. f[k - 1] \in Seq(S) /\ g[k - 1] \in Seq(S) /\ ss[k] \in Seq(S) /\ tt[k] \in Seq(S)
    BY <1>1, <2>1
  <2>3. Without(f[k - 1] \o ss[k], T) = Without(f[k - 1], T) \o Without(ss[k], T)
    <3> DEFINE x == f[k - 1]
               y == ss[k]
    <3>1. x \in Seq(S) /\ y \in Seq(S)
      BY <2>2
    <3> HIDE DEF x, y
    <3>2. Without(x \o y, T) = Without(x, T) \o Without(y, T)
      BY <3>1, WithoutConcat
    <3> QED  BY <3>2 DEF x, y
  <2>4. Without(g[k - 1] \o tt[k], T) = Without(g[k - 1], T) \o Without(tt[k], T)
    <3> DEFINE x == g[k - 1]
               y == tt[k]
    <3>1. x \in Seq(S) /\ y \in Seq(S)
      BY <2>2
    <3> HIDE DEF x, y
    <3>2. Without(x \o y, T) = Without(x, T) \o Without(y, T)
      BY <3>1, WithoutConcat
    <3> QED  BY <3>2 DEF x, y
  <2>5. f[k] = f[k - 1] \o ss[k] /\ g[k] = g[k - 1] \o tt[k]
    BY <1>2, <1>3
  <2>6. Without(ss[k], T) = Without(tt[k], T) /\ Without(f[k - 1], T) = Without(g[k - 1], T)
    BY <1>1, <1>5
  <2> QED  BY <2>1, <2>3, <2>4, <2>5, <2>6
<1>6. \A k \in 0 .. n : k \in P
  <2> HIDE DEF P
  <2> QED  BY <1>1, <1>4, <1>5, UpTo
<1>7. n \in P
  <2> HIDE DEF P
  <2> QED  BY <1>1, <1>6
<1> QED  BY <1>2, <1>3, <1>7

\* Two levels of concatenation.
LEMMA FlattenFlattenInk ==
    ASSUME NEW S, NEW T, NEW xss \in Seq(Seq(Seq(S))), NEW tt \in Seq(Seq(S)), Len(xss) = Len(tt),
           \A i \in 1 .. Len(xss) : Without(FlattenSeq(xss[i]), T) = Without(tt[i], T)
    PROVE  Without(FlattenSeq(FlattenSeq(xss)), T) = Without(FlattenSeq(tt), T)
<1> DEFINE n == Len(xss)
<1>1. n \in Nat /\ n = Len(tt) /\ (\A i \in 1 .. n : xss[i] \in Seq(Seq(S)) /\ tt[i] \in Seq(S))
      /\ \A i \in 1 .. n : Without(FlattenSeq(xss[i]), T) = Without(tt[i], T)
  OBVIOUS
<1>2. PICK f \in [0 .. n -> Seq(Seq(S))] :
         f[0] = <<>> /\ (\A k \in 1 .. n : f[k] = f[k - 1] \o xss[k]) /\ FlattenSeq(xss) = f[n]
  BY FlattenLoop
<1>3. PICK g \in [0 .. n -> Seq(S)] :
         g[0] = <<>> /\ (\A k \in 1 .. n : g[k] = g[k - 1] \o tt[k]) /\ FlattenSeq(tt) = g[n]
  <2>1. \E g \in [0 .. Len(tt) -> Seq(S)] :
           /\ g[0] = <<>> /\ (\A k \in 1 .. Len(tt) : g[k] = g[k - 1] \o tt[k])
           /\ FlattenSeq(tt) = g[Len(tt)]
    BY FlattenLoop
  <2> QED  BY <1>1, <2>1
<1> HIDE DEF n
<1> DEFINE P == {k \in 0 .. n : Without(FlattenSeq(f[k]), T) = Without(g[k], T)}
<1>4. 0 \in P
  BY <1>1, <1>2, <1>3, FlattenEmpty
<1>5. ASSUME NEW k \in 1 .. n, k - 1 \in P PROVE k \in P
  <2>1. k \in 0 .. n /\ k - 1 \in 0 .. n
    BY <1>1
  <2>2. f[k - 1] \in Seq(Seq(S)) /\ g[k - 1] \in Seq(S) /\ xss[k] \in Seq(Seq(S)) /\ tt[k] \in Seq(S)
    BY <1>1, <2>1
  <2> DEFINE x == FlattenSeq(f[k - 1])
             y == FlattenSeq(xss[k])
  <2>3. FlattenSeq(f[k - 1] \o xss[k]) = x \o y
    BY <2>2, FlattenConcat
  <2>4. x \in Seq(S) /\ y \in Seq(S)
    BY <2>2, FlattenType
  <2> HIDE DEF x, y
  <2>5. Without(x \o y, T) = Without(x, T) \o Without(y, T)
    BY <2>4, WithoutConcat
  <2>6. Without(g[k - 1] \o tt[k], T) = Without(g[k - 1], T) \o Without(tt[k], T)
    <3> DEFINE a == g[k - 1]
               b == tt[k]
    <3>1. a \in Seq(S) /\ b \in Seq(S)
      BY <2>2
    <3> HIDE DEF a, b
    <3>2. Without(a \o b, T) = Without(a, T) \o Without(b, T)
      BY <3>1, WithoutConcat
    <3> QED  BY <3>2 DEF a, b
  <2>7. f[k] = f[k - 1] \o xss[k] /\ g[k] = g[k - 1] \o tt[k]
    BY <1>2, <1>3
  <2>8. Without(y, T) = Without(tt[k], T) /\ Without(x, T) = Without(g[k - 1], T)
    BY <1>1, <1>5 DEF x, y
  <2> QED  BY <2>1, <2>3, <2>5, <2>6, <2>7, <2>8
<1>6. \A k \in 0 .. n : k \in P
  <2> HIDE DEF P
  <2> QED  BY <1>1, <1>4, <1>5, UpTo
<1>7. n \in P
  <2> HIDE DEF P
  <2> QED  BY <1>1, <1>6
<1> QED  BY <1>2, <1>3, <1>7

\* Empty parts add nothing.
LEMMA FlattenFilled ==
    ASSUME NEW S, NEW ss \in Seq(Seq(S))
    PROVE  FlattenSeq(Without(ss, {<<>>})) = FlattenSeq(ss)
<1> DEFINE P == {uu \in Seq(Seq(S)) : FlattenSeq(Without(uu, {<<>>})) = FlattenSeq(uu)}
<1>1. <<>> \in P
  BY WithoutEmpty, EmptySeq
<1>2. ASSUME NEW uu \in Seq(Seq(S)), NEW s \in Seq(S), uu \in P PROVE Append(uu, s) \in P
  <2>1. Without(Append(uu, s), {<<>>}) = Without(uu, {<<>>}) \o Left(s, {<<>>})
    BY WithoutAppend
  <2>2. Without(uu, {<<>>}) \in Seq(Seq(S))
    BY WithoutIs
  <2>3. Left(s, {<<>>}) \in Seq(Seq(S)) /\ FlattenSeq(Left(s, {<<>>})) = s
    <3>1. CASE s = <<>>
      BY <3>1, FlattenEmpty DEF Left
    <3>2. CASE s # <<>>
      <4>1. Left(s, {<<>>}) = <<s>>
        BY <3>2 DEF Left
      <4>2. <<s>> \in Seq(Seq(S))
        OBVIOUS
      <4>3. FlattenSeq(<<s>>) = s
        BY FlattenOne
      <4> QED  BY <4>1, <4>2, <4>3
    <3> QED  BY <3>1, <3>2
  <2>4. FlattenSeq(Without(uu, {<<>>}) \o Left(s, {<<>>}))
          = FlattenSeq(Without(uu, {<<>>})) \o FlattenSeq(Left(s, {<<>>}))
    BY <2>2, <2>3, FlattenConcat
  <2>5. FlattenSeq(Append(uu, s)) = FlattenSeq(uu) \o s
    BY FlattenAppend
  <2>6. FlattenSeq(Without(uu, {<<>>})) = FlattenSeq(uu)
    BY <1>2
  <2>7. Append(uu, s) \in Seq(Seq(S))
    OBVIOUS
  <2> QED  BY <2>1, <2>3, <2>4, <2>5, <2>6, <2>7
<1>3. \A uu \in Seq(Seq(S)) : uu \in P
  <2> HIDE DEF P
  <2> QED  BY <1>1, <1>2, SeqInduction
<1> QED  BY <1>3

-----------------------------------------------------------------------------
(* Split *)

\* What is read of a text up to a separator that starts at first.
ReadsOf(text, S, T) ==
    {d \in [parts : Seq(Seq(S)), from : 1 .. Len(text) + 1] :
        Without(FlattenSeq(d.parts), T) = Without(SubSeq(text, 1, d.from - 1), T)}

\* One more token that Split reads keeps what ReadsOf says.
LEMMA ReadPartIs ==
    ASSUME NEW S, NEW text \in Seq(S), NEW R, NEW sep \in Seq(R), sep # <<>>,
           NEW T, ToSet(sep) \subseteq T, NEW d \in ReadsOf(text, S, T), NEW n \in 1 .. Len(text)
    PROVE  ReadPart(d, text, sep, n) \in ReadsOf(text, S, T)
<1> DEFINE first == n - Len(sep) + 1
           a == d.from
           ps == d.parts
<1>1. /\ ps \in Seq(Seq(S)) /\ a \in 1 .. Len(text) + 1 /\ d = [parts |-> ps, from |-> a]
      /\ Without(FlattenSeq(ps), T) = Without(SubSeq(text, 1, a - 1), T)
  BY DEF ReadsOf
<1>2. Len(text) \in Nat /\ Len(sep) \in Nat \ {0}
  BY EmptySeq
<1>3. CASE ~(first >= d.from /\ SubSeq(text, first, n) = sep)
  BY <1>3 DEF ReadPart
<1>4. CASE first >= d.from /\ SubSeq(text, first, n) = sep
  <2> DEFINE m == first - 1
             part == SubSeq(text, a, m)
             b == a - 1
  <2>1. m \in a - 1 .. Len(text) /\ n \in m .. Len(text) /\ m + 1 = first /\ m \in 0 .. Len(text)
        /\ m <= n /\ b \in 0 .. Len(text) /\ b + 1 = a
    <3> DEFINE k == Len(sep)
               L == Len(text)
    <3>1. k \in Nat \ {0} /\ L \in Nat /\ n \in 1 .. L /\ a \in 1 .. L + 1 /\ first >= a
          /\ first = n - k + 1
      BY <1>1, <1>2, <1>4
    <3> HIDE DEF k, L, first, a
    <3>2. m \in a - 1 .. L /\ n \in m .. L /\ m + 1 = first /\ m \in 0 .. L
          /\ m <= n /\ b \in 0 .. L /\ b + 1 = a
      BY <3>1
    <3> QED  BY <3>2 DEF L
  <2>2. ReadPart(d, text, sep, n) = [parts |-> Append(ps, part), from |-> n + 1]
    BY <1>4 DEF ReadPart
  <2>3. part \in Seq(S)
    <3> HIDE DEF m, a
    <3> QED  BY <1>1, <2>1, SubSeqIs
  <2>4. SubSeq(text, 1, b) \in Seq(S)
    <3>1. 1 \in 1 .. Len(text) + 1
      BY <1>2
    <3> HIDE DEF b
    <3> QED  BY <2>1, <3>1, SubSeqIs
  <2>5. SubSeq(text, 1, n) = SubSeq(text, 1, b) \o SubSeq(text, a, n)
    <3>1. 1 \in 1 .. Len(text) + 1 /\ b \in 1 - 1 .. Len(text) /\ n \in b .. Len(text) /\ b + 1 = a
      BY <1>2, <2>1
    <3>2. SubSeq(text, 1, b) \o SubSeq(text, b + 1, n) = SubSeq(text, 1, n)
      <4> HIDE DEF b
      <4> QED  BY <3>1, ConcatAdjacentSubSeq
    <3> QED  BY <3>1, <3>2
  <2>6. SubSeq(text, a, n) = part \o sep
    <3>1. SubSeq(text, a, m) \o SubSeq(text, m + 1, n) = SubSeq(text, a, n)
      <4> HIDE DEF a, m
      <4> QED  BY <1>1, <2>1, ConcatAdjacentSubSeq
    <3> QED  BY <1>4, <2>1, <3>1
  <2>7. sep \in Seq(S)
    <3>1. \A i \in first .. n : text[i] \in S
      <4>1. ASSUME NEW i \in first .. n PROVE text[i] \in S
        <5>1. i \in 1 .. Len(text)
          BY <1>1, <1>2, <1>4
        <5> QED  BY <5>1, ElementOfSeq
      <4> QED  BY <4>1
    <3>2. first \in Int /\ n \in Int
      BY <1>2
    <3>3. SubSeq(text, first, n) \in Seq(S)
      <4> HIDE DEF first
      <4> QED  BY <3>1, <3>2, SubSeqProperties
    <3> QED  BY <1>4, <3>3
  <2> DEFINE x == SubSeq(text, 1, b)
             y == FlattenSeq(ps)
  <2>8. y \in Seq(S)
    <3> HIDE DEF ps
    <3> QED  BY <1>1, FlattenType
  <2> HIDE DEF first, m, part
  <2>9. FlattenSeq(Append(ps, part)) = y \o part
    <3> HIDE DEF ps
    <3> QED  BY <1>1, <2>3, FlattenAppend
  <2>10. Without(y \o part, T) = Without(y, T) \o Without(part, T)
    <3> HIDE DEF y
    <3> QED  BY <2>3, <2>8, WithoutConcat
  <2>11. Without(part \o sep, T) = Without(part, T)
    <3>1. Without(part \o sep, T) = Without(part, T) \o Without(sep, T)
      BY <2>3, <2>7, WithoutConcat
    <3>2. Without(sep, T) = <<>>
      BY WithoutAll
    <3>3. Without(part, T) \in Seq(S)
      BY <2>3, WithoutIs
    <3>4. Without(part, T) \o <<>> = Without(part, T)
      BY <3>3, ConcatEmptySeq
    <3> QED  BY <3>1, <3>2, <3>4
  <2>12. Without(SubSeq(text, 1, n), T) = Without(x, T) \o Without(part, T)
    <3> DEFINE z == part \o sep
    <3>1. z \in Seq(S)
      BY <2>3, <2>7
    <3>4. x \in Seq(S)
      BY <2>4
    <3> HIDE DEF z, x
    <3>2. Without(x \o z, T) = Without(x, T) \o Without(z, T)
      BY <3>1, <3>4, WithoutConcat
    <3>3. SubSeq(text, 1, n) = x \o z
      BY <2>5, <2>6 DEF x, z
    <3> QED  BY <2>11, <3>2, <3>3 DEF z
  <2>13. Without(x, T) = Without(y, T)
    BY <1>1
  <2>14. Without(FlattenSeq(Append(ps, part)), T) = Without(SubSeq(text, 1, n), T)
    <3> HIDE DEF x, y, ps
    <3> QED  BY <2>9, <2>10, <2>12, <2>13
  <2>15. Append(ps, part) \in Seq(Seq(S)) /\ n + 1 \in 1 .. Len(text) + 1 /\ n + 1 - 1 = n
    BY <1>1, <1>2, <2>3
  <2>16. ReadPart(d, text, sep, n) \in [parts : Seq(Seq(S)), from : 1 .. Len(text) + 1]
    <3> HIDE DEF ps
    <3> QED  BY <2>2, <2>15
  <2> DEFINE r == ReadPart(d, text, sep, n)
  <2>17. r.parts = Append(ps, part) /\ r.from - 1 = n
    <3> HIDE DEF ps
    <3> QED  BY <2>2, <2>15
  <2> HIDE DEF r, ps
  <2>18. Without(FlattenSeq(r.parts), T) = Without(SubSeq(text, 1, r.from - 1), T)
    BY <2>14, <2>17
  <2> QED  BY <2>16, <2>18 DEF ReadsOf, r
<1> QED  BY <1>3, <1>4

\* Splitting at a separator loses nothing but separators.
LEMMA SplitIs ==
    ASSUME NEW S, NEW text \in Seq(S), NEW R, NEW sep \in Seq(R), sep # <<>>,
           NEW T, ToSet(sep) \subseteq T
    PROVE  /\ Split(text, sep) \in Seq(Seq(S)) /\ Split(text, sep) # <<>>
           /\ Without(FlattenSeq(Split(text, sep)), T) = Without(text, T)
<1> DEFINE L == Len(text)
           Z == ReadsOf(text, S, T)
           b == [parts |-> <<>>, from |-> 1]
           IsRead(F) == F = [n \in 0 .. L |-> IF n = 0 THEN b ELSE ReadPart(F[n - 1], text, sep, n)]
           read == CHOOSE F : IsRead(F)
           g == [p \in (1 .. L) \X Z |-> ReadPart(p[2], text, sep, p[1])]
<1>1. L \in Nat /\ 1 \in 1 .. L + 1
  OBVIOUS
<1>2. b \in Z
  <2>1. SubSeq(text, 1, 0) = <<>>
    BY SubSeqEmpty
  <2>2. b \in [parts : Seq(Seq(S)), from : 1 .. L + 1] /\ b.parts = <<>> /\ b.from - 1 = 0
    BY <1>1
  <2> HIDE DEF b
  <2> QED  BY <2>1, <2>2, FlattenEmpty DEF ReadsOf
<1>3. \A n \in 1 .. L, d \in Z : ReadPart(d, text, sep, n) \in Z
  <2>1. ASSUME NEW n \in 1 .. L, NEW d \in Z PROVE ReadPart(d, text, sep, n) \in Z
    BY ReadPartIs
  <2> QED  BY <2>1
<1> HIDE DEF Z, b
<1>4. \E h : IsRead(h)
  <2>1. g \in [(1 .. L) \X Z -> Z]
    BY <1>3
  <2>2. PICK h \in [0 .. L -> Z] : Loops(h, L, b, g)
    <3> HIDE DEF L, g
    <3> QED  BY <1>1, <1>2, <2>1, LoopExists
  <2>3. h[0] = b /\ \A n \in 1 .. L : h[n] = ReadPart(h[n - 1], text, sep, n)
    <3>1. ASSUME NEW n \in 1 .. L PROVE h[n] = ReadPart(h[n - 1], text, sep, n)
      <4>1. n - 1 \in 0 .. L
        BY <1>1
      <4>2. h[n - 1] \in Z /\ h[n] = g[<<n, h[n - 1]>>]
        BY <2>2, <4>1 DEF Loops
      <4> QED  BY <4>2
    <3> QED  BY <2>2, <3>1 DEF Loops
  <2>4. IsRead(h)
    <3>1. \A n \in 0 .. L : h[n] = IF n = 0 THEN b ELSE ReadPart(h[n - 1], text, sep, n)
      BY <1>1, <2>3
    <3> QED  BY <2>2, <3>1
  <2> QED  BY <2>4
<1>5. IsRead(read)
  <2> HIDE DEF IsRead
  <2> QED  BY <1>4
<1>6. Split(text, sep) = Append(read[L].parts, SubSeq(text, read[L].from, L))
  BY DEF Split, b
<1> HIDE DEF read, g
<1>7. \A n \in 0 .. L : read[n] \in Z
  <2> DEFINE P == {n \in 0 .. L : read[n] \in Z}
  <2>1. 0 \in P
    BY <1>1, <1>2, <1>5
  <2>2. ASSUME NEW n \in 1 .. L, n - 1 \in P PROVE n \in P
    <3>1. n \in 0 .. L /\ n # 0
      BY <1>1
    <3>2. read[n] = ReadPart(read[n - 1], text, sep, n)
      BY <1>5, <3>1
    <3> QED  BY <1>3, <2>2, <3>1, <3>2
  <2>3. \A n \in 0 .. L : n \in P
    <3> HIDE DEF P
    <3> QED  BY <1>1, <2>1, <2>2, UpTo
  <2> QED  BY <2>3
<1>8. read[L] \in Z
  BY <1>1, <1>7
<1> DEFINE ps == read[L].parts
           a == read[L].from
<1>9. /\ ps \in Seq(Seq(S)) /\ a \in 1 .. L + 1
      /\ Without(FlattenSeq(ps), T) = Without(SubSeq(text, 1, a - 1), T)
  BY <1>8 DEF Z, ReadsOf
<1> HIDE DEF ps, a, IsRead
<1> DEFINE part == SubSeq(text, a, L)
           x == SubSeq(text, 1, a - 1)
           y == FlattenSeq(ps)
<1>10. part \in Seq(S) /\ x \in Seq(S) /\ x \o part = text
  <2> DEFINE k == a - 1
  <2>1. a \in 1 .. Len(text) + 1 /\ L \in 0 .. Len(text) /\ k \in 0 .. Len(text)
        /\ 1 \in 1 .. Len(text) + 1 /\ k \in 1 - 1 .. Len(text) /\ L \in k .. Len(text) /\ k + 1 = a
    BY <1>1, <1>9
  <2>2. part \in Seq(S)
    BY <2>1, SubSeqIs
  <2>3. SubSeq(text, 1, k) \in Seq(S)
    <3> HIDE DEF k
    <3> QED  BY <2>1, SubSeqIs
  <2>4. SubSeq(text, 1, k) \o SubSeq(text, k + 1, L) = SubSeq(text, 1, L)
    <3> HIDE DEF k, L
    <3> QED  BY <2>1, ConcatAdjacentSubSeq
  <2>5. SubSeq(text, 1, L) = text
    BY SubSeqFull
  <2> QED  BY <2>1, <2>2, <2>3, <2>4, <2>5
<1>11. y \in Seq(S)
  BY <1>9, FlattenType
<1>12. Split(text, sep) = Append(ps, part)
  BY <1>6 DEF ps, a
<1> HIDE DEF part, x
<1>13. FlattenSeq(Append(ps, part)) = y \o part
  BY <1>9, <1>10, FlattenAppend
<1> HIDE DEF y
<1>14. Without(y \o part, T) = Without(y, T) \o Without(part, T)
  BY <1>10, <1>11, WithoutConcats, Zenon
<1>15. Without(x \o part, T) = Without(x, T) \o Without(part, T)
  <2>1. x \in Seq(S) /\ part \in Seq(S)
    BY <1>10
  <2> QED  BY <2>1, WithoutConcat
<1>16. Without(y, T) = Without(x, T)
  BY <1>9 DEF x, y
<1>17. Append(ps, part) \in Seq(Seq(S)) /\ Append(ps, part) # <<>>
  <2>1. ps \in Seq(Seq(S)) /\ part \in Seq(S)
    BY <1>9, <1>10
  <2>2. Append(ps, part) \in Seq(Seq(S))
    BY <2>1
  <2>3. Append(ps, part) # <<>>
    BY <2>1, AppendProperties
  <2> QED  BY <2>2, <2>3
<1>18. Without(FlattenSeq(Split(text, sep)), T) = Without(text, T)
  BY <1>10, <1>12, <1>13, <1>14, <1>15, <1>16
<1> QED  BY <1>12, <1>17, <1>18

-----------------------------------------------------------------------------
(* Segments *)

\* Parts of a text whose fenced blocks have no blanks at their ends.
GoodSegments(segments, S) ==
    segments \in Seq(Seq(S)) /\ \A s \in ToSet(segments) : IsCode(s) => Edges(s)

\* A good segment may join good segments.
LEMMA GoodAppend ==
    ASSUME NEW S, NEW ss, GoodSegments(ss, S), NEW part \in Seq(S), IsCode(part) => Edges(part)
    PROVE  /\ GoodSegments(ss \o <<part>>, S) /\ FlattenSeq(ss \o <<part>>) = FlattenSeq(ss) \o part
           /\ GoodSegments(ss \o Filled(part), S)
           /\ FlattenSeq(ss \o Filled(part)) = FlattenSeq(ss) \o part
<1>1. ss \in Seq(Seq(S)) /\ \A s \in ToSet(ss) : IsCode(s) => Edges(s)
  BY DEF GoodSegments
<1>2. <<part>> \in Seq(Seq(S)) /\ ToSet(<<part>>) = {part} /\ FlattenSeq(<<part>>) = part
  <2>1. <<part>> \in Seq(Seq(S)) /\ ToSet(<<part>>) = {part}
    BY DEF ToSet
  <2> QED  BY <2>1, FlattenOne
<1>3. /\ ss \o <<part>> \in Seq(Seq(S)) /\ ToSet(ss \o <<part>>) = ToSet(ss) \cup {part}
      /\ FlattenSeq(ss \o <<part>>) = FlattenSeq(ss) \o part
  <2> DEFINE one == <<part>>
  <2>1. one \in Seq(Seq(S)) /\ ToSet(one) = {part} /\ FlattenSeq(one) = part
    BY <1>2
  <2> HIDE DEF one
  <2>2. ss \o one \in Seq(Seq(S))
    BY <1>1, <2>1
  <2>3. ToSet(ss \o one) = ToSet(ss) \cup ToSet(one)
    BY <1>1, <2>1, ToSetConcat
  <2>4. FlattenSeq(ss \o one) = FlattenSeq(ss) \o FlattenSeq(one)
    BY <1>1, <2>1, FlattenConcat
  <2> QED  BY <2>1, <2>2, <2>3, <2>4 DEF one
<1>4. GoodSegments(ss \o <<part>>, S)
  BY <1>1, <1>3 DEF GoodSegments
<1>5. CASE part = <<>>
  <2>1. Filled(part) = <<>> /\ ss \o <<>> = ss
    BY <1>1, <1>5, ConcatEmptySeq DEF Filled
  <2>2. FlattenSeq(ss) \o part = FlattenSeq(ss)
    <3>1. FlattenSeq(ss) \in Seq(S)
      BY <1>1, FlattenType
    <3> QED  BY <1>5, <3>1, ConcatEmptySeq
  <2> QED  BY <1>3, <1>4, <2>1, <2>2
<1>6. CASE part # <<>>
  <2>1. Filled(part) = <<part>>
    BY <1>6 DEF Filled
  <2> QED  BY <1>3, <1>4, <2>1
<1> QED  BY <1>5, <1>6

\* The reader's state after n tokens: no fence before the open one since the last part.
SegmentsRead(text, S) ==
    [segments : Seq(Seq(S)), from : 1 .. Len(text) + 1, open : 0 .. Len(text)]

\* What Segments has read of the first n tokens.
ReadSoFar(d, text, S, n) ==
    /\ d \in SegmentsRead(text, S)
    /\ GoodSegments(d.segments, S)
    /\ FlattenSeq(d.segments) = SubSeq(text, 1, d.from - 1)
    /\ d.from <= n + 1
    /\ d.open = 0 => \A i \in d.from .. n : text[i] # Fence
    /\ d.open # 0 => /\ d.from <= d.open /\ d.open <= n /\ text[d.open] = Fence
                     /\ \A i \in d.from .. d.open - 1 : text[i] # Fence

\* One more token that Segments reads keeps the types.
LEMMA ReadSegmentType ==
    ASSUME NEW S, NEW text \in Seq(S), NEW d \in SegmentsRead(text, S), NEW n \in 1 .. Len(text)
    PROVE  ReadSegment(d, text, n) \in SegmentsRead(text, S)
<1> DEFINE ss == d.segments
           a == d.from
           o == d.open
           m == o - 1
<1>1. /\ ss \in Seq(Seq(S)) /\ a \in 1 .. Len(text) + 1 /\ o \in 0 .. Len(text) /\ Len(text) \in Nat
      /\ d = [segments |-> ss, from |-> a, open |-> o]
  BY DEF SegmentsRead
<1> HIDE DEF ss, a, o
<1>2. CASE text[n] # Fence
  BY <1>2 DEF ReadSegment
<1>3. CASE text[n] = Fence /\ o = 0
  <2>1. ReadSegment(d, text, n) = [d EXCEPT !.open = n]
    BY <1>3 DEF ReadSegment, o
  <2> QED  BY <2>1, SMTT(30) DEF SegmentsRead
<1>4. CASE text[n] = Fence /\ o # 0
  <2> DEFINE x == SubSeq(text, a, m)
             y == SubSeq(text, o, n)
             more == ss \o Filled(x) \o <<y>>
  <2>1. ReadSegment(d, text, n) = [segments |-> more, from |-> n + 1, open |-> 0]
    BY <1>4 DEF ReadSegment, a, o, ss
  <2>2. x \in Seq(S)
    <3>1. m \in 0 .. Len(text)
      BY <1>1, <1>4
    <3> HIDE DEF m
    <3> QED  BY <1>1, <3>1, SubSeqIs
  <2>3. y \in Seq(S)
    <3>1. o \in 1 .. Len(text) + 1 /\ n \in 0 .. Len(text)
      BY <1>1, <1>4
    <3> QED  BY <3>1, SubSeqIs
  <2> HIDE DEF x, y
  <2>4. Filled(x) \in Seq(Seq(S)) /\ <<y>> \in Seq(Seq(S))
    BY <2>2, <2>3 DEF Filled
  <2>5. ss \o Filled(x) \in Seq(Seq(S))
    BY <1>1, <2>4
  <2>6. more \in Seq(Seq(S))
    BY <2>4, <2>5
  <2> HIDE DEF more
  <2>7. n + 1 \in 1 .. Len(text) + 1 /\ 0 \in 0 .. Len(text)
    BY <1>1
  <2> QED  BY <2>1, <2>6, <2>7 DEF SegmentsRead
<1> QED  BY <1>2, <1>3, <1>4

\* One more token that Segments reads keeps what ReadSoFar says.
LEMMA ReadSegmentIs ==
    ASSUME NEW S, NEW text \in Seq(S), NEW n \in 1 .. Len(text), NEW d, ReadSoFar(d, text, S, n - 1)
    PROVE  ReadSoFar(ReadSegment(d, text, n), text, S, n)
<1> DEFINE ss == d.segments
           a == d.from
           o == d.open
           r == ReadSegment(d, text, n)
<1>1. /\ ss \in Seq(Seq(S)) /\ a \in 1 .. Len(text) + 1 /\ o \in 0 .. Len(text) /\ Len(text) \in Nat
      /\ d = [segments |-> ss, from |-> a, open |-> o]
  BY DEF SegmentsRead, ReadSoFar
<1>2. /\ GoodSegments(ss, S) /\ FlattenSeq(ss) = SubSeq(text, 1, a - 1) /\ a <= n
      /\ o = 0 => \A i \in a .. n - 1 : text[i] # Fence
      /\ o # 0 => a <= o /\ o <= n - 1 /\ text[o] = Fence /\ \A i \in a .. o - 1 : text[i] # Fence
  BY DEF ReadSoFar
<1>3. r \in SegmentsRead(text, S)
  BY ReadSegmentType DEF ReadSoFar
<1> HIDE DEF ss, a, o
<1>4. CASE text[n] # Fence
  <2>1. r = d
    BY <1>4 DEF ReadSegment
  <2>2. o = 0 => \A i \in a .. n : text[i] # Fence
    <3>1. ASSUME o = 0, NEW i \in a .. n PROVE text[i] # Fence
      <4>1. i = n \/ i \in a .. n - 1
        BY <1>1
      <4> QED  BY <1>2, <1>4, <3>1, <4>1
    <3> QED  BY <3>1
  <2>3. a <= n + 1 /\ (o # 0 => o <= n)
    BY <1>1, <1>2
  <2> QED  BY <1>2, <1>3, <2>1, <2>2, <2>3 DEF ReadSoFar, ss, a, o
<1>5. CASE text[n] = Fence /\ o = 0
  <2>1. r = [segments |-> ss, from |-> a, open |-> n]
    BY <1>1, <1>5 DEF ReadSegment, o
  <2>2. n # 0 /\ a <= n + 1 /\ a <= n /\ n <= n
    BY <1>1, <1>2
  <2>3. \A i \in a .. n - 1 : text[i] # Fence
    BY <1>2, <1>5
  <2>4. r.segments = ss /\ r.from = a /\ r.open = n
    BY <2>1
  <2> HIDE DEF r
  <2> QED  BY <1>2, <1>3, <1>5, <2>2, <2>3, <2>4 DEF ReadSoFar, r
<1>6. CASE text[n] = Fence /\ o # 0
  <2> DEFINE m == o - 1
             k == a - 1
             x == SubSeq(text, a, m)
             y == SubSeq(text, o, n)
             more == (ss \o Filled(x)) \o <<y>>
  <2>1. r = [segments |-> more, from |-> n + 1, open |-> 0]
    BY <1>6 DEF ReadSegment, a, o, ss
  <2>2. /\ m \in 0 .. Len(text) /\ m \in a - 1 .. Len(text) /\ n \in m .. Len(text) /\ m + 1 = o
        /\ k \in 0 .. Len(text) /\ k \in 1 - 1 .. Len(text) /\ n \in k .. Len(text) /\ k + 1 = a
        /\ o \in 1 .. Len(text) + 1 /\ n \in 0 .. Len(text) /\ 1 \in 1 .. Len(text) + 1 /\ o <= n
    BY <1>1, <1>2, <1>6
  <2>3. x \in Seq(S) /\ (a > m => x = <<>>) /\ \A i \in 1 .. m - a + 1 : x[i] = text[a + i - 1]
    <3> HIDE DEF m
    <3> QED  BY <1>1, <2>2, SubSeqIs, SMTT(30)
  <2>4. y \in Seq(S) /\ Len(y) = n - o + 1 /\ \A i \in 1 .. n - o + 1 : y[i] = text[o + i - 1]
    BY <1>1, <2>2, SubSeqIs, ZenonT(30)
  <2>5. ~IsCode(x)
    <3>1. ASSUME IsCode(x) PROVE FALSE
      <4>1. x # <<>> /\ Head(x) = Fence
        BY <3>1 DEF IsCode
      <4>2. 1 \in 1 .. m - a + 1 /\ a + 1 - 1 = a /\ a \in a .. o - 1
        <5>1. ~(a > m)
          <6> HIDE DEF x, m
          <6> QED  BY <2>3, <4>1
        <5> QED  BY <1>1, <2>2, <5>1
      <4>3. x[1] = text[a]
        <5> HIDE DEF x, m
        <5> QED  BY <2>3, <4>2
      <4>4. Head(x) = x[1]
        <5> HIDE DEF x
        <5> QED  BY <2>3, <4>1
      <4>5. text[a] # Fence
        BY <1>2, <1>6, <4>2
      <4> QED  BY <4>1, <4>3, <4>4, <4>5
    <3> QED  BY <3>1
  <2>6. Edges(y)
    <3> DEFINE l == n - o + 1
    <3>1. 1 \in 1 .. l /\ l \in 1 .. l /\ o + 1 - 1 = o /\ o + l - 1 = n /\ Len(y) = l
      BY <1>1, <2>2, <2>4, SMTT(30)
    <3>2. y[1] = text[o] /\ y[l] = text[n]
      <4> HIDE DEF y
      <4>1. \A i \in 1 .. l : y[i] = text[o + i - 1]
        BY <2>4
      <4> HIDE DEF l
      <4> QED  BY <3>1, <4>1
    <3>3. Fence \notin Blank
      BY DEF Fence, Blank, NL
    <3>4. text[o] = Fence /\ text[n] = Fence
      BY <1>2, <1>6
    <3> HIDE DEF l, y
    <3> QED  BY <3>1, <3>2, <3>3, <3>4 DEF Edges
  <2>7. SubSeq(text, 1, n) = (SubSeq(text, 1, k) \o x) \o y
    <3>1. SubSeq(text, a, m) \o SubSeq(text, m + 1, n) = SubSeq(text, a, n)
      <4> HIDE DEF m
      <4> QED  BY <1>1, <2>2, ConcatAdjacentSubSeq
    <3>2. SubSeq(text, 1, k) \o SubSeq(text, k + 1, n) = SubSeq(text, 1, n)
      <4> HIDE DEF k
      <4> QED  BY <2>2, ConcatAdjacentSubSeq
    <3>3. SubSeq(text, 1, k) \in Seq(S)
      <4> HIDE DEF k
      <4> QED  BY <2>2, SubSeqIs
    <3> DEFINE w == SubSeq(text, 1, k)
    <3>4. x \o y = SubSeq(text, a, n)
      BY <2>2, <3>1
    <3>5. SubSeq(text, 1, n) = w \o (x \o y)
      BY <2>2, <3>2, <3>4
    <3>6. w \in Seq(S) /\ x \in Seq(S) /\ y \in Seq(S)
      BY <2>3, <2>4, <3>3
    <3>7. (w \o x) \o y = w \o (x \o y)
      <4>1. w \in Seq(S)
        BY <3>6
      <4>2. x \in Seq(S)
        BY <3>6
      <4>3. y \in Seq(S)
        BY <3>6
      <4> HIDE DEF w, x, y
      <4>4. Associates(w, x, y)
        BY <4>1, <4>2, <4>3, Associative, Zenon
      <4> QED  BY <4>4 DEF Associates
    <3> QED  BY <3>5, <3>7
  <2> HIDE DEF x, y
  <2>8. GoodSegments(ss \o Filled(x), S) /\ FlattenSeq(ss \o Filled(x)) = FlattenSeq(ss) \o x
    BY <1>2, <2>3, <2>5, GoodAppend
  <2> DEFINE tt == ss \o Filled(x)
  <2> HIDE DEF tt
  <2>9. GoodSegments(tt \o <<y>>, S) /\ FlattenSeq(tt \o <<y>>) = FlattenSeq(tt) \o y
    <3>1. GoodSegments(tt, S) /\ y \in Seq(S) /\ (IsCode(y) => Edges(y))
      BY <2>4, <2>6, <2>8 DEF tt
    <3> QED  BY <3>1, GoodAppend
  <2>10. GoodSegments(more, S) /\ FlattenSeq(more) = SubSeq(text, 1, n)
    BY <1>2, <2>7, <2>8, <2>9 DEF tt
  <2> HIDE DEF more, r
  <2>11. r.segments = more /\ r.from = n + 1 /\ r.open = 0 /\ n + 1 - 1 = n /\ n + 1 <= n + 1
         /\ n + 1 .. n = {}
    BY <2>1
  <2> QED  BY <1>3, <2>10, <2>11 DEF ReadSoFar, r
<1> QED  BY <1>4, <1>5, <1>6

\* Good segments, and what is left behind the last of them.
LEMMA SegmentsAndRest ==
    ASSUME NEW S, NEW text \in Seq(S)
    PROVE  \E ss : \E a \in 1 .. Len(text) + 1 :
              /\ GoodSegments(ss, S) /\ FlattenSeq(ss) = SubSeq(text, 1, a - 1)
              /\ Segments(text) = ss \o Filled(SubSeq(text, a, Len(text)))
<1> DEFINE L == Len(text)
           Z == SegmentsRead(text, S)
           b == [segments |-> <<>>, from |-> 1, open |-> 0]
           IsRead(F) == F = [n \in 0 .. L |-> IF n = 0 THEN b ELSE ReadSegment(F[n - 1], text, n)]
           read == CHOOSE F : IsRead(F)
           g == [p \in (1 .. L) \X Z |-> ReadSegment(p[2], text, p[1])]
<1>1. L \in Nat /\ 1 \in 1 .. L + 1
  OBVIOUS
<1>2. b \in Z
  BY <1>1 DEF SegmentsRead
<1>3. \A n \in 1 .. L, d \in Z : ReadSegment(d, text, n) \in Z
  <2>1. ASSUME NEW n \in 1 .. L, NEW d \in Z PROVE ReadSegment(d, text, n) \in Z
    BY ReadSegmentType
  <2> QED  BY <2>1
<1>3a. ReadSoFar(b, text, S, 0)
  <2>1. SubSeq(text, 1, 0) = <<>>
    BY SubSeqEmpty
  <2>2. GoodSegments(<<>>, S)
    BY ToSetEmpty DEF GoodSegments
  <2>3. b.segments = <<>> /\ b.from = 1 /\ b.open = 0 /\ 1 - 1 = 0 /\ 1 <= 0 + 1 /\ 1 .. 0 = {}
    OBVIOUS
  <2> HIDE DEF b
  <2> QED  BY <1>2, <2>1, <2>2, <2>3, FlattenEmpty DEF ReadSoFar
<1> HIDE DEF Z, b
<1>4. \E h : IsRead(h)
  <2>1. g \in [(1 .. L) \X Z -> Z]
    BY <1>3
  <2>2. PICK h \in [0 .. L -> Z] : Loops(h, L, b, g)
    <3> HIDE DEF L, g
    <3> QED  BY <1>1, <1>2, <2>1, LoopExists
  <2>3. h[0] = b /\ \A n \in 1 .. L : h[n] = ReadSegment(h[n - 1], text, n)
    <3>1. ASSUME NEW n \in 1 .. L PROVE h[n] = ReadSegment(h[n - 1], text, n)
      <4>1. n - 1 \in 0 .. L
        BY <1>1
      <4>2. h[n - 1] \in Z /\ h[n] = g[<<n, h[n - 1]>>]
        BY <2>2, <4>1 DEF Loops
      <4> QED  BY <4>2
    <3> QED  BY <2>2, <3>1 DEF Loops
  <2>4. IsRead(h)
    <3>1. \A n \in 0 .. L : h[n] = IF n = 0 THEN b ELSE ReadSegment(h[n - 1], text, n)
      BY <1>1, <2>3
    <3> QED  BY <2>2, <3>1
  <2> QED  BY <2>4
<1>5. IsRead(read)
  <2> HIDE DEF IsRead
  <2> QED  BY <1>4
<1>6. Segments(text) = read[L].segments \o Filled(SubSeq(text, read[L].from, L))
  BY DEF Segments, b
<1> HIDE DEF read, g
<1>7. \A n \in 0 .. L : ReadSoFar(read[n], text, S, n)
  <2> DEFINE P == {n \in 0 .. L : ReadSoFar(read[n], text, S, n)}
  <2>1. 0 \in P
    BY <1>1, <1>3a, <1>5
  <2>2. ASSUME NEW n \in 1 .. L, n - 1 \in P PROVE n \in P
    <3>1. n \in 0 .. L /\ n # 0
      BY <1>1
    <3>2. read[n] = ReadSegment(read[n - 1], text, n)
      BY <1>5, <3>1
    <3>3. ReadSoFar(read[n - 1], text, S, n - 1)
      BY <2>2
    <3>4. ReadSoFar(ReadSegment(read[n - 1], text, n), text, S, n)
      BY <3>3, ReadSegmentIs
    <3> QED  BY <3>1, <3>2, <3>4
  <2>3. \A n \in 0 .. L : n \in P
    <3> HIDE DEF P
    <3> QED  BY <1>1, <2>1, <2>2, UpTo
  <2> QED  BY <2>3
<1>8. ReadSoFar(read[L], text, S, L)
  BY <1>1, <1>7
<1> DEFINE ss == read[L].segments
           a == read[L].from
<1>9. GoodSegments(ss, S) /\ FlattenSeq(ss) = SubSeq(text, 1, a - 1) /\ a \in 1 .. L + 1
  BY <1>8 DEF ReadSoFar, SegmentsRead
<1>10. Segments(text) = ss \o Filled(SubSeq(text, a, L))
  BY <1>6
<1> HIDE DEF ss, a
<1> QED  BY <1>9, <1>10

\* Segments returns texts.
LEMMA SegmentsType ==
    ASSUME NEW S, NEW text \in Seq(S)
    PROVE  Segments(text) \in Seq(Seq(S))
<1>0. PICK ss : \E a \in 1 .. Len(text) + 1 :
         /\ GoodSegments(ss, S)
         /\ Segments(text) = ss \o Filled(SubSeq(text, a, Len(text)))
  BY SegmentsAndRest
<1>1. PICK a \in 1 .. Len(text) + 1 :
         /\ GoodSegments(ss, S)
         /\ Segments(text) = ss \o Filled(SubSeq(text, a, Len(text)))
  BY <1>0
<1> DEFINE part == SubSeq(text, a, Len(text))
<1>2. part \in Seq(S)
  <2>1. Len(text) \in 0 .. Len(text)
    OBVIOUS
  <2> QED  BY <2>1, SubSeqIs
<1> HIDE DEF part
<1>3. Filled(part) \in Seq(Seq(S)) /\ ss \in Seq(Seq(S))
  BY <1>1, <1>2 DEF Filled, GoodSegments
<1>4. ss \o Filled(part) \in Seq(Seq(S))
  BY <1>3
<1> QED  BY <1>1, <1>4 DEF part

\* The segments are the text, and its fenced blocks have no blanks at their ends.
LEMMA SegmentsAre ==
    ASSUME NEW S, NEW text \in Seq(S), Edges(text)
    PROVE  GoodSegments(Segments(text), S) /\ FlattenSeq(Segments(text)) = text
<1> DEFINE L == Len(text)
<1>1. L \in Nat
  OBVIOUS
<1>7. PICK ss : \E a \in 1 .. L + 1 :
         /\ GoodSegments(ss, S) /\ FlattenSeq(ss) = SubSeq(text, 1, a - 1)
         /\ Segments(text) = ss \o Filled(SubSeq(text, a, L))
  BY SegmentsAndRest
<1>8. PICK a \in 1 .. L + 1 :
         /\ GoodSegments(ss, S) /\ FlattenSeq(ss) = SubSeq(text, 1, a - 1)
         /\ Segments(text) = ss \o Filled(SubSeq(text, a, L))
  BY <1>7
<1> DEFINE k == a - 1
           part == SubSeq(text, a, L)
<1>9. GoodSegments(ss, S) /\ FlattenSeq(ss) = SubSeq(text, 1, k) /\ a \in 1 .. L + 1
  BY <1>8
<1>10. /\ part \in Seq(S) /\ (a <= L => Len(part) = L - a + 1) /\ (a > L => part = <<>>)
       /\ \A i \in 1 .. L - a + 1 : part[i] = text[a + i - 1]
  <2>1. L \in 0 .. Len(text) /\ a \in 1 .. Len(text) + 1
    BY <1>1, <1>9
  <2> HIDE DEF L
  <2> QED  BY <2>1, SubSeqIs
<1>11. SubSeq(text, 1, k) \o part = text
  <2>1. k \in 0 .. Len(text) /\ 1 \in 1 .. Len(text) + 1 /\ k \in 1 - 1 .. Len(text)
        /\ L \in k .. Len(text) /\ k + 1 = a
    BY <1>1, <1>9
  <2>2. SubSeq(text, 1, k) \o SubSeq(text, k + 1, L) = SubSeq(text, 1, L)
    <3> HIDE DEF k, L
    <3> QED  BY <2>1, ConcatAdjacentSubSeq
  <2>3. SubSeq(text, 1, L) = text
    BY SubSeqFull
  <2> QED  BY <2>1, <2>2, <2>3
<1>12. IsCode(part) => Edges(part)
  <2>1. ASSUME IsCode(part) PROVE Edges(part)
    <3>1. part # <<>> /\ Head(part) = Fence
      BY <2>1 DEF IsCode
    <3>2. Head(part) = part[1]
      <4> HIDE DEF part
      <4> QED  BY <1>10, <3>1
    <3> DEFINE l == L - a + 1
    <3>3. l \in 1 .. l /\ a + l - 1 = L /\ Len(part) = l
      BY <1>1, <1>9, <1>10, <3>1
    <3>4. part[l] = text[L]
      <4> HIDE DEF part
      <4>1. \A i \in 1 .. l : part[i] = text[a + i - 1]
        BY <1>10
      <4> HIDE DEF l, L
      <4> QED  BY <3>3, <4>1
    <3>5. text # <<>>
      BY <1>1, <1>9, <3>3
    <3>6. text[L] \notin Blank
      BY <3>5 DEF Edges
    <3>7. Fence \notin Blank
      BY DEF Fence, Blank, NL
    <3> HIDE DEF part, l, L
    <3> QED  BY <3>1, <3>2, <3>3, <3>4, <3>6, <3>7 DEF Edges
  <2> QED  BY <2>1
<1>13. Segments(text) = ss \o Filled(part)
  BY <1>8
<1> HIDE DEF part
<1>14. GoodSegments(ss \o Filled(part), S) /\ FlattenSeq(ss \o Filled(part)) = FlattenSeq(ss) \o part
  BY <1>9, <1>10, <1>12, GoodAppend
<1> QED  BY <1>9, <1>11, <1>13, <1>14

-----------------------------------------------------------------------------
(* Cuts of a text *)

\* Parts of a text that all fit and have its ink.
Cut(parts, text, S, T) ==
    /\ parts \in Seq(Seq(S))
    /\ \A part \in ToSet(parts) : Len(part) <= ChunkSize
    /\ Without(FlattenSeq(parts), T) = Without(text, T)

\* No parts are a cut of a text without ink.
LEMMA CutEmpty ==
    ASSUME NEW S, NEW T, NEW text, Without(text, T) = <<>>
    PROVE  Cut(<<>>, text, S, T)
BY ToSetEmpty, FlattenEmpty, WithoutEmpty DEF Cut

\* A text that fits is a cut of itself.
LEMMA CutOne ==
    ASSUME NEW S, NEW T, NEW text \in Seq(S), Len(text) <= ChunkSize
    PROVE  Cut(<<text>>, text, S, T)
<1>1. <<text>> \in Seq(Seq(S)) /\ ToSet(<<text>>) = {text}
  BY DEF ToSet
<1>2. FlattenSeq(<<text>>) = text
  BY FlattenOne
<1> QED  BY <1>1, <1>2 DEF Cut

\* Cuts of two texts make a cut of their concatenation.
LEMMA CutConcat ==
    ASSUME NEW S, NEW T, NEW x \in Seq(S), NEW y \in Seq(S), NEW xs, Cut(xs, x, S, T),
           NEW ys, Cut(ys, y, S, T)
    PROVE  Cut(xs \o ys, x \o y, S, T)
<1>1. xs \in Seq(Seq(S)) /\ ys \in Seq(Seq(S))
  BY DEF Cut
<1>2. xs \o ys \in Seq(Seq(S))
  BY <1>1
<1>3. ToSet(xs \o ys) = ToSet(xs) \cup ToSet(ys)
  BY <1>1, ToSetConcat
<1> DEFINE f == FlattenSeq(xs)
           g == FlattenSeq(ys)
<1>4. FlattenSeq(xs \o ys) = f \o g
  BY <1>1, FlattenConcat
<1>5. f \in Seq(S) /\ g \in Seq(S)
  BY <1>1, FlattenType
<1>6. Without(f, T) = Without(x, T) /\ Without(g, T) = Without(y, T)
  BY DEF Cut
<1> HIDE DEF f, g
<1>7. Without(f \o g, T) = Without(f, T) \o Without(g, T)
  BY <1>5, WithoutConcat, SMTT(30)
<1>8. Without(x \o y, T) = Without(x, T) \o Without(y, T)
  BY WithoutConcat
<1>9. \A part \in ToSet(xs \o ys) : Len(part) <= ChunkSize
  BY <1>3 DEF Cut
<1> QED  BY <1>2, <1>4, <1>6, <1>7, <1>8, <1>9 DEF Cut

\* Products with a natural number are monotone.
LEMMA Monotone ==
    ASSUME NEW a \in Nat, NEW b \in Nat, a <= b, NEW c \in Nat
    PROVE  a * c <= b * c /\ a * c \in Nat
<1>1. PICK d \in Nat : b = a + d
  <2>1. b - a \in Nat /\ b = a + (b - a)
    OBVIOUS
  <2> QED  BY <2>1
<1>2. (a + d) * c = a * c + d * c
  OBVIOUS
<1>3. a * c \in Nat /\ d * c \in Nat
  OBVIOUS
<1> QED  BY <1>1, <1>2, <1>3

\* The last resort: parts of ChunkSize, and a last one.
LEMMA HardSplitIs ==
    ASSUME NEW S, NEW T, NEW text \in Seq(S)
    PROVE  Cut(HardSplit(text), text, S, T)
<1> DEFINE C == ChunkSize
           L == Len(text)
           K == (L + C - 1) \div C
           end(k) == Min({k * C, L})
           parts == HardSplit(text)
<1>1. C \in Nat \ {0} /\ L \in Nat
  BY TextAssumption
<1>2. K \in Nat /\ K * C >= L /\ \A k \in 1 .. K : (k - 1) * C \in 0 .. L
  <2>1. L + C - 1 \in Nat
    BY <1>1
  <2> DEFINE r == (L + C - 1) % C
  <2>2. K \in Int /\ L + C - 1 = C * K + r /\ r \in Int /\ 0 <= r /\ r < C
    <3> DEFINE m == L + C - 1
    <3>1. m \in Nat
      BY <2>1
    <3> HIDE DEF m, C
    <3>2. m \div C \in Int /\ m = C * (m \div C) + (m % C) /\ m % C \in Int /\ 0 <= m % C /\ m % C < C
      BY <1>1, <3>1
    <3> QED  BY <3>2 DEF m
  <2> HIDE DEF K, r
  <2>3. K * C >= L /\ (K - 1) * C <= L
    BY <1>1, <2>2
  <2>4. K \in Nat
    <3>1. ASSUME K < 0 PROVE FALSE
      <4>1. C * K < 0
        BY <1>1, <2>2, <3>1
      <4>2. C * K <= 0 - C
        <5>1. C * K + C = C * (K + 1) /\ C * (K + 1) <= 0
          BY <1>1, <2>2, <3>1
        <5> QED  BY <1>1, <2>2, <5>1
      <4> QED  BY <1>1, <2>2, <4>2
    <3> QED  BY <2>2, <3>1
  <2>5. ASSUME NEW k \in 1 .. K PROVE (k - 1) * C \in 0 .. L
    <3>1. k - 1 \in Nat /\ K - 1 \in Nat /\ k - 1 <= K - 1 /\ C \in Nat
      BY <1>1, <2>4
    <3>2. (k - 1) * C <= (K - 1) * C /\ (k - 1) * C \in Nat
      BY <3>1, Monotone
    <3>3. (K - 1) * C \in Int
      BY <3>1
    <3> QED  BY <1>1, <2>3, <3>2, <3>3
  <2> QED  BY <2>3, <2>4, <2>5
<1>3. parts = [k \in 1 .. K |-> SubSeq(text, (k - 1) * C + 1, end(k))]
  BY DEF HardSplit
<1> HIDE DEF K, C, parts
<1>4. ASSUME NEW k \in 1 .. K
      PROVE  /\ end(k) \in (k - 1) * C .. L /\ end(k) - (k - 1) * C <= C
             /\ k # K => end(k) = k * C
  <2>1. k * C = (k - 1) * C + C /\ k * C \in Nat
    BY <1>1, <1>2
  <2>2. end(k) = IF k * C <= L THEN k * C ELSE L
    BY <1>1, <2>1, MinMaxOfTwo
  <2>3. (k - 1) * C \in 0 .. L
    BY <1>2
  <2>4. k # K => k * C <= L
    <3>1. ASSUME k # K PROVE k * C <= L
      <4> DEFINE m == k + 1
      <4>1. m \in 1 .. K /\ m - 1 = k
        BY <1>2, <3>1
      <4>2. (m - 1) * C \in 0 .. L
        <5> HIDE DEF m
        <5> QED  BY <1>2, <4>1
      <4> QED  BY <1>1, <4>1, <4>2
    <3> QED  BY <3>1
  <2> QED  BY <1>1, <2>1, <2>2, <2>3, <2>4
<1>5. \A k \in 1 .. K : parts[k] \in Seq(S) /\ Len(parts[k]) <= C
  <2>1. ASSUME NEW k \in 1 .. K PROVE parts[k] \in Seq(S) /\ Len(parts[k]) <= C
    <3> DEFINE m == (k - 1) * C + 1
               e == end(k)
    <3>1. m \in 1 .. Len(text) + 1 /\ e \in 0 .. Len(text) /\ e - m + 1 <= C
      BY <1>1, <1>2, <1>4
    <3>2. parts[k] = SubSeq(text, m, e)
      BY <1>3
    <3> HIDE DEF m, e
    <3>3. /\ SubSeq(text, m, e) \in Seq(S)
          /\ m <= e => Len(SubSeq(text, m, e)) = e - m + 1
          /\ m > e => SubSeq(text, m, e) = <<>>
      BY <3>1, SubSeqIs
    <3>4. Len(SubSeq(text, m, e)) <= C
      BY <1>1, <3>1, <3>3
    <3> QED  BY <3>2, <3>3, <3>4
  <2> QED  BY <2>1
<1>6. parts \in Seq(Seq(S)) /\ Len(parts) = K
  <2>1. parts \in [1 .. K -> Seq(S)]
    <3>1. parts = [k \in 1 .. K |-> parts[k]]
      BY <1>3
    <3> QED  BY <1>5, <3>1
  <2> QED  BY <1>2, <2>1
<1>7. PICK f \in [0 .. K -> Seq(S)] :
         /\ f[0] = <<>> /\ (\A k \in 1 .. K : f[k] = f[k - 1] \o parts[k])
         /\ FlattenSeq(parts) = f[K]
  <2>1. \E f \in [0 .. Len(parts) -> Seq(S)] :
           /\ f[0] = <<>> /\ (\A k \in 1 .. Len(parts) : f[k] = f[k - 1] \o parts[k])
           /\ FlattenSeq(parts) = f[Len(parts)]
    BY <1>6, FlattenLoop
  <2> QED  BY <1>6, <2>1
<1> DEFINE upto(k) == IF k = K THEN L ELSE k * C
           P == {k \in 0 .. K : f[k] = SubSeq(text, 1, upto(k))}
<1>8. 0 \in P
  <2>1. upto(0) = 0
    BY <1>1, <1>2
  <2>2. SubSeq(text, 1, 0) = <<>>
    BY SubSeqEmpty
  <2> QED  BY <1>2, <1>7, <2>1, <2>2
<1>9. ASSUME NEW k \in 1 .. K, k - 1 \in P PROVE k \in P
  <2> DEFINE m == (k - 1) * C
             e == end(k)
             u == upto(k)
  <2>1. f[k - 1] = SubSeq(text, 1, m)
    BY <1>2, <1>9
  <2>2. f[k] = f[k - 1] \o parts[k]
    BY <1>7
  <2>3. parts[k] = SubSeq(text, m + 1, e)
    BY <1>3
  <2>4. e = u
    <3>1. CASE k # K
      BY <1>4, <3>1
    <3>2. CASE k = K
      <4>1. K * C \in Nat /\ K * C >= L
        BY <1>1, <1>2
      <4>2. end(K) = L
        BY <1>1, <4>1, MinMaxOfTwo
      <4> QED  BY <3>2, <4>2
    <3> QED  BY <3>1, <3>2
  <2>5. 1 \in 1 .. Len(text) + 1 /\ m \in 1 - 1 .. Len(text) /\ e \in m .. Len(text)
    <3>1. m \in 0 .. L /\ e \in m .. L
      BY <1>2, <1>4
    <3> HIDE DEF m, e
    <3> QED  BY <1>1, <3>1
  <2>6. SubSeq(text, 1, m) \o SubSeq(text, m + 1, e) = SubSeq(text, 1, e)
    <3> HIDE DEF m, e
    <3> QED  BY <2>5, ConcatAdjacentSubSeq
  <2>7. k \in 0 .. K
    BY <1>2
  <2>8. f[k] = SubSeq(text, 1, u)
    BY <2>1, <2>2, <2>3, <2>4, <2>6
  <2> QED  BY <2>7, <2>8
<1>10. \A k \in 0 .. K : k \in P
  <2> HIDE DEF P
  <2> QED  BY <1>2, <1>8, <1>9, UpTo
<1>11. f[K] = SubSeq(text, 1, L)
  <2>1. K \in P
    <3> HIDE DEF P
    <3> QED  BY <1>2, <1>10
  <2> QED  BY <2>1
<1>12. FlattenSeq(parts) = text
  BY <1>7, <1>11, SubSeqFull
<1>13. \A part \in ToSet(parts) : Len(part) <= C
  <2>1. ToSet(parts) = {parts[k] : k \in 1 .. K}
    BY <1>6, ToSetType
  <2> QED  BY <1>5, <2>1
<1> QED  BY <1>6, <1>12, <1>13 DEF Cut, C, parts

-----------------------------------------------------------------------------
(* Gathering *)

\* Chunks and a buffer that hold the ink of what was gathered.
Accs(S) == [chunks : Seq(Seq(S)), buffer : Seq(S)]

\* The chunks and the buffer are a cut of what was seen.
Gathered(acc, seen, S, T) ==
    /\ acc \in Accs(S)
    /\ Len(acc.buffer) <= ChunkSize
    /\ \E x \in Seq(S) : /\ Cut(acc.chunks, x, S, T)
                         /\ Without(x \o acc.buffer, T) = Without(seen, T)

\* Flush keeps the ink of the buffer.
LEMMA FlushIs ==
    ASSUME NEW S, NEW T, NEW chunks, NEW buffer \in Seq(S), Len(buffer) <= ChunkSize,
           NEW x \in Seq(S), Cut(chunks, x, S, T)
    PROVE  Cut(chunks \o Filled(buffer), x \o buffer, S, T)
<1>1. Cut(Filled(buffer), buffer, S, T)
  <2>1. CASE buffer = <<>>
    <3>1. Filled(buffer) = <<>> /\ Without(buffer, T) = <<>>
      BY <2>1, WithoutEmpty DEF Filled
    <3> QED  BY <3>1, CutEmpty
  <2>2. CASE buffer # <<>>
    <3>1. Filled(buffer) = <<buffer>>
      BY <2>2 DEF Filled
    <3> QED  BY <3>1, CutOne
  <2> QED  BY <2>1, <2>2
<1> DEFINE last == Filled(buffer)
<1>2. Cut(last, buffer, S, T)
  BY <1>1
<1> HIDE DEF last
<1>3. Cut(chunks \o last, x \o buffer, S, T)
  BY <1>2, CutConcat
<1> QED  BY <1>3 DEF last

\* One more segment keeps the types.
LEMMA GatherType ==
    ASSUME NEW S, NEW sep \in Seq(S), NEW acc \in Accs(S), NEW z \in Seq(S), NEW finer \in Seq(Seq(S))
    PROVE  Gather(acc, z, sep, finer) \in Accs(S)
<1> DEFINE b == acc.buffer
           cs == acc.chunks
           candidate == IF b = <<>> THEN z ELSE b \o sep \o z
<1>1. b \in Seq(S) /\ cs \in Seq(Seq(S)) /\ acc = [chunks |-> cs, buffer |-> b]
  BY DEF Accs
<1> HIDE DEF b, cs
<1>2. candidate \in Seq(S)
  BY <1>1
<1>3. Filled(b) \in Seq(Seq(S))
  BY <1>1 DEF Filled
<1> DEFINE flushed == cs \o Filled(b)
<1>4. flushed \in Seq(Seq(S))
  BY <1>1, <1>3
<1>5. Gather(acc, z, sep, finer) =
        IF Len(candidate) <= ChunkSize THEN [acc EXCEPT !.buffer = candidate]
        ELSE IF Len(z) <= ChunkSize THEN [chunks |-> flushed, buffer |-> z]
        ELSE [chunks |-> flushed \o finer, buffer |-> <<>>]
  BY DEF Gather, Flush, b, cs
<1> HIDE DEF candidate, flushed
<1>6. [acc EXCEPT !.buffer = candidate] \in Accs(S)
  BY <1>2 DEF Accs
<1>7. [chunks |-> flushed, buffer |-> z] \in Accs(S)
  BY <1>4 DEF Accs
<1>8. [chunks |-> flushed \o finer, buffer |-> <<>>] \in Accs(S)
  <2>1. flushed \o finer \in Seq(Seq(S)) /\ <<>> \in Seq(S)
    BY <1>4
  <2> QED  BY <2>1 DEF Accs
<1> QED  BY <1>5, <1>6, <1>7, <1>8

\* One more segment keeps what Gathered says.
LEMMA GatherIs ==
    ASSUME NEW S, NEW T, NEW sep \in Seq(S), ToSet(sep) \subseteq T,
           NEW seen \in Seq(S), NEW acc, Gathered(acc, seen, S, T), NEW z \in Seq(S),
           NEW finer, Cut(finer, z, S, T)
    PROVE  Gathered(Gather(acc, z, sep, finer), seen \o z, S, T)
<1> DEFINE b == acc.buffer
           cs == acc.chunks
           candidate == IF b = <<>> THEN z ELSE b \o sep \o z
           r == Gather(acc, z, sep, finer)
           flushed == cs \o Filled(b)
<1>0. \A s \in Seq(S), t \in Seq(S) : Without(s \o t, T) = Without(s, T) \o Without(t, T)
  BY WithoutConcats
<1>1. b \in Seq(S) /\ cs \in Seq(Seq(S)) /\ acc = [chunks |-> cs, buffer |-> b] /\ Len(b) <= ChunkSize
  BY DEF Gathered, Accs
<1>2. PICK x \in Seq(S) : Cut(cs, x, S, T) /\ Without(x \o b, T) = Without(seen, T)
  BY DEF Gathered
<1>3. r \in Accs(S)
  <2>1. acc \in Accs(S) /\ finer \in Seq(Seq(S))
    BY DEF Gathered, Cut
  <2> QED  BY <2>1, GatherType
<1>4. r = IF Len(candidate) <= ChunkSize THEN [acc EXCEPT !.buffer = candidate]
          ELSE IF Len(z) <= ChunkSize THEN [chunks |-> flushed, buffer |-> z]
          ELSE [chunks |-> flushed \o finer, buffer |-> <<>>]
  BY DEF Gather, Flush
<1> HIDE DEF b, cs, r
<1> DEFINE y == x \o b
<1> HIDE DEF y
<1>5. y \in Seq(S)
  BY <1>1 DEF y
<1>6. Cut(flushed, y, S, T)
  BY <1>1, <1>2, FlushIs DEF y
<1>7. Without(seen \o z, T) = Without(seen, T) \o Without(z, T)
  BY WithoutConcat, SMTT(30)
<1>8. Without(y, T) = Without(seen, T)
  BY <1>2 DEF y
<1>9. Without(y \o z, T) = Without(seen \o z, T)
  <2>1. Without(y \o z, T) = Without(y, T) \o Without(z, T)
    BY <1>0, <1>5
  <2> QED  BY <1>7, <1>8, <2>1
<1>10. CASE Len(candidate) <= ChunkSize
  <2>1. r.chunks = cs /\ r.buffer = candidate
    BY <1>1, <1>4, <1>10
  <2>2. candidate \in Seq(S)
    BY <1>1
  <2>3. Without(x \o candidate, T) = Without(seen \o z, T)
    <3>1. CASE b = <<>>
      <4>1. candidate = z /\ y = x
        <5>1. x \o <<>> = x
          BY ConcatEmptySeq
        <5> QED  BY <3>1, <5>1 DEF y
      <4> QED  BY <1>9, <4>1
    <3>2. CASE b # <<>>
      <4>1. x \o candidate = (y \o sep) \o z
        <5>1. candidate = (b \o sep) \o z
          BY <3>2
        <5>2. (b \o sep) \o z = b \o (sep \o z) /\ sep \o z \in Seq(S)
          <6>1. b \in Seq(S) /\ sep \in Seq(S) /\ z \in Seq(S) /\ sep \o z \in Seq(S)
            BY <1>1
          <6>2. Associates(b, sep, z)
            BY <6>1, Associative, Zenon
          <6> QED  BY <6>1, <6>2 DEF Associates
        <5> DEFINE w == sep \o z
        <5> HIDE DEF w
        <5>3. w \in Seq(S) /\ candidate = b \o w
          BY <5>1, <5>2 DEF w
        <5> HIDE DEF candidate
        <5>4. (x \o b) \o w = x \o (b \o w)
          <6>1. x \in Seq(S) /\ b \in Seq(S)
            BY <1>1
          <6>2. Associates(x, b, w)
            BY <5>3, <6>1, Associative, Zenon
          <6> QED  BY <6>2 DEF Associates
        <5>5. x \o candidate = y \o w
          BY <5>3, <5>4 DEF y
        <5>6. (y \o sep) \o z = y \o (sep \o z)
          <6>1. sep \in Seq(S) /\ z \in Seq(S) /\ y \in Seq(S)
            BY <1>1, <1>5
          <6>2. Associates(y, sep, z)
            BY <6>1, Associative, Zenon
          <6> QED  BY <6>2 DEF Associates
        <5> QED  BY <5>5, <5>6 DEF w
      <4> DEFINE v == y \o sep
      <4> HIDE DEF v
      <4>2. v \in Seq(S)
        BY <1>5 DEF v
      <4>3. Without(v, T) = Without(y, T)
        <5>1. Without(y \o sep, T) = Without(y, T) \o Without(sep, T)
          BY <1>0, <1>5
        <5>2. Without(sep, T) = <<>>
          BY WithoutAll
        <5>3. Without(y, T) \in Seq(S)
          BY <1>5, WithoutIs
        <5>4. Without(y, T) \o <<>> = Without(y, T)
          BY <5>3, ConcatEmptySeq
        <5> QED  BY <5>1, <5>2, <5>4 DEF v
      <4> HIDE DEF candidate, flushed
      <4>4. Without(v \o z, T) = Without(v, T) \o Without(z, T)
        BY <1>0, <4>2
      <4> QED  BY <1>7, <1>8, <4>1, <4>3, <4>4 DEF v
    <3> QED  BY <3>1, <3>2
  <2> HIDE DEF candidate, flushed
  <2> QED  BY <1>2, <1>3, <1>10, <2>1, <2>3 DEF Gathered, r
<1>11. CASE ~(Len(candidate) <= ChunkSize) /\ Len(z) <= ChunkSize
  <2>1. r.chunks = flushed /\ r.buffer = z
    BY <1>4, <1>11
  <2> HIDE DEF candidate, flushed
  <2> QED  BY <1>3, <1>5, <1>6, <1>9, <1>11, <2>1 DEF Gathered, r
<1>12. CASE ~(Len(candidate) <= ChunkSize) /\ ~(Len(z) <= ChunkSize)
  <2>1. r.chunks = flushed \o finer /\ r.buffer = <<>>
    BY <1>4, <1>12
  <2> HIDE DEF candidate, flushed
  <2> DEFINE w == y \o z
  <2>2. Cut(flushed \o finer, w, S, T) /\ w \in Seq(S)
    BY <1>5, <1>6, CutConcat
  <2> HIDE DEF w
  <2>3. w \o <<>> = w
    BY <2>2, ConcatEmptySeq
  <2>4. Len(<<>>) <= ChunkSize
    BY TextAssumption
  <2> QED  BY <1>3, <1>9, <2>1, <2>2, <2>3, <2>4 DEF Gathered, r, w
<1> QED  BY <1>10, <1>11, <1>12

\* All segments are gathered.
LEMMA GatherAllIs ==
    ASSUME NEW S, NEW T, NEW sep \in Seq(S), ToSet(sep) \subseteq T, NEW zs \in Seq(Seq(S)),
           NEW finer, \A k \in 1 .. Len(zs) : Cut(finer[zs[k]], zs[k], S, T)
    PROVE  Cut(GatherAll(zs, sep, finer), FlattenSeq(zs), S, T)
<1> DEFINE L == Len(zs)
           Z == Accs(S)
           b == [chunks |-> <<>>, buffer |-> <<>>]
           IsPut(F) == F = [k \in 0 .. L |-> IF k = 0 THEN b
                                             ELSE Gather(F[k - 1], zs[k], sep, finer[zs[k]])]
           put == CHOOSE F : IsPut(F)
           g == [p \in (1 .. L) \X Z |-> Gather(p[2], zs[p[1]], sep, finer[zs[p[1]]])]
<1>1. L \in Nat /\ \A k \in 1 .. L : zs[k] \in Seq(S) /\ Cut(finer[zs[k]], zs[k], S, T)
  OBVIOUS
<1>2. b \in Z
  BY DEF Accs
<1>3. \A k \in 1 .. L, d \in Z : Gather(d, zs[k], sep, finer[zs[k]]) \in Z
  <2>1. ASSUME NEW k \in 1 .. L, NEW d \in Z PROVE Gather(d, zs[k], sep, finer[zs[k]]) \in Z
    <3> DEFINE z == zs[k]
               fs == finer[zs[k]]
    <3>1. z \in Seq(S) /\ fs \in Seq(Seq(S))
      BY <1>1 DEF Cut
    <3> HIDE DEF z, fs
    <3>2. Gather(d, z, sep, fs) \in Z
      BY <3>1, GatherType
    <3> QED  BY <3>2 DEF z, fs
  <2> QED  BY <2>1
<1>4. Gathered(b, <<>>, S, T)
  <2>1. b.chunks = <<>> /\ b.buffer = <<>> /\ <<>> \in Seq(S) /\ <<>> \o <<>> = <<>>
    OBVIOUS
  <2>2. Cut(<<>>, <<>>, S, T)
    BY CutEmpty, WithoutEmpty
  <2>3. Len(<<>>) <= ChunkSize
    BY TextAssumption
  <2> HIDE DEF b
  <2> QED  BY <1>2, <2>1, <2>2, <2>3 DEF Gathered
<1> HIDE DEF Z, b
<1>5. \E h : IsPut(h)
  <2>1. g \in [(1 .. L) \X Z -> Z]
    BY <1>3
  <2>2. PICK h \in [0 .. L -> Z] : Loops(h, L, b, g)
    <3> HIDE DEF L, g
    <3> QED  BY <1>1, <1>2, <2>1, LoopExists
  <2>3. h[0] = b /\ \A k \in 1 .. L : h[k] = Gather(h[k - 1], zs[k], sep, finer[zs[k]])
    <3>1. ASSUME NEW k \in 1 .. L PROVE h[k] = Gather(h[k - 1], zs[k], sep, finer[zs[k]])
      <4>1. k - 1 \in 0 .. L
        BY <1>1
      <4>2. h[k - 1] \in Z /\ h[k] = g[<<k, h[k - 1]>>]
        BY <2>2, <4>1 DEF Loops
      <4> QED  BY <4>2
    <3> QED  BY <2>2, <3>1 DEF Loops
  <2>4. IsPut(h)
    <3>1. \A k \in 0 .. L : h[k] = IF k = 0 THEN b ELSE Gather(h[k - 1], zs[k], sep, finer[zs[k]])
      BY <1>1, <2>3
    <3> QED  BY <2>2, <3>1
  <2> QED  BY <2>4
<1>6. IsPut(put)
  <2> HIDE DEF IsPut
  <2> QED  BY <1>5
<1>7. GatherAll(zs, sep, finer) = Flush(put[L])
  BY DEF GatherAll, b
<1> HIDE DEF put, g
<1>8. PICK f \in [0 .. L -> Seq(S)] :
         f[0] = <<>> /\ (\A k \in 1 .. L : f[k] = f[k - 1] \o zs[k]) /\ FlattenSeq(zs) = f[L]
  BY FlattenLoop
<1> DEFINE P == {k \in 0 .. L : Gathered(put[k], f[k], S, T)}
<1>9. 0 \in P
  <2>1. put[0] = b /\ 0 \in 0 .. L
    BY <1>1, <1>6
  <2> QED  BY <1>4, <1>8, <2>1
<1>10. ASSUME NEW k \in 1 .. L, k - 1 \in P PROVE k \in P
  <2>1. k \in 0 .. L /\ k # 0 /\ k - 1 \in 0 .. L
    BY <1>1
  <2>2. put[k] = Gather(put[k - 1], zs[k], sep, finer[zs[k]])
    BY <1>6, <2>1
  <2> DEFINE z == zs[k]
             fs == finer[zs[k]]
             acc == put[k - 1]
             seen == f[k - 1]
  <2>3. z \in Seq(S) /\ Cut(fs, z, S, T) /\ seen \in Seq(S) /\ Gathered(acc, seen, S, T)
    BY <1>1, <1>8, <1>10, <2>1
  <2>4. f[k] = seen \o z /\ put[k] = Gather(acc, z, sep, fs)
    BY <1>8, <2>2
  <2> HIDE DEF z, fs, acc, seen
  <2>5. Gathered(Gather(acc, z, sep, fs), seen \o z, S, T)
    BY <2>3, GatherIs
  <2>6. Gathered(put[k], f[k], S, T)
    BY <2>4, <2>5
  <2> QED  BY <2>1, <2>6
<1>11. \A k \in 0 .. L : k \in P
  <2> HIDE DEF P
  <2> QED  BY <1>1, <1>9, <1>10, UpTo
<1>12. Gathered(put[L], FlattenSeq(zs), S, T)
  <2>1. L \in P
    <3> HIDE DEF P
    <3> QED  BY <1>1, <1>11
  <2> QED  BY <1>8, <2>1
<1> DEFINE acc == put[L]
           buffer == acc.buffer
           chunks == acc.chunks
<1>13. buffer \in Seq(S) /\ Len(buffer) <= ChunkSize
  BY <1>12 DEF Gathered, Accs
<1>14. PICK x \in Seq(S) : Cut(chunks, x, S, T) /\ Without(x \o buffer, T) = Without(FlattenSeq(zs), T)
  BY <1>12 DEF Gathered
<1>15. Flush(put[L]) = chunks \o Filled(buffer)
  BY DEF Flush
<1> HIDE DEF buffer, chunks, acc
<1>16. Cut(chunks \o Filled(buffer), x \o buffer, S, T)
  BY <1>13, <1>14, FlushIs
<1> QED  BY <1>7, <1>14, <1>15, <1>16 DEF Cut

\* One separator, with what the finer ones make of any text.
LEMMA SplitOnceIs ==
    ASSUME NEW X, NEW S, X \subseteq S, NEW T, T \subseteq S, Blank \subseteq T,
           NEW text \in Seq(X), NEW separators \in Seq(Seq(T)),
           \A i \in 1 .. Len(separators) : separators[i] # <<>>,
           NEW finer, separators # <<>> => \A t \in Seq(X) : Cut(finer[t], t, S, T)
    PROVE  Cut(SplitOnce(text, separators, finer), text, S, T)
<1>1. text \in Seq(S)
  BY SeqMonotonic
<1>2. CASE Len(text) <= ChunkSize
  <2>1. CASE Strip(text) = <<>>
    <3>1. Without(text, T) = <<>>
      <4>1. Without(Strip(text), T) = Without(text, T)
        BY <1>1, StripInk
      <4>2. Without(<<>>, T) = <<>>
        BY WithoutEmpty
      <4> QED  BY <2>1, <4>1, <4>2
    <3>2. SplitOnce(text, separators, finer) = <<>>
      BY <1>2, <2>1 DEF SplitOnce
    <3> QED  BY <3>1, <3>2, CutEmpty
  <2>2. CASE Strip(text) # <<>>
    <3>1. SplitOnce(text, separators, finer) = <<text>>
      BY <1>2, <2>2 DEF SplitOnce
    <3>2. Cut(<<text>>, text, S, T)
      BY <1>1, <1>2, CutOne
    <3> QED  BY <3>1, <3>2
  <2> QED  BY <2>1, <2>2
<1>3. CASE ~(Len(text) <= ChunkSize) /\ separators = <<>>
  <2>1. SplitOnce(text, separators, finer) = HardSplit(text)
    BY <1>3 DEF SplitOnce
  <2>2. Cut(HardSplit(text), text, S, T)
    BY <1>1, HardSplitIs
  <2> QED  BY <2>1, <2>2
<1>4. CASE ~(Len(text) <= ChunkSize) /\ separators # <<>>
  <2> DEFINE sep == Head(separators)
             zs == Split(text, sep)
  <2>1. SplitOnce(text, separators, finer) = GatherAll(zs, sep, finer)
    BY <1>4 DEF SplitOnce
  <2>2. sep \in Seq(T) /\ sep # <<>>
    <3>1. Head(separators) = separators[1] /\ 1 \in 1 .. Len(separators)
          /\ separators[1] \in Seq(T)
      BY <1>4
    <3> QED  BY <3>1
  <2> HIDE DEF sep
  <2>3. ToSet(sep) \subseteq T
    BY <2>2, ToSetType
  <2>4. sep \in Seq(S)
    BY <2>2, SeqMonotonic
  <2>5. zs \in Seq(Seq(X)) /\ Without(FlattenSeq(zs), T) = Without(text, T)
    BY <2>2, <2>3, SplitIs
  <2> HIDE DEF zs
  <2>6. \A k \in 1 .. Len(zs) : Cut(finer[zs[k]], zs[k], S, T)
    <3>1. ASSUME NEW k \in 1 .. Len(zs) PROVE Cut(finer[zs[k]], zs[k], S, T)
      <4>1. zs[k] \in Seq(X)
        BY <2>5
      <4> QED  BY <1>4, <4>1
    <3> QED  BY <3>1
  <2>7. zs \in Seq(Seq(S))
    <3>1. Seq(X) \subseteq Seq(S)
      BY SeqMonotonic
    <3> QED  BY <2>5, <3>1, SeqMonotonic
  <2>8. Cut(GatherAll(zs, sep, finer), FlattenSeq(zs), S, T)
    BY <2>3, <2>4, <2>6, <2>7, GatherAllIs
  <2> QED  BY <2>1, <2>5, <2>8 DEF Cut
<1> QED  BY <1>2, <1>3, <1>4

-----------------------------------------------------------------------------
(* RecursiveSplit *)

\* By ever finer separators, at last by force.
LEMMA RecursiveSplitIs ==
    ASSUME NEW S, NEW T, T \subseteq S, Blank \subseteq T, NEW text \in Seq(S),
           NEW separators \in Seq(Seq(T)), \A i \in 1 .. Len(separators) : separators[i] # <<>>
    PROVE  Cut(RecursiveSplit(text, separators), text, S, T)
<1> DEFINE N == Len(separators)
           X == ToSet(text)
           V == {F \in [Seq(X) -> Seq(Seq(S))] : \A t \in Seq(X) : Cut(F[t], t, S, T)}
           rest(n) == SubSeq(separators, N - n + 1, N)
           once(n, finer) == [t \in Seq(X) |-> SplitOnce(t, rest(n), finer)]
           IsSplit(F) == F = [n \in 0 .. N |-> [t \in Seq(X) |->
                               SplitOnce(t, rest(n), IF n = 0 THEN <<>> ELSE F[n - 1])]]
           split == CHOOSE F : IsSplit(F)
           g == [p \in (1 .. N) \X V |-> once(p[1], p[2])]
<1>1. N \in Nat /\ text \in Seq(X) /\ X \subseteq S
  BY ToSetType
<1>2. ASSUME NEW n \in 0 .. N
      PROVE  /\ rest(n) \in Seq(Seq(T)) /\ (n = 0 => rest(n) = <<>>)
             /\ \A i \in 1 .. Len(rest(n)) : rest(n)[i] # <<>>
  <2> DEFINE m == N - n + 1
             sub == SubSeq(separators, m, N)
  <2>1. m \in 1 .. N + 1 /\ N \in 0 .. N /\ N - m + 1 = n /\ (n = 0 <=> m > N)
    BY <1>1
  <2>2. /\ sub \in Seq(Seq(T)) /\ (m <= N => Len(sub) = N - m + 1) /\ (m > N => sub = <<>>)
        /\ \A i \in 1 .. N - m + 1 : sub[i] = separators[m + i - 1]
    <3> HIDE DEF m
    <3> QED  BY <1>1, <2>1, SubSeqIs
  <2> HIDE DEF sub
  <2>3. ASSUME NEW i \in 1 .. Len(sub) PROVE sub[i] # <<>>
    <3>1. m <= N
      <4>1. CASE m > N
        BY <2>2, <4>1
      <4> QED  BY <1>1, <2>1, <4>1
    <3>2. i \in 1 .. N - m + 1 /\ m + i - 1 \in 1 .. N
      BY <1>1, <2>1, <2>2, <3>1
    <3>3. sub[i] = separators[m + i - 1]
      <4> HIDE DEF m
      <4> QED  BY <2>2, <3>2
    <3> QED  BY <3>2, <3>3
  <2> QED  BY <2>1, <2>2, <2>3 DEF sub
<1>3. ASSUME NEW n \in 0 .. N, NEW finer, n # 0 => finer \in V
      PROVE  once(n, finer) \in V
  <2>1. rest(n) # <<>> => \A t \in Seq(X) : Cut(finer[t], t, S, T)
    BY <1>2, <1>3
  <2> DEFINE seps == rest(n)
             F == once(n, finer)
  <2>2. seps \in Seq(Seq(T)) /\ \A i \in 1 .. Len(seps) : seps[i] # <<>>
    BY <1>2
  <2>3. seps # <<>> => \A t \in Seq(X) : Cut(finer[t], t, S, T)
    BY <2>1
  <2>4. F = [t \in Seq(X) |-> SplitOnce(t, seps, finer)]
    OBVIOUS
  <2> HIDE DEF seps, F
  <2>5. ASSUME NEW t \in Seq(X) PROVE Cut(SplitOnce(t, seps, finer), t, S, T)
    <3> HIDE DEF X
    <3> QED  BY <1>1, <2>2, <2>3, SplitOnceIs
  <2>6. \A t \in Seq(X) : Cut(F[t], t, S, T)
    BY <2>4, <2>5
  <2>7. \A t \in Seq(X) : SplitOnce(t, seps, finer) \in Seq(Seq(S))
    BY <2>5 DEF Cut
  <2>8. F \in [Seq(X) -> Seq(Seq(S))]
    BY <2>4, <2>7
  <2> QED  BY <2>6, <2>8 DEF F
<1> HIDE DEF V
<1>4. once(0, <<>>) \in V
  <2>1. 0 \in 0 .. N
    BY <1>1
  <2> HIDE DEF once
  <2> QED  BY <1>3, <2>1
<1>5. \E h : IsSplit(h)
  <2>1. g \in [(1 .. N) \X V -> V]
    <3>1. ASSUME NEW n \in 1 .. N, NEW F \in V PROVE once(n, F) \in V
      <4>1. n \in 0 .. N
        BY <1>1
      <4> HIDE DEF once
      <4> QED  BY <1>3, <4>1
    <3> HIDE DEF once
    <3> QED  BY <3>1
  <2> DEFINE b == once(0, <<>>)
  <2> HIDE DEF once
  <2>2. PICK h \in [0 .. N -> V] : Loops(h, N, b, g)
    <3>1. b \in V
      BY <1>4
    <3> HIDE DEF N, g, b
    <3> QED  BY <1>1, <2>1, <3>1, LoopExists
  <2>3. ASSUME NEW n \in 1 .. N PROVE h[n] = once(n, h[n - 1])
    <3>1. n - 1 \in 0 .. N
      BY <1>1
    <3>2. h[n - 1] \in V /\ h[n] = g[<<n, h[n - 1]>>]
      BY <2>2, <3>1 DEF Loops
    <3> QED  BY <3>2
  <2>4. h[0] = once(0, <<>>)
    BY <2>2 DEF Loops
  <2>5. ASSUME NEW n \in 0 .. N PROVE h[n] = once(n, IF n = 0 THEN <<>> ELSE h[n - 1])
    <3>1. CASE n = 0
      BY <2>4, <3>1
    <3>2. CASE n # 0
      <4>1. n \in 1 .. N
        BY <1>1, <3>2
      <4> QED  BY <2>3, <3>2, <4>1
    <3> QED  BY <3>1, <3>2
  <2>6. h = [n \in 0 .. N |-> once(n, IF n = 0 THEN <<>> ELSE h[n - 1])]
    <3>1. h = [n \in 0 .. N |-> h[n]]
      BY <2>2
    <3> QED  BY <2>5, <3>1
  <2>7. IsSplit(h)
    <3> USE DEF once
    <3> HIDE DEF rest, X
    <3> QED  BY <2>6
  <2> QED  BY <2>7
<1>6. IsSplit(split)
  <2> HIDE DEF IsSplit
  <2> QED  BY <1>5
<1>7. RecursiveSplit(text, separators) = split[N][text]
  BY DEF RecursiveSplit
<1> HIDE DEF split, g, rest
<1>8. \A n \in 0 .. N : split[n] = once(n, IF n = 0 THEN <<>> ELSE split[n - 1])
  <2> HIDE DEF X
  <2> QED  BY <1>6
<1> HIDE DEF once, IsSplit
<1> DEFINE P == {n \in 0 .. N : split[n] \in V}
<1>9. 0 \in P
  <2>1. 0 \in 0 .. N
    BY <1>1
  <2>2. split[0] = once(0, <<>>)
    BY <1>8, <2>1
  <2> QED  BY <1>4, <2>1, <2>2
<1>10. ASSUME NEW n \in 1 .. N, n - 1 \in P PROVE n \in P
  <2>1. n \in 0 .. N /\ n # 0 /\ split[n - 1] \in V
    BY <1>1, <1>10
  <2>2. split[n] = once(n, split[n - 1])
    BY <1>8, <2>1
  <2>3. once(n, split[n - 1]) \in V
    BY <1>3, <2>1
  <2> QED  BY <2>1, <2>2, <2>3
<1>11. \A n \in 0 .. N : n \in P
  <2> HIDE DEF P
  <2> QED  BY <1>1, <1>9, <1>10, UpTo
<1>12. split[N] \in V
  <2>1. N \in 0 .. N
    BY <1>1
  <2>2. N \in P
    <3> HIDE DEF P
    <3> QED  BY <1>11, <2>1
  <2> QED  BY <2>2
<1>13. Cut(split[N][text], text, S, T)
  BY <1>1, <1>12 DEF V
<1> QED  BY <1>7, <1>13

-----------------------------------------------------------------------------
(* Pieces *)

\* What is neither a word nor a fence.
Inkless == (Blank \cup Marks) \ {Fence}

\* The separators of RecursiveSplit have no ink, and none is empty.
LEMMA InklessIs ==
    /\ Blank \subseteq Inkless /\ Fence \notin Inkless
    /\ Separators \in Seq(Seq(Inkless)) /\ \A i \in 1 .. Len(Separators) : Separators[i] # <<>>
<1>1. {" ", NL, "##", "###", "."} \subseteq Inkless /\ Fence \notin Blank
  BY DEF Inkless, Blank, Marks, NL, Fence
<1>2. Blank \subseteq Inkless
  BY <1>1 DEF Inkless
<1> DEFINE a == <<NL, "##", " ">>
           b == <<NL, "###", " ">>
           c == <<NL, NL>>
           d == <<NL>>
           e == <<".", " ">>
           f == <<" ">>
<1>3. /\ \A x, y, z \in Inkless : <<x, y, z>> \in Seq(Inkless)
      /\ \A x, y \in Inkless : <<x, y>> \in Seq(Inkless)
      /\ \A x \in Inkless : <<x>> \in Seq(Inkless)
  OBVIOUS
<1>4. /\ a \in Seq(Inkless) /\ b \in Seq(Inkless) /\ c \in Seq(Inkless)
      /\ d \in Seq(Inkless) /\ e \in Seq(Inkless) /\ f \in Seq(Inkless)
  <2>1. " " \in Inkless /\ NL \in Inkless /\ "##" \in Inkless /\ "###" \in Inkless /\ "." \in Inkless
    BY <1>1
  <2> QED  BY <1>3, <2>1, Zenon
<1>5. a # <<>> /\ b # <<>> /\ c # <<>> /\ d # <<>> /\ e # <<>> /\ f # <<>>
  OBVIOUS
<1>6. Separators = <<a, b, c, d, e, f>>
  BY DEF Separators
<1> HIDE DEF a, b, c, d, e, f
<1>7. Separators \in Seq(Seq(Inkless)) /\ Len(Separators) = 6
  BY <1>4, <1>6
<1>8. ASSUME NEW i \in 1 .. 6 PROVE <<a, b, c, d, e, f>>[i] # <<>>
  <2>1. i = 1 \/ i = 2 \/ i = 3 \/ i = 4 \/ i = 5 \/ i = 6
    OBVIOUS
  <2> QED  BY <1>5, <2>1
<1> QED  BY <1>2, <1>6, <1>7, <1>8 DEF Inkless

\* A piece fits, if it may be larger for the code in it.
Fits(piece) == Len(piece) <= (IF IsCode(piece) THEN 2 ELSE 1) * ChunkSize

\* Code that is not too large is a piece of its own, everything else is split.
PiecesOf(s) == IF IsCode(s) /\ Len(s) <= 2 * ChunkSize THEN <<s>> ELSE RecursiveSplit(s, Separators)

\* The pieces of one segment have its ink, and fit.
LEMMA PiecesOfSegment ==
    ASSUME NEW S, Inkless \subseteq S, NEW s \in Seq(S), IsCode(s) => Edges(s)
    PROVE  /\ PiecesOf(s) \in Seq(Seq(S))
           /\ Without(FlattenSeq(PiecesOf(s)), Inkless) = Without(s, Inkless)
           /\ \A r \in ToSet(PiecesOf(s)) : Fits(Strip(r))
<1>0. ChunkSize \in Nat
  BY TextAssumption
<1>1. CASE IsCode(s) /\ Len(s) <= 2 * ChunkSize
  <2>1. PiecesOf(s) = <<s>>
    BY <1>1 DEF PiecesOf
  <2>2. <<s>> \in Seq(Seq(S)) /\ ToSet(<<s>>) = {s}
    BY DEF ToSet
  <2>3. FlattenSeq(<<s>>) = s
    BY FlattenOne
  <2>4. Strip(s) = s
    BY <1>1, StripSame
  <2>5. Fits(s)
    BY <1>1 DEF Fits
  <2> QED  BY <2>1, <2>2, <2>3, <2>4, <2>5
<1>2. CASE ~(IsCode(s) /\ Len(s) <= 2 * ChunkSize)
  <2>1. PiecesOf(s) = RecursiveSplit(s, Separators)
    BY <1>2 DEF PiecesOf
  <2>2. Cut(RecursiveSplit(s, Separators), s, S, Inkless)
    BY InklessIs, RecursiveSplitIs
  <2>3. ASSUME NEW r \in ToSet(PiecesOf(s)) PROVE Fits(Strip(r))
    <3>1. Len(r) <= ChunkSize /\ r \in Seq(S)
      <4>1. PiecesOf(s) \in Seq(Seq(S)) /\ \A part \in ToSet(PiecesOf(s)) : Len(part) <= ChunkSize
        BY <2>1, <2>2 DEF Cut
      <4>2. ToSet(PiecesOf(s)) \subseteq Seq(S)
        BY <4>1, ToSetType
      <4> QED  BY <4>1, <4>2
    <3>2. Strip(r) \in Seq(S) /\ Len(Strip(r)) <= Len(r)
      BY <3>1, StripType
    <3>3. Len(Strip(r)) <= ChunkSize /\ Len(Strip(r)) \in Nat
      BY <1>0, <3>1, <3>2
    <3> QED  BY <1>0, <3>3 DEF Fits
  <2> QED  BY <2>1, <2>2, <2>3 DEF Cut
<1> QED  BY <1>1, <1>2

\* The pieces of a text have its ink, they fit and have no blanks at their ends, and code
\* that is not too large is one of them.
LEMMA PiecesAre ==
    ASSUME NEW S, Inkless \subseteq S, NEW text \in Seq(S), Edges(text)
    PROVE  /\ Pieces(text) \in Seq(Seq(S))
           /\ Without(FlattenSeq(Pieces(text)), Inkless) = Without(text, Inkless)
           /\ \A p \in ToSet(Pieces(text)) : p # <<>> /\ Edges(p) /\ Fits(p)
           /\ \A s \in ToSet(Segments(text)) :
                 IsCode(s) /\ Len(s) <= 2 * ChunkSize => s \in ToSet(Pieces(text))
<1> DEFINE T == Inkless
           segments == Segments(text)
           L == Len(segments)
           xss == [i \in 1 .. L |-> PiecesOf(segments[i])]
           raw == FlattenSeq(xss)
           stripped == [i \in 1 .. Len(raw) |-> Strip(raw[i])]
<1>1. GoodSegments(segments, S) /\ FlattenSeq(segments) = text
  BY SegmentsAre
<1> HIDE DEF segments
<1>2. /\ segments \in Seq(Seq(S)) /\ L \in Nat /\ DOMAIN segments = 1 .. L
      /\ ToSet(segments) = {segments[i] : i \in 1 .. L}
      /\ \A s \in ToSet(segments) : s \in Seq(S) /\ (IsCode(s) => Edges(s))
  <2>1. segments \in Seq(Seq(S)) /\ \A s \in ToSet(segments) : IsCode(s) => Edges(s)
    BY <1>1 DEF GoodSegments
  <2>2. DOMAIN segments = 1 .. L /\ L \in Nat /\ ToSet(segments) = {segments[i] : i \in 1 .. L}
        /\ ToSet(segments) \subseteq Seq(S)
    BY <2>1, ToSetType
  <2> QED  BY <2>1, <2>2
<1> HIDE DEF L
<1>3. ASSUME NEW i \in 1 .. L
      PROVE  /\ xss[i] = PiecesOf(segments[i]) /\ xss[i] \in Seq(Seq(S)) /\ segments[i] \in Seq(S)
             /\ Without(FlattenSeq(xss[i]), T) = Without(segments[i], T)
             /\ \A r \in ToSet(xss[i]) : Fits(Strip(r))
  <2> DEFINE s == segments[i]
  <2> HIDE DEF s
  <2>1. s \in Seq(S) /\ (IsCode(s) => Edges(s))
    BY <1>2 DEF s
  <2>2. /\ PiecesOf(s) \in Seq(Seq(S)) /\ Without(FlattenSeq(PiecesOf(s)), T) = Without(s, T)
        /\ \A r \in ToSet(PiecesOf(s)) : Fits(Strip(r))
    BY <2>1, PiecesOfSegment
  <2>3. xss[i] = PiecesOf(s)
    BY DEF s
  <2> HIDE DEF xss
  <2> QED  BY <2>1, <2>2, <2>3 DEF s
<1>4. xss \in Seq(Seq(Seq(S))) /\ Len(xss) = L
  <2>1. xss \in [1 .. L -> Seq(Seq(S))]
    <3>1. xss = [i \in 1 .. L |-> xss[i]]
      OBVIOUS
    <3> HIDE DEF xss
    <3> QED  BY <1>3, <3>1
  <2> HIDE DEF xss
  <2> QED  BY <1>2, <2>1
<1> HIDE DEF xss
<1>5. raw \in Seq(Seq(S))
  BY <1>4, FlattenType
<1>6. Without(FlattenSeq(raw), T) = Without(text, T)
  <2>1. \A i \in 1 .. Len(xss) : Without(FlattenSeq(xss[i]), T) = Without(segments[i], T)
    BY <1>3, <1>4
  <2>2. Len(xss) = Len(segments)
    BY <1>4 DEF L
  <2> HIDE DEF T
  <2>3. Without(FlattenSeq(FlattenSeq(xss)), T) = Without(FlattenSeq(segments), T)
    BY <1>2, <1>4, <2>1, <2>2, FlattenFlattenInk, ZenonT(30)
  <2> QED  BY <1>1, <2>3
<1>7. ToSet(raw) = UNION {ToSet(xs) : xs \in ToSet(xss)} /\ ToSet(xss) = {xss[i] : i \in 1 .. L}
  <2>1. ToSet(raw) = UNION {ToSet(xs) : xs \in ToSet(xss)}
    BY <1>4, FlattenToSet
  <2>2. ToSet(xss) = {xss[i] : i \in 1 .. Len(xss)}
    BY <1>4, ToSetType
  <2> QED  BY <1>4, <2>1, <2>2
<1>8. \A r \in ToSet(raw) : r \in Seq(S) /\ Fits(Strip(r))
  <2>1. ToSet(raw) \subseteq Seq(S)
    BY <1>5, ToSetType
  <2>2. ASSUME NEW r \in ToSet(raw) PROVE Fits(Strip(r))
    <3>1. PICK i \in 1 .. L : r \in ToSet(xss[i])
      BY <1>7
    <3> QED  BY <1>3, <3>1
  <2> QED  BY <2>1, <2>2
<1>9. ASSUME NEW s \in ToSet(segments), IsCode(s), Len(s) <= 2 * ChunkSize
      PROVE  s \in ToSet(raw) /\ Strip(s) = s /\ s # <<>>
  <2>1. PICK i \in 1 .. L : s = segments[i]
    BY <1>2
  <2>2. xss[i] = <<s>>
    BY <1>3, <1>9, <2>1 DEF PiecesOf
  <2>3. s \in ToSet(<<s>>)
    BY DEF ToSet
  <2>4. s \in ToSet(raw)
    BY <1>7, <2>2, <2>3
  <2>5. Strip(s) = s
    BY <1>2, <1>9, StripSame
  <2> QED  BY <1>9, <2>4, <2>5 DEF IsCode
<1>10. Pieces(text) = Without(stripped, {<<>>})
  <2>1. xss = [i \in DOMAIN segments |-> PiecesOf(segments[i])]
    BY <1>2 DEF xss
  <2>2. Pieces(text) = LET rs == FlattenSeq([i \in DOMAIN segments |-> PiecesOf(segments[i])])
                       IN  Without([i \in DOMAIN rs |-> Strip(rs[i])], {<<>>})
    BY DEF Pieces, PiecesOf, segments
  <2>3. DOMAIN raw = 1 .. Len(raw)
    <3> HIDE DEF raw
    <3> QED  BY <1>5
  <2> QED  BY <2>1, <2>2, <2>3
<1> HIDE DEF raw
<1>11. /\ DOMAIN raw = 1 .. Len(raw) /\ Len(raw) \in Nat
       /\ ToSet(raw) = {raw[i] : i \in 1 .. Len(raw)}
  BY <1>5, ToSetType
<1>12. \A i \in 1 .. Len(raw) : stripped[i] = Strip(raw[i]) /\ stripped[i] \in Seq(S)
                                 /\ Edges(stripped[i]) /\ Fits(stripped[i])
  <2>1. ASSUME NEW i \in 1 .. Len(raw)
        PROVE  Strip(raw[i]) \in Seq(S) /\ Edges(Strip(raw[i])) /\ Fits(Strip(raw[i]))
    <3> DEFINE r == raw[i]
    <3> HIDE DEF r
    <3>1. r \in Seq(S) /\ Fits(Strip(r))
      BY <1>8, <1>11 DEF r
    <3>2. Strip(r) \in Seq(S) /\ Edges(Strip(r))
      BY <3>1, StripType
    <3> QED  BY <3>1, <3>2 DEF r
  <2> QED  BY <2>1
<1>13. stripped \in Seq(Seq(S)) /\ Len(stripped) = Len(raw)
  <2>1. stripped \in [1 .. Len(raw) -> Seq(S)]
    BY <1>12
  <2> HIDE DEF stripped
  <2> QED  BY <1>11, <2>1
<1>14. ToSet(stripped) = {stripped[i] : i \in 1 .. Len(raw)}
  <2> HIDE DEF stripped
  <2> QED  BY <1>13, ToSetType
<1>15. Without(FlattenSeq(stripped), T) = Without(FlattenSeq(raw), T)
  <2>1. ASSUME NEW i \in 1 .. Len(stripped) PROVE Without(stripped[i], T) = Without(raw[i], T)
    <3> DEFINE r == raw[i]
    <3> HIDE DEF r
    <3>1. i \in 1 .. Len(raw)
      BY <1>13
    <3>2. r \in Seq(S) /\ stripped[i] = Strip(r)
      BY <1>5, <1>12, <3>1 DEF r
    <3>3. Without(Strip(r), T) = Without(r, T)
      BY <3>2, StripInk, InklessIs
    <3> QED  BY <3>2, <3>3 DEF r
  <2> HIDE DEF stripped
  <2> QED  BY <1>5, <1>13, <2>1, FlattenInk
<1> HIDE DEF stripped
<1> DEFINE ps == Without(stripped, {<<>>})
<1>16. ps \in Seq(Seq(S)) /\ ToSet(ps) = ToSet(stripped) \ {<<>>} /\ FlattenSeq(ps) = FlattenSeq(stripped)
  <2>1. ps \in Seq(Seq(S))
    BY <1>13, WithoutIs
  <2>2. ToSet(ps) = ToSet(stripped) \ {<<>>}
    BY <1>13, WithoutToSet
  <2>3. FlattenSeq(ps) = FlattenSeq(stripped)
    BY <1>13, FlattenFilled
  <2> QED  BY <2>1, <2>2, <2>3
<1> HIDE DEF ps
<1>17. ASSUME NEW p \in ToSet(ps) PROVE p # <<>> /\ Edges(p) /\ Fits(p)
  BY <1>12, <1>14, <1>16
<1>18. ASSUME NEW s \in ToSet(segments), IsCode(s), Len(s) <= 2 * ChunkSize
       PROVE  s \in ToSet(ps)
  <2>1. s \in ToSet(raw) /\ Strip(s) = s /\ s # <<>>
    BY <1>9, <1>18
  <2>2. PICK i \in 1 .. Len(raw) : s = raw[i]
    BY <1>11, <2>1
  <2>3. s = stripped[i]
    BY <1>12, <2>1, <2>2
  <2> QED  BY <1>14, <1>16, <2>1, <2>3
<1>19. Pieces(text) = ps
  BY <1>10 DEF ps
<1> QED  BY <1>6, <1>15, <1>16, <1>17, <1>18, <1>19 DEF segments

-----------------------------------------------------------------------------
(* Chunks *)

\* The larger of two integers.
LEMMA MaxOfTwo ==
    ASSUME NEW a \in Int, NEW b \in Int
    PROVE  Max({a, b}) = IF a <= b THEN b ELSE a
<1>1. CASE a <= b
  <2>1. b \in {a, b} /\ \A y \in {a, b} : b >= y
    BY <1>1
  <2>2. Max({a, b}) \in {a, b} /\ \A y \in {a, b} : Max({a, b}) >= y
    BY <2>1 DEF Max
  <2> QED  BY <1>1, <2>2
<1>2. CASE ~(a <= b)
  <2>1. a \in {a, b} /\ \A y \in {a, b} : a >= y
    BY <1>2
  <2>2. Max({a, b}) \in {a, b} /\ \A y \in {a, b} : Max({a, b}) >= y
    BY <2>1 DEF Max
  <2> QED  BY <1>2, <2>2
<1> QED  BY <1>1, <1>2

\* With the end of the piece before it, a piece is still the end of what it is part of.
LEMMA OverlapIs ==
    ASSUME NEW S, Inkless \subseteq S, NEW ps \in Seq(Seq(S)),
           \A p \in ToSet(ps) : p # <<>> /\ Edges(p)
    PROVE  /\ ApplyOverlap(ps) \in Seq(Seq(S)) /\ Len(ApplyOverlap(ps)) = Len(ps)
           /\ \A i \in 1 .. Len(ps) : /\ IsSuffix(ps[i], ApplyOverlap(ps)[i])
                                      /\ Len(ps[i]) <= Len(ApplyOverlap(ps)[i])
                                      /\ ApplyOverlap(ps)[i] # <<>> /\ Edges(ApplyOverlap(ps)[i])
<1> DEFINE L == Len(ps)
           os == ApplyOverlap(ps)
           tail(i) == LET before == ps[i - 1]
                      IN  SubSeq(before, Max({1, Len(before) - ChunkOverlap + 1}), Len(before)) \o <<" ">>
<1>1. L \in Nat /\ DOMAIN ps = 1 .. L /\ ToSet(ps) = {ps[i] : i \in 1 .. L}
  BY ToSetType
<1>2. os = [i \in 1 .. L |-> IF i = 1 \/ ChunkOverlap = 0 THEN ps[i] ELSE Strip(tail(i) \o ps[i])]
  BY <1>1 DEF ApplyOverlap
<1>3. \A i \in 1 .. L : ps[i] \in Seq(S) /\ ps[i] # <<>> /\ Edges(ps[i])
  BY <1>1
<1>4. ASSUME NEW i \in 1 .. L, i # 1 PROVE tail(i) \in Seq(S)
  <2> DEFINE before == ps[i - 1]
             m == Max({1, Len(before) - ChunkOverlap + 1})
  <2>1. before \in Seq(S)
    <3>1. i - 1 \in 1 .. L
      BY <1>1, <1>4
    <3> QED  BY <1>3, <3>1
  <2>2. tail(i) = SubSeq(before, m, Len(before)) \o <<" ">>
    OBVIOUS
  <2> HIDE DEF before
  <2>3. m \in 1 .. Len(before) + 1 /\ Len(before) \in 0 .. Len(before)
    <3> DEFINE c == Len(before) - ChunkOverlap + 1
    <3>1. ChunkOverlap \in Nat /\ Len(before) \in Nat
      BY <2>1, TextAssumption
    <3>2. c \in Int /\ 1 \in Int /\ c <= Len(before) + 1
      BY <3>1
    <3>3. Max({1, c}) = IF 1 <= c THEN c ELSE 1
      <4> HIDE DEF c
      <4> QED  BY <3>2, MaxOfTwo
    <3> HIDE DEF c
    <3>4. Max({1, c}) \in 1 .. Len(before) + 1
      BY <3>1, <3>2, <3>3
    <3> QED  BY <3>1, <3>4 DEF c
  <2> HIDE DEF m
  <2>4. SubSeq(before, m, Len(before)) \in Seq(S)
    BY <2>1, <2>3, SubSeqIs
  <2>5. <<" ">> \in Seq(S)
    <3>1. " " \in S
      BY InklessIs DEF Blank
    <3>2. \A x \in S : <<x>> \in Seq(S)
      OBVIOUS
    <3> QED  BY <3>1, <3>2, Zenon
  <2>6. \A x, y \in Seq(S) : x \o y \in Seq(S)
    OBVIOUS
  <2>7. SubSeq(before, m, Len(before)) \o <<" ">> \in Seq(S)
    BY <2>4, <2>5, <2>6, Zenon
  <2> HIDE DEF tail
  <2> QED  BY <2>2, <2>7
<1> HIDE DEF os, tail
<1>5. ASSUME NEW i \in 1 .. L
      PROVE  /\ os[i] \in Seq(S) /\ os[i] # <<>> /\ Edges(os[i])
             /\ IsSuffix(ps[i], os[i]) /\ Len(ps[i]) <= Len(os[i])
  <2> DEFINE p == ps[i]
  <2>1. p \in Seq(S) /\ p # <<>> /\ Edges(p)
    BY <1>3
  <2>2. CASE i = 1 \/ ChunkOverlap = 0
    <3>1. os[i] = p
      BY <1>2, <2>2
    <3> HIDE DEF p
    <3>2. IsSuffix(p, <<>> \o p)
      <4>1. <<>> \in Seq(S)
        OBVIOUS
      <4> QED  BY <2>1, <4>1, SuffixOfConcat
    <3>3. <<>> \o p = p
      BY <2>1, ConcatEmptySeq
    <3>4. Len(p) <= Len(p)
      BY <2>1
    <3> QED  BY <2>1, <3>1, <3>2, <3>3, <3>4 DEF p
  <2>3. CASE ~(i = 1 \/ ChunkOverlap = 0)
    <3> DEFINE x == tail(i)
    <3>1. os[i] = Strip(x \o p)
      BY <1>2, <2>3
    <3>2. x \in Seq(S)
      BY <1>4, <2>3
    <3> HIDE DEF p, x
    <3>3. IsSuffix(p, Strip(x \o p)) /\ Len(p) <= Len(Strip(x \o p)) /\ Strip(x \o p) # <<>>
      BY <2>1, <3>2, StripAfter
    <3> DEFINE y == x \o p
    <3>4. y \in Seq(S)
      BY <2>1, <3>2
    <3> HIDE DEF y
    <3>5. Strip(y) \in Seq(S) /\ Edges(Strip(y))
      BY <3>4, StripType
    <3> QED  BY <3>1, <3>3, <3>5 DEF y, p
  <2> QED  BY <2>2, <2>3
<1>6. os \in Seq(Seq(S)) /\ Len(os) = L
  <2>1. os \in [1 .. L -> Seq(S)]
    <3>1. os = [i \in 1 .. L |-> os[i]]
      BY <1>2
    <3> QED  BY <1>5, <3>1
  <2> HIDE DEF L
  <2>2. os \in Seq(Seq(S))
    BY <1>1, <2>1
  <2>3. Len(os) = L
    BY <1>1, <2>1
  <2> QED  BY <2>2, <2>3
<1> QED  BY <1>5, <1>6 DEF os

\* The chunks of a text: numbered, not blank, and with every piece that is not too small.
LEMMA ChunksAre ==
    ASSUME NEW S, Inkless \subseteq S, NEW text \in Seq(S), Edges(text), NEW title
    PROVE  LET chunks == ChunkDocument(text, title)
           IN  /\ Len(chunks) \in Nat /\ DOMAIN chunks = 1 .. Len(chunks)
               /\ chunks = [i \in 1 .. Len(chunks) |-> chunks[i]]
               /\ \A i \in 1 .. Len(chunks) : chunks[i].index = i - 1 /\ Strip(chunks[i].text) # <<>>
               /\ \A p \in ToSet(Pieces(text)) : Len(p) >= MinChunk =>
                     \E i \in 1 .. Len(chunks) : IsSuffix(p, chunks[i].text)
<1> DEFINE ps == Pieces(text)
           os == ApplyOverlap(ps)
           small == {piece \in ToSet(os) : Len(piece) < MinChunk}
           large == Without(os, small)
           chunks == ChunkDocument(text, title)
           n == Len(large)
<1>1. ps \in Seq(Seq(S)) /\ \A p \in ToSet(ps) : p # <<>> /\ Edges(p)
  BY PiecesAre
<1> HIDE DEF ps
<1>2. /\ os \in Seq(Seq(S)) /\ Len(os) = Len(ps)
      /\ \A i \in 1 .. Len(ps) : /\ IsSuffix(ps[i], os[i]) /\ Len(ps[i]) <= Len(os[i])
                                 /\ os[i] # <<>> /\ Edges(os[i])
  BY <1>1, OverlapIs
<1>3. chunks = [i \in DOMAIN large |-> [index |-> i - 1, text |-> large[i], title |-> title]]
  BY DEF ChunkDocument, ps
<1> HIDE DEF os, chunks
<1>4. ToSet(os) = {os[i] : i \in 1 .. Len(ps)} /\ ToSet(ps) = {ps[i] : i \in 1 .. Len(ps)}
      /\ Len(ps) \in Nat
  <2>1. ToSet(os) = {os[i] : i \in 1 .. Len(os)}
    BY <1>2, ToSetType
  <2>2. ToSet(ps) = {ps[i] : i \in 1 .. Len(ps)} /\ Len(ps) \in Nat
    BY <1>1, ToSetType
  <2> QED  BY <1>2, <2>1, <2>2
<1>5. large \in Seq(Seq(S)) /\ ToSet(large) = ToSet(os) \ small
  <2> HIDE DEF small
  <2>1. Without(os, small) \in Seq(Seq(S))
    BY <1>2, WithoutIs
  <2>2. ToSet(Without(os, small)) = ToSet(os) \ small
    BY <1>2, WithoutToSet
  <2> QED  BY <2>1, <2>2
<1> HIDE DEF large
<1>6. n \in Nat /\ DOMAIN large = 1 .. n /\ ToSet(large) = {large[i] : i \in 1 .. n}
  BY <1>5, ToSetType
<1>7. chunks = [i \in 1 .. n |-> [index |-> i - 1, text |-> large[i], title |-> title]]
  BY <1>3, <1>6
<1>8. Len(chunks) = n
  BY <1>6, <1>7
<1>9. ASSUME NEW i \in 1 .. n
      PROVE  chunks[i].index = i - 1 /\ chunks[i].text = large[i] /\ Strip(large[i]) # <<>>
  <2>1. chunks[i] = [index |-> i - 1, text |-> large[i], title |-> title]
    BY <1>7
  <2>2. large[i] \in ToSet(os)
    BY <1>5, <1>6
  <2>3. PICK j \in 1 .. Len(ps) : large[i] = os[j]
    BY <1>4, <2>2
  <2> DEFINE o == os[j]
  <2>4. o \in Seq(S) /\ o # <<>> /\ Edges(o)
    BY <1>2
  <2> HIDE DEF o
  <2>5. Strip(o) = o
    BY <2>4, StripSame
  <2>6. Strip(large[i]) # <<>>
    BY <2>3, <2>4, <2>5 DEF o
  <2> QED  BY <2>1, <2>6
<1>10. ASSUME NEW p \in ToSet(ps), Len(p) >= MinChunk
       PROVE  \E i \in 1 .. n : IsSuffix(p, chunks[i].text)
  <2>1. PICK j \in 1 .. Len(ps) : p = ps[j]
    BY <1>4
  <2>2. IsSuffix(p, os[j]) /\ Len(p) <= Len(os[j]) /\ os[j] \in ToSet(os)
    BY <1>2, <1>4, <2>1
  <2>3. os[j] \notin small
    <3> DEFINE o == os[j]
    <3>1. o \in Seq(S) /\ p \in Seq(S) /\ Len(p) <= Len(o)
      BY <1>1, <1>2, <2>1, <2>2
    <3>2. ~(Len(o) < MinChunk)
      <4>1. Len(o) \in Nat /\ Len(p) \in Nat /\ MinChunk \in Nat
        <5> HIDE DEF o
        <5> QED  BY <3>1, TextAssumption
      <4> HIDE DEF o
      <4> QED  BY <1>10, <3>1, <4>1
    <3> QED  BY <3>2
  <2>4. os[j] \in ToSet(large)
    <3> HIDE DEF small
    <3> QED  BY <1>5, <2>2, <2>3
  <2>5. PICK i \in 1 .. n : os[j] = large[i]
    BY <1>6, <2>4
  <2>6. IsSuffix(p, chunks[i].text)
    BY <1>9, <2>2, <2>5
  <2> QED  BY <2>6
<1>11. chunks = [i \in 1 .. Len(chunks) |-> chunks[i]] /\ DOMAIN chunks = 1 .. Len(chunks)
  BY <1>7, <1>8
<1>12. \A i \in 1 .. Len(chunks) : chunks[i].index = i - 1 /\ Strip(chunks[i].text) # <<>>
  BY <1>8, <1>9
<1>13. \A p \in ToSet(Pieces(text)) : Len(p) >= MinChunk =>
          \E i \in 1 .. Len(chunks) : IsSuffix(p, chunks[i].text)
  BY <1>8, <1>10 DEF ps
<1>14. Len(chunks) \in Nat
  BY <1>6, <1>8
<1> QED  BY <1>11, <1>12, <1>13, <1>14 DEF chunks

-----------------------------------------------------------------------------
(* Types of texts *)

\* The tokens of texts: words, and what stands for blocks of code.  The provers do not know
\* that a literal is a string, so that the literals of the model are named.
Token == STRING \cup Inkless \cup {Fence, "quot"} \cup {Keys[n] : n \in Nat}

\* The literals that are tokens.
LEMMA TokenIs ==
    Inkless \subseteq Token /\ STRING \subseteq Token /\ Fence \in Token /\ NL \in Token /\ "quot" \in Token
<1>1. NL \in Inkless
  BY DEF Inkless, Blank, Marks, NL, Fence
<1> QED  BY <1>1 DEF Token

\* Join returns a text.
LEMMA JoinType ==
    ASSUME NEW S, NEW parts \in Seq(Seq(S)), NEW sep \in Seq(S)
    PROVE  Join(parts, sep) \in Seq(S)
<1> DEFINE L == Len(parts)
           ps == [i \in 1 .. L |-> IF i = 1 THEN parts[i] ELSE sep \o parts[i]]
<1>1. L \in Nat /\ DOMAIN parts = 1 .. L /\ \A i \in 1 .. L : parts[i] \in Seq(S)
  OBVIOUS
<1>2. \A i \in 1 .. L : ps[i] \in Seq(S)
  <2>1. ASSUME NEW i \in 1 .. L PROVE ps[i] \in Seq(S)
    <3>1. parts[i] \in Seq(S) /\ sep \o parts[i] \in Seq(S)
      BY <1>1
    <3> QED  BY <3>1
  <2> QED  BY <2>1
<1>3. ps \in [1 .. L -> Seq(S)]
  BY <1>2
<1>4. Join(parts, sep) = FlattenSeq(ps)
  BY <1>1 DEF Join
<1> HIDE DEF ps, L
<1>5. ps \in Seq(Seq(S))
  BY <1>1, <1>3
<1> QED  BY <1>4, <1>5, FlattenType

\* TrimRight returns a text.
LEMMA TrimRightType ==
    ASSUME NEW S, NEW line \in Seq(S)
    PROVE  TrimRight(line) \in Seq(S)
<1> DEFINE ink == {i \in DOMAIN line : line[i] # " "}
<1>1. TrimRight(line) = IF ink = {} THEN <<>> ELSE SubSeq(line, 1, Max(ink))
  BY DEF TrimRight
<1>0. Len(line) \in Nat /\ DOMAIN line = 1 .. Len(line)
  OBVIOUS
<1>2. ink \in SUBSET (0 .. Len(line))
  <2>1. ink \subseteq DOMAIN line
    BY Zenon
  <2> HIDE DEF ink
  <2>2. DOMAIN line \subseteq 0 .. Len(line)
    BY <1>0
  <2> QED  BY <2>1, <2>2, Zenon
<1> HIDE DEF ink
<1>3. CASE ink # {}
  <2>1. Max(ink) \in ink
    BY <1>0, <1>2, <1>3, MinMax
  <2> DEFINE m == Max(ink)
  <2> HIDE DEF m
  <2>2. m \in 0 .. Len(line)
    BY <1>2, <2>1 DEF m
  <2>4. 1 \in 1 .. Len(line) + 1
    BY <1>0
  <2>3. SubSeq(line, 1, Max(ink)) \in Seq(S)
    BY <2>2, <2>4, SubSeqIs DEF m
  <2> QED  BY <1>1, <1>3, <2>3
<1> QED  BY <1>1, <1>3

\* The lines of a text are texts.
LEMMA LineSplitType ==
    ASSUME NEW S, NEW text \in Seq(S)
    PROVE  Split(text, <<NL>>) \in Seq(Seq(S))
<1>1. <<NL>> \in Seq({NL}) /\ <<NL>> # <<>>
  OBVIOUS
<1>2. ToSet(<<NL>>) \subseteq {NL}
  BY DEF ToSet
<1> DEFINE sep == <<NL>>
           T == {NL}
<1>3. sep \in Seq(T) /\ sep # <<>> /\ ToSet(sep) \subseteq T
  BY <1>1, <1>2
<1> HIDE DEF sep, T
<1>4. Split(text, sep) \in Seq(Seq(S))
  BY <1>3, SplitIs
<1> QED  BY <1>4 DEF sep

\* SqueezeLines returns a text.
LEMMA SqueezeType ==
    ASSUME NEW S, NEW text \in Seq(S)
    PROVE  SqueezeLines(text) \in Seq(S)
<1> DEFINE L == Len(text)
           third(i) == i > 2 /\ \A k \in i - 2 .. i : text[k] = NL
           ps == [i \in 1 .. L |-> IF third(i) THEN <<>> ELSE <<text[i]>>]
<1>1. L \in Nat /\ DOMAIN text = 1 .. L
  OBVIOUS
<1>2. SqueezeLines(text) = FlattenSeq(ps)
  BY <1>1 DEF SqueezeLines
<1>3. \A i \in 1 .. L : <<text[i]>> \in Seq(S) /\ <<>> \in Seq(S)
  OBVIOUS
<1> HIDE DEF third
<1>4. ps \in [1 .. L -> Seq(S)]
  BY <1>3
<1> HIDE DEF ps, L
<1>5. ps \in Seq(Seq(S))
  BY <1>1, <1>4
<1> QED  BY <1>2, <1>5, FlattenType

\* KeptLines returns texts.
LEMMA KeptLinesType ==
    ASSUME NEW S, NEW lines \in Seq(Seq(S))
    PROVE  KeptLines(lines) \in Seq(Seq(S))
<1> DEFINE L == Len(lines)
           Z == [lines : Seq(Seq(S)), previous : Seq(S)]
           b == [lines |-> <<>>, previous |-> <<>>]
           IsKept(F) == F = [n \in 0 .. L |-> IF n = 0 THEN b ELSE KeepLine(F[n - 1], lines[n])]
           kept == CHOOSE F : IsKept(F)
           g == [p \in (1 .. L) \X Z |-> KeepLine(p[2], lines[p[1]])]
<1>1. L \in Nat /\ \A n \in 1 .. L : lines[n] \in Seq(S)
  OBVIOUS
<1>2. b \in Z
  OBVIOUS
<1>3. ASSUME NEW n \in 1 .. L, NEW d \in Z PROVE KeepLine(d, lines[n]) \in Z
  <2> DEFINE raw == lines[n]
  <2>1. raw \in Seq(S)
    BY <1>1
  <2> HIDE DEF raw
  <2> DEFINE line == TrimRight(raw)
             rest == IF Strip(line) = <<>> THEN d.previous ELSE line
             r == [lines |-> Append(d.lines, line), previous |-> rest]
  <2>2. line \in Seq(S)
    BY <2>1, TrimRightType
  <2>3. KeepLine(d, raw) = d \/ KeepLine(d, raw) = r
    BY DEF KeepLine
  <2> HIDE DEF line
  <2>4. Append(d.lines, line) \in Seq(Seq(S)) /\ rest \in Seq(S)
    BY <2>2
  <2>5. r \in Z
    BY <2>4
  <2> HIDE DEF r
  <2> QED  BY <2>3, <2>5 DEF raw
<1> HIDE DEF Z, b
<1>4. \E h : IsKept(h)
  <2>1. g \in [(1 .. L) \X Z -> Z]
    BY <1>3
  <2>2. PICK h \in [0 .. L -> Z] : Loops(h, L, b, g)
    <3> HIDE DEF L, g
    <3> QED  BY <1>1, <1>2, <2>1, LoopExists
  <2>3. h[0] = b /\ \A n \in 1 .. L : h[n] = KeepLine(h[n - 1], lines[n])
    <3>1. ASSUME NEW n \in 1 .. L PROVE h[n] = KeepLine(h[n - 1], lines[n])
      <4>1. n - 1 \in 0 .. L
        BY <1>1
      <4>2. h[n - 1] \in Z /\ h[n] = g[<<n, h[n - 1]>>]
        BY <2>2, <4>1 DEF Loops
      <4> QED  BY <4>2
    <3> QED  BY <2>2, <3>1 DEF Loops
  <2>4. IsKept(h)
    <3>1. \A n \in 0 .. L : h[n] = IF n = 0 THEN b ELSE KeepLine(h[n - 1], lines[n])
      BY <1>1, <2>3
    <3> QED  BY <2>2, <3>1
  <2> QED  BY <2>4
<1>5. IsKept(kept)
  <2> HIDE DEF IsKept
  <2> QED  BY <1>4
<1>6. KeptLines(lines) = kept[L].lines
  BY DEF KeptLines, b
<1> HIDE DEF kept, g
<1> DEFINE P == {n \in 0 .. L : kept[n] \in Z}
<1>7. 0 \in P
  BY <1>1, <1>2, <1>5
<1>8. ASSUME NEW n \in 1 .. L, n - 1 \in P PROVE n \in P
  <2>1. n \in 0 .. L /\ n # 0
    BY <1>1
  <2>2. kept[n] = KeepLine(kept[n - 1], lines[n])
    BY <1>5, <2>1
  <2> QED  BY <1>3, <1>8, <2>1, <2>2
<1>9. \A n \in 0 .. L : n \in P
  <2> HIDE DEF P
  <2> QED  BY <1>1, <1>7, <1>8, UpTo
<1>10. kept[L] \in Z
  BY <1>1, <1>9
<1> QED  BY <1>6, <1>10 DEF Z

\* What the rules make of a text of lines.
Rules(text) == Strip(SqueezeLines(Join(KeptLines(Split(text, <<NL>>)), <<NL>>)))

\* The rules make a text of a text.
LEMMA RulesType ==
    ASSUME NEW S, NL \in S, NEW text \in Seq(S)
    PROVE  Rules(text) \in Seq(S)
<1> DEFINE lines == Split(text, <<NL>>)
           kept == KeptLines(lines)
           joined == Join(kept, <<NL>>)
           squeezed == SqueezeLines(joined)
<1>1. lines \in Seq(Seq(S))
  BY LineSplitType
<1> HIDE DEF lines
<1>2. kept \in Seq(Seq(S))
  BY <1>1, KeptLinesType
<1> HIDE DEF kept
<1>3. joined \in Seq(S)
  <2>1. \A x \in S : <<x>> \in Seq(S)
    OBVIOUS
  <2> DEFINE sep == <<NL>>
  <2>2. sep \in Seq(S)
    BY <2>1, Zenon
  <2> HIDE DEF sep
  <2>3. Join(kept, sep) \in Seq(S)
    BY <1>2, <2>2, JoinType
  <2> QED  BY <2>3 DEF sep
<1> HIDE DEF joined
<1>4. squeezed \in Seq(S)
  BY <1>3, SqueezeType
<1> HIDE DEF squeezed
<1>5. Strip(squeezed) \in Seq(S)
  BY <1>4, StripType
<1> QED  BY <1>5 DEF Rules, squeezed, joined, kept, lines

\* So does RuleClean, whatever it puts aside and back.
LEMMA RuleCleanType ==
    ASSUME NEW text \in Seq(Token)
    PROVE  RuleClean(text) \in Seq(Token)
<1> DEFINE segments == Segments(text)
           L == Len(segments)
           closed(i) == IsCode(segments[i]) /\ Len(segments[i]) > 1 /\ Last(segments[i]) = Fence
           key(i) == Keys[Cardinality({j \in 1 .. i : closed(j)})]
           put(i) == IF closed(i) THEN <<key(i)>> ELSE segments[i]
           puts == [i \in 1 .. L |-> put(i)]
           stashed == FlattenSeq(puts)
           clean == Rules(stashed)
           block(t) == {i \in 1 .. L : closed(i) /\ key(i) = t}
           back(i) == IF block(clean[i]) = {} THEN <<clean[i]>> ELSE segments[Min(block(clean[i]))]
           backs == [i \in 1 .. Len(clean) |-> back(i)]
<1>1. segments \in Seq(Seq(Token)) /\ L \in Nat /\ DOMAIN segments = 1 .. L
  <2>1. segments \in Seq(Seq(Token))
    BY SegmentsType
  <2> HIDE DEF segments
  <2> QED  BY <2>1
<1>2. RuleClean(text) = FlattenSeq([i \in DOMAIN clean |-> back(i)])
  BY <1>1 DEF RuleClean, Rules
<1> HIDE DEF segments, closed
<1>3. \A i \in 1 .. L : put(i) \in Seq(Token)
  <2>1. ASSUME NEW i \in 1 .. L PROVE put(i) \in Seq(Token)
    <3>1. key(i) \in Token
      <4> DEFINE J == {j \in 1 .. i : closed(j)}
      <4>1. IsFiniteSet(1 .. i) /\ J \subseteq 1 .. i
        BY FS_Interval, <1>1
      <4> HIDE DEF J
      <4>2. IsFiniteSet(J)
        BY <4>1, FS_Subset
      <4>3. Cardinality(J) \in Nat
        BY <4>2, FS_CardinalityType
      <4> QED  BY <4>3 DEF Token, J
    <3> HIDE DEF key
    <3>2. <<key(i)>> \in Seq(Token)
      BY <3>1
    <3>3. segments[i] \in Seq(Token)
      BY <1>1
    <3> QED  BY <3>2, <3>3
  <2> QED  BY <2>1
<1> HIDE DEF put, L, key
<1>4. puts \in Seq(Seq(Token))
  <2>1. puts \in [1 .. L -> Seq(Token)]
    BY <1>3
  <2> HIDE DEF puts
  <2> QED  BY <1>1, <2>1
<1> HIDE DEF puts
<1>5. stashed \in Seq(Token)
  BY <1>4, FlattenType
<1> HIDE DEF stashed
<1>6. clean \in Seq(Token)
  <2>1. NL \in Token
    BY TokenIs
  <2> QED  BY <1>5, <2>1, RulesType
<1> HIDE DEF clean
<1>7. Len(clean) \in Nat /\ DOMAIN clean = 1 .. Len(clean)
      /\ \A i \in 1 .. Len(clean) : clean[i] \in Token
  BY <1>6
<1>8. ASSUME NEW i \in 1 .. Len(clean) PROVE back(i) \in Seq(Token)
  <2>1. CASE block(clean[i]) = {}
    <3>1. <<clean[i]>> \in Seq(Token)
      BY <1>7
    <3> QED  BY <2>1, <3>1
  <2>2. CASE block(clean[i]) # {}
    <3> DEFINE B == block(clean[i])
    <3>1. B \in SUBSET (0 .. L) /\ B \in SUBSET (1 .. L)
      BY <1>1
    <3>2. B # {}
      BY <2>2
    <3> HIDE DEF B
    <3>3. Min(B) \in B
      BY <1>1, <3>1, <3>2, MinMax
    <3> DEFINE m == Min(B)
    <3>4. m \in 1 .. L
      BY <3>1, <3>3
    <3> HIDE DEF m
    <3>5. segments[m] \in Seq(Token)
      BY <1>1, <3>4 DEF L
    <3> QED  BY <2>2, <3>5 DEF B, m
  <2> QED  BY <2>1, <2>2
<1> HIDE DEF back
<1>9. backs \in Seq(Seq(Token))
  <2>1. backs \in [1 .. Len(clean) -> Seq(Token)]
    BY <1>8
  <2> HIDE DEF backs
  <2> QED  BY <1>7, <2>1
<1>10. RuleClean(text) = FlattenSeq(backs)
  BY <1>2, <1>7
<1> HIDE DEF backs
<1> QED  BY <1>9, <1>10, FlattenType

\* A normalized text has no blanks at its ends.
LEMMA NormalizeType ==
    ASSUME NEW text \in Seq(Token)
    PROVE  Normalize(text) \in Seq(Token) /\ Edges(Normalize(text))
<1> DEFINE seen == Without(text, {"zwsp"})
           folded == [i \in 1 .. Len(seen) |-> Folded(seen[i])]
           lines == Split(folded, <<NL>>)
           trimmed == [i \in 1 .. Len(lines) |-> TrimRight(lines[i])]
           sep == <<NL>>
           joined == Join(trimmed, sep)
<1>1. seen \in Seq(Token)
  BY WithoutIs
<1>2. DOMAIN seen = 1 .. Len(seen) /\ Len(seen) \in Nat /\ \A i \in 1 .. Len(seen) : seen[i] \in Token
  <2> HIDE DEF seen
  <2> QED  BY <1>1
<1>3. folded \in Seq(Token)
  <2> HIDE DEF seen
  <2>1. \A x \in Token : Folded(x) \in Token
    BY TokenIs DEF Folded
  <2>2. folded \in [1 .. Len(seen) -> Token]
    BY <1>2, <2>1
  <2> HIDE DEF folded
  <2> QED  BY <1>2, <2>2
<1>4. lines \in Seq(Seq(Token))
  <2> HIDE DEF folded
  <2> QED  BY <1>3, LineSplitType
<1>5. DOMAIN lines = 1 .. Len(lines) /\ Len(lines) \in Nat
      /\ \A i \in 1 .. Len(lines) : lines[i] \in Seq(Token)
  <2> HIDE DEF lines
  <2> QED  BY <1>4
<1>6. Normalize(text) = Strip(joined)
  <2>1. folded = [i \in DOMAIN seen |-> Folded(seen[i])]
    BY <1>2
  <2>2. trimmed = [i \in DOMAIN lines |-> TrimRight(lines[i])]
    BY <1>5
  <2> HIDE DEF folded, trimmed
  <2> QED  BY <2>1, <2>2 DEF Normalize
<1> HIDE DEF lines
<1>7. trimmed \in Seq(Seq(Token))
  <2>1. \A i \in 1 .. Len(lines) : TrimRight(lines[i]) \in Seq(Token)
    <3>1. ASSUME NEW i \in 1 .. Len(lines) PROVE TrimRight(lines[i]) \in Seq(Token)
      <4> DEFINE l == lines[i]
      <4>1. l \in Seq(Token)
        BY <1>5
      <4> HIDE DEF l
      <4>2. TrimRight(l) \in Seq(Token)
        BY <4>1, TrimRightType
      <4> QED  BY <4>2 DEF l
    <3> QED  BY <3>1
  <2>2. trimmed \in [1 .. Len(lines) -> Seq(Token)]
    BY <2>1
  <2> HIDE DEF trimmed
  <2> QED  BY <1>5, <2>2
<1> HIDE DEF trimmed
<1>8. sep \in Seq(Token)
  <2>1. NL \in Token
    BY TokenIs
  <2>2. \A x \in Token : <<x>> \in Seq(Token)
    OBVIOUS
  <2> QED  BY <2>1, <2>2, Zenon
<1> HIDE DEF sep
<1>9. joined \in Seq(Token)
  BY <1>7, <1>8, JoinType
<1> HIDE DEF joined
<1>10. Strip(joined) \in Seq(Token) /\ Edges(Strip(joined))
  BY <1>9, StripType
<1> QED  BY <1>6, <1>10

-----------------------------------------------------------------------------
(* Extract, and what a model returns *)

\* The tags of elements that are not dropped.
Shown == {"h2", "h3", "p", "li", "li/p", "pre", "p/code", "div"}

\* An element of a page.
Node == [tag : Shown \cup Dropped, text : Seq(STRING)]

\* Blanks, marks and fences are tokens.
LEMMA MarksAreTokens ==
    /\ " " \in Token /\ NL \in Token /\ Fence \in Token
    /\ "##" \in Token /\ "###" \in Token /\ "-" \in Token
<1>1. " " \in Blank /\ NL \in Blank /\ "##" \in Marks /\ "###" \in Marks /\ "-" \in Marks
  BY DEF Blank, Marks
<1>2. " " # Fence /\ "##" # Fence /\ "###" # Fence /\ "-" # Fence
  BY DEF Fence
<1>3. " " \in Inkless /\ "##" \in Inkless /\ "###" \in Inkless /\ "-" \in Inkless
  BY <1>1, <1>2 DEF Inkless
<1> QED  BY <1>3, TokenIs

\* Short tuples are sequences.
LEMMA SmallSeqs ==
    \A S : /\ <<>> \in Seq(S)
           /\ \A x \in S : <<x>> \in Seq(S)
           /\ \A x, y \in S : <<x, y>> \in Seq(S)
           /\ \A x, y, z \in S : <<x, y, z>> \in Seq(S)
OBVIOUS

\* Concatenation returns a sequence.
LEMMA ConcatType ==
    \A S : \A s, t \in Seq(S) : s \o t \in Seq(S)
OBVIOUS

\* Texts of words are texts of tokens.
LEMMA WordsAreTokens == Seq(STRING) \subseteq Seq(Token)
<1>1. STRING \subseteq Token
  BY TokenIs
<1>2. ASSUME NEW A, NEW B, A \subseteq B PROVE Seq(A) \subseteq Seq(B)
  BY <1>2
<1> QED  BY <1>1, <1>2

\* A fenced block is a text.
LEMMA BlockType ==
    ASSUME NEW words \in Seq(Token)
    PROVE  Block(words) \in Seq(Token)
<1> DEFINE a == <<NL, Fence, NL>>
<1>1. a \in Seq(Token)
  BY MarksAreTokens, SmallSeqs, Zenon
<1>2. Block(words) = (a \o words) \o a
  BY DEF Block
<1> HIDE DEF a
<1>3. a \o words \in Seq(Token)
  BY <1>1, ConcatType
<1> QED  BY <1>1, <1>2, <1>3, ConcatType

\* The lines of every element that is not dropped are texts.
LEMMA LinesType ==
    ASSUME NEW node \in Node, node.tag \notin Dropped
    PROVE  Lines(node) \in Seq(Seq(Token))
<1> DEFINE words == node.text
           strip == Strip(words)
           head2 == <<NL, "##", " ">>
           head3 == <<NL, "###", " ">>
           dash == <<"-", " ">>
           nl == <<NL>>
           block == Block(strip)
<1>1. words \in Seq(Token) /\ node.tag \in Shown
  BY WordsAreTokens DEF Node
<1>2. head2 \in Seq(Token) /\ head3 \in Seq(Token) /\ dash \in Seq(Token) /\ nl \in Seq(Token)
  BY MarksAreTokens, SmallSeqs, Zenon
<1> HIDE DEF words
<1>3. strip \in Seq(Token)
  BY <1>1, StripType
<1> HIDE DEF strip
<1>4. block \in Seq(Token)
  BY <1>3, BlockType
<1> HIDE DEF block, head2, head3, dash, nl
<1> DEFINE first == head2 \o words \o nl
           second == head3 \o words \o nl
           item == dash \o words
<1>5. first \in Seq(Token) /\ second \in Seq(Token) /\ item \in Seq(Token)
  <2>1. head2 \o words \in Seq(Token) /\ head3 \o words \in Seq(Token) /\ item \in Seq(Token)
    BY <1>1, <1>2, ConcatType
  <2> HIDE DEF item
  <2> QED  BY <1>2, <2>1, ConcatType
<1> HIDE DEF first, second, item
<1>6. /\ node.tag = "h2" => Lines(node) = <<first>>
      /\ node.tag = "h3" => Lines(node) = <<second>>
      /\ node.tag = "p" => Lines(node) = <<words>>
      /\ node.tag = "li" => Lines(node) = <<item>>
      /\ node.tag = "li/p" => Lines(node) = <<item, words>>
      /\ node.tag = "pre" => Lines(node) = <<block>>
      /\ node.tag = "p/code" => Lines(node) = <<words, block>>
      /\ node.tag = "div" => Lines(node) = <<>>
  BY DEF Lines, first, second, item, block, strip, words, head2, head3, dash, nl
<1>7. \/ node.tag = "h2" \/ node.tag = "h3" \/ node.tag = "p" \/ node.tag = "li"
      \/ node.tag = "li/p" \/ node.tag = "pre" \/ node.tag = "p/code" \/ node.tag = "div"
  BY <1>1 DEF Shown
<1>8. /\ <<first>> \in Seq(Seq(Token)) /\ <<second>> \in Seq(Seq(Token))
      /\ <<words>> \in Seq(Seq(Token)) /\ <<item>> \in Seq(Seq(Token))
      /\ <<item, words>> \in Seq(Seq(Token)) /\ <<block>> \in Seq(Seq(Token))
      /\ <<words, block>> \in Seq(Seq(Token)) /\ <<>> \in Seq(Seq(Token))
  BY <1>1, <1>4, <1>5, SmallSeqs, Zenon
<1> QED  BY <1>6, <1>7, <1>8, Zenon

\* Nodes are sequences of elements.
LEMMA NodesAre == Nodes = Seq(Node)
BY DEF Nodes, Node, Shown

\* The text of all elements is one.
LEMMA AllTextType ==
    ASSUME NEW nodes \in Nodes
    PROVE  AllText(nodes) \in Seq(Token)
<1> DEFINE L == Len(nodes)
           parts == [i \in 1 .. L |-> nodes[i].text]
           sep == <<" ">>
<1>1. L \in Nat /\ DOMAIN nodes = 1 .. L /\ \A i \in 1 .. L : nodes[i] \in Node
  BY NodesAre
<1>2. \A i \in 1 .. L : nodes[i].text \in Seq(Token)
  BY <1>1, WordsAreTokens DEF Node
<1>3. sep \in Seq(Token)
  BY MarksAreTokens, SmallSeqs, Zenon
<1>4. AllText(nodes) = Join(parts, sep)
  BY <1>1 DEF AllText
<1>5. parts \in [1 .. L -> Seq(Token)]
  BY <1>2
<1> HIDE DEF parts, sep, L
<1>6. parts \in Seq(Seq(Token))
  BY <1>1, <1>5
<1> QED  BY <1>3, <1>4, <1>6, JoinType

\* What may stand in for a page: as crawled, or rendered.
PageType == [title : Seq(STRING), main : Nodes, rest : Nodes, live : Nodes]

\* What is kept of elements are elements that are not dropped.
LEMMA KeptType ==
    ASSUME NEW nodes \in Nodes
    PROVE  LET kept == Without(nodes, {node \in ToSet(nodes) : node.tag \in Dropped})
           IN  kept \in Nodes /\ \A node \in ToSet(kept) : node \in Node /\ node.tag \notin Dropped
<1> DEFINE Z == {node \in ToSet(nodes) : node.tag \in Dropped}
           kept == Without(nodes, Z)
<1>1. nodes \in Seq(Node) /\ ToSet(nodes) \subseteq Node
  BY NodesAre, ToSetType
<1>2. \A node \in ToSet(nodes) \ Z : node.tag \notin Dropped
  OBVIOUS
<1> HIDE DEF Z
<1>3. kept \in Seq(Node)
  BY <1>1, WithoutIs
<1>4. ToSet(kept) = ToSet(nodes) \ Z
  BY <1>1, WithoutToSet
<1> HIDE DEF kept
<1>5. \A node \in ToSet(kept) : node \in Node /\ node.tag \notin Dropped
  BY <1>1, <1>2, <1>4
<1>6. kept \in Nodes
  BY <1>3, NodesAre
<1> QED  BY <1>5, <1>6 DEF kept, Z

\* So is the container of a page.
LEMMA ContainerType ==
    ASSUME NEW page_ \in PageType
    PROVE  /\ Container(page_) \in Nodes
           /\ \A node \in ToSet(Container(page_)) : node \in Node /\ node.tag \notin Dropped
<1> DEFINE kept(nodes) == Without(nodes, {node \in ToSet(nodes) : node.tag \in Dropped})
           main == kept(page_.main)
           rest == kept(page_.rest)
           all == main \o rest
<1>1. page_.main \in Nodes /\ page_.rest \in Nodes
  BY DEF PageType
<1>2. main \in Nodes /\ \A node \in ToSet(main) : node \in Node /\ node.tag \notin Dropped
  BY <1>1, KeptType
<1>3. rest \in Nodes /\ \A node \in ToSet(rest) : node \in Node /\ node.tag \notin Dropped
  BY <1>1, KeptType
<1>4. Container(page_) = main \/ Container(page_) = all
  BY DEF Container
<1> HIDE DEF main, rest
<1>5. main \in Seq(Node) /\ rest \in Seq(Node)
  BY <1>2, <1>3, NodesAre
<1>6. all \in Seq(Node) /\ ToSet(all) = ToSet(main) \cup ToSet(rest)
  BY <1>5, ToSetConcat, ConcatType
<1> HIDE DEF all
<1>7. all \in Nodes /\ \A node \in ToSet(all) : node \in Node /\ node.tag \notin Dropped
  BY <1>2, <1>3, <1>6, NodesAre
<1> QED  BY <1>2, <1>4, <1>7

\* Extract returns a text of tokens.
LEMMA ExtractType ==
    ASSUME NEW page_ \in PageType
    PROVE  Extract(page_) \in Seq(Token)
<1> DEFINE nodes == Container(page_)
           L == Len(nodes)
           lines == [i \in 1 .. L |-> Lines(nodes[i])]
           flat == FlattenSeq(lines)
           sep == <<NL>>
           joined == Join(flat, sep)
           text == Strip(joined)
<1>1. nodes \in Nodes /\ \A node \in ToSet(nodes) : node \in Node /\ node.tag \notin Dropped
  BY ContainerType
<1> HIDE DEF nodes
<1>2. L \in Nat /\ DOMAIN nodes = 1 .. L /\ ToSet(nodes) = {nodes[i] : i \in 1 .. L}
  <2>1. nodes \in Seq(Node)
    BY <1>1, NodesAre
  <2> QED  BY <2>1, ToSetType
<1>3. \A i \in 1 .. L : Lines(nodes[i]) \in Seq(Seq(Token))
  <2>1. ASSUME NEW i \in 1 .. L PROVE Lines(nodes[i]) \in Seq(Seq(Token))
    <3> DEFINE node == nodes[i]
    <3>1. node \in Node /\ node.tag \notin Dropped
      BY <1>1, <1>2
    <3> HIDE DEF node
    <3>2. Lines(node) \in Seq(Seq(Token))
      BY <3>1, LinesType
    <3> QED  BY <3>2 DEF node
  <2> QED  BY <2>1
<1>4. Extract(page_) = text \/ Extract(page_) = AllText(nodes)
  BY <1>2 DEF Extract, nodes
<1>5. lines \in [1 .. L -> Seq(Seq(Token))]
  BY <1>3
<1> HIDE DEF lines, L
<1>6. lines \in Seq(Seq(Seq(Token)))
  BY <1>2, <1>5
<1>7. flat \in Seq(Seq(Token))
  BY <1>6, FlattenType
<1>8. sep \in Seq(Token)
  BY MarksAreTokens, SmallSeqs, Zenon
<1> HIDE DEF flat, sep
<1>9. joined \in Seq(Token)
  BY <1>7, <1>8, JoinType
<1> HIDE DEF joined
<1>10. text \in Seq(Token)
  BY <1>9, StripType
<1>11. AllText(nodes) \in Seq(Token)
  BY <1>1, AllTextType
<1> QED  BY <1>4, <1>10, <1>11

\* What a model may return for a slice is a text.
LEMMA CleanSliceType ==
    ASSUME NEW slice \in Seq(Token), NEW out \in CleanSlice(slice)
    PROVE  out \in Seq(Token)
<1> DEFINE half == Len(slice) \div 2
           sub == SubSeq(slice, 1, half)
<1>1. half \in 0 .. Len(slice) /\ 1 \in 1 .. Len(slice) + 1
  <2>1. Len(slice) \in Nat
    OBVIOUS
  <2>2. \A n \in Nat : n \div 2 \in 0 .. n
    OBVIOUS
  <2> QED  BY <2>1, <2>2
<1>2. out = slice \/ out = Strip(slice) \/ out = Strip(sub)
  BY DEF CleanSlice, Returned
<1> HIDE DEF half
<1>3. sub \in Seq(Token)
  BY <1>1, SubSeqIs
<1> HIDE DEF sub
<1>4. Strip(slice) \in Seq(Token) /\ Strip(sub) \in Seq(Token)
  BY <1>3, StripType
<1> QED  BY <1>2, <1>4

\* What AICleaner may make of a text is a text.
LEMMA AICleanType ==
    ASSUME NEW text \in Seq(Token), NEW out \in AIClean(text)
    PROVE  out \in Seq(Token)
<1> DEFINE L == Len(text)
           slice == Slice(text)
<1>0. L \in Nat /\ AIMax \in Nat
  BY KnowledgeAssumption
<1>1. slice \in Seq(Token)
  <2> DEFINE m == Min({AIMax, L})
  <2>1. m \in 0 .. L
    <3>1. m = IF AIMax <= L THEN AIMax ELSE L
      BY <1>0, MinMaxOfTwo
    <3> QED  BY <1>0, <3>1
  <2> HIDE DEF m
  <2>2. 1 \in 1 .. L + 1
    BY <1>0
  <2>3. SubSeq(text, 1, m) \in Seq(Token)
    BY <2>1, <2>2, SubSeqIs
  <2> QED  BY <2>3 DEF Slice, m
<1>2. PICK head \in CleanSlice(slice) : out = Rejoin(head, text)
  BY DEF AIClean
<1> HIDE DEF slice
<1>3. head \in Seq(Token)
  BY <1>1, <1>2, CleanSliceType
<1>4. CASE L <= AIMax
  BY <1>2, <1>3, <1>4 DEF Rejoin
<1>5. CASE ~(L <= AIMax)
  <2> DEFINE tail == SubSeq(text, AIMax + 1, L)
             nl == <<NL>>
  <2>1. AIMax + 1 \in 1 .. L + 1 /\ L \in 0 .. L
    BY <1>0, <1>5
  <2>2. tail \in Seq(Token)
    BY <2>1, SubSeqIs
  <2>3. out = Strip(head \o nl \o tail)
    BY <1>2, <1>5 DEF Rejoin
  <2>4. nl \in Seq(Token)
    BY MarksAreTokens, SmallSeqs, Zenon
  <2> HIDE DEF tail, nl
  <2> DEFINE whole == (head \o nl) \o tail
  <2>5. whole \in Seq(Token)
    BY <1>3, <2>2, <2>4, ConcatType, Zenon
  <2> HIDE DEF whole
  <2>6. Strip(whole) \in Seq(Token)
    BY <2>5, StripType
  <2> QED  BY <2>3, <2>6 DEF whole
<1> QED  BY <1>4, <1>5

-----------------------------------------------------------------------------
(* Deduplicate *)

\* Near is symmetric.
LEMMA NearEitherWay == \A a, b : Near(a, b) => Near(b, a)
<1>1. \A A, B : HammingDistance(A, B) = HammingDistance(B, A)
  <2>1. \A A, B : (A \ B) \cup (B \ A) = (B \ A) \cup (A \ B)
    OBVIOUS
  <2> QED  BY <2>1 DEF HammingDistance
<1> QED  BY <1>1 DEF Near

\* The chunks that are kept: a chunk is not among them just if an earlier one among them is
\* near it.
LEMMA DeduplicateIs ==
    ASSUME NEW C, NEW chunks \in Seq(C),
           \A i \in 1 .. Len(chunks) : chunks[i].index = i - 1
    PROVE  /\ Deduplicate(chunks) \in Seq(C) /\ ToSet(Deduplicate(chunks)) \subseteq ToSet(chunks)
           /\ \A c \in ToSet(chunks) :
                 c \notin ToSet(Deduplicate(chunks))
                    <=> \E k \in ToSet(Deduplicate(chunks)) : k.index < c.index /\ Near(k, c)
<1> DEFINE L == Len(chunks)
           Z == Seq(C)
           IsKept(F) == F = [n \in 0 .. L |-> IF n = 0 THEN <<>> ELSE KeepChunk(F[n - 1], chunks[n])]
           kept == CHOOSE F : IsKept(F)
           g == [p \in (1 .. L) \X Z |-> KeepChunk(p[2], chunks[p[1]])]
<1>1. /\ L \in Nat /\ DOMAIN chunks = 1 .. L
      /\ \A n \in 1 .. L : chunks[n] \in C
      /\ ToSet(chunks) = {chunks[i] : i \in 1 .. L}
  <2>1. L \in Nat /\ DOMAIN chunks = 1 .. L /\ ToSet(chunks) = {chunks[i] : i \in 1 .. L}
    BY ToSetType
  <2>2. \A n \in 1 .. L : chunks[n] \in C
    OBVIOUS
  <2> QED  BY <2>1, <2>2
<1>2. <<>> \in Z
  OBVIOUS
<1>3. ASSUME NEW d \in Z, NEW c \in C
      PROVE  /\ KeepChunk(d, c) \in Z
             /\ \/ /\ KeepChunk(d, c) = d /\ \E k \in ToSet(d) : Near(k, c)
                \/ /\ ToSet(KeepChunk(d, c)) = ToSet(d) \cup {c}
                   /\ ~ \E k \in ToSet(d) : Near(k, c)
  <2>1. DOMAIN d = 1 .. Len(d) /\ ToSet(d) = {d[i] : i \in 1 .. Len(d)}
    BY ToSetType
  <2>2. CASE \E i \in DOMAIN d : Near(c, d[i])
    <3>1. KeepChunk(d, c) = d
      BY <2>2 DEF KeepChunk
    <3>2. \E k \in ToSet(d) : Near(k, c)
      BY <2>1, <2>2, NearEitherWay
    <3> QED  BY <3>1, <3>2
  <2>3. CASE ~ \E i \in DOMAIN d : Near(c, d[i])
    <3>1. KeepChunk(d, c) = Append(d, c)
      BY <2>3 DEF KeepChunk
    <3>2. ~ \E k \in ToSet(d) : Near(k, c)
      BY <2>1, <2>3, NearEitherWay
    <3>3. Append(d, c) \in Z /\ ToSet(Append(d, c)) = ToSet(d) \cup {c}
      BY ToSetAppend
    <3> QED  BY <3>1, <3>2, <3>3
  <2> QED  BY <2>2, <2>3
<1> HIDE DEF Z
<1>4. \E h : IsKept(h)
  <2>1. g \in [(1 .. L) \X Z -> Z]
    BY <1>1, <1>3
  <2> DEFINE b == <<>>
  <2>2. PICK h \in [0 .. L -> Z] : Loops(h, L, b, g)
    <3>1. b \in Z
      BY <1>2
    <3> HIDE DEF L, g, b
    <3> QED  BY <1>1, <2>1, <3>1, LoopExists
  <2>3. h[0] = b /\ \A n \in 1 .. L : h[n] = KeepChunk(h[n - 1], chunks[n])
    <3>1. ASSUME NEW n \in 1 .. L PROVE h[n] = KeepChunk(h[n - 1], chunks[n])
      <4>1. n - 1 \in 0 .. L
        BY <1>1
      <4>2. h[n - 1] \in Z /\ h[n] = g[<<n, h[n - 1]>>]
        BY <2>2, <4>1 DEF Loops
      <4> QED  BY <4>2
    <3> QED  BY <2>2, <3>1 DEF Loops
  <2>4. IsKept(h)
    <3>1. \A n \in 0 .. L : h[n] = IF n = 0 THEN b ELSE KeepChunk(h[n - 1], chunks[n])
      BY <1>1, <2>3
    <3> QED  BY <2>2, <3>1
  <2> QED  BY <2>4
<1>5. IsKept(kept)
  <2> HIDE DEF IsKept
  <2> QED  BY <1>4
<1>6. Deduplicate(chunks) = kept[L]
  BY DEF Deduplicate
<1> HIDE DEF kept, g
<1>7. kept[0] = <<>> /\ \A n \in 1 .. L : kept[n] = KeepChunk(kept[n - 1], chunks[n])
  <2>1. 0 \in 0 .. L /\ \A n \in 1 .. L : n \in 0 .. L /\ n # 0
    BY <1>1
  <2> QED  BY <1>5, <2>1
<1> HIDE DEF IsKept
<1> DEFINE Good(d, n) ==
              /\ d \in Z /\ ToSet(d) \subseteq {chunks[i] : i \in 1 .. n}
              /\ \A m \in 1 .. n : chunks[m] \notin ToSet(d)
                    <=> \E k \in ToSet(d) : k.index < m - 1 /\ Near(k, chunks[m])
           P == {n \in 0 .. L : Good(kept[n], n)}
<1>8. 0 \in P
  BY <1>1, <1>2, <1>7, ToSetEmpty
<1>9. ASSUME NEW n \in 1 .. L, n - 1 \in P PROVE n \in P
  <2> DEFINE d == kept[n - 1]
             e == kept[n]
             c == chunks[n]
  <2>1. e = KeepChunk(d, c) /\ d \in Z /\ c \in C /\ n \in 0 .. L
    BY <1>1, <1>7, <1>9
  <2>2. Good(d, n - 1)
    BY <1>9
  <2> HIDE DEF d, e
  <2>3. /\ c.index = n - 1
        /\ \A i \in 1 .. n - 1 : chunks[i].index < n - 1
        /\ \A i \in 1 .. n - 1 : chunks[i].index = i - 1
    BY <1>1
  <2>4. c \notin ToSet(d) /\ \A k \in ToSet(d) : k.index < n - 1
    <3>1. ASSUME NEW k \in ToSet(d) PROVE k.index < n - 1
      <4>1. PICK i \in 1 .. n - 1 : k = chunks[i]
        BY <2>2
      <4> QED  BY <2>3, <4>1
    <3>2. ~(c.index < n - 1)
      BY <1>1, <2>3
    <3> QED  BY <3>1, <3>2
  <2>5. \A i \in 1 .. n : i \in 1 .. n - 1 \/ i = n
    BY <1>1
  <2>6. \A i \in 1 .. n - 1 : i \in 1 .. n
    BY <1>1
  <2>7. e \in Z
    BY <1>3, <2>1
  <2>8. ASSUME e = d, \E k \in ToSet(d) : Near(k, c)
        PROVE  Good(e, n)
    <3>1. ToSet(e) \subseteq {chunks[i] : i \in 1 .. n}
      BY <2>2, <2>6, <2>8
    <3>2. ASSUME NEW m \in 1 .. n
          PROVE  chunks[m] \notin ToSet(e)
                    <=> \E k \in ToSet(e) : k.index < m - 1 /\ Near(k, chunks[m])
      <4>1. CASE m \in 1 .. n - 1
        BY <2>2, <2>8, <4>1
      <4>2. CASE m = n
        BY <2>4, <2>8, <4>2
      <4> QED  BY <2>5, <4>1, <4>2
    <3> QED  BY <2>7, <3>1, <3>2
  <2>9. ASSUME ToSet(e) = ToSet(d) \cup {c}, ~ \E k \in ToSet(d) : Near(k, c)
        PROVE  Good(e, n)
    <3>0. n \in 1 .. n
      BY <1>1
    <3>1. ToSet(e) \subseteq {chunks[i] : i \in 1 .. n}
      BY <2>2, <2>6, <2>9, <3>0
    <3>2. ASSUME NEW m \in 1 .. n
          PROVE  chunks[m] \notin ToSet(e)
                    <=> \E k \in ToSet(e) : k.index < m - 1 /\ Near(k, chunks[m])
      <4>1. CASE m \in 1 .. n - 1
        <5>1. chunks[m] # c
          BY <2>3, <4>1
        <5>2. ~(c.index < m - 1)
          BY <1>1, <2>3, <4>1
        <5>3. chunks[m] \notin ToSet(e) <=> chunks[m] \notin ToSet(d)
          BY <2>9, <5>1
        <5>4. (\E k \in ToSet(e) : k.index < m - 1 /\ Near(k, chunks[m]))
                 <=> \E k \in ToSet(d) : k.index < m - 1 /\ Near(k, chunks[m])
          <6> HIDE DEF c
          <6> QED  BY <2>9, <5>2
        <5>5. chunks[m] \notin ToSet(d)
                 <=> \E k \in ToSet(d) : k.index < m - 1 /\ Near(k, chunks[m])
          BY <2>2, <4>1
        <5> QED  BY <5>3, <5>4, <5>5
      <4>2. CASE m = n
        <5>1. c \in ToSet(e)
          BY <2>9
        <5>2. ASSUME NEW k \in ToSet(e), k.index < n - 1, Near(k, c) PROVE FALSE
          <6>1. CASE k \in ToSet(d)
            BY <2>9, <5>2, <6>1
          <6>2. CASE k = c
            BY <1>1, <2>3, <5>2, <6>2
          <6> QED  BY <2>9, <6>1, <6>2
        <5> QED  BY <4>2, <5>1, <5>2
      <4> QED  BY <2>5, <4>1, <4>2
    <3> QED  BY <2>7, <3>1, <3>2
  <2>10. \/ e = d /\ \E k \in ToSet(d) : Near(k, c)
         \/ ToSet(e) = ToSet(d) \cup {c} /\ ~ \E k \in ToSet(d) : Near(k, c)
    <3> HIDE DEF c
    <3> QED  BY <1>3, <2>1
  <2> HIDE DEF Good, c
  <2>11. Good(e, n)
    BY <2>8, <2>9, <2>10
  <2> QED  BY <2>1, <2>11 DEF e
<1>10. \A n \in 0 .. L : n \in P
  <2> HIDE DEF P
  <2> QED  BY <1>1, <1>8, <1>9, UpTo
<1>11. Good(kept[L], L)
  <2>1. L \in P
    <3> HIDE DEF P
    <3> QED  BY <1>1, <1>10
  <2> QED  BY <2>1
<1> DEFINE d == kept[L]
<1>12. Good(d, L) /\ Deduplicate(chunks) = d
  BY <1>6, <1>11
<1> HIDE DEF d
<1>13. ASSUME NEW c \in ToSet(chunks)
       PROVE  c \notin ToSet(d) <=> \E k \in ToSet(d) : k.index < c.index /\ Near(k, c)
  <2>1. PICK m \in 1 .. L : c = chunks[m]
    BY <1>1
  <2>2. c.index = m - 1
    BY <1>1, <2>1
  <2> QED  BY <1>12, <2>1, <2>2
<1>14. ToSet(d) \subseteq ToSet(chunks)
  BY <1>1, <1>12
<1> QED  BY <1>12, <1>13, <1>14 DEF Z

-----------------------------------------------------------------------------
(* Batches *)

\* A function that increases strictly over 1 .. n, within 1 .. n, changes nothing.
LEMMA IncreasingIsIdentity ==
    ASSUME NEW n \in Nat, NEW h \in [1 .. n -> 1 .. n],
           \A i, j \in 1 .. n : i < j => h[i] < h[j]
    PROVE  \A k \in 1 .. n : h[k] = k
<1> DEFINE P == {k \in 0 .. n : k = 0 \/ h[k] >= k}
           Q == {k \in 0 .. n : k = n \/ h[n - k] <= n - k}
<1>0. \A k \in 1 .. n : h[k] \in 1 .. n
  OBVIOUS
<1>1. \A k \in 0 .. n : k \in P
  <2>1. 0 \in P
    OBVIOUS
  <2>2. ASSUME NEW k \in 1 .. n, k - 1 \in P PROVE k \in P
    <3>1. CASE k = 1
      <4>1. h[1] \in 1 .. n
        BY <1>0, <3>1
      <4> QED  BY <3>1, <4>1
    <3>2. CASE k # 1
      <4>1. k - 1 \in 1 .. n /\ k - 1 < k
        BY <3>2
      <4>2. h[k - 1] < h[k] /\ h[k - 1] >= k - 1
        BY <2>2, <4>1
      <4>3. h[k - 1] \in Int /\ h[k] \in Int
        BY <4>1
      <4> QED  BY <4>2, <4>3
    <3> QED  BY <3>1, <3>2
  <2> HIDE DEF P
  <2> QED  BY <2>1, <2>2, UpTo
<1>2. \A k \in 0 .. n : k \in Q
  <2>1. 0 \in Q
    <3>1. CASE n = 0
      BY <3>1
    <3>2. CASE n # 0
      <4>1. n \in 1 .. n
        BY <3>2
      <4>2. h[n] \in 1 .. n
        BY <1>0, <4>1
      <4>3. n - 0 = n
        OBVIOUS
      <4> QED  BY <4>2, <4>3
    <3> QED  BY <3>1, <3>2
  <2>2. ASSUME NEW k \in 1 .. n, k - 1 \in Q PROVE k \in Q
    <3>1. CASE k = n
      BY <3>1
    <3>2. CASE k # n
      <4> DEFINE a == n - k
                 b == n - (k - 1)
      <4>1. a \in 1 .. n /\ b \in 1 .. n /\ a < b /\ b = a + 1
        BY <3>2
      <4>2. k - 1 # n
        OBVIOUS
      <4>3. h[b] <= b
        BY <2>2, <4>2
      <4> HIDE DEF a, b
      <4>4. h[a] < h[b] /\ h[a] \in Int /\ h[b] \in Int
        BY <4>1
      <4>5. h[a] <= a
        BY <4>1, <4>3, <4>4
      <4> QED  BY <4>5 DEF a
    <3> QED  BY <3>1, <3>2
  <2> HIDE DEF Q
  <2> QED  BY <2>1, <2>2, UpTo
<1>3. ASSUME NEW k \in 1 .. n PROVE h[k] = k
  <2>1. k \in 0 .. n /\ n - k \in 0 .. n /\ k # 0 /\ n - k # n /\ n - (n - k) = k
    OBVIOUS
  <2>2. k \in P
    <3> HIDE DEF P
    <3> QED  BY <1>1, <2>1
  <2>3. n - k \in Q
    <3> HIDE DEF Q
    <3> QED  BY <1>2, <2>1
  <2>4. h[k] >= k
    BY <2>1, <2>2
  <2>5. h[k] <= k
    <3>1. h[n - (n - k)] <= n - (n - k)
      BY <2>1, <2>3
    <3> QED  BY <2>1, <3>1
  <2>6. h[k] \in Int
    OBVIOUS
  <2> QED  BY <2>4, <2>5, <2>6
<1> QED  BY <1>3

\* The orders in which the items of a batch may come.
LEMMA OrdersAre ==
    ASSUME NEW n \in Nat, NEW order \in SetToSeqs(1 .. n)
    PROVE  /\ order \in [1 .. n -> 1 .. n]
           /\ \A i, j \in 1 .. n : order[i] = order[j] => i = j
           /\ \A k \in 1 .. n : \E i \in 1 .. n : order[i] = k
<1>1. IsFiniteSet(1 .. n) /\ Cardinality(1 .. n) = n
  <2>1. 1 \in Int /\ n \in Int
    OBVIOUS
  <2>2. Cardinality(1 .. n) = IF 1 > n THEN 0 ELSE n - 1 + 1
    BY <2>1, FS_Interval
  <2>3. IsFiniteSet(1 .. n)
    BY <2>1, FS_Interval
  <2> QED  BY <2>2, <2>3
<1> DEFINE Z == 1 .. n
<1>2. SetToSeqs(Z) = {f \in [1 .. Cardinality(Z) -> Z] :
                         \A i, j \in 1 .. Cardinality(Z) : i # j => f[i] # f[j]}
  BY DEF SetToSeqs
<1>3. order \in [Z -> Z] /\ \A i, j \in Z : i # j => order[i] # order[j]
  BY <1>1, <1>2
<1>4. IsFiniteSet(Z)
  BY <1>1
<1> HIDE DEF Z
<1>5. order \in Injection(Z, Z)
  <2>1. IsInjective(order)
    BY <1>3 DEF IsInjective
  <2> QED  BY <1>3, <2>1 DEF Injection
<1>6. order \in Surjection(Z, Z)
  BY <1>4, <1>5, FS_Injection
<1>7. \A k \in Z : \E i \in Z : order[i] = k
  BY <1>6 DEF Surjection
<1> QED  BY <1>3, <1>7 DEF Z

\* The items of a batch with vectors v in an order.
ItemsIn(order, v, n) == [i \in 1 .. n |-> [index |-> order[i], vector |-> v[order[i]]]]

\* Whatever the order the items of a batch come in, sorted they have the vectors of their texts.
LEMMA SortedIs ==
    ASSUME NEW n \in Nat, NEW order \in SetToSeqs(1 .. n), NEW v
    PROVE  \A k \in 1 .. n : Sorted(ItemsIn(order, v, n))[k].vector = v[k]
<1> DEFINE items == [i \in 1 .. n |-> [index |-> order[i], vector |-> v[order[i]]]]
           Is(f) == /\ f \in [1 .. n -> ToSet(items)]
                    /\ \A i, j \in 1 .. n : i < j => f[i].index < f[j].index
           w == [k \in 1 .. n |-> [index |-> k, vector |-> v[k]]]
<1>1. /\ order \in [1 .. n -> 1 .. n]
      /\ \A k \in 1 .. n : \E i \in 1 .. n : order[i] = k
  BY OrdersAre
<1>2. DOMAIN items = 1 .. n /\ ToSet(items) = {items[i] : i \in 1 .. n}
  BY DEF ToSet
<1>3. \A x \in ToSet(items) : x.index \in 1 .. n /\ x.vector = v[x.index]
  <2>1. \A i \in 1 .. n : items[i].index = order[i] /\ items[i].vector = v[order[i]]
    OBVIOUS
  <2> HIDE DEF items
  <2>2. ASSUME NEW x \in ToSet(items) PROVE x.index \in 1 .. n /\ x.vector = v[x.index]
    <3>1. PICK i \in 1 .. n : x = items[i]
      BY <1>2
    <3>2. x.index = order[i] /\ x.vector = v[order[i]]
      BY <2>1, <3>1
    <3>3. order[i] \in 1 .. n
      BY <1>1
    <3> QED  BY <3>2, <3>3
  <2> QED  BY <2>2
<1>4. Is(w)
  <2>1. ASSUME NEW k \in 1 .. n PROVE w[k] \in ToSet(items)
    <3>1. PICK i \in 1 .. n : order[i] = k
      BY <1>1
    <3>2. items[i] = w[k]
      BY <3>1
    <3> QED  BY <1>2, <3>2
  <2>2. w \in [1 .. n -> ToSet(items)]
    <3> HIDE DEF items
    <3> QED  BY <2>1
  <2>3. \A i, j \in 1 .. n : i < j => w[i].index < w[j].index
    OBVIOUS
  <2> HIDE DEF w, items
  <2> QED  BY <2>2, <2>3
<1> DEFINE sorted == CHOOSE f : Is(f)
<1>5. Is(sorted)
  <2> HIDE DEF Is
  <2> QED  BY <1>4
<1>6. Sorted(items) = sorted
  BY <1>2 DEF Sorted
<1> HIDE DEF sorted, items, w
<1> DEFINE h == [k \in 1 .. n |-> sorted[k].index]
<1>7. \A k \in 1 .. n : h[k] = k
  <2>1. h \in [1 .. n -> 1 .. n]
    BY <1>3, <1>5
  <2>2. \A i, j \in 1 .. n : i < j => h[i] < h[j]
    BY <1>5
  <2> HIDE DEF h
  <2> QED  BY <2>1, <2>2, IncreasingIsIdentity
<1>8. ASSUME NEW k \in 1 .. n PROVE sorted[k].vector = v[k]
  <2>1. sorted[k] \in ToSet(items)
    BY <1>5
  <2>2. sorted[k].index = k
    BY <1>7
  <2> QED  BY <1>3, <2>1, <2>2
<1>9. ItemsIn(order, v, n) = items
  BY DEF ItemsIn, items
<1> QED  BY <1>6, <1>8, <1>9

-----------------------------------------------------------------------------
(* Enriched chunks *)

\* The chunks of a text as they are stored.
Enriched(text, title) ==
    LET chunks == ChunkDocument(text, title)
    IN  [i \in DOMAIN chunks |-> EnrichChunk(chunks[i])]

\* Enriching keeps the numbers and the texts of chunks.
LEMMA EnrichedIs ==
    ASSUME NEW text \in Seq(Token), Edges(text), NEW title
    PROVE  LET chunks == Enriched(text, title)
           IN  /\ Len(chunks) \in Nat /\ DOMAIN chunks = 1 .. Len(chunks)
               /\ chunks \in Seq(ToSet(chunks))
               /\ \A i \in 1 .. Len(chunks) : chunks[i].index = i - 1 /\ Strip(chunks[i].text) # <<>>
               /\ \A p \in ToSet(Pieces(text)) : Len(p) >= MinChunk =>
                     \E i \in DOMAIN chunks : IsSuffix(p, chunks[i].text)
<1> DEFINE raw == ChunkDocument(text, title)
           chunks == [i \in 1 .. Len(raw) |-> EnrichChunk(raw[i])]
           X == ToSet(chunks)
<1>1. /\ Len(raw) \in Nat /\ DOMAIN raw = 1 .. Len(raw)
      /\ \A i \in 1 .. Len(raw) : raw[i].index = i - 1 /\ Strip(raw[i].text) # <<>>
      /\ \A p \in ToSet(Pieces(text)) : Len(p) >= MinChunk =>
            \E i \in 1 .. Len(raw) : IsSuffix(p, raw[i].text)
  BY TokenIs, ChunksAre
<1>2. Enriched(text, title) = chunks
  BY <1>1 DEF Enriched
<1> HIDE DEF raw
<1>3. \A i \in 1 .. Len(raw) : chunks[i].index = raw[i].index /\ chunks[i].text = raw[i].text
  <2>1. \A c : EnrichChunk(c).index = c.index /\ EnrichChunk(c).text = c.text
    BY DEF EnrichChunk
  <2>2. \A i \in 1 .. Len(raw) : chunks[i] = EnrichChunk(raw[i])
    OBVIOUS
  <2> HIDE DEF chunks
  <2> QED  BY <2>1, <2>2
<1>4. Len(chunks) = Len(raw) /\ DOMAIN chunks = 1 .. Len(raw)
  BY <1>1
<1>5. chunks \in Seq(X)
  <2>1. X = {chunks[i] : i \in 1 .. Len(raw)}
    BY <1>4 DEF ToSet
  <2>2. chunks = [i \in 1 .. Len(raw) |-> chunks[i]]
    OBVIOUS
  <2> HIDE DEF chunks, X
  <2>3. chunks \in [1 .. Len(raw) -> X]
    BY <2>1, <2>2
  <2> QED  BY <1>1, <2>3
<1> HIDE DEF chunks
<1>6. \A i \in 1 .. Len(chunks) : chunks[i].index = i - 1 /\ Strip(chunks[i].text) # <<>>
  BY <1>1, <1>3, <1>4
<1>7. \A p \in ToSet(Pieces(text)) : Len(p) >= MinChunk =>
         \E i \in DOMAIN chunks : IsSuffix(p, chunks[i].text)
  BY <1>1, <1>3, <1>4
<1> QED  BY <1>1, <1>2, <1>4, <1>5, <1>6, <1>7

-----------------------------------------------------------------------------
(* The inductive invariant *)

\* The page is one, whatever was rendered into it.
PageIsTyped == page \in PageType

\* A text is a sequence of tokens; normalized, it has no blanks at its ends.
TextIsTyped ==
    /\ DOMAIN doc = {"text", "chunks", "unique", "embedded"}
    /\ doc.text \in Seq(Token)
    /\ stage \in {"normalized", "chunked", "deduplicated", "stored"} => Edges(doc.text)

\* The chunks are those of the text.
ChunksAreOfTheText ==
    stage \in {"chunked", "deduplicated", "stored"} => doc.chunks = Enriched(doc.text, page.title)

\* What is kept of them, and what has vectors: the first ones of what is kept, each with its own.
EmbeddedAreUnique ==
    /\ stage \in {"crawled", "rendered", "extracted", "cleaned", "normalized", "chunked"} =>
          doc.embedded = <<>>
    /\ stage \in {"deduplicated", "stored"} =>
          /\ doc.unique = Deduplicate(doc.chunks)
          /\ Len(doc.embedded) \in 0 .. Len(doc.unique)
          /\ doc.embedded = [i \in 1 .. Len(doc.embedded) |->
                [chunk |-> doc.unique[i], vector |-> Vector(EmbeddingText(doc.unique[i]))]]

\* The points are the valid ones of all that is kept.
StoreIsEmbedded ==
    stage = "stored" =>
        /\ Len(doc.embedded) = Len(doc.unique)
        /\ store = {ToPoint(item) : item \in {x \in ToSet(doc.embedded) : IsValid(x)}}

\* The inductive invariant of the stages.
IngestionInv ==
    PageIsTyped /\ TextIsTyped /\ ChunksAreOfTheText /\ EmbeddedAreUnique /\ StoreIsEmbedded

\* A crawled page satisfies the invariant.
LEMMA IngestionInit == Init => IngestionInv
<1> SUFFICES ASSUME Init PROVE IngestionInv
  OBVIOUS
<1>1. PageIsTyped
  BY KnowledgeAssumption DEF Init, PageIsTyped, PageType
<1>2. TextIsTyped
  BY SmallSeqs DEF Init, TextIsTyped, NoDoc
<1>3. ChunksAreOfTheText /\ EmbeddedAreUnique /\ StoreIsEmbedded
  BY DEF Init, ChunksAreOfTheText, EmbeddedAreUnique, StoreIsEmbedded, NoDoc
<1> QED  BY <1>1, <1>2, <1>3 DEF IngestionInv

\* The stages that work on the page and its text keep the invariant.
LEMMA EarlySteps ==
    IngestionInv /\ (Render \/ ExtractText \/ Clean \/ NormalizeText) => IngestionInv'
<1> SUFFICES ASSUME IngestionInv, Render \/ ExtractText \/ Clean \/ NormalizeText
             PROVE  IngestionInv'
  OBVIOUS
<1> USE DEF IngestionInv
<1>1. CASE Render
  <2>1. page' \in PageType
    <3> DEFINE more == page.main \o page.live
    <3>1. page \in PageType /\ page.main \in Nodes /\ page.live \in Nodes
      BY DEF PageIsTyped, PageType
    <3>2. more \in Nodes
      BY <3>1, NodesAre, ConcatType
    <3>3. page' = page \/ page' = [page EXCEPT !.main = more]
      BY <1>1 DEF Render
    <3> HIDE DEF more
    <3> QED  BY <3>1, <3>2, <3>3 DEF PageType
  <2>2. stage = "crawled" /\ stage' = "rendered" /\ doc' = doc
    BY <1>1 DEF Render, Reach
  <2> QED  BY <2>1, <2>2 DEF PageIsTyped, TextIsTyped, ChunksAreOfTheText, EmbeddedAreUnique,
                             StoreIsEmbedded
<1>2. CASE ExtractText
  <2>1. /\ stage = "rendered" /\ stage' \in {"nothing", "extracted"} /\ page' = page
        /\ doc' = [doc EXCEPT !.text = Extract(page)]
    BY <1>2 DEF ExtractText
  <2>2. Extract(page) \in Seq(Token)
    BY ExtractType DEF PageIsTyped
  <2> QED  BY <2>1, <2>2 DEF PageIsTyped, TextIsTyped, ChunksAreOfTheText, EmbeddedAreUnique,
                             StoreIsEmbedded
<1>3. CASE Clean
  <2> DEFINE clean == RuleClean(doc.text)
  <2>1. clean \in Seq(Token)
    BY RuleCleanType DEF TextIsTyped
  <2> HIDE DEF clean
  <2>2. PICK text \in {clean} \cup AIClean(clean) :
           doc' = [doc EXCEPT !.text = text]
    BY <1>3 DEF Clean, clean
  <2>3. text \in Seq(Token)
    BY <2>1, <2>2, AICleanType
  <2>4. stage = "extracted" /\ stage' = "cleaned" /\ page' = page
    BY <1>3 DEF Clean, Reach
  <2>5. /\ DOMAIN doc' = DOMAIN doc /\ doc'.embedded = doc.embedded
        /\ doc'.text = text
    BY <2>2 DEF TextIsTyped
  <2> QED  BY <2>3, <2>4, <2>5 DEF PageIsTyped, TextIsTyped, ChunksAreOfTheText, EmbeddedAreUnique,
                             StoreIsEmbedded
<1>4. CASE NormalizeText
  <2>1. /\ stage = "cleaned" /\ stage' = "normalized" /\ page' = page
        /\ doc' = [doc EXCEPT !.text = Normalize(doc.text)]
    BY <1>4 DEF NormalizeText, Reach
  <2>2. Normalize(doc.text) \in Seq(Token) /\ Edges(Normalize(doc.text))
    BY NormalizeType DEF TextIsTyped
  <2> QED  BY <2>1, <2>2 DEF PageIsTyped, TextIsTyped, ChunksAreOfTheText, EmbeddedAreUnique,
                             StoreIsEmbedded
<1> QED  BY <1>1, <1>2, <1>3, <1>4

\* Chunk keeps the invariant.
LEMMA ChunkStep == IngestionInv /\ Chunk => IngestionInv'
<1> SUFFICES ASSUME IngestionInv, Chunk PROVE IngestionInv'
  OBVIOUS
<1> USE DEF IngestionInv
<1> DEFINE chunks == Enriched(doc.text, page.title)
<1>1. /\ stage = "normalized" /\ stage' \in {"nothing", "chunked"} /\ page' = page
      /\ doc' = [doc EXCEPT !.chunks = chunks]
  BY DEF Chunk, Enriched
<1> HIDE DEF chunks
<1>2. /\ DOMAIN doc' = DOMAIN doc /\ doc'.embedded = doc.embedded /\ doc'.text = doc.text
      /\ doc'.chunks = chunks
  BY <1>1 DEF TextIsTyped
<1> QED  BY <1>1, <1>2 DEF PageIsTyped, TextIsTyped, ChunksAreOfTheText, EmbeddedAreUnique,
                           StoreIsEmbedded, chunks

\* DropDuplicates keeps the invariant.
LEMMA DropDuplicatesStep == IngestionInv /\ DropDuplicates => IngestionInv'
<1> SUFFICES ASSUME IngestionInv, DropDuplicates PROVE IngestionInv'
  OBVIOUS
<1> USE DEF IngestionInv
<1> DEFINE unique == Deduplicate(doc.chunks)
<1>1. /\ stage = "chunked" /\ stage' = "deduplicated" /\ page' = page
      /\ doc' = [doc EXCEPT !.unique = unique]
  BY DEF DropDuplicates, Reach
<1> HIDE DEF unique
<1>2. /\ DOMAIN doc' = DOMAIN doc /\ doc'.embedded = doc.embedded /\ doc'.text = doc.text
      /\ doc'.chunks = doc.chunks /\ doc'.unique = unique
  BY <1>1 DEF TextIsTyped
<1>3. EmbeddedAreUnique'
  <2>1. doc'.embedded = <<>>
    BY <1>1, <1>2 DEF EmbeddedAreUnique
  <2>2. Len(unique) \in Nat
    <3> DEFINE chunks == doc.chunks
    <3>1. chunks \in Seq(ToSet(chunks)) /\ \A i \in 1 .. Len(chunks) : chunks[i].index = i - 1
      BY <1>1, EnrichedIs DEF TextIsTyped, ChunksAreOfTheText
    <3> HIDE DEF chunks
    <3>2. Deduplicate(chunks) \in Seq(ToSet(chunks))
      BY <3>1, DeduplicateIs
    <3> QED  BY <3>2 DEF unique, chunks
  <2> DEFINE e == doc'.embedded
             u == doc'.unique
  <2>3. /\ Len(e) \in 0 .. Len(u)
        /\ e = [i \in 1 .. Len(e) |->
                   [chunk |-> u[i], vector |-> Vector(EmbeddingText(u[i]))]]
    <3>1. e = <<>> /\ u = unique
      BY <2>1, <1>2
    <3> HIDE DEF e, u
    <3> QED  BY <2>2, <3>1
  <2> QED  BY <1>1, <1>2, <2>3 DEF EmbeddedAreUnique, unique
<1> QED  BY <1>1, <1>2, <1>3 DEF PageIsTyped, TextIsTyped, ChunksAreOfTheText, StoreIsEmbedded

\* A concatenation, member by member.
LEMMA ConcatIs ==
    \A S : \A s, t \in Seq(S) :
        s \o t = [i \in 1 .. Len(s) + Len(t) |-> IF i <= Len(s) THEN s[i] ELSE t[i - Len(s)]]
<1> SUFFICES ASSUME NEW S, NEW s \in Seq(S), NEW t \in Seq(S)
             PROVE  s \o t = [i \in 1 .. Len(s) + Len(t) |-> IF i <= Len(s) THEN s[i] ELSE t[i - Len(s)]]
  OBVIOUS
<1> DEFINE u == s \o t
<1>1. u \in Seq(S) /\ Len(u) = Len(s) + Len(t) /\ Len(s) \in Nat /\ Len(t) \in Nat
  OBVIOUS
<1>2. \A i \in 1 .. Len(s) : u[i] = s[i]
  OBVIOUS
<1>3. \A i \in 1 .. Len(t) : u[Len(s) + i] = t[i]
  OBVIOUS
<1> HIDE DEF u
<1>4. u = [i \in 1 .. Len(u) |-> u[i]]
  BY <1>1
<1>5. ASSUME NEW i \in 1 .. Len(u) PROVE u[i] = IF i <= Len(s) THEN s[i] ELSE t[i - Len(s)]
  <2>1. CASE i <= Len(s)
    BY <1>1, <1>2, <2>1
  <2>2. CASE ~(i <= Len(s))
    <3> DEFINE j == i - Len(s)
    <3>1. j \in 1 .. Len(t) /\ Len(s) + j = i
      BY <1>1, <2>2
    <3>2. u[Len(s) + j] = t[j]
      BY <1>3, <3>1
    <3> QED  BY <2>2, <3>1, <3>2
  <2> QED  BY <2>1, <2>2
<1> QED  BY <1>1, <1>4, <1>5 DEF u

\* What is kept is a sequence of the chunks.
LEMMA UniqueIs ==
    ASSUME IngestionInv, stage \in {"deduplicated", "stored"}
    PROVE  /\ doc.unique \in Seq(ToSet(doc.chunks)) /\ ToSet(doc.unique) \subseteq ToSet(doc.chunks)
           /\ \A c \in ToSet(doc.chunks) :
                 /\ Strip(c.text) # <<>>
                 /\ c \notin ToSet(doc.unique)
                       <=> \E k \in ToSet(doc.unique) : k.index < c.index /\ Near(k, c)
<1> DEFINE chunks == doc.chunks
           C == ToSet(chunks)
<1>1. /\ chunks \in Seq(C)
      /\ \A i \in 1 .. Len(chunks) : chunks[i].index = i - 1 /\ Strip(chunks[i].text) # <<>>
  BY EnrichedIs DEF IngestionInv, TextIsTyped, ChunksAreOfTheText
<1>2. doc.unique = Deduplicate(chunks)
  BY DEF IngestionInv, EmbeddedAreUnique
<1> HIDE DEF chunks
<1>3. ToSet(chunks) = {chunks[i] : i \in 1 .. Len(chunks)}
  <2> HIDE DEF C
  <2> QED  BY <1>1, ToSetType
<1>4. \A c \in C : Strip(c.text) # <<>>
  BY <1>1, <1>3
<1>5. /\ Deduplicate(chunks) \in Seq(C) /\ ToSet(Deduplicate(chunks)) \subseteq ToSet(chunks)
      /\ \A c \in ToSet(chunks) :
            c \notin ToSet(Deduplicate(chunks))
               <=> \E k \in ToSet(Deduplicate(chunks)) : k.index < c.index /\ Near(k, c)
  <2> HIDE DEF C
  <2> QED  BY <1>1, DeduplicateIs
<1> QED  BY <1>2, <1>4, <1>5 DEF chunks

\* A batch starts where the vectors end.
LEMMA BatchIs ==
    ASSUME IngestionInv, stage = "deduplicated"
    PROVE  LET e == Len(doc.embedded)
           IN  /\ Len(Batch) \in Nat /\ DOMAIN Batch = 1 .. Len(Batch)
               /\ e + Len(Batch) \in 0 .. Len(doc.unique)
               /\ \A i \in 1 .. Len(Batch) : Batch[i] = doc.unique[e + i]
               /\ Batch = <<>> => e = Len(doc.unique)
<1> DEFINE unique == doc.unique
           C == ToSet(doc.chunks)
           U == Len(unique)
           e == Len(doc.embedded)
           a == e + BatchSize
           b == Min({a, U})
<1>1. unique \in Seq(C) /\ U \in Nat
  BY UniqueIs
<1>2. e \in 0 .. U /\ BatchSize \in Nat \ {0}
  BY KnowledgeAssumption DEF IngestionInv, EmbeddedAreUnique
<1>3. Batch = SubSeq(unique, e + 1, b)
  BY DEF Batch
<1> HIDE DEF unique, C, e, U
<1>4. a \in Nat /\ e < a
  BY <1>1, <1>2
<1> HIDE DEF a
<1>5. b = IF a <= U THEN a ELSE U
  BY <1>1, <1>4, MinMaxOfTwo
<1>6. b \in 0 .. U /\ e <= b /\ e + 1 \in 1 .. U + 1 /\ (b = e => e = U)
  BY <1>1, <1>2, <1>4, <1>5
<1> HIDE DEF b
<1> DEFINE batch == SubSeq(unique, e + 1, b)
           m == e + 1
<1>7. m \in 1 .. Len(unique) + 1 /\ b \in 0 .. Len(unique)
  BY <1>6 DEF U
<1>8. /\ batch \in Seq(C) /\ (m <= b => Len(batch) = b - m + 1)
      /\ (m > b => batch = <<>>)
      /\ \A i \in 1 .. b - m + 1 : batch[i] = unique[m + i - 1]
  <2> HIDE DEF m
  <2>1. SubSeq(unique, m, b) \in Seq(C) /\ (m <= b => Len(SubSeq(unique, m, b)) = b - m + 1)
        /\ (m > b => SubSeq(unique, m, b) = <<>>)
        /\ \A i \in 1 .. b - m + 1 : SubSeq(unique, m, b)[i] = unique[m + i - 1]
    BY <1>1, <1>7, SubSeqIs
  <2> QED  BY <2>1 DEF m
<1>9. batch \in Seq(C)
  BY <1>8
<1> HIDE DEF batch
<1>10. Len(batch) = b - e /\ DOMAIN batch = 1 .. Len(batch) /\ (batch = <<>> => b = e)
  <2>1. CASE m <= b
    <3>1. Len(batch) = b - e
      BY <1>1, <1>2, <1>6, <1>8, <2>1
    <3>2. Len(batch) # 0
      BY <1>1, <1>2, <1>6, <2>1, <3>1
    <3>3. batch # <<>>
      BY <3>2
    <3> QED  BY <1>9, <3>1, <3>3
  <2>2. CASE m > b
    <3>1. batch = <<>> /\ b = e
      BY <1>1, <1>2, <1>6, <1>8, <2>2
    <3> QED  BY <1>1, <1>2, <1>6, <3>1
  <2>3. m <= b \/ m > b
    BY <1>1, <1>2, <1>6
  <2> QED  BY <2>1, <2>2, <2>3
<1>11. ASSUME NEW i \in 1 .. Len(batch) PROVE batch[i] = unique[e + i]
  <2>1. i \in 1 .. b - m + 1 /\ m + i - 1 = e + i
    BY <1>1, <1>2, <1>6, <1>10
  <2> QED  BY <1>8, <2>1
<1>12. Len(batch) \in Nat /\ e + Len(batch) \in 0 .. U
  BY <1>1, <1>2, <1>6, <1>10
<1> QED  BY <1>3, <1>6, <1>10, <1>11, <1>12 DEF batch, unique, e, U

\* EmbedBatch keeps the invariant, in whatever order the items come.
LEMMA EmbedBatchStep == IngestionInv /\ EmbedBatch => IngestionInv'
<1> SUFFICES ASSUME IngestionInv, EmbedBatch PROVE IngestionInv'
  OBVIOUS
<1> DEFINE n == Len(Batch)
           e == Len(doc.embedded)
           v == [k \in 1 .. n |-> Vector(EmbeddingText(Batch[k]))]
<1>1. stage = "deduplicated" /\ stage' = stage /\ page' = page
  BY DEF EmbedBatch
<1>2. /\ n \in Nat /\ DOMAIN Batch = 1 .. n /\ e + n \in 0 .. Len(doc.unique)
      /\ \A i \in 1 .. n : Batch[i] = doc.unique[e + i]
  BY <1>1, BatchIs
<1>3. PICK order \in SetToSeqs(DOMAIN Batch) :
         LET items == Sorted([i \in DOMAIN Batch |->
                                 [index |-> order[i],
                                  vector |-> Vector(EmbeddingText(Batch[order[i]]))]])
         IN  doc' = [doc EXCEPT !.embedded = @ \o
                        [i \in DOMAIN Batch |-> [chunk |-> Batch[i], vector |-> items[i].vector]]]
  BY DEF EmbedBatch
<1> DEFINE items == ItemsIn(order, v, n)
           next == [i \in 1 .. n |-> [chunk |-> Batch[i], vector |-> Sorted(items)[i].vector]]
<1>4. order \in SetToSeqs(1 .. n)
  BY <1>2, <1>3
<1>5. items = [i \in DOMAIN Batch |-> [index |-> order[i],
                                       vector |-> Vector(EmbeddingText(Batch[order[i]]))]]
  <2>1. \A i \in 1 .. n : order[i] \in 1 .. n
    <3>1. order \in [1 .. n -> 1 .. n]
      <4> HIDE DEF n
      <4> QED  BY <1>2, <1>4, OrdersAre
    <3> HIDE DEF n
    <3> QED  BY <3>1
  <2>2. \A i \in 1 .. n : v[order[i]] = Vector(EmbeddingText(Batch[order[i]]))
    BY <2>1
  <2> HIDE DEF v, n
  <2> QED  BY <1>2, <2>2 DEF ItemsIn
<1>6. \A k \in 1 .. n : Sorted(items)[k].vector = v[k]
  <2> HIDE DEF n, v
  <2> QED  BY <1>2, <1>4, SortedIs
<1>7. doc' = [doc EXCEPT !.embedded = doc.embedded \o next]
  <2>1. next = [i \in DOMAIN Batch |-> [chunk |-> Batch[i], vector |-> Sorted(items)[i].vector]]
    BY <1>2
  <2> HIDE DEF next, items, n
  <2> QED  BY <1>3, <1>5, <2>1
<1>8. \A i \in 1 .. n : next[i] = [chunk |-> doc.unique[e + i],
                                   vector |-> Vector(EmbeddingText(doc.unique[e + i]))]
  <2>1. \A i \in 1 .. n : next[i] = [chunk |-> Batch[i], vector |-> v[i]]
    <3> HIDE DEF items, v
    <3> QED  BY <1>6
  <2>2. \A i \in 1 .. n : v[i] = Vector(EmbeddingText(Batch[i]))
    OBVIOUS
  <2> HIDE DEF next, v
  <2> QED  BY <1>2, <2>1, <2>2
<1>9. Len(next) = n /\ DOMAIN next = 1 .. n
  <2> HIDE DEF n
  <2> QED  BY <1>2
<1> HIDE DEF items, next, v, n
<1> DEFINE old == doc.embedded
           new == old \o next
           item(i) == [chunk |-> doc.unique[i], vector |-> Vector(EmbeddingText(doc.unique[i]))]
<1>10. old = [i \in 1 .. e |-> item(i)] /\ e \in Nat
  BY <1>1, <1>2 DEF IngestionInv, EmbeddedAreUnique
<1>11. DOMAIN doc = {"text", "chunks", "unique", "embedded"}
  BY DEF IngestionInv, TextIsTyped
<1>12. /\ DOMAIN doc' = DOMAIN doc /\ doc'.embedded = new /\ doc'.text = doc.text
       /\ doc'.chunks = doc.chunks /\ doc'.unique = doc.unique
  BY <1>7, <1>11
<1>13. Len(new) = e + n /\ new = [i \in 1 .. e + n |-> item(i)]
  <2>1. new = [i \in 1 .. Len(old) + Len(next) |-> IF i <= Len(old) THEN old[i] ELSE next[i - Len(old)]]
        /\ Len(old) = e
    <3> DEFINE X == {old[i] : i \in 1 .. e} \cup {next[i] : i \in 1 .. n}
    <3>1. next \in [1 .. n -> X]
      <4>1. next = [i \in 1 .. n |-> next[i]]
        BY DEF next
      <4> QED  BY <4>1
    <3>2. old \in [1 .. e -> X]
      <4>1. old = [i \in 1 .. e |-> old[i]]
        BY <1>10
      <4> HIDE DEF old, e
      <4> QED  BY <4>1
    <3> HIDE DEF X, old, e, next
    <3>3. old \in Seq(X) /\ next \in Seq(X) /\ Len(next) = n
      BY <1>2, <1>9, <1>10, <3>1, <3>2
    <3>4. Len(old) = e
      BY <1>10, <3>2
    <3>5. old \o next = [i \in 1 .. Len(old) + Len(next) |->
                            IF i <= Len(old) THEN old[i] ELSE next[i - Len(old)]]
      BY <3>3, ConcatIs, Zenon
    <3> QED  BY <3>4, <3>5
  <2>2. ASSUME NEW i \in 1 .. e + n
        PROVE  (IF i <= e THEN old[i] ELSE next[i - e]) = item(i)
    <3>1. CASE i <= e
      <4>1. i \in 1 .. e
        BY <3>1, <1>2, <1>10
      <4>2. old[i] = item(i)
        <5> HIDE DEF old, item, e
        <5> QED  BY <4>1, <1>10
      <4> QED  BY <3>1, <4>2
    <3>2. CASE ~(i <= e)
      <4> DEFINE j == i - e
      <4>1. j \in 1 .. n /\ e + j = i
        <5> HIDE DEF e
        <5> QED  BY <1>2, <1>10, <3>2
      <4>2. next[j] = item(e + j)
        BY <1>8, <4>1
      <4> HIDE DEF item, e
      <4> QED  BY <3>2, <4>1, <4>2
    <3> QED  BY <3>1, <3>2
  <2> HIDE DEF item, old, e
  <2>3. new = [i \in 1 .. e + n |-> item(i)]
    <3> HIDE DEF new
    <3> QED  BY <1>9, <2>1, <2>2
  <2> HIDE DEF new
  <2>4. Len(new) = e + n
    BY <1>2, <1>10, <2>3
  <2> QED  BY <2>3, <2>4
<1>14. EmbeddedAreUnique'
  <2>1. doc.unique = Deduplicate(doc.chunks)
    BY <1>1 DEF IngestionInv, EmbeddedAreUnique
  <2>2. e + n \in 0 .. Len(doc.unique)
    BY <1>2 DEF n
  <2> HIDE DEF new, e
  <2> QED  BY <1>1, <1>12, <1>13, <2>1, <2>2 DEF EmbeddedAreUnique
<1> HIDE DEF new
<1>15. PageIsTyped' /\ TextIsTyped' /\ ChunksAreOfTheText' /\ StoreIsEmbedded'
  BY <1>1, <1>12 DEF IngestionInv, PageIsTyped, TextIsTyped, ChunksAreOfTheText, StoreIsEmbedded
<1> QED  BY <1>14, <1>15 DEF IngestionInv

\* Index keeps the invariant.
LEMMA IndexStep == IngestionInv /\ Index => IngestionInv'
<1> SUFFICES ASSUME IngestionInv, Index PROVE IngestionInv'
  OBVIOUS
<1>1. /\ stage = "deduplicated" /\ stage' = "stored" /\ page' = page /\ doc' = doc
      /\ Batch = <<>>
      /\ store' = {ToPoint(item) : item \in {x \in ToSet(doc.embedded) : IsValid(x)}}
  BY DEF Index
<1>2. Len(doc.embedded) = Len(doc.unique)
  BY <1>1, BatchIs
<1>3. PageIsTyped' /\ TextIsTyped' /\ ChunksAreOfTheText'
  BY <1>1 DEF IngestionInv, PageIsTyped, TextIsTyped, ChunksAreOfTheText
<1>4. EmbeddedAreUnique'
  BY <1>1 DEF IngestionInv, EmbeddedAreUnique
<1>5. StoreIsEmbedded'
  BY <1>1, <1>2 DEF StoreIsEmbedded
<1> QED  BY <1>3, <1>4, <1>5 DEF IngestionInv

\* No other step changes what is stored, and all lead away from the stages of ingestion.
LEMMA LaterSteps ==
    IngestionInv /\ ~(Render \/ ExtractText \/ Clean \/ NormalizeText \/ Chunk \/ DropDuplicates
                        \/ EmbedBatch \/ Index) /\ Next => IngestionInv'
<1> SUFFICES ASSUME IngestionInv, Next,
                    ~(Render \/ ExtractText \/ Clean \/ NormalizeText \/ Chunk \/ DropDuplicates
                        \/ EmbedBatch \/ Index)
             PROVE  IngestionInv'
  OBVIOUS
<1>1. page' = page /\ doc' = doc
      /\ stage' \notin {"crawled", "rendered", "extracted", "cleaned", "normalized", "chunked",
                        "deduplicated", "stored"}
  <2>1. CASE EmbedFails
    BY <2>1 DEF EmbedFails
  <2>2. CASE Ask \/ Detect \/ Route \/ Search \/ Rerank \/ Compress
    BY <2>2 DEF Ask, Detect, Route, Search, Rerank, Compress, Reach
  <2>3. CASE BestPractices \/ Research \/ BusinessAnalysis \/ MarketplaceAssessment \/ FeatureOverlap
    BY <2>3 DEF BestPractices, Research, BusinessAnalysis, MarketplaceAssessment, FeatureOverlap,
                Serves, Draft, Unparsed, Parsed, Fail
  <2> QED  BY <2>1, <2>2, <2>3 DEF Next
<1> QED  BY <1>1 DEF IngestionInv, PageIsTyped, TextIsTyped, ChunksAreOfTheText, EmbeddedAreUnique,
                     StoreIsEmbedded

\* Every step keeps the invariant.
LEMMA IngestionStep == IngestionInv /\ [Next]_vars => IngestionInv'
<1>1. IngestionInv /\ UNCHANGED vars => IngestionInv'
  BY DEF IngestionInv, PageIsTyped, TextIsTyped, ChunksAreOfTheText, EmbeddedAreUnique,
         StoreIsEmbedded, vars
<1> QED  BY <1>1, EarlySteps, ChunkStep, DropDuplicatesStep, EmbedBatchStep, IndexStep, LaterSteps

\* The invariant holds, for pages of any size and all limits: what a stage works on is what
\* the stage before it made.
THEOREM IngestionHolds == Spec => []IngestionInv
<1> QED  BY IngestionInit, IngestionStep, PTL DEF Spec

\* chunk_text neither loses, repeats nor reorders a word of any normalized text, every piece fits
\* its limit, code that is not too large is one piece, and chunk_document drops no piece that is
\* large enough: TextSurvives, for texts of any length and all sizes.
THEOREM SplittingKeepsTheText == Spec => []TextSurvives
<1>1. IngestionInv => TextSurvives
  <2> SUFFICES ASSUME IngestionInv, stage = "chunked"
               PROVE  LET pieces == Pieces(doc.text)
                      IN  /\ Ink(FlattenSeq(pieces)) = Ink(doc.text)
                          /\ \A piece \in ToSet(pieces) :
                                /\ Len(piece) <= (IF IsCode(piece) THEN 2 ELSE 1) * ChunkSize
                                /\ Len(piece) >= MinChunk =>
                                      \E i \in DOMAIN doc.chunks : IsSuffix(piece, doc.chunks[i].text)
                          /\ \A segment \in ToSet(Segments(doc.text)) :
                                IsCode(segment) /\ Len(segment) <= 2 * ChunkSize =>
                                    segment \in ToSet(pieces)
    BY DEF TextSurvives
  <2> DEFINE text == doc.text
             pieces == Pieces(text)
  <2>1. text \in Seq(Token) /\ Edges(text) /\ Inkless \subseteq Token
    BY TokenIs DEF IngestionInv, TextIsTyped
  <2>2. doc.chunks = Enriched(text, page.title)
    BY DEF IngestionInv, ChunksAreOfTheText
  <2> HIDE DEF text
  <2>3. /\ Without(FlattenSeq(pieces), Inkless) = Without(text, Inkless)
        /\ \A p \in ToSet(pieces) : Fits(p)
        /\ \A s \in ToSet(Segments(text)) :
              IsCode(s) /\ Len(s) <= 2 * ChunkSize => s \in ToSet(pieces)
    BY <2>1, PiecesAre
  <2>4. \A p \in ToSet(pieces) : Len(p) >= MinChunk =>
           \E i \in DOMAIN doc.chunks : IsSuffix(p, doc.chunks[i].text)
    BY <2>1, <2>2, EnrichedIs
  <2>5. \A t : Ink(t) = Without(t, Inkless)
    BY DEF Ink, Inkless
  <2> HIDE DEF pieces
  <2> QED  BY <2>3, <2>4, <2>5 DEF Fits, pieces, text
<1> QED  BY <1>1, IngestionHolds, PTL

\* The deduplication keeps the first of near-duplicates and drops nothing for the sake of what it
\* dropped; embed_chunks and _to_point give every chunk the vector of its own text, in whatever
\* order a batch is answered and wherever batches end; validate_embedded keeps out bad vectors
\* only: PointsAreTheirs, for any number of chunks, every hash and batch size.
THEOREM EachPointIsItsOwn == Spec => []PointsAreTheirs
<1>1. IngestionInv => PointsAreTheirs
  <2> SUFFICES ASSUME IngestionInv, stage = "stored" PROVE PointsAreTheirs
    BY DEF PointsAreTheirs
  <2> DEFINE unique == doc.unique
             embedded == doc.embedded
             L == Len(unique)
             item(i) == [chunk |-> unique[i], vector |-> Vector(EmbeddingText(unique[i]))]
  <2>1. /\ unique \in Seq(ToSet(doc.chunks)) /\ ToSet(unique) \subseteq ToSet(doc.chunks)
        /\ \A c \in ToSet(doc.chunks) :
              /\ Strip(c.text) # <<>>
              /\ c \notin ToSet(unique) <=> \E k \in ToSet(unique) : k.index < c.index /\ Near(k, c)
    BY UniqueIs
  <2>2. embedded = [i \in 1 .. L |-> item(i)]
    BY DEF IngestionInv, EmbeddedAreUnique, StoreIsEmbedded
  <2>3. store = {ToPoint(x) : x \in {y \in ToSet(embedded) : IsValid(y)}}
    BY DEF IngestionInv, StoreIsEmbedded
  <2>4. ToSet(unique) = {unique[i] : i \in 1 .. L}
    BY <2>1, ToSetType
  <2> HIDE DEF unique, embedded, L
  <2>5. ToSet(embedded) = {item(i) : i \in 1 .. L}
    BY <2>2 DEF ToSet
  <2>6. ASSUME NEW point \in store
        PROVE  \E chunk \in ToSet(unique) :
                  /\ point.index = chunk.index /\ point.text = chunk.text
                  /\ point.vector = Vector(EmbeddingText(chunk))
    <3>1. PICK i \in 1 .. L : point = ToPoint(item(i))
      BY <2>3, <2>5
    <3> QED  BY <2>4, <3>1 DEF ToPoint
  <2>7. ASSUME NEW chunk \in ToSet(unique), Vector(EmbeddingText(chunk)).finite
        PROVE  \E point \in store : point.index = chunk.index
    <3>1. PICK i \in 1 .. L : chunk = unique[i]
      BY <2>4
    <3>2. item(i) \in ToSet(embedded)
      BY <2>5
    <3>3. IsValid(item(i))
      BY <2>1, <2>7, <3>1 DEF IsValid
    <3>4. ToPoint(item(i)) \in store
      <4> HIDE DEF item
      <4> QED  BY <2>3, <3>2, <3>3
    <3>5. ToPoint(item(i)).index = chunk.index
      BY <3>1 DEF ToPoint
    <3> QED  BY <3>4, <3>5
  <2> QED  BY <2>1, <2>6, <2>7 DEF PointsAreTheirs, unique
<1> QED  BY <1>1, IngestionHolds, PTL

-----------------------------------------------------------------------------
(* Replies *)

\* The fields of the turn.
TurnIsARecord ==
    DOMAIN turn = {"question", "platform", "domains", "intent", "found", "passages", "reply",
                   "answer", "analysis"}

\* The inductive invariant of the replies.
RepliesInv == TurnIsARecord /\ RepliesAreKept

\* A specialist answers with nothing just if its model did, and with a rendered text only if its
\* analysis is an object: RepliesAreKept, for every question and catalogue of domains.
THEOREM RepliesKept == Spec => []RepliesAreKept
<1>1. Init => RepliesInv
  BY DEF Init, RepliesInv, TurnIsARecord, RepliesAreKept, NoTurn
<1>2. RepliesInv /\ [Next]_vars => RepliesInv'
  <2> SUFFICES ASSUME RepliesInv, [Next]_vars PROVE RepliesInv'
    OBVIOUS
  <2>0. TurnIsARecord
    BY DEF RepliesInv
  <2>1. ASSUME NEW intent, NEW reply, NEW answer, NEW analysis,
               Serves(intent), Draft(reply, answer, analysis),
               answer = "" <=> reply = "empty", answer = "rendered" => analysis = "object",
               analysis = "" <=> intent \in {"best_practice", "research"}
        PROVE  RepliesInv'
    <3>1. /\ turn.intent = intent
          /\ turn' = [turn EXCEPT !.reply = reply, !.answer = answer, !.analysis = analysis]
      BY <2>1 DEF Serves, Draft
    <3>2. /\ DOMAIN turn' = DOMAIN turn /\ turn'.answer = answer /\ turn'.analysis = analysis
          /\ turn'.intent = intent /\ turn'.reply = reply
      BY <2>0, <3>1 DEF TurnIsARecord
    <3> QED  BY <2>0, <2>1, <3>2 DEF RepliesInv, TurnIsARecord, RepliesAreKept
  <2>2. \A reply : Raw(reply) # "rendered" /\ (Raw(reply) = "" <=> reply = "empty")
    BY DEF Raw
  <2>3. ASSUME Fail PROVE RepliesInv'
    BY <2>0, <2>3 DEF Fail, RepliesInv, TurnIsARecord, RepliesAreKept
  <2>4. ASSUME NEW intent, NEW reply, Serves(intent), Unparsed(reply),
               intent \notin {"best_practice", "research"}
        PROVE  RepliesInv'
    BY <2>1, <2>2, <2>4 DEF Unparsed
  <2>5. ASSUME NEW intent, NEW reply, NEW rendered \in {"", "rendered"}, Serves(intent),
               ExtractJson(reply) = "object", Parsed(reply, rendered),
               intent \notin {"best_practice", "research"}
        PROVE  RepliesInv'
    <3>1. reply # "empty"
      BY <2>5 DEF ExtractJson
    <3>2. AnswerOf(rendered, reply) # ""
      BY <2>2, <3>1 DEF AnswerOf
    <3> QED  BY <2>1, <2>5, <3>1, <3>2 DEF Parsed
  <2>6. CASE BestPractices \/ Research
    BY <2>1, <2>2, <2>6 DEF BestPractices, Research
  <2>7. CASE BusinessAnalysis
    <3>1. Serves("business_analysis")
      BY <2>7 DEF BusinessAnalysis
    <3>2. PICK reply \in Replies :
             \/ Unparsed(reply)
             \/ ExtractJson(reply) = "object" /\ Parsed(reply, BusinessText(reply))
      BY <2>7 DEF BusinessAnalysis
    <3>3. BusinessText(reply) \in {"", "rendered"}
      BY DEF BusinessText
    <3> QED  BY <2>4, <2>5, <3>1, <3>2, <3>3
  <2>8. CASE MarketplaceAssessment \/ FeatureOverlap
    <3>1. PICK intent \in {"marketplace", "feature_overlap"} : Serves(intent)
      BY <2>8 DEF MarketplaceAssessment, FeatureOverlap
    <3>2. \/ Fail
          \/ \E reply \in Replies : Unparsed(reply)
          \/ \E reply \in Replies, rendered \in {"", "rendered"} :
                ExtractJson(reply) = "object" /\ Parsed(reply, rendered)
      <4>1. CASE MarketplaceAssessment
        <5>1. PICK reply \in Replies :
                 \/ Fail \/ Unparsed(reply)
                 \/ /\ ExtractJson(reply) = "object" /\ MarketplaceText(reply) # "raises"
                    /\ Parsed(reply, MarketplaceText(reply))
          BY <4>1 DEF MarketplaceAssessment
        <5>2. MarketplaceText(reply) \in {"raises", "rendered"}
          BY DEF MarketplaceText
        <5> QED  BY <5>1, <5>2
      <4>2. CASE FeatureOverlap
        <5>1. PICK reply \in Replies :
                 \/ Fail \/ Unparsed(reply)
                 \/ /\ ExtractJson(reply) = "object"
                    /\ OverlapText(reply, turn.domains) # "raises"
                    /\ Parsed(reply, OverlapText(reply, turn.domains))
          BY <4>2 DEF FeatureOverlap
        <5>2. OverlapText(reply, turn.domains) \in {"raises", "", "rendered"}
          BY DEF OverlapText
        <5> QED  BY <5>1, <5>2
      <4> QED  BY <2>8, <4>1, <4>2
    <3> QED  BY <2>3, <2>4, <2>5, <3>1, <3>2
  <2>9. CASE Render \/ ExtractText \/ Clean \/ NormalizeText \/ Chunk \/ DropDuplicates
               \/ EmbedBatch \/ EmbedFails \/ Index
    <3>1. turn' = turn /\ stage' # "drafted"
      <4>1. CASE EmbedBatch
        BY <4>1 DEF EmbedBatch
      <4> QED  BY <2>9, <4>1 DEF Render, ExtractText, Clean, NormalizeText, Chunk, DropDuplicates,
                                EmbedFails, Index, Reach
    <3> QED  BY <2>0, <3>1 DEF RepliesInv, TurnIsARecord, RepliesAreKept
  <2>10. CASE Ask \/ Detect \/ Route \/ Search \/ Rerank \/ Compress
    <3>1. stage' # "drafted"
      BY <2>10 DEF Ask, Detect, Route, Search, Rerank, Compress, Reach
    <3>2. DOMAIN turn' = DOMAIN turn
      BY <2>10 DEF Ask, Detect, Route, Search, Rerank, Compress
    <3> QED  BY <2>0, <3>1, <3>2 DEF RepliesInv, TurnIsARecord, RepliesAreKept
  <2>11. CASE UNCHANGED vars
    BY <2>11 DEF RepliesInv, TurnIsARecord, RepliesAreKept, vars
  <2> QED  BY <2>6, <2>7, <2>8, <2>9, <2>10, <2>11 DEF Next
<1>3. RepliesInv => RepliesAreKept
  BY DEF RepliesInv
<1> QED  BY <1>1, <1>2, <1>3, PTL DEF Spec

=============================================================================

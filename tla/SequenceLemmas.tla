--------------------------- MODULE SequenceLemmas ---------------------------
(***************************************************************************)
(* Lemmas about sequences and about operators of the community modules     *)
(* that the components are built from.                                     *)
(*                                                                         *)
(* What such an operator computes for every sequence is an induction. It   *)
(* is done here by a least counterexample: the set of the numbers for      *)
(* which the claim fails would have a least element, and has not.          *)
(***************************************************************************)
EXTENDS Integers, SequencesExt, SequenceTheorems, FiniteSetTheorems,
        WellFoundedInduction, TLAPS

(* A sequence, of whatever elements. *)
Sequence(s) == s \in Seq({ s[i] : i \in DOMAIN s })

(* A set of numbers has a least one. *)
LEMMA LeastNumber ==
    ASSUME NEW T \in SUBSET Nat, T # {}
    PROVE  \E x \in T : \A y \in T : x <= y
  <1>1. PICK x \in T : \A y \in T : << y, x >> \notin OpToRel(<, Nat)
    BY WFMin, NatLessThanWellFounded, Zenon
  <1>2. \A y \in T : ~ (y < x)
    BY <1>1, Zenon DEF OpToRel
  <1>3. ASSUME NEW y \in T PROVE x <= y
    <2>1. x \in Nat /\ y \in Nat /\ ~ (y < x)
      BY <1>2
    <2> QED
      BY <2>1
  <1> QED
    BY <1>3

(* A bounded set of numbers that is not empty has a greatest element.       *)
LEMMA GreatestNumber ==
    ASSUME NEW T \in SUBSET Nat, T # {}, NEW n \in Nat, \A x \in T : x <= n
    PROVE  \E x \in T : \A y \in T : x >= y
  <1> DEFINE U == { b \in Nat : \A x \in T : x <= b }
  <1>1. PICK b \in U : \A c \in U : b <= c
    <2>1. U \in SUBSET Nat /\ U # {}
      OBVIOUS
    <2> HIDE DEF U
    <2> QED
      BY <2>1, LeastNumber
  <1>2. b \in T
    <2>1. ASSUME b \notin T PROVE FALSE
      <3>1. \A x \in T : x \in Nat /\ b \in Nat /\ x <= b /\ x # b
        BY <2>1
      <3>2. b # 0
        <4>1. PICK x \in T : TRUE
          OBVIOUS
        <4> QED
          BY <3>1, <4>1
      <3>3. b - 1 \in U
        BY <3>1, <3>2
      <3> QED
        BY <1>1, <3>3
    <2> QED
      BY <2>1
  <1> QED
    BY <1>2

(* Finitely many numbers have an upper bound. *)
LEMMA NumbersBounded ==
    ASSUME NEW n \in Nat, NEW f, \A i \in 1 .. n : f[i] \in Nat
    PROVE  \E b \in Nat : \A i \in 1 .. n : f[i] <= b
  <1> DEFINE T == { k \in 0 .. n : ~ \E b \in Nat : \A i \in 1 .. k : f[i] <= b }
  <1>1. ASSUME T # {} PROVE FALSE
    <2>1. PICK k \in T : \A y \in T : k <= y
      <3>1. T \in SUBSET Nat
        OBVIOUS
      <3> HIDE DEF T
      <3> QED
        BY <1>1, <3>1, LeastNumber
    <2>2. k \in 0 .. n /\ ~ \E b \in Nat : \A i \in 1 .. k : f[i] <= b
      OBVIOUS
    <2>3. k # 0
      BY <2>2
    <2>4. k - 1 \in 0 .. n /\ k - 1 \notin T
      <3>1. k - 1 \in 0 .. n /\ ~ (k <= k - 1)
        BY <2>2, <2>3
      <3> HIDE DEF T
      <3> QED
        BY <2>1, <3>1
    <2>5. PICK b \in Nat : \A i \in 1 .. k - 1 : f[i] <= b
      BY <2>4
    <2> DEFINE c == IF f[k] <= b THEN b ELSE f[k]
    <2>6. f[k] \in Nat
      BY <2>2, <2>3
    <2>7. \A i \in 1 .. k : (i \in 1 .. k - 1 \/ i = k) /\ f[i] \in Nat
      BY <2>2
    <2>8. c \in Nat /\ \A i \in 1 .. k : f[i] <= c
      BY <2>5, <2>6, <2>7
    <2> QED
      BY <2>2, <2>8
  <1>2. T = {}
    BY <1>1
  <1>3. n \in 0 .. n
    OBVIOUS
  <1> QED
    BY <1>2, <1>3

(* Sequences, whatever their elements are. *)
LEMMA SequenceDomain ==
    ASSUME NEW s, Sequence(s)
    PROVE  Len(s) \in Nat /\ DOMAIN s = 1 .. Len(s)
  BY DEF Sequence

(* A sequence of elements of a set is a sequence.                           *)
LEMMA SequenceIs ==
    ASSUME NEW s, NEW E, s \in Seq(E)
    PROVE  Sequence(s)
  <1> DEFINE F == { s[i] : i \in DOMAIN s }
  <1>1. /\ Len(s) \in Nat /\ DOMAIN s = 1 .. Len(s) /\ s \in [ 1 .. Len(s) -> E ]
    OBVIOUS
  <1>2. s = [ i \in 1 .. Len(s) |-> s[i] ] /\ \A i \in 1 .. Len(s) : s[i] \in F
    BY <1>1
  <1> HIDE DEF F
  <1>3. s \in [ 1 .. Len(s) -> F ]
    BY <1>2
  <1>4. s \in Seq(F)
    BY <1>1, <1>3
  <1> QED
    BY <1>4, Zenon DEF F, Sequence

(* A function on 1 .. n is a sequence of n elements.                        *)
LEMMA SequenceMade ==
    ASSUME NEW s, NEW n \in Nat, s = [ i \in 1 .. n |-> s[i] ]
    PROVE  Sequence(s) /\ Len(s) = n
  <1>1. DOMAIN s = 1 .. n
    OBVIOUS
  <1>2. s \in [ 1 .. n -> { s[i] : i \in DOMAIN s } ]
    BY <1>1
  <1> QED
    BY <1>2 DEF Sequence

(* A sequence of one element.                                               *)
LEMMA SequenceOne ==
    ASSUME NEW x
    PROVE  Sequence(<< x >>) /\ Len(<< x >>) = 1 /\ << x >>[1] = x /\ DOMAIN << x >> = {1}
  <1>1. << x >> \in Seq({x}) /\ << x >>[1] = x /\ DOMAIN << x >> = {1}
    OBVIOUS
  <1> QED
    BY <1>1 DEF Sequence

(* The elements of s \o t are those of s, then those of t.                  *)
LEMMA SequenceConcat ==
    ASSUME NEW s, NEW t, Sequence(s), Sequence(t)
    PROVE  /\ Sequence(s \o t)
           /\ DOMAIN (s \o t) = 1 .. Len(s) + Len(t)
           /\ \A i \in DOMAIN s : (s \o t)[i] = s[i]
           /\ \A i \in DOMAIN t : (s \o t)[Len(s) + i] = t[i]
           /\ \A i \in DOMAIN (s \o t) \ DOMAIN s :
                /\ i - Len(s) \in DOMAIN t
                /\ (s \o t)[i] = t[i - Len(s)]
  <1> DEFINE E == { s[i] : i \in DOMAIN s } \cup { t[i] : i \in DOMAIN t }
             u == s \o t
  <1>1. s \in Seq(E) /\ t \in Seq(E)
    <2>1. Len(s) \in Nat /\ DOMAIN s = 1 .. Len(s) /\ s \in [ 1 .. Len(s) -> E ]
      BY DEF Sequence
    <2>2. Len(t) \in Nat /\ DOMAIN t = 1 .. Len(t) /\ t \in [ 1 .. Len(t) -> E ]
      BY DEF Sequence
    <2> QED
      BY <2>1, <2>2
  <1> HIDE DEF E
  <1>2. /\ u \in Seq(E) /\ Len(u) = Len(s) + Len(t)
        /\ DOMAIN u = 1 .. Len(s) + Len(t)
        /\ Len(s) \in Nat /\ Len(t) \in Nat
        /\ DOMAIN s = 1 .. Len(s) /\ DOMAIN t = 1 .. Len(t)
    BY <1>1
  <1>3. \A i \in DOMAIN s : u[i] = s[i]
    BY <1>1, <1>2
  <1>4. \A i \in 1 .. Len(s) + Len(t) : i > Len(s) => u[i] = t[i - Len(s)]
    BY <1>1, <1>2
  <1>5. Sequence(u)
    BY <1>2, SequenceIs
  <1> DEFINE n == Len(s)
             k == Len(t)
  <1> HIDE DEF u
  <1>6. \A i \in DOMAIN t : u[n + i] = t[i]
    <2>1. n \in Nat /\ k \in Nat /\ DOMAIN t = 1 .. k
      BY <1>2
    <2> HIDE DEF n, k
    <2>2. \A i \in 1 .. k : n + i \in 1 .. n + k /\ n + i > n /\ (n + i) - n = i
      BY <2>1
    <2>3. \A i \in 1 .. k : u[n + i] = t[(n + i) - n]
      BY <1>4, <2>2 DEF n, k
    <2> QED
      BY <2>1, <2>2, <2>3
  <1>7. \A i \in DOMAIN u \ DOMAIN s : i - n \in DOMAIN t /\ u[i] = t[i - n]
    <2>1. n \in Nat /\ k \in Nat /\ DOMAIN t = 1 .. k /\ DOMAIN s = 1 .. n /\ DOMAIN u = 1 .. n + k
      BY <1>2
    <2>2. \A i \in 1 .. n + k : i > n => u[i] = t[i - n]
      BY <1>4
    <2> HIDE DEF n, k
    <2> QED
      BY <2>1, <2>2
  <1> QED
    BY <1>2, <1>3, <1>5, <1>6, <1>7 DEF u

(* Append leaves the elements where they are and puts one behind them.      *)
LEMMA SequenceAppend ==
    ASSUME NEW s, NEW x, Sequence(s)
    PROVE  /\ Sequence(Append(s, x))
           /\ DOMAIN Append(s, x) = DOMAIN s \cup {Len(s) + 1}
           /\ Len(s) + 1 \notin DOMAIN s
           /\ \A i \in DOMAIN s : Append(s, x)[i] = s[i]
           /\ Append(s, x)[Len(s) + 1] = x
  <1> DEFINE E == { s[i] : i \in DOMAIN s } \cup {x}
  <1>1. Len(s) \in Nat /\ DOMAIN s = 1 .. Len(s) /\ s \in [ 1 .. Len(s) -> E ]
    BY DEF Sequence
  <1>2. s \in Seq(E) /\ x \in E
    BY <1>1
  <1> HIDE DEF E
  <1> DEFINE t == Append(s, x)
  <1>3. /\ t \in Seq(E) /\ Len(t) = Len(s) + 1
        /\ \A i \in 1 .. Len(s) : t[i] = s[i]
        /\ t[Len(s) + 1] = x
        /\ DOMAIN t = 1 .. Len(s) + 1
    BY <1>1, <1>2
  <1> HIDE DEF t
  <1>4. Sequence(t)
    BY <1>3, SequenceIs
  <1>5. DOMAIN t = DOMAIN s \cup {Len(s) + 1} /\ Len(s) + 1 \notin DOMAIN s
    BY <1>1, <1>3
  <1> QED
    BY <1>1, <1>3, <1>4, <1>5 DEF t

-----------------------------------------------------------------------------
(* FlattenSeq: the function it defines by recursion exists ... *)
Flattened(f, seqs, n) ==
    f = [ i \in 1 .. n |-> IF i = 1 THEN seqs[i] ELSE f[i - 1] \o seqs[i] ]

(* The recursive equations have a solution up to every length.              *)
LEMMA FlattenedExists ==
    ASSUME NEW seqs, NEW n \in Nat
    PROVE  \E f : Flattened(f, seqs, n)
  <1> DEFINE T == { k \in Nat : ~ \E f : Flattened(f, seqs, k) }
  <1>1. ASSUME T # {} PROVE FALSE
    <2>1. PICK k \in T : \A y \in T : k <= y
      BY <1>1, LeastNumber
    <2>2. k \in Nat /\ ~ \E f : Flattened(f, seqs, k)
      OBVIOUS
    <2>3. k # 0
      <3>1. Flattened([ i \in {} |-> i ], seqs, 0)
        BY DEF Flattened
      <3> QED
        BY <2>2, <3>1
    <2>4. k - 1 \in Nat /\ ~ (k - 1 \in T)
      BY <2>1, <2>2, <2>3
    <2>5. PICK g : Flattened(g, seqs, k - 1)
      BY <2>4
    <2> DEFINE f == [ i \in 1 .. k |-> IF i = 1 THEN seqs[i] ELSE g[i - 1] \o seqs[i] ]
    <2>6. \A i \in 1 .. k - 1 : f[i] = g[i]
      <3>1. \A i \in 1 .. k - 1 : g[i] = IF i = 1 THEN seqs[i] ELSE g[i - 1] \o seqs[i]
        BY <2>5 DEF Flattened
      <3>2. \A i \in 1 .. k - 1 : i \in 1 .. k
        BY <2>2
      <3> QED
        BY <3>1, <3>2
    <2> HIDE DEF f
    <2>7. \A i \in 1 .. k : i # 1 => f[i - 1] = g[i - 1]
      BY <2>2, <2>6
    <2>8. Flattened(f, seqs, k)
      <3>1. f = [ i \in 1 .. k |-> IF i = 1 THEN seqs[i] ELSE f[i - 1] \o seqs[i] ]
        BY <2>7 DEF f
      <3> QED
        BY <3>1 DEF Flattened
    <2> QED
      BY <2>2, <2>8
  <1> QED
    BY <1>1

(* FlattenSeq is what its recursive equations say.                          *)
LEMMA FlattenSeqIs ==
    ASSUME NEW seqs, Len(seqs) \in Nat \ {0}
    PROVE  \E f : /\ Flattened(f, seqs, Len(seqs))
                  /\ FlattenSeq(seqs) = f[Len(seqs)]
  <1> DEFINE flatten == CHOOSE f : Flattened(f, seqs, Len(seqs))
  <1>1. Flattened(flatten, seqs, Len(seqs))
    BY FlattenedExists
  <1>2. FlattenSeq(seqs) = flatten[Len(seqs)]
    BY DEF FlattenSeq, Flattened
  <1> QED
    BY <1>1, <1>2

(* It is of the type of its parts.                                          *)
LEMMA FlattenSeqType ==
    ASSUME NEW E, NEW seqs \in Seq(Seq(E))
    PROVE  FlattenSeq(seqs) \in Seq(E)
  <1>1. CASE Len(seqs) = 0
    BY <1>1 DEF FlattenSeq
  <1>2. CASE Len(seqs) # 0
    <2>1. PICK f : /\ Flattened(f, seqs, Len(seqs))
                   /\ FlattenSeq(seqs) = f[Len(seqs)]
      BY <1>2, FlattenSeqIs
    <2> DEFINE T == { i \in 1 .. Len(seqs) : f[i] \notin Seq(E) }
    <2>2. ASSUME T # {} PROVE FALSE
      <3>1. PICK k \in T : \A y \in T : k <= y
        <4>1. T \in SUBSET Nat
          OBVIOUS
        <4> HIDE DEF T
        <4> QED
          BY <2>2, <4>1, LeastNumber
      <3>2. f[k] = IF k = 1 THEN seqs[k] ELSE f[k - 1] \o seqs[k]
        BY <2>1 DEF Flattened
      <3>3. k = 1 \/ (k - 1 \in 1 .. Len(seqs) /\ k - 1 \notin T)
        BY <3>1
      <3>4. seqs[k] \in Seq(E)
        OBVIOUS
      <3>5. f[k] \in Seq(E)
        <4>1. CASE k = 1
          BY <3>2, <3>4, <4>1
        <4>2. CASE k # 1
          <5>1. f[k - 1] \in Seq(E)
            BY <3>3, <4>2
          <5> QED
            BY <3>2, <3>4, <4>2, <5>1
        <4> QED
          BY <4>1, <4>2
      <3> QED
        BY <3>5
    <2> QED
      BY <1>2, <2>1, <2>2
  <1> QED
    BY <1>1, <1>2

-----------------------------------------------------------------------------
(* Sequences in which each of some elements is once, and no other.          *)
Lists(s, S) ==
    /\ Sequence(s)
    /\ \A i \in DOMAIN s : s[i] \in S
    /\ \A x \in S : \E i \in DOMAIN s : s[i] = x
    /\ \A i, j \in DOMAIN s : s[i] = s[j] => i = j

(* The empty sequence lists nothing.                                        *)
LEMMA ListsNone == Lists(<< >>, {})
  <1>1. Sequence(<< >>) /\ DOMAIN << >> = {}
    BY DEF Sequence
  <1> QED
    BY <1>1 DEF Lists

(* Without its first element a sequence lists the rest.                     *)
LEMMA ListsTail ==
    ASSUME NEW s, NEW S, Lists(s, S), s # << >>
    PROVE  /\ Head(s) \in S
           /\ Lists(Tail(s), S \ {Head(s)})
  <1> DEFINE E == { s[i] : i \in DOMAIN s }
             t == Tail(s)
             n == Len(s)
  <1>1. s \in Seq(E) /\ n \in Nat /\ n # 0 /\ DOMAIN s = 1 .. n
    BY DEF Lists, Sequence
  <1> HIDE DEF E
  <1>2. /\ t \in Seq(E) /\ DOMAIN t = 1 .. n - 1
        /\ \A i \in 1 .. n - 1 : t[i] = s[i + 1]
        /\ Head(s) = s[1]
    BY <1>1
  <1>3. Sequence(t)
    BY <1>2, SequenceIs
  <1> HIDE DEF t, n
  <1>4. 1 \in DOMAIN s /\ Head(s) \in S
    BY <1>1, <1>2 DEF Lists
  <1>5. ASSUME NEW a \in DOMAIN t
        PROVE  a + 1 \in DOMAIN s /\ t[a] = s[a + 1] /\ t[a] \in S \ {Head(s)}
    <2>1. a + 1 \in DOMAIN s /\ t[a] = s[a + 1] /\ a + 1 # 1
      BY <1>1, <1>2
    <2> QED
      BY <1>2, <1>4, <2>1 DEF Lists
  <1>6. ASSUME NEW x \in S \ {Head(s)}
        PROVE  \E a \in DOMAIN t : t[a] = x
    <2>1. PICK b \in DOMAIN s : s[b] = x
      BY DEF Lists
    <2>2. b # 1
      BY <1>2, <2>1
    <2>3. b - 1 \in DOMAIN t /\ t[b - 1] = s[b]
      BY <1>1, <1>2, <2>2
    <2> QED
      BY <2>1, <2>3
  <1>7. ASSUME NEW a \in DOMAIN t, NEW b \in DOMAIN t, t[a] = t[b]
        PROVE  a = b
    <2>1. a + 1 = b + 1
      BY <1>5, <1>7 DEF Lists
    <2> QED
      BY <1>1, <1>2, <2>1
  <1>8. Lists(t, S \ {Head(s)})
    BY <1>3, <1>5, <1>6, <1>7 DEF Lists
  <1> QED
    BY <1>4, <1>8 DEF t

(* Sequences that list sets without a common element list the union.        *)
LEMMA ListsConcat ==
    ASSUME NEW s, NEW S, Lists(s, S), NEW t, NEW T, Lists(t, T), S \cap T = {}
    PROVE  Lists(s \o t, S \cup T)
  <1> DEFINE u == s \o t
             n == Len(s)
  <1>1. /\ Sequence(u)
        /\ DOMAIN u = 1 .. n + Len(t)
        /\ \A i \in DOMAIN s : u[i] = s[i]
        /\ \A i \in DOMAIN t : u[n + i] = t[i]
        /\ \A i \in DOMAIN u \ DOMAIN s : i - n \in DOMAIN t /\ u[i] = t[i - n]
    BY SequenceConcat DEF Lists
  <1>2. n \in Nat /\ Len(t) \in Nat /\ DOMAIN s = 1 .. n /\ DOMAIN t = 1 .. Len(t)
    BY SequenceDomain DEF Lists
  <1>3. /\ \A i \in DOMAIN s : i \in DOMAIN u
        /\ \A i \in DOMAIN t : n + i \in DOMAIN u
    BY <1>1, <1>2
  <1> HIDE DEF u, n
  <1>4. \A i \in DOMAIN u : u[i] \in S \cup T /\ (u[i] \in S <=> i \in DOMAIN s)
    <2> SUFFICES ASSUME NEW i \in DOMAIN u
                 PROVE  u[i] \in S \cup T /\ (u[i] \in S <=> i \in DOMAIN s)
      OBVIOUS
    <2>1. CASE i \in DOMAIN s
      BY <1>1, <2>1 DEF Lists
    <2>2. CASE i \notin DOMAIN s
      <3> DEFINE j == i - n
      <3>1. j \in DOMAIN t /\ u[i] = t[j]
        BY <1>1, <2>2
      <3> HIDE DEF j
      <3>2. u[i] \in T
        BY <3>1 DEF Lists
      <3> QED
        BY <2>2, <3>2
    <2> QED
      BY <2>1, <2>2
  <1>5. \A x \in S \cup T : \E i \in DOMAIN u : u[i] = x
    <2>1. \A x \in S : \E i \in DOMAIN u : u[i] = x
      BY <1>1, <1>3 DEF Lists
    <2>2. ASSUME NEW x \in T PROVE \E i \in DOMAIN u : u[i] = x
      <3>1. PICK j \in DOMAIN t : t[j] = x
        BY DEF Lists
      <3> DEFINE i == n + j
      <3>2. i \in DOMAIN u /\ u[i] = x
        BY <1>1, <1>3, <3>1
      <3> HIDE DEF i
      <3> QED
        BY <3>2
    <2> QED
      BY <2>1, <2>2
  <1>6. ASSUME NEW i \in DOMAIN u, NEW j \in DOMAIN u, u[i] = u[j]
        PROVE  i = j
    <2>1. CASE i \in DOMAIN s
      <3>1. j \in DOMAIN s
        BY <1>4, <1>6, <2>1
      <3> QED
        BY <1>1, <1>6, <2>1, <3>1 DEF Lists
    <2>2. CASE i \notin DOMAIN s
      <3> DEFINE k == i - n
                 l == j - n
      <3>1. j \notin DOMAIN s
        BY <1>4, <1>6, <2>2
      <3>2. k \in DOMAIN t /\ l \in DOMAIN t /\ t[k] = t[l]
        BY <1>1, <1>6, <2>2, <3>1
      <3> HIDE DEF k, l
      <3>3. k = l
        BY <3>2 DEF Lists
      <3> QED
        BY <1>1, <1>2, <3>3 DEF k, l
    <2> QED
      BY <2>1, <2>2
  <1>7. Lists(u, S \cup T)
    BY <1>1, <1>4, <1>5, <1>6 DEF Lists
  <1> QED
    BY <1>7 DEF u

(* So do the parts of a sequence of sequences.                              *)
LEMMA ListsFlattened ==
    ASSUME NEW seqs, Sequence(seqs), NEW S,
           \A i \in DOMAIN seqs : Lists(seqs[i], S[i]),
           \A i, j \in DOMAIN seqs : i # j => S[i] \cap S[j] = {}
    PROVE  Lists(FlattenSeq(seqs), UNION { S[i] : i \in DOMAIN seqs })
  <1> DEFINE n == Len(seqs)
             Upto(k) == UNION { S[i] : i \in 1 .. k }
  <1>1. n \in Nat /\ DOMAIN seqs = 1 .. n
    BY SequenceDomain
  <1>2. CASE n = 0
    <2>1. seqs = << >> /\ FlattenSeq(seqs) = seqs
      BY <1>2 DEF FlattenSeq, Sequence
    <2>2. UNION { S[i] : i \in DOMAIN seqs } = {}
      BY <1>1, <1>2
    <2> QED
      BY <2>1, <2>2, ListsNone
  <1>3. CASE n # 0
    <2>1. PICK f : Flattened(f, seqs, n) /\ FlattenSeq(seqs) = f[n]
      BY <1>1, <1>3, FlattenSeqIs
    <2> DEFINE T == { k \in 1 .. n : ~ Lists(f[k], Upto(k)) }
    <2>2. ASSUME T # {} PROVE FALSE
      <3>1. PICK k \in T : \A y \in T : k <= y
        <4>1. T \in SUBSET Nat
          BY <1>1
        <4> HIDE DEF T
        <4> QED
          BY <2>2, <4>1, LeastNumber
      <3>2. k \in 1 .. n /\ ~ Lists(f[k], Upto(k))
        OBVIOUS
      <3>3. f[k] = IF k = 1 THEN seqs[k] ELSE f[k - 1] \o seqs[k]
        BY <2>1, <3>2 DEF Flattened
      <3>4. Lists(seqs[k], S[k])
        BY <1>1, <3>2
      <3>5. CASE k = 1
        <4>1. Upto(1) = S[1]
          OBVIOUS
        <4> QED
          BY <3>2, <3>3, <3>4, <3>5, <4>1
      <3>6. CASE k # 1
        <4>1. k - 1 \in 1 .. n /\ ~ (k <= k - 1)
          BY <1>1, <3>2, <3>6
        <4>2. k - 1 \notin T
          <5> HIDE DEF T
          <5> QED
            BY <3>1, <4>1
        <4>3. Lists(f[k - 1], Upto(k - 1))
          BY <4>1, <4>2
        <4>4. Upto(k - 1) \cap S[k] = {}
          <5>1. \A i \in 1 .. k - 1 : i \in 1 .. n /\ i # k
            BY <1>1, <3>2
          <5> QED
            BY <1>1, <3>2, <5>1
        <4>5. Upto(k) = Upto(k - 1) \cup S[k]
          <5>1. 1 .. k = (1 .. k - 1) \cup {k}
            BY <1>1, <3>2
          <5> QED
            BY <5>1
        <4> HIDE DEF Upto
        <4>6. Lists(f[k - 1] \o seqs[k], Upto(k - 1) \cup S[k])
          BY <3>4, <4>3, <4>4, ListsConcat
        <4> QED
          BY <3>2, <3>3, <3>6, <4>5, <4>6
      <3> QED
        BY <3>5, <3>6
    <2>3. n \in 1 .. n
      BY <1>1, <1>3
    <2>4. Lists(f[n], Upto(n))
      BY <2>2, <2>3
    <2> QED
      BY <1>1, <2>1, <2>4
  <1> QED
    BY <1>2, <1>3

-----------------------------------------------------------------------------
(* FlattenSeq, one part after the other. *)
Prefix(s, k) == [ i \in 1 .. k |-> s[i] ]

(* The first k elements of s.                                               *)
LEMMA PrefixIs ==
    ASSUME NEW s, NEW k \in Nat
    PROVE  /\ Sequence(Prefix(s, k)) /\ Len(Prefix(s, k)) = k
           /\ DOMAIN Prefix(s, k) = 1 .. k
           /\ \A i \in 1 .. k : Prefix(s, k)[i] = s[i]
  <1> DEFINE p == Prefix(s, k)
  <1>1. p = [ i \in 1 .. k |-> p[i] ] /\ DOMAIN p = 1 .. k /\ \A i \in 1 .. k : p[i] = s[i]
    BY DEF Prefix
  <1> HIDE DEF p
  <1>2. Sequence(p) /\ Len(p) = k
    BY <1>1, SequenceMade
  <1> QED
    BY <1>1, <1>2 DEF p

(* A sequence is the prefix of its own length.                              *)
LEMMA PrefixAll ==
    ASSUME NEW s, Sequence(s)
    PROVE  Prefix(s, Len(s)) = s
  BY DEF Prefix, Sequence

(* The empty sequence.                                                      *)
LEMMA SequenceEmpty == Sequence(<< >>) /\ DOMAIN << >> = {} /\ Len(<< >>) = 0
  BY DEF Sequence

(* It is the only one of length 0.                                          *)
LEMMA EmptyIs ==
    ASSUME NEW s, Sequence(s), Len(s) = 0
    PROVE  s = << >>
  BY DEF Sequence

(* It can be left out on either side.                                       *)
LEMMA ConcatEmpty ==
    ASSUME NEW s, Sequence(s)
    PROVE  s \o << >> = s /\ << >> \o s = s
  BY DEF Sequence

(* No parts have no elements.                                               *)
LEMMA FlattenNone == FlattenSeq(<< >>) = << >>
  BY DEF FlattenSeq

(* Nor has the prefix of length 0.                                          *)
LEMMA PrefixNone ==
    ASSUME NEW s
    PROVE  Prefix(s, 0) = << >> /\ FlattenSeq(Prefix(s, 0)) = << >>
  <1>1. Prefix(s, 0) = << >>
    BY PrefixIs, EmptyIs
  <1> QED
    BY <1>1, FlattenNone

(* One part more puts its elements behind those of the parts before it.     *)
LEMMA FlattenPrefix ==
    ASSUME NEW seqs, NEW k \in Nat \ {0}, Sequence(seqs[k])
    PROVE  FlattenSeq(Prefix(seqs, k)) = FlattenSeq(Prefix(seqs, k - 1)) \o seqs[k]
  <1>1. PICK f : /\ Flattened(f, Prefix(seqs, k), k)
                 /\ FlattenSeq(Prefix(seqs, k)) = f[k]
    <2>1. Len(Prefix(seqs, k)) = k
      BY PrefixIs
    <2> QED
      BY <2>1, FlattenSeqIs
  <1>2. \A i \in 1 .. k : f[i] = IF i = 1 THEN seqs[i] ELSE f[i - 1] \o seqs[i]
    <2>1. \A i \in 1 .. k : Prefix(seqs, k)[i] = seqs[i]
      BY PrefixIs
    <2> QED
      BY <1>1, <2>1 DEF Flattened
  <1>3. CASE k = 1
    <2>1. Prefix(seqs, k - 1) = << >> /\ FlattenSeq(Prefix(seqs, k - 1)) = << >>
      BY <1>3, PrefixNone
    <2>2. f[1] = seqs[1]
      BY <1>2, <1>3
    <2> QED
      BY <1>1, <1>3, <2>1, <2>2, ConcatEmpty
  <1>4. CASE k # 1
    <2>0. k - 1 \in Nat \ {0} /\ k \in 1 .. k
      BY <1>4
    <2>1. PICK g : /\ Flattened(g, Prefix(seqs, k - 1), k - 1)
                   /\ FlattenSeq(Prefix(seqs, k - 1)) = g[k - 1]
      <3>1. Len(Prefix(seqs, k - 1)) = k - 1
        BY <2>0, PrefixIs
      <3> QED
        BY <2>0, <3>1, FlattenSeqIs
    <2>2. \A i \in 1 .. k - 1 : g[i] = IF i = 1 THEN seqs[i] ELSE g[i - 1] \o seqs[i]
      <3>1. \A i \in 1 .. k - 1 : Prefix(seqs, k - 1)[i] = seqs[i]
        BY <2>0, PrefixIs
      <3> QED
        BY <2>1, <3>1 DEF Flattened
    <2> DEFINE T == { i \in 1 .. k - 1 : f[i] # g[i] }
    <2>3. T = {}
      <3>1. ASSUME T # {} PROVE FALSE
        <4>1. PICK m \in T : \A y \in T : m <= y
          <5>1. T \in SUBSET Nat
            OBVIOUS
          <5> HIDE DEF T
          <5> QED
            BY <3>1, <5>1, LeastNumber
        <4>2. m \in 1 .. k - 1 /\ f[m] # g[m] /\ m \in 1 .. k
          OBVIOUS
        <4>3. m # 1
          BY <1>2, <2>2, <4>2
        <4>4. m - 1 \in 1 .. k - 1 /\ ~ (m <= m - 1)
          BY <4>2, <4>3
        <4>5. f[m - 1] = g[m - 1]
          BY <4>1, <4>4
        <4>6. f[m] = f[m - 1] \o seqs[m] /\ g[m] = g[m - 1] \o seqs[m]
          BY <1>2, <2>2, <4>2, <4>3
        <4> QED
          BY <4>2, <4>5, <4>6
      <3> QED
        BY <3>1
    <2>4. f[k - 1] = g[k - 1]
      <3>1. k - 1 \in 1 .. k - 1
        BY <2>0
      <3> QED
        BY <2>3, <3>1
    <2>5. f[k] = f[k - 1] \o seqs[k]
      BY <1>2, <1>4, <2>0
    <2> QED
      BY <1>1, <2>1, <2>4, <2>5
  <1> QED
    BY <1>3, <1>4

(* A sequence of sequences, of whatever elements. *)
Sequences(seqs) == Sequence(seqs) /\ \A i \in DOMAIN seqs : Sequence(seqs[i])

(* The parts of every prefix, one after the other, are a sequence.          *)
LEMMA FlattenLists ==
    ASSUME NEW seqs, Sequences(seqs)
    PROVE  /\ Sequence(FlattenSeq(seqs))
           /\ \A k \in 0 .. Len(seqs) : Sequence(FlattenSeq(Prefix(seqs, k)))
  <1> DEFINE n == Len(seqs)
             T == { k \in 0 .. n : ~ Sequence(FlattenSeq(Prefix(seqs, k))) }
  <1>1. n \in Nat /\ DOMAIN seqs = 1 .. n
    BY SequenceDomain DEF Sequences
  <1>2. T = {}
    <2>1. ASSUME T # {} PROVE FALSE
      <3>1. PICK k \in T : \A y \in T : k <= y
        <4>1. T \in SUBSET Nat
          BY <1>1
        <4> HIDE DEF T
        <4> QED
          BY <2>1, <4>1, LeastNumber
      <3>2. k \in 0 .. n /\ ~ Sequence(FlattenSeq(Prefix(seqs, k)))
        OBVIOUS
      <3>3. k # 0
        BY <3>2, PrefixNone, SequenceEmpty
      <3>4. k - 1 \in 0 .. n /\ ~ (k <= k - 1) /\ k \in 1 .. n /\ k \in Nat \ {0}
        BY <1>1, <3>2, <3>3
      <3>5. Sequence(FlattenSeq(Prefix(seqs, k - 1)))
        BY <3>1, <3>4
      <3>6. Sequence(seqs[k])
        BY <1>1, <3>4 DEF Sequences
      <3>7. FlattenSeq(Prefix(seqs, k)) = FlattenSeq(Prefix(seqs, k - 1)) \o seqs[k]
        BY <3>4, <3>6, FlattenPrefix
      <3> HIDE DEF T, n
      <3> QED
        BY <3>2, <3>5, <3>6, <3>7, SequenceConcat
    <2> QED
      BY <2>1
  <1>3. Prefix(seqs, n) = seqs
    BY PrefixAll DEF Sequences
  <1>4. \A k \in 0 .. n : Sequence(FlattenSeq(Prefix(seqs, k)))
    BY <1>2
  <1>5. n \in 0 .. n
    BY <1>1
  <1> QED
    BY <1>3, <1>4, <1>5

(* A sequence whose elements are in E is one over E.                        *)
LEMMA SequenceWider ==
    ASSUME NEW s, Sequence(s), NEW E, \A i \in DOMAIN s : s[i] \in E
    PROVE  s \in Seq(E)
  <1>1. Len(s) \in Nat /\ DOMAIN s = 1 .. Len(s) /\ s \in [ 1 .. Len(s) -> E ]
    BY DEF Sequence
  <1> QED
    BY <1>1

(* It does not matter how the concatenations of a, b and c are nested.      *)
Associates(a, b, c) == a \o (b \o c) = (a \o b) \o c

(* How concatenations are nested does not matter.                           *)
LEMMA SequenceAssociative ==
    ASSUME NEW a, NEW b, NEW c, Sequence(a), Sequence(b), Sequence(c)
    PROVE  Associates(a, b, c)
  <1> DEFINE E == { a[i] : i \in DOMAIN a } \cup { b[i] : i \in DOMAIN b } \cup { c[i] : i \in DOMAIN c }
  <1>1. /\ \A i \in DOMAIN a : a[i] \in E
        /\ \A i \in DOMAIN b : b[i] \in E
        /\ \A i \in DOMAIN c : c[i] \in E
    BY Zenon
  <1> HIDE DEF E
  <1>2. a \in Seq(E) /\ b \in Seq(E) /\ c \in Seq(E)
    BY <1>1, SequenceWider
  <1>3. (a \o b) \o c = a \o (b \o c)
    BY <1>2, ConcatAssociative
  <1> QED
    BY <1>3 DEF Associates

(* The elements of the parts of s and t are those of s, then those of t.    *)
LEMMA FlattenConcat ==
    ASSUME NEW s, NEW t, Sequences(s), Sequences(t)
    PROVE  /\ Sequences(s \o t)
           /\ FlattenSeq(s \o t) = FlattenSeq(s) \o FlattenSeq(t)
  <1> DEFINE u == s \o t
             n == Len(s)
             m == Len(t)
             T == { k \in 0 .. m : FlattenSeq(Prefix(u, n + k))
                                     # FlattenSeq(s) \o FlattenSeq(Prefix(t, k)) }
  <1>1. /\ n \in Nat /\ m \in Nat /\ DOMAIN s = 1 .. n /\ DOMAIN t = 1 .. m
        /\ Sequence(u) /\ DOMAIN u = 1 .. n + m
        /\ \A i \in 1 .. n : u[i] = s[i]
        /\ \A i \in 1 .. m : u[n + i] = t[i]
    BY SequenceConcat, SequenceDomain DEF Sequences
  <1>2. Sequences(u)
    <2>1. ASSUME NEW i \in 1 .. n + m PROVE Sequence(u[i])
      <3>1. CASE i <= n
        BY <1>1, <3>1 DEF Sequences
      <3>2. CASE ~ (i <= n)
        <4>1. i - n \in 1 .. m /\ n + (i - n) = i
          BY <1>1, <3>2
        <4> HIDE DEF u, n, m
        <4>2. u[i] = t[i - n]
          BY <1>1, <4>1
        <4> QED
          BY <1>1, <4>1, <4>2 DEF Sequences
      <3> QED
        BY <3>1, <3>2
    <2> QED
      BY <1>1, <2>1 DEF Sequences
  <1>3. Prefix(u, n) = s
    <2>1. Prefix(u, n) = Prefix(s, n)
      BY <1>1 DEF Prefix
    <2> QED
      BY <2>1, PrefixAll DEF Sequences
  <1>4. Prefix(u, n + m) = u /\ Prefix(t, m) = t
    <2>1. Prefix(t, m) = t
      BY PrefixAll DEF Sequences
    <2>2. Prefix(u, Len(u)) = u /\ Len(u) = n + m
      <3>1. Len(u) \in Nat /\ 1 .. Len(u) = 1 .. n + m
        BY <1>1, SequenceDomain
      <3>2. Len(u) = n + m
        <4> HIDE DEF u, n, m
        <4> QED
          BY <1>1, <3>1
      <3> QED
        BY <1>1, <3>2, PrefixAll
    <2> QED
      BY <2>1, <2>2
  <1>5. Sequence(FlattenSeq(s)) /\ Sequence(FlattenSeq(t))
    BY FlattenLists
  <1>50. \A k \in 0 .. m : Sequence(FlattenSeq(Prefix(t, k)))
    BY FlattenLists
  <1> HIDE DEF u, n, m
  <1>6. T = {}
    <2>1. ASSUME T # {} PROVE FALSE
      <3>1. PICK k \in T : \A y \in T : k <= y
        <4>1. T \in SUBSET Nat
          BY <1>1
        <4> HIDE DEF T
        <4> QED
          BY <2>1, <4>1, LeastNumber
      <3>2. k \in 0 .. m /\ FlattenSeq(Prefix(u, n + k)) # FlattenSeq(s) \o FlattenSeq(Prefix(t, k))
        OBVIOUS
      <3>3. k # 0
        <4>1. n + 0 = n
          BY <1>1
        <4> QED
          BY <1>3, <1>5, <3>2, <4>1, PrefixNone, ConcatEmpty
      <3>4. /\ k - 1 \in 0 .. m /\ ~ (k <= k - 1) /\ k \in 1 .. m /\ k \in Nat \ {0}
            /\ n + k \in Nat \ {0} /\ n + k - 1 = n + (k - 1) /\ n + k \in 1 .. n + m
        BY <1>1, <3>2, <3>3
      <3>5. FlattenSeq(Prefix(u, n + (k - 1))) = FlattenSeq(s) \o FlattenSeq(Prefix(t, k - 1))
        BY <3>1, <3>4
      <3>6. Sequence(t[k]) /\ u[n + k] = t[k]
        BY <1>1, <3>4 DEF Sequences
      <3>7. FlattenSeq(Prefix(t, k)) = FlattenSeq(Prefix(t, k - 1)) \o t[k]
        BY <3>4, <3>6, FlattenPrefix
      <3>8. FlattenSeq(Prefix(u, n + k)) = FlattenSeq(Prefix(u, n + (k - 1))) \o t[k]
        <4> DEFINE j == n + k
        <4>1. j \in Nat \ {0} /\ Sequence(u[j])
          BY <3>4, <3>6
        <4> HIDE DEF j, T
        <4>2. FlattenSeq(Prefix(u, j)) = FlattenSeq(Prefix(u, j - 1)) \o u[j]
          BY <4>1, FlattenPrefix
        <4> QED
          BY <1>1, <3>4, <3>6, <4>2 DEF j
      <3>9. Sequence(FlattenSeq(Prefix(t, k - 1)))
        BY <1>50, <3>4
      <3> HIDE DEF T
      <3>10. FlattenSeq(s) \o (FlattenSeq(Prefix(t, k - 1)) \o t[k])
               = (FlattenSeq(s) \o FlattenSeq(Prefix(t, k - 1))) \o t[k]
        <4> DEFINE a == FlattenSeq(s)
                   b == FlattenSeq(Prefix(t, k - 1))
                   c == t[k]
        <4>1. Sequence(a) /\ Sequence(b) /\ Sequence(c)
          BY <1>5, <3>6, <3>9
        <4> HIDE DEF a, b, c
        <4>2. a \o (b \o c) = (a \o b) \o c
          <5>1. Associates(a, b, c)
            BY <4>1, SequenceAssociative
          <5> QED
            BY <5>1, Zenon DEF Associates
        <4> QED
          BY <4>2 DEF a, b, c
      <3> QED
        BY <3>2, <3>5, <3>7, <3>8, <3>10
    <2> QED
      BY <2>1
  <1>7. m \in 0 .. m
    BY <1>1
  <1>8. FlattenSeq(Prefix(u, n + m)) = FlattenSeq(s) \o FlattenSeq(Prefix(t, m))
    BY <1>6, <1>7
  <1> QED
    BY <1>2, <1>4, <1>8 DEF u

(* The elements of the whole are elements of its parts.                     *)
LEMMA FlattenElements ==
    ASSUME NEW seqs, Sequences(seqs), NEW E,
           \A i \in DOMAIN seqs : \A j \in DOMAIN seqs[i] : seqs[i][j] \in E
    PROVE  /\ FlattenSeq(seqs) \in Seq(E)
           /\ \A k \in 0 .. Len(seqs) : FlattenSeq(Prefix(seqs, k)) \in Seq(E)
  <1>1. Len(seqs) \in Nat /\ DOMAIN seqs = 1 .. Len(seqs)
    BY SequenceDomain DEF Sequences
  <1>2. \A i \in 1 .. Len(seqs) : seqs[i] \in Seq(E)
    BY <1>1, SequenceWider DEF Sequences
  <1>3. ASSUME NEW k \in 0 .. Len(seqs)
        PROVE  FlattenSeq(Prefix(seqs, k)) \in Seq(E)
    <2>1. k \in Nat /\ \A i \in 1 .. k : i \in 1 .. Len(seqs)
      BY <1>1
    <2>2. Prefix(seqs, k) \in Seq(Seq(E))
      BY <1>2, <2>1, PrefixIs, SequenceWider
    <2> QED
      BY <2>2, FlattenSeqType
  <1>4. seqs = Prefix(seqs, Len(seqs))
    BY PrefixAll DEF Sequences
  <1> QED
    BY <1>1, <1>3, <1>4

(* A single part is the whole.                                              *)
LEMMA FlattenOne ==
    ASSUME NEW x, Sequence(x)
    PROVE  FlattenSeq(<< x >>) = x
  <1>1. Sequence(<< x >>) /\ Len(<< x >>) = 1 /\ << x >>[1] = x
    BY SequenceOne
  <1>2. Prefix(<< x >>, 1) = << x >>
    BY <1>1, PrefixAll
  <1> DEFINE s == << x >>
             k == 1
  <1>3. k \in Nat \ {0} /\ Sequence(s[k]) /\ s[k] = x /\ k - 1 = 0 /\ k = 1
    BY <1>1
  <1> HIDE DEF s, k
  <1>4. FlattenSeq(Prefix(s, k)) = FlattenSeq(Prefix(s, k - 1)) \o s[k]
    BY <1>3, FlattenPrefix
  <1> QED
    BY <1>2, <1>3, <1>4, PrefixNone, ConcatEmpty DEF s

(* Sequences with the same elements at the same places are equal.           *)
LEMMA SequenceEqual ==
    ASSUME NEW s, NEW t, Sequence(s), Sequence(t), DOMAIN s = DOMAIN t,
           \A i \in DOMAIN s : s[i] = t[i]
    PROVE  s = t
  BY DEF Sequence

(* Parts of one element each give the sequence of these elements.           *)
LEMMA FlattenOnes ==
    ASSUME NEW s, Sequence(s)
    PROVE  FlattenSeq([ i \in DOMAIN s |-> << s[i] >> ]) = s
  <1> DEFINE n == Len(s)
             ss == [ i \in 1 .. n |-> << s[i] >> ]
             T == { k \in 0 .. n : FlattenSeq(Prefix(ss, k)) # Prefix(s, k) }
  <1>1. n \in Nat /\ DOMAIN s = 1 .. n /\ DOMAIN ss = 1 .. n
    BY SequenceDomain
  <1>2. \A i \in 1 .. n : ss[i] = << s[i] >>
    OBVIOUS
  <1>3. Sequence(ss) /\ Len(ss) = n
    <2>1. ss = [ i \in 1 .. n |-> ss[i] ]
      OBVIOUS
    <2> HIDE DEF ss, n
    <2> QED
      BY <1>1, <2>1, SequenceMade
  <1> HIDE DEF ss, n
  <1>4. T = {}
    <2>1. ASSUME T # {} PROVE FALSE
      <3>1. PICK k \in T : \A y \in T : k <= y
        <4>1. T \in SUBSET Nat
          BY <1>1
        <4> HIDE DEF T
        <4> QED
          BY <2>1, <4>1, LeastNumber
      <3>2. k \in 0 .. n /\ FlattenSeq(Prefix(ss, k)) # Prefix(s, k)
        OBVIOUS
      <3>3. k # 0
        BY <3>2, PrefixNone
      <3>4. k - 1 \in 0 .. n /\ ~ (k <= k - 1) /\ k \in 1 .. n /\ k \in Nat \ {0} /\ k - 1 \in Nat
        BY <1>1, <3>2, <3>3
      <3>5. FlattenSeq(Prefix(ss, k - 1)) = Prefix(s, k - 1)
        BY <3>1, <3>4
      <3>6. Sequence(ss[k])
        BY <1>2, <3>4, SequenceOne
      <3>7. FlattenSeq(Prefix(ss, k)) = Prefix(s, k - 1) \o << s[k] >>
        BY <1>2, <3>4, <3>5, <3>6, FlattenPrefix
      <3>8. Prefix(s, k) = Prefix(s, k - 1) \o << s[k] >>
        <4> DEFINE p == Prefix(s, k - 1)
                   q == << s[k] >>
                   r == Prefix(s, k)
        <4>1. /\ Sequence(p) /\ Len(p) = k - 1 /\ DOMAIN p = 1 .. k - 1
              /\ \A i \in 1 .. k - 1 : p[i] = s[i]
          BY <3>4, PrefixIs
        <4>2. Sequence(q) /\ Len(q) = 1 /\ q[1] = s[k] /\ DOMAIN q = {1}
          BY SequenceOne
        <4>3. /\ Sequence(r) /\ DOMAIN r = 1 .. k
              /\ \A i \in 1 .. k : r[i] = s[i]
          BY <3>4, PrefixIs
        <4> HIDE DEF p, q, r
        <4>4. /\ Sequence(p \o q) /\ DOMAIN (p \o q) = 1 .. (k - 1) + 1
              /\ \A i \in DOMAIN p : (p \o q)[i] = p[i]
              /\ (p \o q)[(k - 1) + 1] = q[1]
          <5>1. /\ Sequence(p \o q) /\ DOMAIN (p \o q) = 1 .. Len(p) + Len(q)
                /\ \A i \in DOMAIN p : (p \o q)[i] = p[i]
                /\ \A i \in DOMAIN q : (p \o q)[Len(p) + i] = q[i]
            BY <4>1, <4>2, SequenceConcat
          <5>2. (p \o q)[Len(p) + 1] = q[1]
            BY <4>2, <5>1
          <5> QED
            BY <4>1, <4>2, <5>1, <5>2
        <4>5. (k - 1) + 1 = k /\ \A i \in 1 .. k : i \in 1 .. k - 1 \/ i = k
          BY <3>4
        <4>6. \A i \in 1 .. k : (p \o q)[i] = r[i]
          BY <4>1, <4>2, <4>3, <4>4, <4>5
        <4>7. p \o q = r
          BY <4>3, <4>4, <4>5, <4>6, SequenceEqual
        <4> QED
          BY <4>7 DEF p, q, r
      <3> QED
        BY <3>2, <3>7, <3>8
    <2> QED
      BY <2>1
  <1>5. n \in 0 .. n
    BY <1>1
  <1>6. Prefix(ss, n) = ss /\ Prefix(s, n) = s
    BY <1>3, PrefixAll DEF n
  <1>7. FlattenSeq(ss) = s
    BY <1>4, <1>5, <1>6
  <1> QED
    BY <1>1, <1>7 DEF ss

(* What is made of each element of a sequence, one after the other. *)
Gathered(s, f) == FlattenSeq([ i \in DOMAIN s |-> f[s[i]] ])

(* Nothing is gathered from the empty sequence.                             *)
LEMMA GatheredNone ==
    ASSUME NEW f
    PROVE  Gathered(<< >>, f) = << >>
  <1> DEFINE t == [ i \in DOMAIN << >> |-> f[<< >>[i]] ]
  <1>1. t = [ i \in 1 .. 0 |-> t[i] ]
    BY SequenceEmpty
  <1> HIDE DEF t
  <1>2. t = << >>
    BY <1>1, SequenceMade, EmptyIs
  <1> QED
    BY <1>2, FlattenNone DEF Gathered, t

(* What is gathered from a sequence is a sequence.                          *)
LEMMA GatheredIs ==
    ASSUME NEW s, Sequence(s), NEW f, \A i \in DOMAIN s : Sequence(f[s[i]])
    PROVE  /\ Sequences([ i \in DOMAIN s |-> f[s[i]] ])
           /\ Sequence(Gathered(s, f))
  <1> DEFINE t == [ i \in DOMAIN s |-> f[s[i]] ]
  <1>1. Len(s) \in Nat /\ DOMAIN s = 1 .. Len(s)
    BY SequenceDomain
  <1>2. t = [ i \in 1 .. Len(s) |-> t[i] ] /\ DOMAIN t = DOMAIN s /\ \A i \in DOMAIN s : t[i] = f[s[i]]
    BY <1>1
  <1> HIDE DEF t
  <1>3. Sequences(t)
    BY <1>1, <1>2, SequenceMade DEF Sequences
  <1> QED
    BY <1>3, FlattenLists DEF t, Gathered

(* From s \o t is gathered what is gathered from s, then from t.            *)
LEMMA GatheredConcat ==
    ASSUME NEW s, Sequence(s), NEW t, Sequence(t), NEW f,
           \A i \in DOMAIN s : Sequence(f[s[i]]),
           \A i \in DOMAIN t : Sequence(f[t[i]])
    PROVE  Gathered(s \o t, f) = Gathered(s, f) \o Gathered(t, f)
  <1> DEFINE u == s \o t
             x == [ i \in DOMAIN s |-> f[s[i]] ]
             y == [ i \in DOMAIN t |-> f[t[i]] ]
             z == [ i \in DOMAIN u |-> f[u[i]] ]
             n == Len(s)
             m == Len(t)
  <1>1. /\ n \in Nat /\ m \in Nat /\ DOMAIN s = 1 .. n /\ DOMAIN t = 1 .. m
        /\ Sequence(u) /\ DOMAIN u = 1 .. n + m
        /\ \A i \in 1 .. n : u[i] = s[i]
        /\ \A i \in 1 .. m : u[n + i] = t[i]
        /\ \A i \in DOMAIN u \ DOMAIN s : i - n \in DOMAIN t /\ u[i] = t[i - n]
    BY SequenceConcat, SequenceDomain
  <1>2. Sequences(x) /\ Sequences(y)
    BY GatheredIs
  <1> HIDE DEF u, n, m
  <1>3. /\ DOMAIN x = 1 .. n /\ DOMAIN y = 1 .. m /\ DOMAIN z = 1 .. n + m
        /\ \A i \in 1 .. n : x[i] = f[s[i]]
        /\ \A i \in 1 .. m : y[i] = f[t[i]]
        /\ \A i \in 1 .. n + m : z[i] = f[u[i]]
    BY <1>1
  <1>4. z = [ i \in 1 .. n + m |-> z[i] ]
    BY <1>1
  <1> HIDE DEF x, y, z
  <1>5. Len(x) = n /\ Len(y) = m
    <2>1. Len(x) \in Nat /\ 1 .. Len(x) = 1 .. n /\ Len(y) \in Nat /\ 1 .. Len(y) = 1 .. m
      BY <1>2, <1>3, SequenceDomain DEF Sequences
    <2> QED
      BY <1>1, <2>1
  <1>6. Sequence(z)
    <2>1. n + m \in Nat
      BY <1>1
    <2> QED
      BY <1>4, <2>1, SequenceMade
  <1>7. /\ Sequence(x \o y) /\ DOMAIN (x \o y) = 1 .. n + m
        /\ \A i \in 1 .. n : (x \o y)[i] = x[i]
        /\ \A i \in DOMAIN (x \o y) \ DOMAIN x :
                i - n \in DOMAIN y /\ (x \o y)[i] = y[i - n]
    BY <1>2, <1>3, <1>5, SequenceConcat DEF Sequences
  <1>8. ASSUME NEW i \in 1 .. n + m PROVE z[i] = (x \o y)[i]
    <2>1. CASE i \in 1 .. n
      BY <1>1, <1>3, <1>7, <2>1
    <2>2. CASE i \notin 1 .. n
      <3>1. i - n \in 1 .. m /\ u[i] = t[i - n]
        BY <1>1, <2>2
      <3>2. (x \o y)[i] = y[i - n]
        BY <1>3, <1>7, <2>2
      <3> QED
        BY <1>3, <3>1, <3>2
    <2> QED
      BY <2>1, <2>2
  <1>9. z = x \o y
    <2> DEFINE w == x \o y
    <2>1. Sequence(w) /\ DOMAIN z = DOMAIN w
      BY <1>3, <1>7
    <2>2. \A i \in DOMAIN z : z[i] = w[i]
      BY <1>3, <1>8
    <2> HIDE DEF w
    <2>3. z = w
      BY <1>6, <2>1, <2>2, SequenceEqual
    <2> QED
      BY <2>3 DEF w
  <1>10. FlattenSeq(z) = FlattenSeq(x) \o FlattenSeq(y)
    BY <1>2, <1>9, FlattenConcat
  <1> QED
    BY <1>10 DEF Gathered, x, y, z, u

(* Gathering from the whole is gathering from each part.                    *)
LEMMA GatheredFlattened ==
    ASSUME NEW seqs, Sequences(seqs), NEW f,
           \A i \in DOMAIN seqs : \A j \in DOMAIN seqs[i] : Sequence(f[seqs[i][j]])
    PROVE  /\ Gathered(FlattenSeq(seqs), f) = FlattenSeq([ i \in DOMAIN seqs |-> Gathered(seqs[i], f) ])
           /\ Sequences([ i \in DOMAIN seqs |-> Gathered(seqs[i], f) ])
           /\ Sequence(Gathered(FlattenSeq(seqs), f))
  <1> DEFINE n == Len(seqs)
             E == UNION { { seqs[i][j] : j \in DOMAIN seqs[i] } : i \in DOMAIN seqs }
             M == [ i \in DOMAIN seqs |-> Gathered(seqs[i], f) ]
             Upto(k) == FlattenSeq(Prefix(seqs, k))
             T == { k \in 0 .. n : Gathered(Upto(k), f) # FlattenSeq(Prefix(M, k)) }
  <1>1. n \in Nat /\ DOMAIN seqs = 1 .. n
    BY SequenceDomain DEF Sequences
  <1>2. \A x \in E : Sequence(f[x])
    OBVIOUS
  <1>3. \A i \in DOMAIN seqs : \A j \in DOMAIN seqs[i] : seqs[i][j] \in E
    OBVIOUS
  <1> HIDE DEF E
  <1>4. \A k \in 0 .. n : Upto(k) \in Seq(E) /\ Sequence(Upto(k)) /\ \A j \in DOMAIN Upto(k) : Upto(k)[j] \in E
    <2>1. \A k \in 0 .. n : Upto(k) \in Seq(E)
      BY <1>3, FlattenElements
    <2> QED
      BY <2>1, SequenceIs
  <1>5. \A i \in 1 .. n : Sequence(M[i]) /\ M[i] = Gathered(seqs[i], f)
    BY <1>1, GatheredIs DEF Sequences
  <1>6. Sequences(M) /\ Len(M) = n
    <2>1. M = [ i \in 1 .. n |-> M[i] ] /\ DOMAIN M = 1 .. n
      BY <1>1
    <2> HIDE DEF M, n
    <2> QED
      BY <1>1, <1>5, <2>1, SequenceMade DEF Sequences
  <1> HIDE DEF M, n, Upto
  <1>7. T = {}
    <2>1. ASSUME T # {} PROVE FALSE
      <3>1. PICK k \in T : \A y \in T : k <= y
        <4>1. T \in SUBSET Nat
          BY <1>1
        <4> HIDE DEF T
        <4> QED
          BY <2>1, <4>1, LeastNumber
      <3>2. k \in 0 .. n /\ Gathered(Upto(k), f) # FlattenSeq(Prefix(M, k))
        OBVIOUS
      <3>3. k # 0
        <4>1. Gathered(<< >>, f) = << >>
          BY GatheredNone
        <4> QED
          BY <3>2, <4>1, PrefixNone DEF Upto
      <3>4. k - 1 \in 0 .. n /\ ~ (k <= k - 1) /\ k \in 1 .. n /\ k \in Nat \ {0} /\ k - 1 \in Nat
        BY <1>1, <3>2, <3>3
      <3>5. Gathered(Upto(k - 1), f) = FlattenSeq(Prefix(M, k - 1))
        BY <3>1, <3>4
      <3>6. Sequence(seqs[k]) /\ Sequence(M[k])
        BY <1>1, <1>5, <3>4 DEF Sequences
      <3>7. Upto(k) = Upto(k - 1) \o seqs[k]
        BY <3>4, <3>6, FlattenPrefix DEF Upto
      <3>8. FlattenSeq(Prefix(M, k)) = FlattenSeq(Prefix(M, k - 1)) \o M[k]
        BY <3>4, <3>6, FlattenPrefix
      <3>9. Gathered(Upto(k - 1) \o seqs[k], f) = Gathered(Upto(k - 1), f) \o Gathered(seqs[k], f)
        <4>1. \A j \in DOMAIN seqs[k] : seqs[k][j] \in E
          BY <1>1, <1>3, <3>4
        <4>2. Sequence(Upto(k - 1)) /\ \A j \in DOMAIN Upto(k - 1) : Upto(k - 1)[j] \in E
          BY <1>4, <3>4
        <4> QED
          BY <1>2, <3>6, <4>1, <4>2, GatheredConcat
      <3> HIDE DEF T
      <3> QED
        BY <1>5, <3>2, <3>4, <3>5, <3>7, <3>8, <3>9
    <2> QED
      BY <2>1
  <1>8. n \in 0 .. n
    BY <1>1
  <1>9. Prefix(M, n) = M /\ Upto(n) = FlattenSeq(seqs)
    BY <1>6, PrefixAll DEF Upto, n, Sequences
  <1>10. Gathered(FlattenSeq(seqs), f) = FlattenSeq(M)
    BY <1>7, <1>8, <1>9
  <1>11. Sequence(FlattenSeq(M))
    BY <1>6, FlattenLists
  <1> QED
    BY <1>6, <1>10, <1>11 DEF M

(* Parts that are empty, and the only one that is not. *)
LEMMA FlattenOnly ==
    ASSUME NEW seqs, Sequences(seqs), NEW k \in DOMAIN seqs,
           \A i \in DOMAIN seqs : i # k => seqs[i] = << >>
    PROVE  FlattenSeq(seqs) = seqs[k]
  <1> DEFINE n == Len(seqs)
             T == { i \in 0 .. n : FlattenSeq(Prefix(seqs, i))
                                      # IF i < k THEN << >> ELSE seqs[k] }
  <1>1. n \in Nat /\ DOMAIN seqs = 1 .. n /\ Sequence(seqs[k])
    BY SequenceDomain DEF Sequences
  <1> HIDE DEF n
  <1>2. T = {}
    <2>1. ASSUME T # {} PROVE FALSE
      <3>1. PICK i \in T : \A y \in T : i <= y
        <4>1. T \in SUBSET Nat
          BY <1>1
        <4> HIDE DEF T
        <4> QED
          BY <2>1, <4>1, LeastNumber
      <3>2. i \in 0 .. n /\ FlattenSeq(Prefix(seqs, i)) # IF i < k THEN << >> ELSE seqs[k]
        OBVIOUS
      <3>3. i # 0
        BY <1>1, <3>2, PrefixNone
      <3>4. i - 1 \in 0 .. n /\ ~ (i <= i - 1) /\ i \in 1 .. n /\ i \in Nat \ {0}
        BY <1>1, <3>2, <3>3
      <3>5. FlattenSeq(Prefix(seqs, i - 1)) = IF i - 1 < k THEN << >> ELSE seqs[k]
        BY <3>1, <3>4
      <3>6. Sequence(seqs[i])
        BY <1>1, <3>4 DEF Sequences
      <3>7. FlattenSeq(Prefix(seqs, i)) = FlattenSeq(Prefix(seqs, i - 1)) \o seqs[i]
        BY <3>4, <3>6, FlattenPrefix
      <3> HIDE DEF T
      <3>8. CASE i < k
        <4>1. i # k /\ i - 1 < k /\ seqs[i] = << >>
          BY <1>1, <3>4, <3>8
        <4> QED
          BY <3>2, <3>5, <3>7, <3>8, <4>1, SequenceEmpty, ConcatEmpty
      <3>9. CASE i = k
        <4>1. i - 1 < k /\ ~ (i < k)
          BY <1>1, <3>4, <3>9
        <4> QED
          BY <3>2, <3>5, <3>6, <3>7, <3>9, <4>1, ConcatEmpty
      <3>10. CASE i > k
        <4>1. i # k /\ ~ (i - 1 < k) /\ ~ (i < k) /\ seqs[i] = << >>
          BY <1>1, <3>4, <3>10
        <4> QED
          BY <1>1, <3>2, <3>5, <3>7, <4>1, ConcatEmpty
      <3> QED
        BY <1>1, <3>4, <3>8, <3>9, <3>10
    <2> QED
      BY <2>1
  <1>3. n \in 0 .. n /\ ~ (n < k)
    BY <1>1
  <1>4. FlattenSeq(Prefix(seqs, n)) = seqs[k]
    BY <1>2, <1>3
  <1> QED
    BY <1>4, PrefixAll DEF n, Sequences

(* Parts without elements have none together.                               *)
LEMMA FlattenEmpty ==
    ASSUME NEW seqs, Sequence(seqs), \A i \in DOMAIN seqs : seqs[i] = << >>
    PROVE  FlattenSeq(seqs) = << >>
  <1>1. Sequences(seqs)
    BY SequenceEmpty DEF Sequences
  <1>2. CASE DOMAIN seqs = {}
    <2>1. Len(seqs) = 0
      <3>1. Len(seqs) \in Nat /\ 1 .. Len(seqs) = {}
        BY <1>2, SequenceDomain
      <3> QED
        BY <3>1
    <2> QED
      BY <2>1, EmptyIs, FlattenNone
  <1>3. CASE DOMAIN seqs # {}
    <2>1. PICK k \in DOMAIN seqs : TRUE
      BY <1>3
    <2> QED
      BY <1>1, <2>1, FlattenOnly
  <1> QED
    BY <1>2, <1>3

(* Where each element of flat comes from: the place q[j] of the part p[j]. *)
Places(seqs, n, flat, p, q) ==
    /\ \A j \in DOMAIN flat :
          p[j] \in 1 .. n /\ q[j] \in DOMAIN seqs[p[j]] /\ flat[j] = seqs[p[j]][q[j]]
    /\ \A j, k \in DOMAIN flat : j < k => p[j] <= p[k]
    /\ \A i \in 1 .. n : \A r \in DOMAIN seqs[i] :
          \E j \in DOMAIN flat : p[j] = i /\ q[j] = r
    /\ \A j, k \in DOMAIN flat : p[j] = p[k] /\ q[j] = q[k] => j = k

(* The places of the elements of k parts, from those of k - 1.              *)
LEMMA PlacesNext ==
    ASSUME NEW seqs, NEW k \in Nat \ {0}, Sequence(seqs[k]),
           NEW flat, Sequence(flat), NEW p, NEW q, Places(seqs, k - 1, flat, p, q)
    PROVE  \E u, v : Places(seqs, k, flat \o seqs[k], u, v)
  <1> DEFINE t == seqs[k]
             n == Len(flat)
             next == flat \o t
             u == [ j \in DOMAIN next |-> IF j \in DOMAIN flat THEN p[j] ELSE k ]
             v == [ j \in DOMAIN next |-> IF j \in DOMAIN flat THEN q[j] ELSE j - n ]
  <1>1. /\ n \in Nat /\ Len(t) \in Nat /\ DOMAIN flat = 1 .. n /\ DOMAIN t = 1 .. Len(t)
        /\ DOMAIN next = 1 .. n + Len(t)
        /\ \A j \in DOMAIN flat : next[j] = flat[j]
        /\ \A j \in DOMAIN t : next[n + j] = t[j]
        /\ \A j \in DOMAIN next \ DOMAIN flat : j - n \in DOMAIN t /\ next[j] = t[j - n]
    BY SequenceConcat, SequenceDomain
  <1>2. /\ \A j \in DOMAIN flat : j \in DOMAIN next
        /\ \A j \in DOMAIN next : j \in Nat
        /\ \A j \in DOMAIN t : n + j \in DOMAIN next /\ n + j \notin DOMAIN flat /\ (n + j) - n = j
    BY <1>1
  <1> HIDE DEF next, n, t
  <1>3. /\ \A j \in DOMAIN next : j \in DOMAIN flat => u[j] = p[j] /\ v[j] = q[j]
        /\ \A j \in DOMAIN next : j \notin DOMAIN flat => u[j] = k /\ v[j] = j - n
    OBVIOUS
  <1> HIDE DEF u, v
  <1>4. ASSUME NEW j \in DOMAIN flat
        PROVE  /\ p[j] \in 1 .. k - 1 /\ q[j] \in DOMAIN seqs[p[j]]
               /\ flat[j] = seqs[p[j]][q[j]]
    BY DEF Places
  <1>5. ASSUME NEW j \in DOMAIN next
        PROVE  u[j] \in 1 .. k /\ v[j] \in DOMAIN seqs[u[j]] /\ next[j] = seqs[u[j]][v[j]]
    <2>1. CASE j \in DOMAIN flat
      <3>1. p[j] \in 1 .. k
        BY <1>4, <2>1
      <3> QED
        BY <1>1, <1>3, <1>4, <2>1, <3>1
    <2>2. CASE j \notin DOMAIN flat
      <3>1. j - n \in DOMAIN t /\ next[j] = t[j - n] /\ u[j] = k /\ v[j] = j - n
        BY <1>1, <1>3, <2>2
      <3> QED
        BY <3>1 DEF t
    <2> QED
      BY <2>1, <2>2
  <1>6. ASSUME NEW i \in DOMAIN next, NEW j \in DOMAIN next, i < j
        PROVE  u[i] <= u[j]
    <2>1. CASE j \in DOMAIN flat
      <3>1. i \in DOMAIN flat
        BY <1>1, <1>2, <1>6, <2>1
      <3> QED
        BY <1>3, <1>6, <2>1, <3>1 DEF Places
    <2>2. CASE j \notin DOMAIN flat
      BY <1>3, <1>5, <2>2
    <2> QED
      BY <2>1, <2>2
  <1>7. ASSUME NEW i \in 1 .. k, NEW r \in DOMAIN seqs[i]
        PROVE  \E j \in DOMAIN next : u[j] = i /\ v[j] = r
    <2>1. CASE i = k
      <3>1. r \in DOMAIN t
        BY <2>1 DEF t
      <3>2. n + r \in DOMAIN next /\ u[n + r] = k /\ v[n + r] = r
        BY <1>2, <1>3, <3>1
      <3> QED
        BY <2>1, <3>2
    <2>2. CASE i # k
      <3>1. i \in 1 .. k - 1
        BY <2>2
      <3>2. PICK j \in DOMAIN flat : p[j] = i /\ q[j] = r
        BY <3>1 DEF Places
      <3> QED
        BY <1>2, <1>3, <3>2
    <2> QED
      BY <2>1, <2>2
  <1>8. ASSUME NEW i \in DOMAIN next, NEW j \in DOMAIN next, u[i] = u[j], v[i] = v[j]
        PROVE  i = j
    <2>1. CASE i \in DOMAIN flat /\ j \in DOMAIN flat
      BY <1>3, <1>8, <2>1 DEF Places
    <2>2. CASE i \notin DOMAIN flat /\ j \notin DOMAIN flat
      <3>1. i - n = j - n /\ i \in Nat /\ j \in Nat
        BY <1>2, <1>3, <1>8, <2>2
      <3> QED
        BY <1>1, <3>1
    <2>3. CASE i \in DOMAIN flat /\ j \notin DOMAIN flat
      <3>1. p[i] = k /\ p[i] \in 1 .. k - 1
        BY <1>3, <1>4, <1>8, <2>3
      <3> QED
        BY <3>1
    <2>4. CASE i \notin DOMAIN flat /\ j \in DOMAIN flat
      <3>1. p[j] = k /\ p[j] \in 1 .. k - 1
        BY <1>3, <1>4, <1>8, <2>4
      <3> QED
        BY <3>1
    <2> QED
      BY <2>1, <2>2, <2>3, <2>4
  <1>9. Places(seqs, k, next, u, v)
    BY <1>5, <1>6, <1>7, <1>8 DEF Places
  <1> QED
    BY <1>9 DEF next, t

(* Every element of a part has a place in the whole, and the other way      *)
(* round.                                                                   *)
LEMMA FlattenPlaces ==
    ASSUME NEW seqs, Sequences(seqs)
    PROVE  \E p, q : Places(seqs, Len(seqs), FlattenSeq(seqs), p, q)
  <1> DEFINE n == Len(seqs)
             Upto(k) == FlattenSeq(Prefix(seqs, k))
             T == { k \in 0 .. n : ~ \E p, q : Places(seqs, k, Upto(k), p, q) }
  <1>1. n \in Nat /\ DOMAIN seqs = 1 .. n
    BY SequenceDomain DEF Sequences
  <1>2. \A k \in 0 .. n : Sequence(Upto(k))
    BY FlattenLists
  <1>3. T = {}
    <2>1. ASSUME T # {} PROVE FALSE
      <3>1. PICK k \in T : \A y \in T : k <= y
        <4>1. T \in SUBSET Nat
          BY <1>1
        <4> HIDE DEF T
        <4> QED
          BY <2>1, <4>1, LeastNumber
      <3>2. k \in 0 .. n /\ ~ \E p, q : Places(seqs, k, Upto(k), p, q)
        OBVIOUS
      <3>3. k # 0
        <4>1. Upto(0) = << >> /\ DOMAIN << >> = {}
          BY PrefixNone, SequenceEmpty
        <4>2. Places(seqs, 0, << >>, << >>, << >>)
          BY <4>1 DEF Places
        <4> QED
          BY <3>2, <4>1, <4>2
      <3>4. k - 1 \in 0 .. n /\ ~ (k <= k - 1) /\ k \in 1 .. n /\ k \in Nat \ {0}
        BY <1>1, <3>2, <3>3
      <3>5. PICK p, q : Places(seqs, k - 1, Upto(k - 1), p, q)
        BY <3>1, <3>4
      <3>6. Sequence(seqs[k])
        BY <1>1, <3>4 DEF Sequences
      <3>7. Upto(k) = Upto(k - 1) \o seqs[k]
        BY <3>4, <3>6, FlattenPrefix
      <3>8. Sequence(Upto(k - 1))
        BY <1>2, <3>4
      <3> HIDE DEF T, Upto
      <3>9. \E u, v : Places(seqs, k, Upto(k - 1) \o seqs[k], u, v)
        BY <3>4, <3>5, <3>6, <3>8, PlacesNext
      <3> QED
        BY <3>2, <3>7, <3>9
    <2> QED
      BY <2>1
  <1>4. n \in 0 .. n
    BY <1>1
  <1>5. \E p, q : Places(seqs, n, Upto(n), p, q)
    BY <1>3, <1>4
  <1> QED
    BY <1>5, PrefixAll DEF Sequences

-----------------------------------------------------------------------------
(* Sets in order.                                                           *)
Increasing(s, S) ==
    /\ s \in [ 1 .. Cardinality(S) -> S ]
    /\ \A a, b \in DOMAIN s : a < b => s[a] < s[b]

(* Finitely many numbers can be put in order: the least one first, then the *)
(* others.                                                                  *)
LEMMA OrderExists ==
    ASSUME NEW S \in SUBSET Nat, IsFiniteSet(S)
    PROVE  \E s : Increasing(s, S)
  <1> DEFINE T == { n \in Nat : \E R \in SUBSET Nat : /\ IsFiniteSet(R)
                                                      /\ Cardinality(R) = n
                                                      /\ ~ \E s : Increasing(s, R) }
  <1>1. ASSUME T # {} PROVE FALSE
    <2>1. PICK n \in T : \A y \in T : n <= y
      BY <1>1, LeastNumber
    <2>2. PICK R \in SUBSET Nat : /\ IsFiniteSet(R)
                                  /\ Cardinality(R) = n
                                  /\ ~ \E s : Increasing(s, R)
      OBVIOUS
    <2>3. n \in Nat /\ R # {}
      <3>1. ASSUME R = {} PROVE FALSE
        <4> DEFINE s == [ k \in {} |-> k ]
        <4>1. Cardinality(R) = 0
          BY <3>1, FS_EmptySet
        <4>2. 1 .. Cardinality(R) = {}
          BY <4>1
        <4>3. s \in [ {} -> R ] /\ DOMAIN s = {}
          OBVIOUS
        <4>4. Increasing(s, R)
          BY <4>2, <4>3 DEF Increasing
        <4> QED
          BY <2>2, <4>4
      <3> QED
        BY <3>1
    <2>4. PICK x \in R : \A y \in R : x <= y
      BY <2>3, LeastNumber
    <2> DEFINE Q == R \ {x}
    <2>5. /\ Q \in SUBSET Nat /\ IsFiniteSet(Q) /\ Cardinality(Q) = n - 1
          /\ n - 1 \in Nat /\ \A y \in Q : x < y
      <3>1. IsFiniteSet(Q) /\ Cardinality(Q) = n - 1 /\ Cardinality(Q) \in Nat
        BY <2>2, <2>4, FS_RemoveElement, FS_CardinalityType
      <3>2. \A y \in Q : y \in Nat /\ x \in Nat /\ x <= y /\ x # y
        BY <2>4
      <3> QED
        BY <3>1, <3>2
    <2>6. n - 1 \notin T
      <3>1. ~ (n <= n - 1)
        BY <2>3
      <3> HIDE DEF T
      <3> QED
        BY <2>1, <3>1
    <2> HIDE DEF Q
    <2>7. PICK g : Increasing(g, Q)
      BY <2>5, <2>6
    <2> DEFINE s == [ k \in 1 .. n |-> IF k = 1 THEN x ELSE g[k - 1] ]
    <2>8. /\ g \in [ 1 .. n - 1 -> Q ]
          /\ \A a, b \in 1 .. n - 1 : a < b => g[a] < g[b]
      BY <2>5, <2>7 DEF Increasing
    <2>9. \A k \in 1 .. n : k # 1 => k - 1 \in 1 .. n - 1 /\ g[k - 1] \in Q
      BY <2>3, <2>8
    <2>10. \A k \in 1 .. n : s[k] = (IF k = 1 THEN x ELSE g[k - 1]) /\ s[k] \in R
      BY <2>9 DEF Q
    <2>11. s \in [ 1 .. n -> R ]
      BY <2>10
    <2>12. ASSUME NEW a \in 1 .. n, NEW b \in 1 .. n, a < b
           PROVE  s[a] < s[b]
      <3>1. s[b] = g[b - 1] /\ b - 1 \in 1 .. n - 1 /\ g[b - 1] \in Q
        BY <2>3, <2>9, <2>10, <2>12
      <3>2. CASE a = 1
        BY <2>5, <2>10, <3>1, <3>2
      <3>3. CASE a # 1
        <4>1. s[a] = g[a - 1] /\ a - 1 \in 1 .. n - 1 /\ a - 1 < b - 1
          BY <2>9, <2>10, <2>12, <2>3, <3>3
        <4> QED
          BY <2>8, <3>1, <4>1
      <3> QED
        BY <3>2, <3>3
    <2> HIDE DEF s
    <2>13. Increasing(s, R)
      BY <2>2, <2>11, <2>12 DEF Increasing
    <2> QED
      BY <2>2, <2>13
  <1>2. Cardinality(S) \in Nat /\ Cardinality(S) \notin T
    BY <1>1, FS_CardinalityType
  <1> QED
    BY <1>2

(* A set in order has each of its elements once. *)
LEMMA IncreasingLists ==
    ASSUME NEW S \in SUBSET Nat, IsFiniteSet(S), NEW s, Increasing(s, S)
    PROVE  Lists(s, S)
  <1> DEFINE n == Cardinality(S)
  <1>2. n \in Nat /\ s \in [ 1 .. n -> S ] /\ DOMAIN s = 1 .. n
    BY FS_CardinalityType DEF Increasing
  <1> HIDE DEF n
  <1>3. ASSUME NEW a \in 1 .. n, NEW b \in 1 .. n, s[a] = s[b]
        PROVE  a = b
    <2>1. a \in Nat /\ b \in Nat /\ s[a] \in Nat /\ s[b] \in Nat
      <3>1. s[a] \in S /\ s[b] \in S
        BY <1>2
      <3>2. a \in Nat /\ b \in Nat
        BY <1>2
      <3> QED
        BY <3>1, <3>2
    <2>2. ~ (a < b) /\ ~ (b < a)
      BY <1>2, <1>3, <2>1 DEF Increasing
    <2> QED
      BY <2>1, <2>2
  <1>4. s \in Surjection(1 .. n, S)
    <2>1. s \in Injection(1 .. n, S)
      BY <1>2, <1>3 DEF Injection, IsInjective
    <2>2. IsFiniteSet(1 .. n) /\ Cardinality(1 .. n) = n
      BY <1>2, FS_Interval
    <2> QED
      BY <2>1, <2>2, FS_Injection DEF n
  <1>5. Sequence(s)
    <2>1. s \in Seq(S)
      BY <1>2
    <2> QED
      BY <2>1, SequenceIs
  <1> QED
    BY <1>2, <1>3, <1>4, <1>5 DEF Surjection, Lists
=============================================================================

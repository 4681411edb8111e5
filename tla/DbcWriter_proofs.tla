--------------------------- MODULE DbcWriter_proofs ---------------------------
(***************************************************************************)
(* The file written for a network, for every network a loader builds. Its  *)
(* sections are turned from loops over objects into lines that say values  *)
(* of named objects (Said, ObjectLines). From that follow when the grammar *)
(* accepts the file (WriteAccepted) and that its statements are such as    *)
(* the parser returns (WriteParsed). IsNetwork says what every network has *)
(* that is loaded from a file (LoadIsNetwork).                             *)
(***************************************************************************)
EXTENDS DbcRoundTrip, SequenceLemmas, FiniteSetTheorems

(* The parser's lists are the sequences.                                    *)
LEMMA ListIs == ASSUME NEW s PROVE List(s) <=> Sequence(s)
  BY DEF List, ToSet, Sequence

(* A sequence made by a function of the indices. *)
LEMMA MadeOf ==
    ASSUME NEW s, Sequence(s), NEW t, DOMAIN t = DOMAIN s, t = [ i \in DOMAIN s |-> t[i] ]
    PROVE  Sequence(t) /\ Len(t) = Len(s)
  <1>1. Len(s) \in Nat /\ DOMAIN s = 1 .. Len(s)
    BY SequenceDomain
  <1>2. t = [ i \in 1 .. Len(s) |-> t[i] ]
    BY <1>1
  <1> QED
    BY <1>1, <1>2, SequenceMade

(* An element of a list of those that are chosen. *)
LEMMA OptionalIs ==
    ASSUME NEW c, NEW x
    PROVE  /\ Sequence(Optional(c, x))
           /\ c => Optional(c, x) = << x >>
           /\ ~ c => Optional(c, x) = << >>
           /\ \A i \in DOMAIN Optional(c, x) : c /\ Optional(c, x)[i] = x
  BY SequenceOne, SequenceEmpty DEF Optional

-----------------------------------------------------------------------------
(* Mapping the elements of a sequence. *)
LEMMA MappedIsGathered ==
    ASSUME NEW s, Sequence(s), NEW g
    PROVE  [ i \in DOMAIN s |-> g[s[i]] ] = Gathered(s, [ x \in ToSet(s) |-> << g[x] >> ])
  <1> DEFINE t == [ i \in DOMAIN s |-> g[s[i]] ]
             f == [ x \in ToSet(s) |-> << g[x] >> ]
  <1>1. DOMAIN t = DOMAIN s /\ t = [ i \in DOMAIN s |-> t[i] ]
    OBVIOUS
  <1>2. Sequence(t)
    <2> HIDE DEF t
    <2> QED
      BY <1>1, MadeOf
  <1>3. [ i \in DOMAIN s |-> f[s[i]] ] = [ i \in DOMAIN t |-> << t[i] >> ]
    BY DEF ToSet
  <1>4. FlattenSeq([ i \in DOMAIN t |-> << t[i] >> ]) = t
    <2> HIDE DEF t
    <2> QED
      BY <1>2, FlattenOnes
  <1> QED
    BY <1>3, <1>4 DEF Gathered

(* The elements of parts put together are those of the parts.               *)
LEMMA FlattenedToSet ==
    ASSUME NEW seqs, Sequences(seqs)
    PROVE  ToSet(FlattenSeq(seqs)) = UNION { ToSet(seqs[i]) : i \in DOMAIN seqs }
  <1> DEFINE flat == FlattenSeq(seqs)
  <1>1. PICK p, q : Places(seqs, Len(seqs), flat, p, q)
    BY FlattenPlaces
  <1>2. DOMAIN seqs = 1 .. Len(seqs)
    BY SequenceDomain DEF Sequences
  <1> HIDE DEF flat
  <1>3. ASSUME NEW x \in ToSet(flat)
        PROVE  x \in UNION { ToSet(seqs[i]) : i \in DOMAIN seqs }
    <2>1. PICK j \in DOMAIN flat : x = flat[j]
      BY DEF ToSet
    <2>2. p[j] \in DOMAIN seqs /\ x \in ToSet(seqs[p[j]])
      BY <1>1, <1>2, <2>1 DEF Places, ToSet
    <2> QED
      BY <2>2
  <1>4. ASSUME NEW i \in DOMAIN seqs, NEW x \in ToSet(seqs[i])
        PROVE  x \in ToSet(flat)
    <2>1. PICK r \in DOMAIN seqs[i] : x = seqs[i][r]
      BY DEF ToSet
    <2>2. PICK j \in DOMAIN flat : p[j] = i /\ q[j] = r
      BY <1>1, <1>2 DEF Places
    <2>3. flat[j] = x
      BY <1>1, <2>1, <2>2 DEF Places
    <2> QED
      BY <2>3 DEF ToSet
  <1> QED
    BY <1>3, <1>4 DEF flat

(* The same of two parts.                                                   *)
LEMMA ConcatToSet ==
    ASSUME NEW s, NEW t, Sequence(s), Sequence(t)
    PROVE  ToSet(s \o t) = ToSet(s) \cup ToSet(t)
  <1> DEFINE u == s \o t
  <1>1. /\ DOMAIN u = 1 .. Len(s) + Len(t)
        /\ \A i \in DOMAIN s : u[i] = s[i]
        /\ \A i \in DOMAIN t : u[Len(s) + i] = t[i]
        /\ \A i \in DOMAIN u \ DOMAIN s : i - Len(s) \in DOMAIN t /\ u[i] = t[i - Len(s)]
    BY SequenceConcat
  <1>2. /\ Len(s) \in Nat /\ Len(t) \in Nat /\ DOMAIN s = 1 .. Len(s) /\ DOMAIN t = 1 .. Len(t)
    BY SequenceDomain
  <1>3. /\ \A i \in DOMAIN s : i \in DOMAIN u
        /\ \A i \in DOMAIN t : Len(s) + i \in DOMAIN u
    BY <1>1, <1>2
  <1> HIDE DEF u
  <1>4. ToSet(u) \subseteq ToSet(s) \cup ToSet(t)
    BY <1>1 DEF ToSet
  <1>5. ToSet(s) \subseteq ToSet(u) /\ ToSet(t) \subseteq ToSet(u)
    BY <1>1, <1>3 DEF ToSet
  <1> QED
    BY <1>4, <1>5 DEF u

(* A list that goes on. *)
LEMMA Appended ==
    ASSUME NEW s, NEW t, Sequence(s), Sequence(t)
    PROVE  /\ Sequence(s \o t)
           /\ \A i \in DOMAIN s : i \in DOMAIN (s \o t) /\ (s \o t)[i] = s[i]
           /\ \A x \in ToSet(s \o t) : x \in ToSet(s) \/ x \in ToSet(t)
<1>1. Sequence(s \o t) /\ DOMAIN (s \o t) = 1 .. Len(s) + Len(t)
    BY SequenceConcat
<1>2. Len(s) \in Nat /\ DOMAIN s = 1 .. Len(s) /\ Len(t) \in Nat
    BY SequenceDomain
<1>3. \A i \in DOMAIN s : i \in DOMAIN (s \o t)
    BY <1>1, <1>2
<1> QED  BY <1>1, <1>3, SequenceConcat, ConcatToSet

(* Mapping the elements of parts put together maps those of each part.      *)
LEMMA MappedFlattened ==
    ASSUME NEW seqs, Sequences(seqs), NEW g
    PROVE  [ j \in DOMAIN FlattenSeq(seqs) |-> g[FlattenSeq(seqs)[j]] ]
             = FlattenSeq([ i \in DOMAIN seqs |-> [ j \in DOMAIN seqs[i] |-> g[seqs[i][j]] ] ])
  <1> DEFINE flat == FlattenSeq(seqs)
             f == [ x \in ToSet(flat) |-> << g[x] >> ]
  <1>1. [ j \in DOMAIN flat |-> g[flat[j]] ] = Gathered(flat, f)
    BY FlattenLists, MappedIsGathered
  <1>2. \A i \in DOMAIN seqs : \A j \in DOMAIN seqs[i] : seqs[i][j] \in ToSet(flat)
    BY FlattenedToSet DEF ToSet
  <1> HIDE DEF flat
  <1>3. \A i \in DOMAIN seqs : \A j \in DOMAIN seqs[i] :
            Sequence(f[seqs[i][j]]) /\ f[seqs[i][j]] = << g[seqs[i][j]] >>
    BY <1>2, SequenceOne
  <1> HIDE DEF f
  <1>4. Gathered(FlattenSeq(seqs), f) = FlattenSeq([ i \in DOMAIN seqs |-> Gathered(seqs[i], f) ])
    BY <1>3, GatheredFlattened
  <1>5. ASSUME NEW i \in DOMAIN seqs
        PROVE  Gathered(seqs[i], f) = [ j \in DOMAIN seqs[i] |-> g[seqs[i][j]] ]
    <2> DEFINE s == seqs[i]
               h == [ x \in ToSet(s) |-> << g[x] >> ]
    <2>1. Sequence(s)
      BY DEF Sequences
    <2>2. [ j \in DOMAIN s |-> f[s[j]] ] = [ j \in DOMAIN s |-> h[s[j]] ]
      BY <1>3 DEF ToSet
    <2>3. [ j \in DOMAIN s |-> g[s[j]] ] = Gathered(s, h)
      BY <2>1, MappedIsGathered
    <2> QED
      BY <2>2, <2>3 DEF Gathered
  <1> QED
    BY <1>1, <1>4, <1>5 DEF flat
-----------------------------------------------------------------------------
(* What a file says of an object. *)

(* About, over the parts of a file. *)
Select(S, kind, o) == [ st \in S |-> Optional(Kind(st) = kind /\ Owner(st) = o, Value(st)) ]

(* About is a mapping of the statements, one after the other.               *)
LEMMA AboutIsGathered ==
    ASSUME NEW s, NEW S, ToSet(s) \subseteq S, NEW kind, NEW o
    PROVE  About(s, kind, o) = Gathered(s, Select(S, kind, o))
  BY DEF About, Each, Gathered, Select, ToSet

(* It takes the values of the statements of that kind about that object.    *)
LEMMA SelectIs ==
    ASSUME NEW S, NEW kind, NEW o, NEW st \in S
    PROVE  /\ Sequence(Select(S, kind, o)[st])
           /\ Kind(st) = kind /\ Owner(st) = o => Select(S, kind, o)[st] = << Value(st) >>
           /\ ~ (Kind(st) = kind /\ Owner(st) = o) => Select(S, kind, o)[st] = << >>
  BY OptionalIs DEF Select

(* What a file says of an object, its parts say in their order.             *)
LEMMA AboutFlattened ==
    ASSUME NEW seqs, Sequences(seqs), NEW kind, NEW o
    PROVE  /\ About(FlattenSeq(seqs), kind, o)
                = FlattenSeq([ i \in DOMAIN seqs |-> About(seqs[i], kind, o) ])
           /\ Sequences([ i \in DOMAIN seqs |-> About(seqs[i], kind, o) ])
  <1> DEFINE S == ToSet(FlattenSeq(seqs))
             f == Select(S, kind, o)
  <1>1. \A i \in DOMAIN seqs : ToSet(seqs[i]) \subseteq S
    BY FlattenedToSet
  <1>2. \A i \in DOMAIN seqs : \A j \in DOMAIN seqs[i] : Sequence(f[seqs[i][j]])
    <2>1. \A i \in DOMAIN seqs : \A j \in DOMAIN seqs[i] : seqs[i][j] \in S
      BY <1>1 DEF ToSet
    <2> HIDE DEF S
    <2> QED
      BY <2>1, SelectIs
  <1>3. About(FlattenSeq(seqs), kind, o) = Gathered(FlattenSeq(seqs), f)
    BY AboutIsGathered
  <1>4. \A i \in DOMAIN seqs : About(seqs[i], kind, o) = Gathered(seqs[i], f)
    BY <1>1, AboutIsGathered
  <1> HIDE DEF S, f
  <1>5. /\ Gathered(FlattenSeq(seqs), f) = FlattenSeq([ i \in DOMAIN seqs |-> Gathered(seqs[i], f) ])
        /\ Sequences([ i \in DOMAIN seqs |-> Gathered(seqs[i], f) ])
    BY <1>2, GatheredFlattened
  <1>6. [ i \in DOMAIN seqs |-> Gathered(seqs[i], f) ] = [ i \in DOMAIN seqs |-> About(seqs[i], kind, o) ]
    BY <1>4
  <1> QED
    BY <1>3, <1>5, <1>6

(* What a file says is a list of values of its statements.                  *)
LEMMA AboutSequence ==
    ASSUME NEW s, Sequence(s), NEW kind, NEW o
    PROVE  /\ Sequence(About(s, kind, o))
           /\ \A x \in ToSet(About(s, kind, o)) :
                 \E st \in ToSet(s) : Kind(st) = kind /\ Owner(st) = o /\ x = Value(st)
  <1> DEFINE S == ToSet(s)
             f == Select(S, kind, o)
             t == [ i \in DOMAIN s |-> f[s[i]] ]
  <1>1. About(s, kind, o) = Gathered(s, f)
    BY AboutIsGathered
  <1>2. \A i \in DOMAIN s : s[i] \in S
    BY DEF ToSet
  <1>3. \A i \in DOMAIN s : Sequence(f[s[i]])
    <2> HIDE DEF S
    <2> QED
      BY <1>2, SelectIs
  <1>4. Sequences(t) /\ Sequence(Gathered(s, f))
    <2> HIDE DEF f
    <2> QED
      BY <1>3, GatheredIs
  <1>5. ToSet(Gathered(s, f)) = UNION { ToSet(t[i]) : i \in DOMAIN s }
    <2> HIDE DEF f
    <2>1. DOMAIN t = DOMAIN s
      OBVIOUS
    <2>2. Gathered(s, f) = FlattenSeq(t)
      BY DEF Gathered
    <2> HIDE DEF t
    <2> QED
      BY <1>4, <2>1, <2>2, FlattenedToSet
  <1>6. ASSUME NEW x \in ToSet(Gathered(s, f))
        PROVE  \E st \in ToSet(s) : Kind(st) = kind /\ Owner(st) = o /\ x = Value(st)
    <2>1. PICK i \in DOMAIN s : x \in ToSet(t[i])
      BY <1>5
    <2>2. t[i] = Optional(Kind(s[i]) = kind /\ Owner(s[i]) = o, Value(s[i]))
      BY <1>2 DEF Select
    <2>3. Kind(s[i]) = kind /\ Owner(s[i]) = o /\ x = Value(s[i])
      <3> HIDE DEF t
      <3>1. ASSUME ~ (Kind(s[i]) = kind /\ Owner(s[i]) = o) PROVE FALSE
        <4>1. t[i] = << >>
          BY <2>2, <3>1 DEF Optional
        <4> QED
          BY <2>1, <4>1, SequenceEmpty DEF ToSet
      <3>2. t[i] = << Value(s[i]) >>
        BY <2>2, <3>1 DEF Optional
      <3>3. DOMAIN t[i] = {1} /\ t[i][1] = Value(s[i])
        BY <3>2, SequenceOne
      <3>4. x = Value(s[i])
        BY <2>1, <3>3 DEF ToSet
      <3> QED
        BY <3>1, <3>4
    <2> QED
      BY <1>2, <2>3
  <1> QED
    BY <1>1, <1>4, <1>6

(* The same of two parts.                                                   *)
LEMMA AboutConcat ==
    ASSUME NEW s, NEW t, Sequence(s), Sequence(t), NEW kind, NEW o
    PROVE  About(s \o t, kind, o) = About(s, kind, o) \o About(t, kind, o)
  <1> DEFINE S == ToSet(s \o t)
             f == Select(S, kind, o)
  <1>1. ToSet(s) \subseteq S /\ ToSet(t) \subseteq S
    BY ConcatToSet
  <1>2. About(s \o t, kind, o) = Gathered(s \o t, f)
    BY AboutIsGathered
  <1> HIDE DEF S
  <1>3. (\A i \in DOMAIN s : Sequence(f[s[i]])) /\ (\A i \in DOMAIN t : Sequence(f[t[i]]))
    BY <1>1, SelectIs DEF ToSet
  <1>4. Gathered(s \o t, f) = Gathered(s, f) \o Gathered(t, f)
    BY <1>3, GatheredConcat
  <1>5. About(s, kind, o) = Gathered(s, f) /\ About(t, kind, o) = Gathered(t, f)
    BY <1>1, AboutIsGathered
  <1> QED
    BY <1>2, <1>4, <1>5

(* A sequence without indices is empty.                                     *)
LEMMA NoDomain ==
    ASSUME NEW s, Sequence(s), DOMAIN s = {}
    PROVE  s = << >>
  <1>1. Len(s) \in Nat /\ 1 .. Len(s) = {}
    BY SequenceDomain
  <1>2. Len(s) = 0
    BY <1>1
  <1> QED
    BY <1>2, EmptyIs

(* Nothing there is about o. *)
LEMMA AboutOther ==
    ASSUME NEW s, Sequence(s), NEW kind, NEW o,
           \A st \in ToSet(s) : ~ (Kind(st) = kind /\ Owner(st) = o)
    PROVE  About(s, kind, o) = << >>
  <1>1. Sequence(About(s, kind, o)) /\ ToSet(About(s, kind, o)) = {}
    BY AboutSequence
  <1>2. DOMAIN About(s, kind, o) = {}
    BY <1>1 DEF ToSet
  <1> QED
    BY <1>1, <1>2, NoDomain

(* The lines that give an object some values. *)
Lines(kind, o, values) == [ i \in DOMAIN values |-> St(kind, o, values[i]) ]

(* They have the kind and the object they are written with, and the values  *)
(* in their order.                                                          *)
LEMMA LinesAre ==
    ASSUME NEW kind, NEW o, NEW values, Sequence(values)
    PROVE  /\ Sequence(Lines(kind, o, values))
           /\ DOMAIN Lines(kind, o, values) = DOMAIN values
           /\ \A st \in ToSet(Lines(kind, o, values)) :
                 Kind(st) = kind /\ Owner(st) = o /\ Value(st) \in ToSet(values)
           /\ \A v \in ToSet(values) : St(kind, o, v) \in ToSet(Lines(kind, o, values))
  <1> DEFINE t == Lines(kind, o, values)
  <1>1. /\ DOMAIN t = DOMAIN values /\ t = [ i \in DOMAIN values |-> t[i] ]
        /\ \A i \in DOMAIN values : t[i] = St(kind, o, values[i])
    BY DEF Lines
  <1> HIDE DEF t
  <1>2. Sequence(t)
    BY <1>1, MadeOf
  <1>3. \A st \in ToSet(t) : Kind(st) = kind /\ Owner(st) = o /\ Value(st) \in ToSet(values)
    BY <1>1 DEF ToSet, St, Kind, Owner, Value
  <1>4. \A v \in ToSet(values) : St(kind, o, v) \in ToSet(t)
    BY <1>1 DEF ToSet
  <1> QED
    BY <1>1, <1>2, <1>3, <1>4 DEF t

(* They say these values of that object, and nothing else.                  *)
LEMMA AboutLines ==
    ASSUME NEW kind, NEW o, NEW values, Sequence(values), NEW kind2, NEW o2
    PROVE  About(Lines(kind, o, values), kind2, o2)
             = IF kind = kind2 /\ o = o2 THEN values ELSE << >>
  <1> DEFINE t == Lines(kind, o, values)
             S == ToSet(t)
             f == Select(S, kind, o)
  <1>1. /\ Sequence(t) /\ DOMAIN t = DOMAIN values
        /\ \A st \in S : Kind(st) = kind /\ Owner(st) = o
    BY LinesAre
  <1>2. CASE kind = kind2 /\ o = o2
    <2>1. About(t, kind, o) = Gathered(t, f)
      BY AboutIsGathered
    <2>2. \A i \in DOMAIN t : t[i] \in S /\ t[i] = St(kind, o, values[i])
      BY DEF ToSet, Lines
    <2>3. \A i \in DOMAIN t : f[t[i]] = << values[i] >>
      <3>1. ASSUME NEW i \in DOMAIN t PROVE f[t[i]] = << values[i] >>
        <4>1. f[t[i]] = << Value(t[i]) >>
          <5> HIDE DEF t, S
          <5> QED
            BY <1>1, <2>2, SelectIs
        <4> QED
          BY <2>2, <4>1 DEF Value, St
      <3> QED
        BY <3>1
    <2>4. [ i \in DOMAIN t |-> f[t[i]] ] = [ i \in DOMAIN values |-> << values[i] >> ]
      <3> HIDE DEF t, f, S
      <3> QED
        BY <1>1, <2>3
    <2>5. Gathered(t, f) = values
      <3> HIDE DEF t, f, S
      <3> QED
        BY <2>4, FlattenOnes DEF Gathered
    <2> QED
      BY <1>2, <2>1, <2>5
  <1>3. CASE ~ (kind = kind2 /\ o = o2)
    <2> HIDE DEF t
    <2>1. About(t, kind2, o2) = << >>
      BY <1>1, <1>3, AboutOther
    <2> QED
      BY <1>3, <2>1 DEF t
  <1> QED
    BY <1>2, <1>3

-----------------------------------------------------------------------------
(* The lines written for a list of objects. *)

(* The lines of a list of objects, vs[i] being what is said of os[i]; those *)
(* of a list of lists of them. What they say of o.                          *)
ObjectLines(kind, os, vs) ==
    FlattenSeq([ i \in DOMAIN os |-> Lines(kind, os[i], vs[i]) ])
NestedLines(kind, oss, vss) ==
    FlattenSeq([ i \in DOMAIN oss |-> ObjectLines(kind, oss[i], vss[i]) ])
SaidOf(os, vs, o) ==
    FlattenSeq([ i \in DOMAIN os |-> IF os[i] = o THEN vs[i] ELSE << >> ])
SaidIn(oss, vss, o) ==
    FlattenSeq([ i \in DOMAIN oss |-> SaidOf(oss[i], vss[i], o) ])

(* The lines of a list of objects are about these.                          *)
LEMMA ObjectLinesAre ==
    ASSUME NEW kind, NEW os, Sequence(os), NEW vs, \A i \in DOMAIN os : Sequence(vs[i])
    PROVE  /\ Sequence(ObjectLines(kind, os, vs))
           /\ \A st \in ToSet(ObjectLines(kind, os, vs)) :
                 /\ Kind(st) = kind
                 /\ \E i \in DOMAIN os : Owner(st) = os[i] /\ Value(st) \in ToSet(vs[i])
           /\ \A i \in DOMAIN os : \A v \in ToSet(vs[i]) :
                 St(kind, os[i], v) \in ToSet(ObjectLines(kind, os, vs))
  <1> DEFINE t == [ i \in DOMAIN os |-> Lines(kind, os[i], vs[i]) ]
  <1>1. DOMAIN t = DOMAIN os /\ t = [ i \in DOMAIN os |-> t[i] ]
    OBVIOUS
  <1>2. \A i \in DOMAIN os :
          /\ t[i] = Lines(kind, os[i], vs[i])
          /\ Sequence(t[i])
          /\ \A st \in ToSet(t[i]) :
                Kind(st) = kind /\ Owner(st) = os[i] /\ Value(st) \in ToSet(vs[i])
          /\ \A v \in ToSet(vs[i]) : St(kind, os[i], v) \in ToSet(t[i])
    BY LinesAre
  <1>3. ObjectLines(kind, os, vs) = FlattenSeq(t)
    BY DEF ObjectLines
  <1> HIDE DEF t
  <1>4. Sequences(t)
    BY <1>1, <1>2, MadeOf DEF Sequences
  <1>5. Sequence(FlattenSeq(t)) /\ ToSet(FlattenSeq(t)) = UNION { ToSet(t[i]) : i \in DOMAIN t }
    BY <1>4, FlattenLists, FlattenedToSet
  <1> QED
    BY <1>1, <1>2, <1>3, <1>5

(* They say of an object what is said of it in the list, in the order of    *)
(* the list.                                                                *)
LEMMA AboutObjects ==
    ASSUME NEW kind, NEW os, Sequence(os), NEW vs, \A i \in DOMAIN os : Sequence(vs[i]), NEW o
    PROVE  About(ObjectLines(kind, os, vs), kind, o) = SaidOf(os, vs, o)
  <1> DEFINE t == [ i \in DOMAIN os |-> Lines(kind, os[i], vs[i]) ]
  <1>1. DOMAIN t = DOMAIN os /\ t = [ i \in DOMAIN os |-> t[i] ]
    OBVIOUS
  <1>2. \A i \in DOMAIN os : t[i] = Lines(kind, os[i], vs[i]) /\ Sequence(t[i])
    BY LinesAre
  <1>3. ObjectLines(kind, os, vs) = FlattenSeq(t)
    BY DEF ObjectLines
  <1> HIDE DEF t
  <1>4. Sequences(t)
    BY <1>1, <1>2, MadeOf DEF Sequences
  <1>5. About(FlattenSeq(t), kind, o) = FlattenSeq([ i \in DOMAIN t |-> About(t[i], kind, o) ])
    BY <1>4, AboutFlattened
  <1>6. \A i \in DOMAIN os : About(t[i], kind, o) = IF os[i] = o THEN vs[i] ELSE << >>
    BY <1>2, AboutLines
  <1>7. [ i \in DOMAIN t |-> About(t[i], kind, o) ]
          = [ i \in DOMAIN os |-> IF os[i] = o THEN vs[i] ELSE << >> ]
    BY <1>1, <1>6
  <1> QED
    BY <1>3, <1>5, <1>7 DEF SaidOf

(* The same of the lines of a list of lists, such as the signals of the     *)
(* messages.                                                                *)
LEMMA NestedLinesAre ==
    ASSUME NEW kind, NEW oss, Sequences(oss), NEW vss,
           \A i \in DOMAIN oss : \A j \in DOMAIN oss[i] : Sequence(vss[i][j])
    PROVE  /\ Sequence(NestedLines(kind, oss, vss))
           /\ \A st \in ToSet(NestedLines(kind, oss, vss)) :
                 /\ Kind(st) = kind
                 /\ \E i \in DOMAIN oss : \E j \in DOMAIN oss[i] :
                       Owner(st) = oss[i][j] /\ Value(st) \in ToSet(vss[i][j])
           /\ \A i \in DOMAIN oss : \A j \in DOMAIN oss[i] : \A v \in ToSet(vss[i][j]) :
                 St(kind, oss[i][j], v) \in ToSet(NestedLines(kind, oss, vss))
  <1> DEFINE t == [ i \in DOMAIN oss |-> ObjectLines(kind, oss[i], vss[i]) ]
  <1>1. DOMAIN t = DOMAIN oss /\ t = [ i \in DOMAIN oss |-> t[i] ] /\ Sequence(oss)
    BY DEF Sequences
  <1>2. ASSUME NEW i \in DOMAIN oss
        PROVE  /\ t[i] = ObjectLines(kind, oss[i], vss[i])
               /\ Sequence(t[i])
               /\ \A st \in ToSet(t[i]) :
                     /\ Kind(st) = kind
                     /\ \E j \in DOMAIN oss[i] :
                           Owner(st) = oss[i][j] /\ Value(st) \in ToSet(vss[i][j])
               /\ \A j \in DOMAIN oss[i] : \A v \in ToSet(vss[i][j]) :
                     St(kind, oss[i][j], v) \in ToSet(t[i])
    <2>1. Sequence(oss[i]) /\ t[i] = ObjectLines(kind, oss[i], vss[i])
      BY DEF Sequences
    <2> DEFINE os == oss[i]
               vs == vss[i]
               ti == t[i]
    <2>2. \A j \in DOMAIN os : Sequence(vs[j])
      OBVIOUS
    <2>3. Sequence(os) /\ ti = ObjectLines(kind, os, vs)
      BY <2>1
    <2> HIDE DEF t, ti, os, vs
    <2>4. Sequence(ObjectLines(kind, os, vs))
      BY <2>2, <2>3, ObjectLinesAre
    <2>5. \A st \in ToSet(ObjectLines(kind, os, vs)) :
            /\ Kind(st) = kind
            /\ \E j \in DOMAIN os : Owner(st) = os[j] /\ Value(st) \in ToSet(vs[j])
      BY <2>2, <2>3, ObjectLinesAre
    <2>6. \A j \in DOMAIN os : \A v \in ToSet(vs[j]) :
            St(kind, os[j], v) \in ToSet(ObjectLines(kind, os, vs))
      BY <2>2, <2>3, ObjectLinesAre
    <2> QED
      BY <2>3, <2>4, <2>5, <2>6 DEF os, vs, ti
  <1>3. NestedLines(kind, oss, vss) = FlattenSeq(t)
    BY DEF NestedLines
  <1> HIDE DEF t
  <1>4. Sequences(t)
    BY <1>1, <1>2, MadeOf DEF Sequences
  <1>5. Sequence(FlattenSeq(t)) /\ ToSet(FlattenSeq(t)) = UNION { ToSet(t[i]) : i \in DOMAIN t }
    BY <1>4, FlattenLists, FlattenedToSet
  <1>7. \A st \in ToSet(FlattenSeq(t)) :
            /\ Kind(st) = kind
            /\ \E i \in DOMAIN oss : \E j \in DOMAIN oss[i] :
                  Owner(st) = oss[i][j] /\ Value(st) \in ToSet(vss[i][j])
    BY <1>1, <1>2, <1>5
  <1>8. \A i \in DOMAIN oss : \A j \in DOMAIN oss[i] : \A v \in ToSet(vss[i][j]) :
            St(kind, oss[i][j], v) \in ToSet(FlattenSeq(t))
    BY <1>1, <1>2, <1>5
  <1> QED
    BY <1>3, <1>5, <1>7, <1>8

(* What these say of an object.                                             *)
LEMMA AboutNested ==
    ASSUME NEW kind, NEW oss, Sequences(oss), NEW vss,
           \A i \in DOMAIN oss : \A j \in DOMAIN oss[i] : Sequence(vss[i][j]), NEW o
    PROVE  About(NestedLines(kind, oss, vss), kind, o) = SaidIn(oss, vss, o)
  <1> DEFINE t == [ i \in DOMAIN oss |-> ObjectLines(kind, oss[i], vss[i]) ]
  <1>1. DOMAIN t = DOMAIN oss /\ t = [ i \in DOMAIN oss |-> t[i] ] /\ Sequence(oss)
    BY DEF Sequences
  <1>2. ASSUME NEW i \in DOMAIN oss
        PROVE  Sequence(t[i]) /\ About(t[i], kind, o) = SaidOf(oss[i], vss[i], o)
    <2> DEFINE os == oss[i]
               vs == vss[i]
    <2>1. Sequence(os) /\ t[i] = ObjectLines(kind, os, vs)
      BY DEF Sequences
    <2>2. \A j \in DOMAIN os : Sequence(vs[j])
      OBVIOUS
    <2> HIDE DEF t, os, vs
    <2>3. Sequence(ObjectLines(kind, os, vs))
      BY <2>1, <2>2, ObjectLinesAre
    <2>4. About(ObjectLines(kind, os, vs), kind, o) = SaidOf(os, vs, o)
      BY <2>1, <2>2, AboutObjects
    <2> QED
      BY <2>1, <2>3, <2>4 DEF os, vs
  <1>3. NestedLines(kind, oss, vss) = FlattenSeq(t)
    BY DEF NestedLines
  <1> HIDE DEF t
  <1>4. Sequences(t)
    BY <1>1, <1>2, MadeOf DEF Sequences
  <1>5. About(FlattenSeq(t), kind, o) = FlattenSeq([ i \in DOMAIN t |-> About(t[i], kind, o) ])
    BY <1>4, AboutFlattened
  <1>6. [ i \in DOMAIN t |-> About(t[i], kind, o) ]
          = [ i \in DOMAIN oss |-> SaidOf(oss[i], vss[i], o) ]
    BY <1>1, <1>2
  <1> QED
    BY <1>3, <1>5, <1>6 DEF SaidIn

-----------------------------------------------------------------------------
(* What a network is, as it is loaded, merged or cloned.                    *)
IsAttributes(attributes, type) ==
    /\ Sequence(attributes)
    /\ \A i \in DOMAIN attributes :
          /\ attributes[i] = [ type |-> type, name |-> attributes[i].name,
                               value |-> attributes[i].value ]
          /\ attributes[i].name # Unreadable /\ attributes[i].value # Unreadable
IsTexts(texts) == Sequence(texts) /\ Unreadable \notin ToSet(texts)
IsNode(n) ==
    /\ n = [ name |-> n.name, comment |-> n.comment, attributes |-> n.attributes ]
    /\ n.comment # Unreadable
    /\ IsAttributes(n.attributes, "node")
    /\ Identifier(n.name) \/ (n.comment = "" /\ n.attributes = << >>)
IsSignal(s) ==
    /\ s = [ name |-> s.name, multiplexer |-> s.multiplexer, switch_value |-> s.switch_value,
             head |-> s.head, unit |-> s.unit, receivers |-> s.receivers,
             attributes |-> s.attributes,
             descriptions |-> s.descriptions, comment |-> s.comment,
             extended_type |-> s.extended_type,
             multiplexer_values |-> s.multiplexer_values ]
    /\ s.multiplexer \in {"NoMux", "MuxSwitch", "MuxValue"}
    /\ s.multiplexer # "MuxValue" => s.switch_value = 0
    /\ IsAttributes(s.attributes, "signal")
    /\ IsTexts(s.descriptions)
    /\ s.comment # Unreadable /\ s.unit # Unreadable
    /\ Sequence(s.receivers)
    /\ s.extended_type \in {"Integer", "Float", "Double"}
    /\ Sequence(s.multiplexer_values)
    /\ \A i \in DOMAIN s.multiplexer_values : s.multiplexer_values[i].ranges # << >>
IsMessage(m) ==
    /\ m = [ id |-> m.id, name |-> m.name, transmitter |-> m.transmitter, size |-> m.size,
             signals |-> m.signals, transmitters |-> m.transmitters,
             attributes |-> m.attributes, comment |-> m.comment,
             signal_groups |-> m.signal_groups ]
    /\ Sequence(m.signals)
    /\ \A i \in DOMAIN m.signals : IsSignal(m.signals[i])
    /\ IsAttributes(m.attributes, "message")
    /\ m.comment # Unreadable
    /\ Sequence(m.transmitters)
    /\ Sequence(m.signal_groups)
IsEnvVar(ev) ==
    /\ ev = [ name |-> ev.name, head |-> ev.head, maximum |-> ev.maximum,
              unit |-> ev.unit, var_type |-> ev.var_type, data_size |-> ev.data_size,
              access_type |-> ev.access_type, access_nodes |-> ev.access_nodes,
              descriptions |-> ev.descriptions, attributes |-> ev.attributes,
              comment |-> ev.comment ]
    /\ ev.var_type \in LeftOnStack
    /\ ev.var_type # "Data" => ev.data_size = 0
    /\ \E token \in DOMAIN AccessTypes : ev.access_type = AccessTypes[token]
    /\ IsTexts(ev.descriptions)
    /\ IsAttributes(ev.attributes, "env")
    /\ ev.comment # Unreadable /\ ev.unit # Unreadable
    /\ Sequence(ev.access_nodes)
IsValueTable(vt) ==
    /\ vt = [ name |-> vt.name, descriptions |-> vt.descriptions,
              signal_type |-> vt.signal_type ]
    /\ IsTexts(vt.descriptions)
    /\ Sequence(vt.signal_type)
IsDefinition(d) ==
    /\ d = [ head |-> d.head, name |-> d.name, enum |-> d.enum ]
    /\ d.name # Unreadable /\ IsTexts(d.enum)
IsNetwork(net) ==
    /\ net = [ version |-> net.version, new_symbols |-> net.new_symbols,
               bit_timing |-> net.bit_timing, nodes |-> net.nodes,
               value_tables |-> net.value_tables, messages |-> net.messages,
               environment_variables |-> net.environment_variables,
               attribute_definitions |-> net.attribute_definitions,
               attribute_defaults |-> net.attribute_defaults,
               attribute_values |-> net.attribute_values, comment |-> net.comment ]
    /\ net.bit_timing \in [ 1 .. 3 -> Nat ]
    /\ Sequence(net.nodes) /\ (\A i \in DOMAIN net.nodes : IsNode(net.nodes[i]))
    /\ Sequence(net.value_tables)
    /\ \A i \in DOMAIN net.value_tables : IsValueTable(net.value_tables[i])
    /\ Sequence(net.messages) /\ (\A i \in DOMAIN net.messages : IsMessage(net.messages[i]))
    /\ Sequence(net.environment_variables)
    /\ \A i \in DOMAIN net.environment_variables : IsEnvVar(net.environment_variables[i])
    /\ Sequence(net.attribute_definitions)
    /\ \A i \in DOMAIN net.attribute_definitions : IsDefinition(net.attribute_definitions[i])
    /\ IsAttributes(net.attribute_defaults, "network")
    /\ IsAttributes(net.attribute_values, "network")
    /\ net.version # Unreadable /\ net.comment # Unreadable

(* What the statements of a kind say of an object, and of all objects.      *)
Said(kind, x) ==
    IF kind = "CM_" THEN Optional(x.comment # "", Quoted(x.comment))
    ELSE IF kind = "BA_" THEN [ i \in DOMAIN x.attributes |-> AttributeText(x.attributes[i]) ]
    ELSE IF kind = "VAL_" THEN Optional(x.descriptions # << >>, QuotedAll(x.descriptions))
    ELSE IF kind = "BO_TX_BU_" THEN Optional(x.transmitters # << >>, NameEach(x.transmitters))
    ELSE IF kind = "SIG_GROUP_" THEN x.signal_groups
    ELSE IF kind = "SIG_VALTYPE_"
      THEN Optional(x.extended_type # "Integer", IF x.extended_type = "Float" THEN 1 ELSE 2)
    ELSE IF kind = "SG_MUL_VAL_" THEN x.multiplexer_values
    ELSE Optional(x.var_type = "Data", x.data_size)
Says(kind, xs) == [ i \in DOMAIN xs |-> Said(kind, xs[i]) ]
SignalsSay(kind, ms) == [ i \in DOMAIN ms |-> Says(kind, ms[i].signals) ]

Owners(type, xs) == [ i \in DOMAIN xs |-> << type, xs[i].name >> ]
MessageOwners(ms) == [ i \in DOMAIN ms |-> << "message", ms[i].id >> ]
SignalOwners(ms) ==
    [ i \in DOMAIN ms |->
        [ j \in DOMAIN ms[i].signals |-> << "signal", ms[i].id, ms[i].signals[j].name >> ] ]

(* What is said of an object is a list.                                     *)
LEMMA SaidIs ==
    ASSUME NEW x, NEW kind \in {"CM_", "BA_", "VAL_", "BO_TX_BU_", "SIG_GROUP_", "SIG_VALTYPE_",
                                "SG_MUL_VAL_", "ENVVAR_DATA_"},
           kind = "BA_" => Sequence(x.attributes),
           kind = "SIG_GROUP_" => Sequence(x.signal_groups),
           kind = "SG_MUL_VAL_" => Sequence(x.multiplexer_values)
    PROVE  Sequence(Said(kind, x))
  <1>1. CASE kind = "BA_"
    <2> DEFINE as == x.attributes
               t == Said(kind, x)
    <2>1. t = [ i \in DOMAIN as |-> AttributeText(as[i]) ]
      BY <1>1 DEF Said
    <2>2. DOMAIN t = DOMAIN as /\ t = [ i \in DOMAIN as |-> t[i] ]
      <3> HIDE DEF t
      <3> QED
        BY <2>1
    <2>3. Sequence(as)
      BY <1>1
    <2> HIDE DEF t, as
    <2>4. Sequence(t)
      BY <2>2, <2>3, MadeOf
    <2> QED
      BY <2>4 DEF t
  <1>2. CASE kind # "BA_"
    <2>1. CASE kind \in {"SIG_GROUP_", "SG_MUL_VAL_"}
      BY <2>1 DEF Said
    <2>2. CASE kind \notin {"SIG_GROUP_", "SG_MUL_VAL_"}
      <3>1. \A c, v : Sequence(Optional(c, v))
        BY OptionalIs
      <3>2. kind \in {"CM_", "VAL_", "BO_TX_BU_", "SIG_VALTYPE_", "ENVVAR_DATA_"}
        BY <1>2, <2>2
      <3> QED
        BY <3>2, SequenceOne, SequenceEmpty DEF Said, Optional
    <2> QED
      BY <2>1, <2>2
  <1> QED
    BY <1>1, <1>2

(* A list of objects has as many names.                                     *)
LEMMA OwnersAre ==
    ASSUME NEW type, NEW xs, Sequence(xs)
    PROVE  /\ Sequence(Owners(type, xs)) /\ Sequence(MessageOwners(xs))
           /\ DOMAIN Owners(type, xs) = DOMAIN xs /\ DOMAIN MessageOwners(xs) = DOMAIN xs
  <1> DEFINE s == Owners(type, xs)
             t == MessageOwners(xs)
  <1>1. /\ DOMAIN s = DOMAIN xs /\ s = [ i \in DOMAIN xs |-> s[i] ]
        /\ DOMAIN t = DOMAIN xs /\ t = [ i \in DOMAIN xs |-> t[i] ]
    BY DEF Owners, MessageOwners
  <1> HIDE DEF s, t
  <1>2. Sequence(s) /\ Sequence(t)
    BY <1>1, MadeOf
  <1> QED
    BY <1>1, <1>2 DEF s, t

(* The names of the signals of the messages, which have that of their       *)
(* message in them.                                                         *)
LEMMA SignalOwnersAre ==
    ASSUME NEW ms, Sequence(ms), \A i \in DOMAIN ms : Sequence(ms[i].signals)
    PROVE  /\ Sequences(SignalOwners(ms)) /\ DOMAIN SignalOwners(ms) = DOMAIN ms
           /\ \A i \in DOMAIN ms :
                 /\ DOMAIN SignalOwners(ms)[i] = DOMAIN ms[i].signals
                 /\ \A j \in DOMAIN ms[i].signals :
                       SignalOwners(ms)[i][j] = << "signal", ms[i].id, ms[i].signals[j].name >>
  <1> DEFINE t == SignalOwners(ms)
  <1>1. /\ DOMAIN t = DOMAIN ms /\ t = [ i \in DOMAIN ms |-> t[i] ]
        /\ \A i \in DOMAIN ms :
              /\ DOMAIN t[i] = DOMAIN ms[i].signals
              /\ t[i] = [ j \in DOMAIN ms[i].signals |-> t[i][j] ]
              /\ \A j \in DOMAIN ms[i].signals :
                    t[i][j] = << "signal", ms[i].id, ms[i].signals[j].name >>
    BY DEF SignalOwners
  <1> HIDE DEF t
  <1>2. Sequence(t)
    BY <1>1, MadeOf
  <1>3. ASSUME NEW i \in DOMAIN t PROVE Sequence(t[i])
    <2> DEFINE ti == t[i]
               xs == ms[i].signals
    <2>1. Sequence(xs) /\ DOMAIN ti = DOMAIN xs /\ ti = [ j \in DOMAIN xs |-> ti[j] ]
      BY <1>1
    <2> HIDE DEF ti, xs
    <2>2. Sequence(ti)
      BY <2>1, MadeOf
    <2> QED
      BY <2>2 DEF ti
  <1>4. Sequences(t)
    BY <1>2, <1>3 DEF Sequences
  <1> QED
    BY <1>1, <1>4 DEF t
-----------------------------------------------------------------------------

(* One line for each of some values.                                        *)
LEMMA LineEach ==
    ASSUME NEW kind, NEW o, NEW values, Sequence(values)
    PROVE  FlattenSeq([ i \in DOMAIN values |-> << St(kind, o, values[i]) >> ]) = Lines(kind, o, values)
  <1> DEFINE t == Lines(kind, o, values)
  <1>1. Sequence(t) /\ DOMAIN t = DOMAIN values
    BY LinesAre
  <1>2. [ i \in DOMAIN values |-> << St(kind, o, values[i]) >> ] = [ i \in DOMAIN t |-> << t[i] >> ]
    BY DEF Lines
  <1> HIDE DEF t
  <1>3. FlattenSeq([ i \in DOMAIN t |-> << t[i] >> ]) = t
    BY <1>1, FlattenOnes
  <1> QED
    BY <1>2, <1>3 DEF t

(* A line that is written only for a value that is none is a list of at     *)
(* most one.                                                                *)
LEMMA ObjectLine ==
    ASSUME NEW x, NEW o
    PROVE  /\ CommentLine(o, x.comment) = Lines("CM_", o, Said("CM_", x))
           /\ DescriptionLine(o, x.descriptions) = Lines("VAL_", o, Said("VAL_", x))
           /\ ExtendedTypeLine(o, x.extended_type) = Lines("SIG_VALTYPE_", o, Said("SIG_VALTYPE_", x))
           /\ TransmitterLine(x) = Lines("BO_TX_BU_", << "message", x.id >>, Said("BO_TX_BU_", x))
           /\ Optional(x.var_type = "Data", St("ENVVAR_DATA_", o, x.data_size))
                = Lines("ENVVAR_DATA_", o, Said("ENVVAR_DATA_", x))
  <1>1. CommentLine(o, x.comment) = Lines("CM_", o, Said("CM_", x))
    <2> DEFINE q == Quoted(x.comment)
    <2>1. CASE x.comment # ""
      <3>1. Said("CM_", x) = << q >>
        BY <2>1 DEF Said, Optional
      <3>2. CommentLine(o, x.comment) = << St("CM_", o, q) >>
        BY <2>1 DEF CommentLine, Optional
      <3> HIDE DEF q
      <3>3. Lines("CM_", o, << q >>) = << St("CM_", o, q) >>
        BY DEF Lines
      <3> QED
        BY <3>1, <3>2, <3>3
    <2>2. CASE x.comment = ""
      <3>1. Said("CM_", x) = << >>
        BY <2>2 DEF Said, Optional
      <3>2. CommentLine(o, x.comment) = << >>
        BY <2>2 DEF CommentLine, Optional
      <3>3. Lines("CM_", o, << >>) = << >>
        BY DEF Lines
      <3> QED
        BY <3>1, <3>2, <3>3
    <2> QED
      BY <2>1, <2>2
  <1>2. DescriptionLine(o, x.descriptions) = Lines("VAL_", o, Said("VAL_", x))
    <2>1. CASE x.descriptions # << >>
      <3>1. Said("VAL_", x) = << QuotedAll(x.descriptions) >>
        BY <2>1 DEF Said, Optional
      <3> QED
        BY <2>1, <3>1 DEF DescriptionLine, Lines, Optional
    <2>2. CASE x.descriptions = << >>
      <3>1. Said("VAL_", x) = << >>
        BY <2>2 DEF Said, Optional
      <3> QED
        BY <2>2, <3>1 DEF DescriptionLine, Lines, Optional
    <2> QED
      BY <2>1, <2>2
  <1>3. ExtendedTypeLine(o, x.extended_type) = Lines("SIG_VALTYPE_", o, Said("SIG_VALTYPE_", x))
    <2> DEFINE code == IF x.extended_type = "Float" THEN 1 ELSE 2
    <2>1. CASE x.extended_type # "Integer"
      <3>1. Said("SIG_VALTYPE_", x) = << code >>
        BY <2>1 DEF Said, Optional
      <3>2. ExtendedTypeLine(o, x.extended_type) = << St("SIG_VALTYPE_", o, code) >>
        BY <2>1 DEF ExtendedTypeLine, Optional
      <3> HIDE DEF code
      <3> QED
        BY <3>1, <3>2 DEF Lines
    <2>2. CASE x.extended_type = "Integer"
      <3>1. Said("SIG_VALTYPE_", x) = << >>
        BY <2>2 DEF Said, Optional
      <3> QED
        BY <2>2, <3>1 DEF ExtendedTypeLine, Lines, Optional
    <2> QED
      BY <2>1, <2>2
  <1>4. TransmitterLine(x) = Lines("BO_TX_BU_", << "message", x.id >>, Said("BO_TX_BU_", x))
    <2>1. CASE x.transmitters # << >>
      <3>1. Said("BO_TX_BU_", x) = << NameEach(x.transmitters) >>
        BY <2>1 DEF Said, Optional
      <3> QED
        BY <2>1, <3>1 DEF TransmitterLine, Lines, Optional
    <2>2. CASE x.transmitters = << >>
      <3>1. Said("BO_TX_BU_", x) = << >>
        BY <2>2 DEF Said, Optional
      <3> QED
        BY <2>2, <3>1 DEF TransmitterLine, Lines, Optional
    <2> QED
      BY <2>1, <2>2
  <1>5. Optional(x.var_type = "Data", St("ENVVAR_DATA_", o, x.data_size))
          = Lines("ENVVAR_DATA_", o, Said("ENVVAR_DATA_", x))
    <2>1. CASE x.var_type = "Data"
      <3>1. Said("ENVVAR_DATA_", x) = << x.data_size >>
        BY <2>1 DEF Said, Optional
      <3> QED
        BY <2>1, <3>1 DEF Lines, Optional
    <2>2. CASE x.var_type # "Data"
      <3>1. Said("ENVVAR_DATA_", x) = << >>
        BY <2>2 DEF Said, Optional
      <3> QED
        BY <2>2, <3>1 DEF Lines, Optional
    <2> QED
      BY <2>1, <2>2
  <1> QED
    BY <1>1, <1>2, <1>3, <1>4, <1>5

(* operator<<(na_t): the lines of the attributes of an object name that     *)
(* object.                                                                  *)
LEMMA AttributeLinesAre ==
    ASSUME NEW o, NEW x, IsAttributes(x.attributes, ObjectType(o))
    PROVE  AttributeLines(o, x.attributes) = Lines("BA_", o, Said("BA_", x))
  <1> DEFINE as == x.attributes
             values == Said("BA_", x)
  <1>1. Sequence(values)
    BY SaidIs DEF IsAttributes
  <1>2. values = [ i \in DOMAIN as |-> AttributeText(as[i]) ]
    BY DEF Said
  <1>3. \A i \in DOMAIN as : as[i].type = ObjectType(o)
    <2>1. \A i \in DOMAIN as : as[i] = [ type |-> ObjectType(o), name |-> as[i].name,
                                         value |-> as[i].value ]
      BY DEF IsAttributes
    <2> HIDE DEF as
    <2>2. ASSUME NEW i \in DOMAIN as PROVE as[i].type = ObjectType(o)
      <3> DEFINE n == as[i].name
                 v == as[i].value
      <3>1. as[i] = [ type |-> ObjectType(o), name |-> n, value |-> v ]
        BY <2>1
      <3> HIDE DEF n, v
      <3> QED
        BY <3>1
    <2> QED
      BY <2>2
  <1> HIDE DEF values, as
  <1>4. \A i \in DOMAIN as : AttributeLine("BA_", o, as[i]) = St("BA_", o, values[i])
    BY <1>2, <1>3 DEF AttributeLine, AttributeOwner
  <1>5. [ i \in DOMAIN as |-> << AttributeLine("BA_", o, as[i]) >> ]
          = [ i \in DOMAIN values |-> << St("BA_", o, values[i]) >> ]
    BY <1>2, <1>4
  <1>6. AttributeLines(o, as) = Lines("BA_", o, values)
    BY <1>1, <1>5, LineEach DEF AttributeLines, Each
  <1> QED
    BY <1>6 DEF as, values

(* What is written for each object of a list. *)
LEMMA WrittenObjects ==
    ASSUME NEW kind, NEW xs, NEW os, NEW lines,
           DOMAIN os = DOMAIN xs,
           \A i \in DOMAIN xs : lines[i] = Lines(kind, os[i], Said(kind, xs[i]))
    PROVE  FlattenSeq([ i \in DOMAIN xs |-> lines[i] ]) = ObjectLines(kind, os, Says(kind, xs))
  <1>1. [ i \in DOMAIN xs |-> lines[i] ]
          = [ i \in DOMAIN os |-> Lines(kind, os[i], Says(kind, xs)[i]) ]
    BY DEF Says
  <1> QED
    BY <1>1 DEF ObjectLines

(* The same for each signal of each message.                                *)
LEMMA WrittenSignals ==
    ASSUME NEW kind, NEW ms, Sequence(ms), \A i \in DOMAIN ms : Sequence(ms[i].signals),
           NEW lines,
           \A i \in DOMAIN ms : \A j \in DOMAIN ms[i].signals :
              lines[i][j] = Lines(kind, SignalOwners(ms)[i][j], Said(kind, ms[i].signals[j]))
    PROVE  FlattenSeq([ i \in DOMAIN ms |-> FlattenSeq([ j \in DOMAIN ms[i].signals |-> lines[i][j] ]) ])
             = NestedLines(kind, SignalOwners(ms), SignalsSay(kind, ms))
  <1> DEFINE os == SignalOwners(ms)
             vs == SignalsSay(kind, ms)
  <1>1. DOMAIN os = DOMAIN ms /\ \A i \in DOMAIN ms : DOMAIN os[i] = DOMAIN ms[i].signals
    BY SignalOwnersAre
  <1>2. \A i \in DOMAIN ms : vs[i] = Says(kind, ms[i].signals)
    BY DEF SignalsSay
  <1> HIDE DEF os, vs
  <1>3. ASSUME NEW i \in DOMAIN ms
        PROVE  FlattenSeq([ j \in DOMAIN ms[i].signals |-> lines[i][j] ]) = ObjectLines(kind, os[i], vs[i])
    <2> DEFINE xs == ms[i].signals
               oi == os[i]
               li == lines[i]
    <2>1. DOMAIN oi = DOMAIN xs /\ \A j \in DOMAIN xs : li[j] = Lines(kind, oi[j], Said(kind, xs[j]))
      BY <1>1 DEF os
    <2> HIDE DEF xs, oi, li
    <2>2. FlattenSeq([ j \in DOMAIN xs |-> li[j] ]) = ObjectLines(kind, oi, Says(kind, xs))
      BY <2>1, WrittenObjects
    <2> QED
      BY <1>2, <2>2 DEF xs, oi, li
  <1>4. [ i \in DOMAIN ms |-> FlattenSeq([ j \in DOMAIN ms[i].signals |-> lines[i][j] ]) ]
          = [ i \in DOMAIN os |-> ObjectLines(kind, os[i], vs[i]) ]
    BY <1>1, <1>3
  <1> QED
    BY <1>4 DEF NestedLines, os, vs

(* The signals of the messages of a network.                                *)
LEMMA MessageSignals ==
    ASSUME NEW ms, Sequence(ms), \A i \in DOMAIN ms : IsMessage(ms[i])
    PROVE  /\ \A i \in DOMAIN ms : Sequence(ms[i].signals)
           /\ \A i \in DOMAIN ms : \A j \in DOMAIN ms[i].signals : IsSignal(ms[i].signals[j])
  BY DEF IsMessage

(* The five sections with lines for each signal, as what they say of the    *)
(* signals.                                                                 *)
LEMMA SignalSections ==
    ASSUME NEW ms, Sequence(ms), \A i \in DOMAIN ms : IsMessage(ms[i])
    PROVE  /\ EachSignal(ms, LAMBDA o, s : CommentLine(o, s.comment))
                = NestedLines("CM_", SignalOwners(ms), SignalsSay("CM_", ms))
           /\ EachSignal(ms, LAMBDA o, s : AttributeLines(o, s.attributes))
                = NestedLines("BA_", SignalOwners(ms), SignalsSay("BA_", ms))
           /\ EachSignal(ms, LAMBDA o, s : DescriptionLine(o, s.descriptions))
                = NestedLines("VAL_", SignalOwners(ms), SignalsSay("VAL_", ms))
           /\ EachSignal(ms, LAMBDA o, s : ExtendedTypeLine(o, s.extended_type))
                = NestedLines("SIG_VALTYPE_", SignalOwners(ms), SignalsSay("SIG_VALTYPE_", ms))
           /\ EachSignal(ms, LAMBDA o, s : Each(s.multiplexer_values, LAMBDA v : << St("SG_MUL_VAL_", o, v) >>))
                = NestedLines("SG_MUL_VAL_", SignalOwners(ms), SignalsSay("SG_MUL_VAL_", ms))
  <1> DEFINE os == SignalOwners(ms)
             comment == [ i \in DOMAIN ms |-> [ j \in DOMAIN ms[i].signals |->
                             CommentLine(os[i][j], ms[i].signals[j].comment) ] ]
             attribute == [ i \in DOMAIN ms |-> [ j \in DOMAIN ms[i].signals |->
                             AttributeLines(os[i][j], ms[i].signals[j].attributes) ] ]
             description == [ i \in DOMAIN ms |-> [ j \in DOMAIN ms[i].signals |->
                             DescriptionLine(os[i][j], ms[i].signals[j].descriptions) ] ]
             type == [ i \in DOMAIN ms |-> [ j \in DOMAIN ms[i].signals |->
                             ExtendedTypeLine(os[i][j], ms[i].signals[j].extended_type) ] ]
             mux == [ i \in DOMAIN ms |-> [ j \in DOMAIN ms[i].signals |->
                             Each(ms[i].signals[j].multiplexer_values,
                                  LAMBDA v : << St("SG_MUL_VAL_", os[i][j], v) >>) ] ]
             flat(lines) == FlattenSeq([ i \in DOMAIN ms |->
                                FlattenSeq([ j \in DOMAIN ms[i].signals |-> lines[i][j] ]) ])
             Is(i, j) == IsSignal(ms[i].signals[j])
  <1>1. /\ \A i \in DOMAIN ms : Sequence(ms[i].signals)
        /\ \A i \in DOMAIN ms : \A j \in DOMAIN ms[i].signals : Is(i, j)
    BY MessageSignals
  <1>2. \A i \in DOMAIN ms : \A j \in DOMAIN ms[i].signals :
            os[i][j] = << "signal", ms[i].id, ms[i].signals[j].name >>
    BY <1>1, SignalOwnersAre
  <1> HIDE DEF os
  <1>3. /\ EachSignal(ms, LAMBDA o, s : CommentLine(o, s.comment)) = flat(comment)
        /\ EachSignal(ms, LAMBDA o, s : AttributeLines(o, s.attributes)) = flat(attribute)
        /\ EachSignal(ms, LAMBDA o, s : DescriptionLine(o, s.descriptions)) = flat(description)
        /\ EachSignal(ms, LAMBDA o, s : ExtendedTypeLine(o, s.extended_type)) = flat(type)
    BY <1>2 DEF EachSignal, Each
  <1>4. EachSignal(ms, LAMBDA o, s : Each(s.multiplexer_values, LAMBDA v : << St("SG_MUL_VAL_", o, v) >>))
          = flat(mux)
    BY <1>2 DEF EachSignal, Each
  <1>5. \A i \in DOMAIN ms : \A j \in DOMAIN ms[i].signals :
            /\ comment[i][j] = Lines("CM_", os[i][j], Said("CM_", ms[i].signals[j]))
            /\ description[i][j] = Lines("VAL_", os[i][j], Said("VAL_", ms[i].signals[j]))
            /\ type[i][j] = Lines("SIG_VALTYPE_", os[i][j], Said("SIG_VALTYPE_", ms[i].signals[j]))
    BY ObjectLine
  <1>6. ASSUME NEW i \in DOMAIN ms, NEW j \in DOMAIN ms[i].signals
        PROVE  attribute[i][j] = Lines("BA_", os[i][j], Said("BA_", ms[i].signals[j]))
    <2> DEFINE x == ms[i].signals[j]
               o == os[i][j]
    <2>1. ObjectType(o) = "signal"
      BY <1>2 DEF ObjectType
    <2>2. IsAttributes(x.attributes, ObjectType(o))
      BY <1>1, <2>1 DEF IsSignal
    <2>3. attribute[i][j] = AttributeLines(o, x.attributes)
      OBVIOUS
    <2> HIDE DEF x, o
    <2>4. AttributeLines(o, x.attributes) = Lines("BA_", o, Said("BA_", x))
      BY <2>2, AttributeLinesAre
    <2> QED
      BY <2>3, <2>4 DEF x, o
  <1>7. ASSUME NEW i \in DOMAIN ms, NEW j \in DOMAIN ms[i].signals
        PROVE  mux[i][j] = Lines("SG_MUL_VAL_", os[i][j], Said("SG_MUL_VAL_", ms[i].signals[j]))
    <2> DEFINE x == ms[i].signals[j]
               o == os[i][j]
               values == x.multiplexer_values
    <2>1. Sequence(values)
      BY <1>1 DEF IsSignal
    <2>2. Said("SG_MUL_VAL_", x) = values
      BY DEF Said
    <2>3. mux[i][j] = FlattenSeq([ k \in DOMAIN values |-> << St("SG_MUL_VAL_", o, values[k]) >> ])
      BY DEF Each
    <2> HIDE DEF mux, values, x, o
    <2>4. mux[i][j] = Lines("SG_MUL_VAL_", o, values)
      BY <2>1, <2>3, LineEach
    <2> QED
      BY <2>2, <2>4 DEF x, o
  <1> HIDE DEF comment, attribute, description, type, mux
  <1>8. flat(comment) = NestedLines("CM_", os, SignalsSay("CM_", ms))
    BY <1>1, <1>5, WrittenSignals DEF os
  <1>9. flat(attribute) = NestedLines("BA_", os, SignalsSay("BA_", ms))
    BY <1>1, <1>6, WrittenSignals DEF os
  <1>10. flat(description) = NestedLines("VAL_", os, SignalsSay("VAL_", ms))
    BY <1>1, <1>5, WrittenSignals DEF os
  <1>11. flat(type) = NestedLines("SIG_VALTYPE_", os, SignalsSay("SIG_VALTYPE_", ms))
    BY <1>1, <1>5, WrittenSignals DEF os
  <1>12. flat(mux) = NestedLines("SG_MUL_VAL_", os, SignalsSay("SG_MUL_VAL_", ms))
    BY <1>1, <1>7, WrittenSignals DEF os
  <1> QED
    BY <1>3, <1>4, <1>8, <1>9, <1>10, <1>11, <1>12 DEF os

(* The lines for each node, as what they say of the nodes.                  *)
LEMMA NodeSections ==
    ASSUME NEW xs, Sequence(xs), \A i \in DOMAIN xs : IsNode(xs[i])
    PROVE  /\ Each(xs, LAMBDA n : CommentLine(<< "node", n.name >>, n.comment))
                = ObjectLines("CM_", Owners("node", xs), Says("CM_", xs))
           /\ Each(xs, LAMBDA n : AttributeLines(<< "node", n.name >>, n.attributes))
                = ObjectLines("BA_", Owners("node", xs), Says("BA_", xs))
  <1> DEFINE os == Owners("node", xs)
             comment == [ i \in DOMAIN xs |-> CommentLine(os[i], xs[i].comment) ]
             attribute == [ i \in DOMAIN xs |-> AttributeLines(os[i], xs[i].attributes) ]
             flat(lines) == FlattenSeq([ i \in DOMAIN xs |-> lines[i] ])
  <1>1. DOMAIN os = DOMAIN xs /\ \A i \in DOMAIN xs : os[i] = << "node", xs[i].name >>
    BY DEF Owners
  <1> HIDE DEF os
  <1>2. /\ Each(xs, LAMBDA n : CommentLine(<< "node", n.name >>, n.comment)) = flat(comment)
        /\ Each(xs, LAMBDA n : AttributeLines(<< "node", n.name >>, n.attributes)) = flat(attribute)
    BY <1>1 DEF Each
  <1>3. \A i \in DOMAIN xs : comment[i] = Lines("CM_", os[i], Said("CM_", xs[i]))
    BY ObjectLine
  <1>4. ASSUME NEW i \in DOMAIN xs
        PROVE  attribute[i] = Lines("BA_", os[i], Said("BA_", xs[i]))
    <2> DEFINE x == xs[i]
               o == os[i]
    <2>1. ObjectType(o) = "node"
      BY <1>1 DEF ObjectType
    <2>2. IsAttributes(x.attributes, ObjectType(o))
      BY <2>1 DEF IsNode
    <2>3. attribute[i] = AttributeLines(o, x.attributes)
      OBVIOUS
    <2> HIDE DEF x, o
    <2>4. AttributeLines(o, x.attributes) = Lines("BA_", o, Said("BA_", x))
      BY <2>2, AttributeLinesAre
    <2> QED
      BY <2>3, <2>4 DEF x, o
  <1> HIDE DEF comment, attribute
  <1>5. flat(comment) = ObjectLines("CM_", os, Says("CM_", xs))
    BY <1>1, <1>3, WrittenObjects
  <1>6. flat(attribute) = ObjectLines("BA_", os, Says("BA_", xs))
    BY <1>1, <1>4, WrittenObjects
  <1> QED
    BY <1>2, <1>5, <1>6 DEF os

(* The lines for each message, as what they say of the messages.            *)
LEMMA MessageSections ==
    ASSUME NEW xs, Sequence(xs), \A i \in DOMAIN xs : IsMessage(xs[i])
    PROVE  /\ Each(xs, LAMBDA m : CommentLine(<< "message", m.id >>, m.comment))
                = ObjectLines("CM_", MessageOwners(xs), Says("CM_", xs))
           /\ Each(xs, LAMBDA m : AttributeLines(<< "message", m.id >>, m.attributes))
                = ObjectLines("BA_", MessageOwners(xs), Says("BA_", xs))
           /\ Each(xs, TransmitterLine)
                = ObjectLines("BO_TX_BU_", MessageOwners(xs), Says("BO_TX_BU_", xs))
           /\ Each(xs, LAMBDA m : Each(m.signal_groups,
                              LAMBDA g : << St("SIG_GROUP_", << "message", m.id >>, g) >>))
                = ObjectLines("SIG_GROUP_", MessageOwners(xs), Says("SIG_GROUP_", xs))
  <1> DEFINE os == MessageOwners(xs)
             comment == [ i \in DOMAIN xs |-> CommentLine(os[i], xs[i].comment) ]
             attribute == [ i \in DOMAIN xs |-> AttributeLines(os[i], xs[i].attributes) ]
             transmitter == [ i \in DOMAIN xs |-> TransmitterLine(xs[i]) ]
             group == [ i \in DOMAIN xs |-> Each(xs[i].signal_groups,
                                              LAMBDA g : << St("SIG_GROUP_", os[i], g) >>) ]
             flat(lines) == FlattenSeq([ i \in DOMAIN xs |-> lines[i] ])
  <1>1. DOMAIN os = DOMAIN xs /\ \A i \in DOMAIN xs : os[i] = << "message", xs[i].id >>
    BY DEF MessageOwners
  <1> HIDE DEF os
  <1>2. /\ Each(xs, LAMBDA m : CommentLine(<< "message", m.id >>, m.comment)) = flat(comment)
        /\ Each(xs, LAMBDA m : AttributeLines(<< "message", m.id >>, m.attributes)) = flat(attribute)
        /\ Each(xs, TransmitterLine) = flat(transmitter)
    BY <1>1 DEF Each
  <1>3. Each(xs, LAMBDA m : Each(m.signal_groups,
                              LAMBDA g : << St("SIG_GROUP_", << "message", m.id >>, g) >>)) = flat(group)
    BY <1>1 DEF Each
  <1>4. \A i \in DOMAIN xs :
            /\ comment[i] = Lines("CM_", os[i], Said("CM_", xs[i]))
            /\ transmitter[i] = Lines("BO_TX_BU_", os[i], Said("BO_TX_BU_", xs[i]))
    BY <1>1, ObjectLine
  <1>5. ASSUME NEW i \in DOMAIN xs
        PROVE  attribute[i] = Lines("BA_", os[i], Said("BA_", xs[i]))
    <2> DEFINE x == xs[i]
               o == os[i]
    <2>1. ObjectType(o) = "message"
      BY <1>1 DEF ObjectType
    <2>2. IsAttributes(x.attributes, ObjectType(o))
      BY <2>1 DEF IsMessage
    <2>3. attribute[i] = AttributeLines(o, x.attributes)
      OBVIOUS
    <2> HIDE DEF x, o
    <2>4. AttributeLines(o, x.attributes) = Lines("BA_", o, Said("BA_", x))
      BY <2>2, AttributeLinesAre
    <2> QED
      BY <2>3, <2>4 DEF x, o
  <1>6. ASSUME NEW i \in DOMAIN xs
        PROVE  group[i] = Lines("SIG_GROUP_", os[i], Said("SIG_GROUP_", xs[i]))
    <2> DEFINE x == xs[i]
               o == os[i]
               values == x.signal_groups
    <2>1. Sequence(values)
      BY DEF IsMessage
    <2>2. Said("SIG_GROUP_", x) = values
      BY DEF Said
    <2>3. group[i] = FlattenSeq([ k \in DOMAIN values |-> << St("SIG_GROUP_", o, values[k]) >> ])
      BY DEF Each
    <2> HIDE DEF group, values, x, o
    <2>4. group[i] = Lines("SIG_GROUP_", o, values)
      BY <2>1, <2>3, LineEach
    <2> QED
      BY <2>2, <2>4 DEF x, o
  <1> HIDE DEF comment, attribute, transmitter, group
  <1>7. flat(comment) = ObjectLines("CM_", os, Says("CM_", xs))
    BY <1>1, <1>4, WrittenObjects
  <1>8. flat(attribute) = ObjectLines("BA_", os, Says("BA_", xs))
    BY <1>1, <1>5, WrittenObjects
  <1>9. flat(transmitter) = ObjectLines("BO_TX_BU_", os, Says("BO_TX_BU_", xs))
    BY <1>1, <1>4, WrittenObjects
  <1>10. flat(group) = ObjectLines("SIG_GROUP_", os, Says("SIG_GROUP_", xs))
    BY <1>1, <1>6, WrittenObjects
  <1> QED
    BY <1>2, <1>3, <1>7, <1>8, <1>9, <1>10 DEF os

(* The lines for each environment variable, as what they say of the         *)
(* variables.                                                               *)
LEMMA EnvSections ==
    ASSUME NEW xs, Sequence(xs), \A i \in DOMAIN xs : IsEnvVar(xs[i])
    PROVE  /\ Each(xs, LAMBDA ev : CommentLine(<< "env", ev.name >>, ev.comment))
                = ObjectLines("CM_", Owners("env", xs), Says("CM_", xs))
           /\ Each(xs, LAMBDA ev : AttributeLines(<< "env", ev.name >>, ev.attributes))
                = ObjectLines("BA_", Owners("env", xs), Says("BA_", xs))
           /\ Each(xs, LAMBDA ev : DescriptionLine(<< "env", ev.name >>, ev.descriptions))
                = ObjectLines("VAL_", Owners("env", xs), Says("VAL_", xs))
           /\ Each(xs, LAMBDA ev : Optional(ev.var_type = "Data",
                                            St("ENVVAR_DATA_", << "env", ev.name >>, ev.data_size)))
                = ObjectLines("ENVVAR_DATA_", Owners("env", xs), Says("ENVVAR_DATA_", xs))
  <1> DEFINE os == Owners("env", xs)
             comment == [ i \in DOMAIN xs |-> CommentLine(os[i], xs[i].comment) ]
             attribute == [ i \in DOMAIN xs |-> AttributeLines(os[i], xs[i].attributes) ]
             description == [ i \in DOMAIN xs |-> DescriptionLine(os[i], xs[i].descriptions) ]
             data == [ i \in DOMAIN xs |-> Optional(xs[i].var_type = "Data",
                                              St("ENVVAR_DATA_", os[i], xs[i].data_size)) ]
             flat(lines) == FlattenSeq([ i \in DOMAIN xs |-> lines[i] ])
  <1>1. DOMAIN os = DOMAIN xs /\ \A i \in DOMAIN xs : os[i] = << "env", xs[i].name >>
    BY DEF Owners
  <1> HIDE DEF os
  <1>2. /\ Each(xs, LAMBDA ev : CommentLine(<< "env", ev.name >>, ev.comment)) = flat(comment)
        /\ Each(xs, LAMBDA ev : AttributeLines(<< "env", ev.name >>, ev.attributes)) = flat(attribute)
        /\ Each(xs, LAMBDA ev : DescriptionLine(<< "env", ev.name >>, ev.descriptions))
             = flat(description)
        /\ Each(xs, LAMBDA ev : Optional(ev.var_type = "Data",
                                         St("ENVVAR_DATA_", << "env", ev.name >>, ev.data_size)))
             = flat(data)
    BY <1>1 DEF Each
  <1>3. \A i \in DOMAIN xs :
            /\ comment[i] = Lines("CM_", os[i], Said("CM_", xs[i]))
            /\ description[i] = Lines("VAL_", os[i], Said("VAL_", xs[i]))
            /\ data[i] = Lines("ENVVAR_DATA_", os[i], Said("ENVVAR_DATA_", xs[i]))
    BY ObjectLine
  <1>4. ASSUME NEW i \in DOMAIN xs
        PROVE  attribute[i] = Lines("BA_", os[i], Said("BA_", xs[i]))
    <2> DEFINE x == xs[i]
               o == os[i]
    <2>1. ObjectType(o) = "env"
      BY <1>1 DEF ObjectType
    <2>2. IsAttributes(x.attributes, ObjectType(o))
      BY <2>1 DEF IsEnvVar
    <2>3. attribute[i] = AttributeLines(o, x.attributes)
      OBVIOUS
    <2> HIDE DEF x, o
    <2>4. AttributeLines(o, x.attributes) = Lines("BA_", o, Said("BA_", x))
      BY <2>2, AttributeLinesAre
    <2> QED
      BY <2>3, <2>4 DEF x, o
  <1> HIDE DEF comment, attribute, description, data
  <1>5. flat(comment) = ObjectLines("CM_", os, Says("CM_", xs))
    BY <1>1, <1>3, WrittenObjects
  <1>6. flat(attribute) = ObjectLines("BA_", os, Says("BA_", xs))
    BY <1>1, <1>4, WrittenObjects
  <1>7. flat(description) = ObjectLines("VAL_", os, Says("VAL_", xs))
    BY <1>1, <1>3, WrittenObjects
  <1>8. flat(data) = ObjectLines("ENVVAR_DATA_", os, Says("ENVVAR_DATA_", xs))
    BY <1>1, <1>3, WrittenObjects
  <1> QED
    BY <1>2, <1>5, <1>6, <1>7, <1>8 DEF os

(* One statement for each element of a list.                                *)
LEMMA EachOne ==
    ASSUME NEW xs, Sequence(xs), NEW t, DOMAIN t = DOMAIN xs, t = [ i \in DOMAIN xs |-> t[i] ]
    PROVE  Sequence(t) /\ FlattenSeq([ i \in DOMAIN xs |-> << t[i] >> ]) = t
  <1>1. Sequence(t)
    BY MadeOf
  <1>2. [ i \in DOMAIN xs |-> << t[i] >> ] = [ i \in DOMAIN t |-> << t[i] >> ]
    OBVIOUS
  <1>3. FlattenSeq([ i \in DOMAIN t |-> << t[i] >> ]) = t
    BY <1>1, FlattenOnes
  <1> QED
    BY <1>1, <1>2, <1>3

-----------------------------------------------------------------------------
(* The sections of the file. *)

NetworkSays(kind, net) ==
    Said(kind, [ comment |-> net.comment, attributes |-> net.attribute_values ])
NetworkPart(kind, net) == Lines(kind, << "network" >>, NetworkSays(kind, net))
NodePart(kind, net)    == ObjectLines(kind, Owners("node", net.nodes), Says(kind, net.nodes))
MessagePart(kind, net) == ObjectLines(kind, MessageOwners(net.messages), Says(kind, net.messages))
SignalPart(kind, net)  ==
    NestedLines(kind, SignalOwners(net.messages), SignalsSay(kind, net.messages))
EnvPart(kind, net)     ==
    ObjectLines(kind, Owners("env", net.environment_variables),
                Says(kind, net.environment_variables))
FiveParts(kind, net) ==
    NetworkPart(kind, net) \o NodePart(kind, net) \o MessagePart(kind, net)
        \o SignalPart(kind, net) \o EnvPart(kind, net)

Messages(net)  == [ i \in DOMAIN net.messages |-> MessageLine(net.messages[i]) ]
Variables(net) ==
    [ i \in DOMAIN net.environment_variables |-> EnvVarLine(net.environment_variables[i]) ]
Definitions(net) ==
    [ i \in DOMAIN net.attribute_definitions |->
        Value(DefinitionLine(net.attribute_definitions[i])) ]
Defaults(net)  == Said("BA_", [ attributes |-> net.attribute_defaults ])
Tables(net)    == Each(net.value_tables, ValueTableLine)

SectionsOf(net) ==
    << << St("VERSION", << >>, Quoted(net.version)) >>,
       << St("NS_", << >>, net.new_symbols) >>,
       << BitTimingLine(net.bit_timing) >>,
       << NodesLine(net.nodes) >>,
       Tables(net),
       Messages(net),
       MessagePart("BO_TX_BU_", net),
       Variables(net),
       EnvPart("ENVVAR_DATA_", net),
       SignalTypeSection(net),
       FiveParts("CM_", net),
       Lines("BA_DEF_", << >>, Definitions(net)),
       Lines("BA_DEF_DEF_", << "network" >>, Defaults(net)),
       FiveParts("BA_", net),
       SignalPart("VAL_", net) \o EnvPart("VAL_", net),
       MessagePart("SIG_GROUP_", net),
       SignalPart("SIG_VALTYPE_", net),
       SignalPart("SG_MUL_VAL_", net) >>

(* Network2DBC: the eighteen sections of the file are lines that say        *)
(* something of the objects.                                                *)
LEMMA SectionsAre ==
    ASSUME NEW net, IsNetwork(net)
    PROVE  Sections(net) = SectionsOf(net)
  <1> DEFINE ms == net.messages
             evs == net.environment_variables
             x == [ comment |-> net.comment, attributes |-> net.attribute_values ]
             N == << "network" >>
  <1>1. /\ Sequence(ms) /\ \A i \in DOMAIN ms : IsMessage(ms[i])
        /\ Sequence(evs) /\ \A i \in DOMAIN evs : IsEnvVar(evs[i])
        /\ Sequence(net.nodes) /\ \A i \in DOMAIN net.nodes : IsNode(net.nodes[i])
    BY DEF IsNetwork
  <1>2. CommentSection(net) = FiveParts("CM_", net)
    <2>1. CommentLine(N, net.comment) = NetworkPart("CM_", net)
      <3>1. CommentLine(N, x.comment) = Lines("CM_", N, Said("CM_", x))
        BY ObjectLine
      <3> QED
        BY <3>1 DEF NetworkPart, NetworkSays
    <2>2. Each(net.nodes, LAMBDA n : CommentLine(<< "node", n.name >>, n.comment)) = NodePart("CM_", net)
      BY <1>1, NodeSections DEF NodePart
    <2>3. Each(ms, LAMBDA m : CommentLine(<< "message", m.id >>, m.comment)) = MessagePart("CM_", net)
      BY <1>1, MessageSections DEF MessagePart
    <2>4. EachSignal(ms, LAMBDA o, s : CommentLine(o, s.comment)) = SignalPart("CM_", net)
      BY <1>1, SignalSections DEF SignalPart
    <2>5. Each(evs, LAMBDA ev : CommentLine(<< "env", ev.name >>, ev.comment)) = EnvPart("CM_", net)
      BY <1>1, EnvSections DEF EnvPart
    <2> QED
      BY <2>1, <2>2, <2>3, <2>4, <2>5 DEF CommentSection, FiveParts
  <1>3. AttributeSection(net) = FiveParts("BA_", net)
    <2>1. AttributeLines(N, net.attribute_values) = NetworkPart("BA_", net)
      <3>1. IsAttributes(x.attributes, ObjectType(N))
        BY DEF IsNetwork, ObjectType
      <3>2. AttributeLines(N, x.attributes) = Lines("BA_", N, Said("BA_", x))
        <4> HIDE DEF x, N
        <4> QED
          BY <3>1, AttributeLinesAre
      <3> QED
        BY <3>2 DEF NetworkPart, NetworkSays
    <2>2. Each(net.nodes, LAMBDA n : AttributeLines(<< "node", n.name >>, n.attributes)) = NodePart("BA_", net)
      BY <1>1, NodeSections DEF NodePart
    <2>3. Each(ms, LAMBDA m : AttributeLines(<< "message", m.id >>, m.attributes)) = MessagePart("BA_", net)
      BY <1>1, MessageSections DEF MessagePart
    <2>4. EachSignal(ms, LAMBDA o, s : AttributeLines(o, s.attributes)) = SignalPart("BA_", net)
      BY <1>1, SignalSections DEF SignalPart
    <2>5. Each(evs, LAMBDA ev : AttributeLines(<< "env", ev.name >>, ev.attributes)) = EnvPart("BA_", net)
      BY <1>1, EnvSections DEF EnvPart
    <2> QED
      BY <2>1, <2>2, <2>3, <2>4, <2>5 DEF AttributeSection, FiveParts
  <1>4. DescriptionSection(net) = SignalPart("VAL_", net) \o EnvPart("VAL_", net)
    <2>1. EachSignal(ms, LAMBDA o, s : DescriptionLine(o, s.descriptions)) = SignalPart("VAL_", net)
      BY <1>1, SignalSections DEF SignalPart
    <2>2. Each(evs, LAMBDA ev : DescriptionLine(<< "env", ev.name >>, ev.descriptions)) = EnvPart("VAL_", net)
      BY <1>1, EnvSections DEF EnvPart
    <2> QED
      BY <2>1, <2>2 DEF DescriptionSection
  <1>5. /\ Each(ms, TransmitterLine) = MessagePart("BO_TX_BU_", net)
        /\ Each(ms, LAMBDA m : Each(m.signal_groups,
                      LAMBDA g : << St("SIG_GROUP_", << "message", m.id >>, g) >>))
             = MessagePart("SIG_GROUP_", net)
    BY <1>1, MessageSections DEF MessagePart
  <1>6. /\ EachSignal(ms, LAMBDA o, s : ExtendedTypeLine(o, s.extended_type)) = SignalPart("SIG_VALTYPE_", net)
        /\ EachSignal(ms, LAMBDA o, s : Each(s.multiplexer_values, LAMBDA v : << St("SG_MUL_VAL_", o, v) >>))
             = SignalPart("SG_MUL_VAL_", net)
    BY <1>1, SignalSections DEF SignalPart
  <1>7. Each(evs, LAMBDA ev : Optional(ev.var_type = "Data",
                       St("ENVVAR_DATA_", << "env", ev.name >>, ev.data_size)))
          = EnvPart("ENVVAR_DATA_", net)
    BY <1>1, EnvSections DEF EnvPart
  <1>8. Each(ms, LAMBDA m : << MessageLine(m) >>) = Messages(net)
    <2> DEFINE t == Messages(net)
    <2>1. DOMAIN t = DOMAIN ms /\ \A i \in DOMAIN ms : t[i] = MessageLine(ms[i])
      BY DEF Messages
    <2>2. t = [ i \in DOMAIN ms |-> t[i] ]
      BY DEF Messages
    <2> HIDE DEF t
    <2>3. [ i \in DOMAIN ms |-> << MessageLine(ms[i]) >> ] = [ i \in DOMAIN ms |-> << t[i] >> ]
      BY <2>1
    <2> HIDE DEF ms
    <2>4. FlattenSeq([ i \in DOMAIN ms |-> << t[i] >> ]) = t
      BY <1>1, <2>1, <2>2, EachOne
    <2> QED
      BY <2>3, <2>4 DEF Each, t
  <1>9. Each(evs, LAMBDA ev : << EnvVarLine(ev) >>) = Variables(net)
    <2> DEFINE t == Variables(net)
    <2>1. DOMAIN t = DOMAIN evs /\ \A i \in DOMAIN evs : t[i] = EnvVarLine(evs[i])
      BY DEF Variables
    <2>2. t = [ i \in DOMAIN evs |-> t[i] ]
      BY DEF Variables
    <2> HIDE DEF t
    <2>3. [ i \in DOMAIN evs |-> << EnvVarLine(evs[i]) >> ] = [ i \in DOMAIN evs |-> << t[i] >> ]
      BY <2>1
    <2> HIDE DEF evs
    <2>4. FlattenSeq([ i \in DOMAIN evs |-> << t[i] >> ]) = t
      BY <1>1, <2>1, <2>2, EachOne
    <2> QED
      BY <2>3, <2>4 DEF Each, t
  <1>10. Each(net.attribute_definitions, LAMBDA d : << DefinitionLine(d) >>)
          = Lines("BA_DEF_", << >>, Definitions(net))
    <2> DEFINE ds == net.attribute_definitions
               t == Definitions(net)
    <2>1. Sequence(ds)
      BY DEF IsNetwork
    <2>2. /\ DOMAIN t = DOMAIN ds /\ t = [ i \in DOMAIN ds |-> t[i] ]
          /\ \A i \in DOMAIN ds : << DefinitionLine(ds[i]) >> = << St("BA_DEF_", << >>, t[i]) >>
      BY DEF Definitions, DefinitionLine, Value, St
    <2>3. Each(ds, LAMBDA d : << DefinitionLine(d) >>)
            = FlattenSeq([ i \in DOMAIN ds |-> << DefinitionLine(ds[i]) >> ])
      BY DEF Each
    <2> HIDE DEF ds, t
    <2>4. Sequence(t)
      BY <2>1, <2>2, MadeOf
    <2>5. [ i \in DOMAIN ds |-> << DefinitionLine(ds[i]) >> ]
            = [ i \in DOMAIN t |-> << St("BA_DEF_", << >>, t[i]) >> ]
      BY <2>2
    <2>6. Each(ds, LAMBDA d : << DefinitionLine(d) >>) = Lines("BA_DEF_", << >>, t)
      BY <2>3, <2>4, <2>5, LineEach
    <2> QED
      BY <2>6 DEF ds, t
  <1>11. Each(net.attribute_defaults, LAMBDA d : << AttributeLine("BA_DEF_DEF_", N, d) >>)
          = Lines("BA_DEF_DEF_", N, Defaults(net))
    <2> DEFINE as == net.attribute_defaults
               y == [ attributes |-> as ]
               values == Defaults(net)
    <2>1. IsAttributes(as, ObjectType(N))
      BY DEF IsNetwork, ObjectType
    <2>2. values = [ i \in DOMAIN as |-> AttributeText(as[i]) ]
      BY DEF Defaults, Said
    <2>3. Sequence(values)
      <3>1. Sequence(as) /\ DOMAIN values = DOMAIN as /\ values = [ i \in DOMAIN as |-> values[i] ]
        BY <2>1, <2>2 DEF IsAttributes
      <3> HIDE DEF values, as
      <3> QED
        BY <3>1, MadeOf
    <2> HIDE DEF values, as, N
    <2>4. \A i \in DOMAIN as : as[i].type = ObjectType(N)
      <3>1. ASSUME NEW i \in DOMAIN as PROVE as[i].type = ObjectType(N)
        <4> DEFINE n == as[i].name
                   v == as[i].value
        <4>1. as[i] = [ type |-> ObjectType(N), name |-> n, value |-> v ]
          BY <2>1 DEF IsAttributes
        <4> HIDE DEF n, v
        <4> QED
          BY <4>1
      <3> QED
        BY <3>1
    <2>5. \A i \in DOMAIN as : AttributeLine("BA_DEF_DEF_", N, as[i]) = St("BA_DEF_DEF_", N, values[i])
      BY <2>2, <2>4 DEF AttributeLine, AttributeOwner
    <2>6. [ i \in DOMAIN as |-> << AttributeLine("BA_DEF_DEF_", N, as[i]) >> ]
            = [ i \in DOMAIN values |-> << St("BA_DEF_DEF_", N, values[i]) >> ]
      BY <2>2, <2>5
    <2>7. Each(as, LAMBDA d : << AttributeLine("BA_DEF_DEF_", N, d) >>) = Lines("BA_DEF_DEF_", N, values)
      BY <2>3, <2>6, LineEach DEF Each
    <2> QED
      BY <2>7 DEF as, values
  <1> QED
    BY <1>2, <1>3, <1>4, <1>5, <1>6, <1>7, <1>8, <1>9, <1>10, <1>11 DEF Sections, SectionsOf, Tables

OfNetwork == {"CM_", "BA_"}
OfMessage == {"CM_", "BA_", "BO_TX_BU_", "SIG_GROUP_"}
OfSignal  == {"CM_", "BA_", "VAL_", "SIG_VALTYPE_", "SG_MUL_VAL_"}
OfEnv     == {"CM_", "BA_", "VAL_", "ENVVAR_DATA_"}

(* What they say is a list for each object.                                 *)
LEMMA ValuesAre ==
    ASSUME NEW net, IsNetwork(net), NEW kind
    PROVE  /\ kind \in OfNetwork =>
                /\ Sequence(NetworkSays(kind, net))
                /\ \A i \in DOMAIN net.nodes : Sequence(Says(kind, net.nodes)[i])
           /\ kind \in OfMessage =>
                \A i \in DOMAIN net.messages : Sequence(Says(kind, net.messages)[i])
           /\ kind \in OfSignal =>
                \A i \in DOMAIN net.messages : \A j \in DOMAIN net.messages[i].signals :
                    Sequence(SignalsSay(kind, net.messages)[i][j])
           /\ kind \in OfEnv =>
                \A i \in DOMAIN net.environment_variables :
                    Sequence(Says(kind, net.environment_variables)[i])
  <1>1. ASSUME kind \in OfNetwork
        PROVE  /\ Sequence(NetworkSays(kind, net))
               /\ \A i \in DOMAIN net.nodes : Sequence(Says(kind, net.nodes)[i])
    <2>1. Sequence(NetworkSays(kind, net))
      <3> DEFINE x == [ comment |-> net.comment, attributes |-> net.attribute_values ]
      <3>1. Sequence(x.attributes)
        BY DEF IsNetwork, IsAttributes
      <3> HIDE DEF x
      <3>2. Sequence(Said(kind, x))
        BY <1>1, <3>1, SaidIs DEF OfNetwork
      <3> QED
        BY <3>2 DEF NetworkSays, x
    <2>2. \A i \in DOMAIN net.nodes : Sequence(net.nodes[i].attributes)
      BY DEF IsNetwork, IsNode, IsAttributes
    <2>3. \A i \in DOMAIN net.nodes : Sequence(Said(kind, net.nodes[i]))
      BY <1>1, <2>2, SaidIs DEF OfNetwork
    <2> QED
      BY <2>1, <2>3 DEF Says
  <1>2. ASSUME kind \in OfMessage
        PROVE  \A i \in DOMAIN net.messages : Sequence(Says(kind, net.messages)[i])
    <2>1. \A i \in DOMAIN net.messages :
            Sequence(net.messages[i].attributes) /\ Sequence(net.messages[i].signal_groups)
      BY DEF IsNetwork, IsMessage, IsAttributes
    <2>2. \A i \in DOMAIN net.messages : Sequence(Said(kind, net.messages[i]))
      BY <1>2, <2>1, SaidIs DEF OfMessage
    <2> QED
      BY <2>2 DEF Says
  <1>3. ASSUME kind \in OfSignal
        PROVE  \A i \in DOMAIN net.messages : \A j \in DOMAIN net.messages[i].signals :
                    Sequence(SignalsSay(kind, net.messages)[i][j])
    <2>1. \A i \in DOMAIN net.messages : \A j \in DOMAIN net.messages[i].signals :
              IsSignal(net.messages[i].signals[j])
      BY MessageSignals DEF IsNetwork
    <2>2. \A s : IsSignal(s) => Sequence(s.attributes) /\ Sequence(s.multiplexer_values)
      BY DEF IsSignal, IsAttributes
    <2>3. \A i \in DOMAIN net.messages : \A j \in DOMAIN net.messages[i].signals :
              Sequence(Said(kind, net.messages[i].signals[j]))
      BY <1>3, <2>1, <2>2, SaidIs DEF OfSignal
    <2> QED
      BY <2>3 DEF SignalsSay, Says
  <1>4. ASSUME kind \in OfEnv
        PROVE  \A i \in DOMAIN net.environment_variables :
                    Sequence(Says(kind, net.environment_variables)[i])
    <2>1. \A i \in DOMAIN net.environment_variables :
              Sequence(net.environment_variables[i].attributes)
      BY DEF IsNetwork, IsEnvVar, IsAttributes
    <2>2. \A i \in DOMAIN net.environment_variables :
              Sequence(Said(kind, net.environment_variables[i]))
      BY <1>4, <2>1, SaidIs DEF OfEnv
    <2> QED
      BY <2>2 DEF Says
  <1> QED
    BY <1>1, <1>2, <1>3, <1>4

(* Each part has statements of one kind about objects of one type. *)
PartOf(part, kind, type) ==
    /\ Sequence(part)
    /\ \A st \in ToSet(part) : Kind(st) = kind /\ Owner(st)[1] = type

(* Lines about objects of one type.                                         *)
LEMMA ObjectLinesOf ==
    ASSUME NEW kind, NEW os, Sequence(os), NEW vs, \A i \in DOMAIN os : Sequence(vs[i]),
           NEW type, \A i \in DOMAIN os : os[i][1] = type
    PROVE  PartOf(ObjectLines(kind, os, vs), kind, type)
  <1>1. Sequence(ObjectLines(kind, os, vs))
    BY ObjectLinesAre
  <1>2. \A st \in ToSet(ObjectLines(kind, os, vs)) :
          /\ Kind(st) = kind
          /\ \E i \in DOMAIN os : Owner(st) = os[i] /\ Value(st) \in ToSet(vs[i])
    BY ObjectLinesAre
  <1> QED
    BY <1>1, <1>2 DEF PartOf

(* Lines about the signals.                                                 *)
LEMMA NestedLinesOf ==
    ASSUME NEW kind, NEW oss, Sequences(oss), NEW vss,
           \A i \in DOMAIN oss : \A j \in DOMAIN oss[i] : Sequence(vss[i][j]),
           NEW type, \A i \in DOMAIN oss : \A j \in DOMAIN oss[i] : oss[i][j][1] = type
    PROVE  PartOf(NestedLines(kind, oss, vss), kind, type)
  <1>1. Sequence(NestedLines(kind, oss, vss))
    BY NestedLinesAre
  <1>2. \A st \in ToSet(NestedLines(kind, oss, vss)) :
          /\ Kind(st) = kind
          /\ \E i \in DOMAIN oss : \E j \in DOMAIN oss[i] :
                Owner(st) = oss[i][j] /\ Value(st) \in ToSet(vss[i][j])
    BY NestedLinesAre
  <1> DEFINE part == NestedLines(kind, oss, vss)
  <1>3. ASSUME NEW st \in ToSet(part)
        PROVE  Kind(st) = kind /\ Owner(st)[1] = type
    <2>1. Kind(st) = kind
      BY <1>2
    <2>2. PICK i \in DOMAIN oss : \E j \in DOMAIN oss[i] : Owner(st) = oss[i][j]
      BY <1>2
    <2>3. PICK j \in DOMAIN oss[i] : Owner(st) = oss[i][j]
      BY <2>2
    <2>4. oss[i][j][1] = type
      OBVIOUS
    <2> QED
      BY <2>1, <2>3, <2>4
  <1> HIDE DEF part
  <1>4. Sequence(part)
    BY <1>1 DEF part
  <1>5. PartOf(part, kind, type)
    BY <1>3, <1>4 DEF PartOf
  <1> QED
    BY <1>5 DEF part

(* The parts of the sections.                                               *)
LEMMA PartsAre ==
    ASSUME NEW net, IsNetwork(net), NEW kind
    PROVE  /\ kind \in OfNetwork => PartOf(NetworkPart(kind, net), kind, "network")
           /\ kind \in OfNetwork => PartOf(NodePart(kind, net), kind, "node")
           /\ kind \in OfMessage => PartOf(MessagePart(kind, net), kind, "message")
           /\ kind \in OfSignal  => PartOf(SignalPart(kind, net), kind, "signal")
           /\ kind \in OfEnv     => PartOf(EnvPart(kind, net), kind, "env")
  <1>0. /\ Sequence(net.nodes) /\ Sequence(net.messages) /\ Sequence(net.environment_variables)
        /\ \A i \in DOMAIN net.messages : Sequence(net.messages[i].signals)
    BY DEF IsNetwork, IsMessage
  <1>1. ASSUME kind \in OfNetwork PROVE PartOf(NetworkPart(kind, net), kind, "network")
    <2>1. Sequence(NetworkSays(kind, net))
      BY <1>1, ValuesAre
    <2> QED
      BY <2>1, LinesAre DEF NetworkPart, PartOf
  <1>2. ASSUME kind \in OfNetwork PROVE PartOf(NodePart(kind, net), kind, "node")
    <2> DEFINE os == Owners("node", net.nodes)
               vs == Says(kind, net.nodes)
    <2>1. Sequence(os) /\ DOMAIN os = DOMAIN net.nodes /\ \A i \in DOMAIN os : os[i][1] = "node"
      BY <1>0, OwnersAre DEF Owners
    <2>2. \A i \in DOMAIN os : Sequence(vs[i])
      BY <1>2, <2>1, ValuesAre
    <2>3. NodePart(kind, net) = ObjectLines(kind, os, vs)
      BY DEF NodePart
    <2> HIDE DEF os, vs
    <2> QED
      BY <2>1, <2>2, <2>3, ObjectLinesOf
  <1>3. ASSUME kind \in OfMessage PROVE PartOf(MessagePart(kind, net), kind, "message")
    <2> DEFINE os == MessageOwners(net.messages)
               vs == Says(kind, net.messages)
    <2>1. Sequence(os) /\ DOMAIN os = DOMAIN net.messages /\ \A i \in DOMAIN os : os[i][1] = "message"
      BY <1>0, OwnersAre DEF MessageOwners
    <2>2. \A i \in DOMAIN os : Sequence(vs[i])
      BY <1>3, <2>1, ValuesAre
    <2>3. MessagePart(kind, net) = ObjectLines(kind, os, vs)
      BY DEF MessagePart
    <2> HIDE DEF os, vs
    <2> QED
      BY <2>1, <2>2, <2>3, ObjectLinesOf
  <1>4. ASSUME kind \in OfSignal PROVE PartOf(SignalPart(kind, net), kind, "signal")
    <2> DEFINE oss == SignalOwners(net.messages)
               vss == SignalsSay(kind, net.messages)
    <2>1. /\ Sequences(oss) /\ DOMAIN oss = DOMAIN net.messages
          /\ \A i \in DOMAIN oss : DOMAIN oss[i] = DOMAIN net.messages[i].signals
          /\ \A i \in DOMAIN oss : \A j \in DOMAIN oss[i] : oss[i][j][1] = "signal"
      BY <1>0, SignalOwnersAre
    <2>2. \A i \in DOMAIN oss : \A j \in DOMAIN oss[i] : Sequence(vss[i][j])
      BY <1>4, <2>1, ValuesAre
    <2>3. SignalPart(kind, net) = NestedLines(kind, oss, vss)
      BY DEF SignalPart
    <2> HIDE DEF oss, vss
    <2> QED
      BY <2>1, <2>2, <2>3, NestedLinesOf
  <1>5. ASSUME kind \in OfEnv PROVE PartOf(EnvPart(kind, net), kind, "env")
    <2> DEFINE os == Owners("env", net.environment_variables)
               vs == Says(kind, net.environment_variables)
    <2>1. /\ Sequence(os) /\ DOMAIN os = DOMAIN net.environment_variables
          /\ \A i \in DOMAIN os : os[i][1] = "env"
      BY <1>0, OwnersAre DEF Owners
    <2>2. \A i \in DOMAIN os : Sequence(vs[i])
      BY <1>5, <2>1, ValuesAre
    <2>3. EnvPart(kind, net) = ObjectLines(kind, os, vs)
      BY DEF EnvPart
    <2> HIDE DEF os, vs
    <2> QED
      BY <2>1, <2>2, <2>3, ObjectLinesOf
  <1> QED
    BY <1>1, <1>2, <1>3, <1>4, <1>5

(* The sections with comments and attributes are five parts, about objects  *)
(* of five types.                                                           *)
LEMMA FivePartsAre ==
    ASSUME NEW net, IsNetwork(net), NEW kind \in OfNetwork
    PROVE  /\ Sequence(FiveParts(kind, net))
           /\ ToSet(FiveParts(kind, net))
                = ToSet(NetworkPart(kind, net)) \cup ToSet(NodePart(kind, net))
                    \cup ToSet(MessagePart(kind, net)) \cup ToSet(SignalPart(kind, net))
                    \cup ToSet(EnvPart(kind, net))
           /\ \A o : About(FiveParts(kind, net), kind, o)
                       = About(NetworkPart(kind, net), kind, o) \o About(NodePart(kind, net), kind, o)
                           \o About(MessagePart(kind, net), kind, o)
                           \o About(SignalPart(kind, net), kind, o) \o About(EnvPart(kind, net), kind, o)
  <1> DEFINE a == NetworkPart(kind, net)
             b == NodePart(kind, net)
             c == MessagePart(kind, net)
             d == SignalPart(kind, net)
             e == EnvPart(kind, net)
  <1>1. Sequence(a) /\ Sequence(b) /\ Sequence(c) /\ Sequence(d) /\ Sequence(e)
    <2>1. kind \in OfMessage /\ kind \in OfSignal /\ kind \in OfEnv
      BY DEF OfNetwork, OfMessage, OfSignal, OfEnv
    <2> QED
      BY <2>1, PartsAre DEF PartOf
  <1>2. FiveParts(kind, net) = (((a \o b) \o c) \o d) \o e
    BY DEF FiveParts
  <1> HIDE DEF a, b, c, d, e
  <1>3. Sequence(a \o b) /\ ToSet(a \o b) = ToSet(a) \cup ToSet(b)
    BY <1>1, SequenceConcat, ConcatToSet
  <1>4. /\ Sequence((a \o b) \o c)
        /\ ToSet((a \o b) \o c) = ToSet(a) \cup ToSet(b) \cup ToSet(c)
    BY <1>1, <1>3, SequenceConcat, ConcatToSet
  <1>5. /\ Sequence(((a \o b) \o c) \o d)
        /\ ToSet(((a \o b) \o c) \o d) = ToSet(a) \cup ToSet(b) \cup ToSet(c) \cup ToSet(d)
    BY <1>1, <1>4, SequenceConcat, ConcatToSet
  <1>6. /\ Sequence((((a \o b) \o c) \o d) \o e)
        /\ ToSet((((a \o b) \o c) \o d) \o e)
             = ToSet(a) \cup ToSet(b) \cup ToSet(c) \cup ToSet(d) \cup ToSet(e)
    BY <1>1, <1>5, SequenceConcat, ConcatToSet
  <1>7. ASSUME NEW o
        PROVE  About((((a \o b) \o c) \o d) \o e, kind, o)
                 = (((About(a, kind, o) \o About(b, kind, o)) \o About(c, kind, o))
                      \o About(d, kind, o)) \o About(e, kind, o)
    <2>1. About(a \o b, kind, o) = About(a, kind, o) \o About(b, kind, o)
      BY <1>1, AboutConcat
    <2>2. About((a \o b) \o c, kind, o) = About(a \o b, kind, o) \o About(c, kind, o)
      BY <1>1, <1>3, AboutConcat
    <2>3. About(((a \o b) \o c) \o d, kind, o) = About((a \o b) \o c, kind, o) \o About(d, kind, o)
      BY <1>1, <1>4, AboutConcat
    <2>4. About((((a \o b) \o c) \o d) \o e, kind, o)
            = About(((a \o b) \o c) \o d, kind, o) \o About(e, kind, o)
      BY <1>1, <1>5, AboutConcat
    <2> QED
      BY <2>1, <2>2, <2>3, <2>4
  <1> QED
    BY <1>2, <1>6, <1>7 DEF a, b, c, d, e

(* Two intervals from 1 are equal only with the same end.                   *)
LEMMA SameInterval ==
    ASSUME NEW m \in Nat, NEW n \in Nat, 1 .. m = 1 .. n
    PROVE  m = n
  <1>1. m # 0 => m \in 1 .. n
    OBVIOUS
  <1>2. n # 0 => n \in 1 .. m
    OBVIOUS
  <1> QED
    BY <1>1, <1>2

(* A part may stand earlier, if there is nothing between. *)
LEMMA FlattenMoved ==
    ASSUME NEW s, Sequences(s), NEW t, Sequences(t), DOMAIN t = DOMAIN s,
           NEW k \in DOMAIN s, NEW l \in DOMAIN s, k < l,
           t[k] = s[k] \o s[l], t[l] = << >>,
           \A i \in DOMAIN s : i # k /\ i # l => t[i] = s[i],
           \A i \in DOMAIN s : k < i /\ i < l => s[i] = << >>
    PROVE  FlattenSeq(s) = FlattenSeq(t)
  <1> DEFINE n == Len(s)
             S(i) == FlattenSeq(Prefix(s, i))
             Claim(i) == FlattenSeq(Prefix(t, i)) = IF k <= i /\ i < l THEN S(i) \o s[l] ELSE S(i)
             T == { i \in 0 .. n : ~ Claim(i) }
  <1>1. /\ n \in Nat /\ DOMAIN s = 1 .. n /\ Len(t) = n
        /\ \A i \in 1 .. n : Sequence(s[i]) /\ Sequence(t[i])
    <2>1. Len(t) \in Nat /\ DOMAIN t = 1 .. Len(t) /\ n \in Nat /\ DOMAIN s = 1 .. n
      <3>1. Sequence(s) /\ Sequence(t)
        BY Zenon DEF Sequences
      <3> QED
        BY <3>1, SequenceDomain
    <2>2. Len(t) = n
      BY <2>1, SameInterval
    <2> QED
      BY <2>1, <2>2, Zenon DEF Sequences
  <1>2. \A i \in 0 .. n : Sequence(S(i))
    BY <1>1, FlattenLists
  <1> HIDE DEF n
  <1>3. T = {}
    <2>1. ASSUME T # {} PROVE FALSE
      <3>1. PICK i \in T : \A y \in T : i <= y
        <4>1. T \in SUBSET Nat
          BY <1>1
        <4> HIDE DEF T
        <4> QED
          BY <2>1, <4>1, LeastNumber
      <3>2. i \in 0 .. n /\ ~ Claim(i)
        OBVIOUS
      <3>3. i # 0
        <4>1. ~ (k <= 0)
          BY <1>1
        <4> QED
          BY <3>2, <4>1, PrefixNone
      <3>4. i - 1 \in 0 .. n /\ ~ (i <= i - 1) /\ i \in 1 .. n /\ i \in Nat \ {0}
        BY <1>1, <3>2, <3>3
      <3>5. Claim(i - 1)
        BY <3>1, <3>4
      <3>6. /\ FlattenSeq(Prefix(t, i)) = FlattenSeq(Prefix(t, i - 1)) \o t[i]
            /\ S(i) = S(i - 1) \o s[i]
        BY <1>1, <3>4, FlattenPrefix
      <3>7. Sequence(S(i - 1)) /\ Sequence(s[i]) /\ Sequence(s[l]) /\ Sequence(S(i)) /\ Sequence(s[k])
        BY <1>1, <1>2, <3>4
      <3> DEFINE p == S(i - 1)
      <3> HIDE DEF T
      <3>8. k \in Nat /\ l \in Nat
        BY <1>1
      <3>9. CASE i < k
        <4>1. ~ (k <= i) /\ ~ (k <= i - 1) /\ i # k /\ i # l
          BY <3>4, <3>8, <3>9
        <4> QED
          BY <1>1, <3>2, <3>4, <3>5, <3>6, <4>1
      <3>10. CASE i = k
        <4>1. ~ (k <= i - 1) /\ k <= i /\ i < l
          BY <3>4, <3>8, <3>10
        <4>2. FlattenSeq(Prefix(t, i)) = p \o (s[k] \o s[l]) /\ S(i) = p \o s[k]
          BY <3>5, <3>6, <3>10, <4>1
        <4>3. p \o (s[k] \o s[l]) = (p \o s[k]) \o s[l]
          <5>1. Sequence(p) /\ Sequence(s[k]) /\ Sequence(s[l])
            BY <3>7
          <5> HIDE DEF p
          <5>2. Associates(p, s[k], s[l])
            BY <5>1, SequenceAssociative
          <5> QED
            BY <5>2 DEF Associates
        <4> QED
          BY <3>2, <4>1, <4>2, <4>3
      <3>11. CASE k < i /\ i < l
        <4>1. k <= i - 1 /\ i - 1 < l /\ k <= i /\ i # k /\ i # l
          BY <3>4, <3>8, <3>11
        <4>2. s[i] = << >> /\ t[i] = << >>
          BY <1>1, <3>4, <3>11, <4>1
        <4>3. FlattenSeq(Prefix(t, i)) = (p \o s[l]) \o << >> /\ S(i) = p \o << >>
          BY <3>5, <3>6, <4>1, <4>2
        <4>4. Sequence(p \o s[l])
          BY <3>7, SequenceConcat
        <4>5. (p \o s[l]) \o << >> = p \o s[l] /\ p \o << >> = p
          <5> HIDE DEF p
          <5> QED
            BY <3>7, <4>4, ConcatEmpty DEF p
        <4> QED
          BY <3>2, <3>11, <4>1, <4>3, <4>5
      <3>12. CASE i = l
        <4>1. k <= i - 1 /\ i - 1 < l /\ ~ (i < l)
          BY <3>4, <3>8, <3>12
        <4>2. FlattenSeq(Prefix(t, i)) = (p \o s[l]) \o << >> /\ S(i) = p \o s[l]
          BY <3>5, <3>6, <3>12, <4>1
        <4>3. Sequence(p \o s[l])
          BY <3>7, SequenceConcat
        <4>4. (p \o s[l]) \o << >> = p \o s[l]
          BY <4>3, ConcatEmpty
        <4> QED
          BY <3>2, <4>1, <4>2, <4>4
      <3>13. CASE l < i
        <4>1. ~ (i - 1 < l) /\ ~ (i < l) /\ i # k /\ i # l
          BY <3>4, <3>8, <3>13
        <4>2. t[i] = s[i]
          BY <1>1, <3>4, <4>1
        <4> QED
          BY <3>2, <3>5, <3>6, <4>1, <4>2
      <3> QED
        BY <3>4, <3>8, <3>9, <3>10, <3>11, <3>12, <3>13
    <2> QED
      BY <2>1
  <1>4. n \in 0 .. n /\ ~ (n < l)
    BY <1>1
  <1>5. (n \in 0 .. n /\ n < l) \/ Claim(n)
    BY <1>3, <1>4
  <1>6. FlattenSeq(Prefix(t, n)) = FlattenSeq(Prefix(s, n))
    <2>1. n \in Nat /\ l \in Nat /\ l <= n
      BY <1>1
    <2> QED
      BY <1>5, <2>1
  <1> QED
    BY <1>1, <1>6, PrefixAll DEF n, Sequences

(* Parts of which two are not empty.                                        *)
LEMMA FlattenTwo ==
    ASSUME NEW s, Sequences(s), NEW k \in DOMAIN s, NEW l \in DOMAIN s, k < l,
           \A i \in DOMAIN s : i # k /\ i # l => s[i] = << >>
    PROVE  FlattenSeq(s) = s[k] \o s[l]
  <1> DEFINE t == [ i \in DOMAIN s |-> IF i = k THEN s[k] \o s[l] ELSE << >> ]
  <1>1. /\ DOMAIN t = DOMAIN s /\ t = [ i \in DOMAIN s |-> t[i] ]
        /\ t[k] = s[k] \o s[l] /\ \A i \in DOMAIN s : i # k => t[i] = << >>
    OBVIOUS
  <1> HIDE DEF t
  <1>2. Sequence(t)
    BY <1>1, MadeOf DEF Sequences
  <1>3. Sequence(s[k] \o s[l])
    BY SequenceConcat DEF Sequences
  <1>4. Sequences(t)
    BY <1>1, <1>2, <1>3, SequenceEmpty DEF Sequences
  <1>5. k # l
    <2>1. k \in Int /\ l \in Int
      BY SequenceDomain DEF Sequences
    <2> QED
      BY <2>1
  <1>6. FlattenSeq(s) = FlattenSeq(t)
    <2>1. t[l] = << >> /\ \A i \in DOMAIN s : i # k /\ i # l => t[i] = s[i]
      BY <1>1, <1>5
    <2>2. \A i \in DOMAIN s : k < i /\ i < l => s[i] = << >>
      <3>1. \A i \in DOMAIN s : i \in Int
        BY SequenceDomain DEF Sequences
      <3> QED
        BY <3>1
    <2>3. DOMAIN t = DOMAIN s /\ t[k] = s[k] \o s[l]
      BY <1>1
    <2> QED
      BY <1>4, <2>1, <2>2, <2>3, FlattenMoved
  <1>7. FlattenSeq(t) = t[k]
    BY <1>1, <1>4, FlattenOnly
  <1> QED
    BY <1>1, <1>6, <1>7

-----------------------------------------------------------------------------
(* The statements of a section. *)

SectionKind(k) == IF k = 10 THEN "VAL_TABLE_" ELSE SectionOrder[k]
OfKind(part, kind) == Sequence(part) /\ \A st \in ToSet(part) : Kind(st) = kind

(* A section of one statement.                                              *)
LEMMA OneStatement ==
    ASSUME NEW kind, NEW o, NEW v
    PROVE  /\ OfKind(<< St(kind, o, v) >>, kind)
           /\ ToSet(<< St(kind, o, v) >>) = { St(kind, o, v) }
  <1> DEFINE st == St(kind, o, v)
  <1>1. Kind(st) = kind
    BY DEF St, Kind
  <1> HIDE DEF st
  <1>2. Sequence(<< st >>) /\ ToSet(<< st >>) = {st}
    BY SequenceOne DEF ToSet
  <1> QED
    BY <1>1, <1>2 DEF OfKind, st

(* The value tables that are written, and where they are written again. *)
TableSt(vt) == St("VAL_TABLE_", << "table", vt.name >>, QuotedAll(vt.descriptions))

(* The tables with descriptions are written, those with a signal type in    *)
(* two places.                                                              *)
LEMMA TablesAre ==
    ASSUME NEW net, Sequence(net.value_tables)
    PROVE  /\ OfKind(Tables(net), "VAL_TABLE_")
           /\ OfKind(SignalTypeSection(net), "VAL_TABLE_")
           /\ ToSet(Tables(net))
                = { TableSt(net.value_tables[i]) :
                      i \in { j \in DOMAIN net.value_tables :
                                net.value_tables[j].descriptions # << >> } }
           /\ ToSet(SignalTypeSection(net))
                = { TableSt(net.value_tables[i]) :
                      i \in { j \in DOMAIN net.value_tables :
                                /\ net.value_tables[j].descriptions # << >>
                                /\ net.value_tables[j].signal_type # << >> } }
  <1> DEFINE xs == net.value_tables
             a == [ i \in DOMAIN xs |-> ValueTableLine(xs[i]) ]
             b == [ i \in DOMAIN xs |-> IF xs[i].signal_type # << >> THEN ValueTableLine(xs[i])
                                                                     ELSE << >> ]
  <1>1. Tables(net) = FlattenSeq(a) /\ SignalTypeSection(net) = FlattenSeq(b)
    BY DEF Tables, SignalTypeSection, Each
  <1>2. \A x : /\ Sequence(ValueTableLine(x))
               /\ x.descriptions = << >> => ToSet(ValueTableLine(x)) = {}
               /\ x.descriptions # << >> => ToSet(ValueTableLine(x)) = { TableSt(x) }
    <2>1. \A x : Sequence(<< TableSt(x) >>) /\ ToSet(<< TableSt(x) >>) = { TableSt(x) }
      BY SequenceOne DEF ToSet
    <2>2. Sequence(<< >>) /\ ToSet(<< >>) = {}
      BY SequenceEmpty DEF ToSet
    <2>3. \A x : x.descriptions = << >> => ValueTableLine(x) = << >>
      BY DEF ValueTableLine, Optional
    <2>4. \A x : x.descriptions # << >> => ValueTableLine(x) = << TableSt(x) >>
      BY DEF ValueTableLine, Optional, TableSt
    <2> QED
      BY <2>1, <2>2, <2>3, <2>4
  <1>3. \A x : Kind(TableSt(x)) = "VAL_TABLE_"
    BY DEF TableSt, Kind, St
  <1>4. ToSet(<< >>) = {} /\ Sequence(<< >>)
    BY SequenceEmpty DEF ToSet
  <1>5. /\ DOMAIN a = DOMAIN xs /\ a = [ i \in DOMAIN xs |-> a[i] ]
        /\ DOMAIN b = DOMAIN xs /\ b = [ i \in DOMAIN xs |-> b[i] ]
    OBVIOUS
  <1>6. \A i \in DOMAIN xs :
          /\ Sequence(a[i]) /\ Sequence(b[i])
          /\ ToSet(a[i]) = IF xs[i].descriptions # << >> THEN { TableSt(xs[i]) } ELSE {}
          /\ ToSet(b[i]) = IF xs[i].descriptions # << >> /\ xs[i].signal_type # << >>
                             THEN { TableSt(xs[i]) } ELSE {}
    BY <1>2, <1>4
  <1> HIDE DEF a, b, xs
  <1>7. Sequence(xs)
    BY DEF xs
  <1>8. Sequences(a) /\ Sequences(b)
    BY <1>5, <1>6, <1>7, MadeOf DEF Sequences
  <1>9. /\ Sequence(FlattenSeq(a)) /\ ToSet(FlattenSeq(a)) = UNION { ToSet(a[i]) : i \in DOMAIN a }
        /\ Sequence(FlattenSeq(b)) /\ ToSet(FlattenSeq(b)) = UNION { ToSet(b[i]) : i \in DOMAIN b }
    BY <1>8, FlattenLists, FlattenedToSet
  <1>10. ToSet(FlattenSeq(a)) = { TableSt(xs[i]) : i \in { j \in DOMAIN xs : xs[j].descriptions # << >> } }
    BY <1>5, <1>6, <1>9
  <1>11. ToSet(FlattenSeq(b))
           = { TableSt(xs[i]) : i \in { j \in DOMAIN xs : xs[j].descriptions # << >>
                                                          /\ xs[j].signal_type # << >> } }
    BY <1>5, <1>6, <1>9
  <1>12. OfKind(FlattenSeq(a), "VAL_TABLE_") /\ OfKind(FlattenSeq(b), "VAL_TABLE_")
    BY <1>3, <1>9, <1>10, <1>11 DEF OfKind
  <1> QED
    BY <1>1, <1>10, <1>11, <1>12 DEF xs

(* Each section has statements of one kind.                                 *)
LEMMA SectionsAreOfKind ==
    ASSUME NEW net, IsNetwork(net)
    PROVE  /\ Sequences(SectionsOf(net)) /\ DOMAIN SectionsOf(net) = 1 .. 18
           /\ \A k \in 1 .. 18 : OfKind(SectionsOf(net)[k], SectionKind(k))
  <1> DEFINE S == SectionsOf(net)
  <1>1. Sequence(S) /\ DOMAIN S = 1 .. 18
    <2>1. DOMAIN S = 1 .. 18
      BY DEF SectionsOf
    <2>2. S = [ k \in 1 .. 18 |-> S[k] ]
      BY DEF SectionsOf
    <2> HIDE DEF S
    <2> QED
      BY <2>1, <2>2, SequenceMade
  <1>2. \A part, kind, type : PartOf(part, kind, type) => OfKind(part, kind)
    BY DEF PartOf, OfKind
  <1>3. OfKind(S[1], "VERSION") /\ OfKind(S[2], "NS_") /\ OfKind(S[3], "BS_") /\ OfKind(S[4], "BU_")
    BY OneStatement DEF SectionsOf, BitTimingLine, NodesLine
  <1>4. OfKind(S[5], "VAL_TABLE_") /\ OfKind(S[10], "VAL_TABLE_")
    BY TablesAre DEF SectionsOf, IsNetwork
  <1>5. OfKind(S[6], "BO_") /\ OfKind(S[8], "EV_")
    <2>1. OfKind(Messages(net), "BO_")
      <3> DEFINE ms == net.messages
                 t == Messages(net)
      <3>1. DOMAIN t = DOMAIN ms /\ t = [ i \in DOMAIN ms |-> t[i] ]
        BY DEF Messages
      <3>2. \A i \in DOMAIN t : Kind(t[i]) = "BO_"
        BY DEF Messages, MessageLine, St, Kind
      <3>3. Sequence(ms)
        BY DEF IsNetwork
      <3> HIDE DEF t, ms
      <3>4. Sequence(t)
        BY <3>1, <3>3, MadeOf
      <3> QED
        BY <3>2, <3>4 DEF OfKind, ToSet, t
    <2>2. OfKind(Variables(net), "EV_")
      <3> DEFINE ms == net.environment_variables
                 t == Variables(net)
      <3>1. DOMAIN t = DOMAIN ms /\ t = [ i \in DOMAIN ms |-> t[i] ]
        BY DEF Variables
      <3>2. \A i \in DOMAIN t : Kind(t[i]) = "EV_"
        BY DEF Variables, EnvVarLine, St, Kind
      <3>3. Sequence(ms)
        BY DEF IsNetwork
      <3> HIDE DEF t, ms
      <3>4. Sequence(t)
        BY <3>1, <3>3, MadeOf
      <3> QED
        BY <3>2, <3>4 DEF OfKind, ToSet, t
    <2> QED
      BY <2>1, <2>2 DEF SectionsOf
  <1>6. /\ OfKind(S[7], "BO_TX_BU_") /\ OfKind(S[9], "ENVVAR_DATA_") /\ OfKind(S[16], "SIG_GROUP_")
        /\ OfKind(S[17], "SIG_VALTYPE_") /\ OfKind(S[18], "SG_MUL_VAL_")
    <2>1. /\ PartOf(MessagePart("BO_TX_BU_", net), "BO_TX_BU_", "message")
          /\ PartOf(EnvPart("ENVVAR_DATA_", net), "ENVVAR_DATA_", "env")
          /\ PartOf(MessagePart("SIG_GROUP_", net), "SIG_GROUP_", "message")
          /\ PartOf(SignalPart("SIG_VALTYPE_", net), "SIG_VALTYPE_", "signal")
          /\ PartOf(SignalPart("SG_MUL_VAL_", net), "SG_MUL_VAL_", "signal")
      BY PartsAre DEF OfMessage, OfEnv, OfSignal
    <2> QED
      BY <1>2, <2>1 DEF SectionsOf
  <1>7. OfKind(S[12], "BA_DEF_") /\ OfKind(S[13], "BA_DEF_DEF_")
    <2>1. Sequence(Definitions(net))
      <3> DEFINE ds == net.attribute_definitions
                 q == Definitions(net)
      <3>1. Sequence(ds)
        BY DEF IsNetwork
      <3>2. DOMAIN q = DOMAIN ds /\ q = [ i \in DOMAIN ds |-> q[i] ]
        BY DEF Definitions
      <3> HIDE DEF q, ds
      <3>3. Sequence(q)
        BY <3>1, <3>2, MadeOf
      <3> QED
        BY <3>3 DEF q
    <2>2. Sequence(Defaults(net))
      <3> DEFINE x == [ attributes |-> net.attribute_defaults ]
      <3>1. Sequence(x.attributes)
        BY DEF IsNetwork, IsAttributes
      <3> HIDE DEF x
      <3>2. Sequence(Said("BA_", x))
        BY <3>1, SaidIs
      <3> QED
        BY <3>2 DEF Defaults, x
    <2>3. \A kind, o, values : Sequence(values) => OfKind(Lines(kind, o, values), kind)
      BY LinesAre DEF OfKind
    <2> QED
      BY <2>1, <2>2, <2>3 DEF SectionsOf
  <1>8. ASSUME NEW kind \in OfNetwork PROVE OfKind(FiveParts(kind, net), kind)
    <2>1. kind \in OfMessage /\ kind \in OfSignal /\ kind \in OfEnv
      BY DEF OfNetwork, OfMessage, OfSignal, OfEnv
    <2>2. /\ PartOf(NetworkPart(kind, net), kind, "network") /\ PartOf(NodePart(kind, net), kind, "node")
          /\ PartOf(MessagePart(kind, net), kind, "message") /\ PartOf(SignalPart(kind, net), kind, "signal")
          /\ PartOf(EnvPart(kind, net), kind, "env")
      BY <2>1, PartsAre
    <2>3. /\ Sequence(FiveParts(kind, net))
          /\ ToSet(FiveParts(kind, net))
               = ToSet(NetworkPart(kind, net)) \cup ToSet(NodePart(kind, net))
                    \cup ToSet(MessagePart(kind, net)) \cup ToSet(SignalPart(kind, net))
                    \cup ToSet(EnvPart(kind, net))
      BY FivePartsAre
    <2> QED
      BY <2>2, <2>3 DEF PartOf, OfKind
  <1>9. OfKind(S[11], "CM_") /\ OfKind(S[14], "BA_")
    BY <1>8 DEF SectionsOf, OfNetwork
  <1>10. OfKind(S[15], "VAL_")
    <2>1. PartOf(SignalPart("VAL_", net), "VAL_", "signal") /\ PartOf(EnvPart("VAL_", net), "VAL_", "env")
      BY PartsAre DEF OfSignal, OfEnv
    <2>2. OfKind(SignalPart("VAL_", net) \o EnvPart("VAL_", net), "VAL_")
      BY <2>1, SequenceConcat, ConcatToSet DEF PartOf, OfKind
    <2> QED
      BY <2>2 DEF SectionsOf
  <1> HIDE DEF S
  <1>11. ASSUME NEW k \in 1 .. 18 PROVE OfKind(S[k], SectionKind(k))
    <2>1. k \in { 1, 2, 3, 4, 5, 6, 7, 8, 9, 10, 11, 12, 13, 14, 15, 16, 17, 18 }
      OBVIOUS
    <2> QED
      BY <1>3, <1>4, <1>5, <1>6, <1>7, <1>9, <1>10, <2>1 DEF SectionKind, SectionOrder
  <1>12. Sequences(S)
    BY <1>1, <1>11 DEF Sequences, OfKind
  <1> QED
    BY <1>1, <1>11, <1>12 DEF S

-----------------------------------------------------------------------------
(* Loading builds networks. *)

(* t is what g makes of the elements of s at the indices in C.              *)
Chosen(t, s, C, g) ==
    /\ Sequence(t)
    /\ \A x \in ToSet(t) : \E i \in DOMAIN s : i \in C /\ x = g[i]
    /\ \A i \in DOMAIN s : i \in C => g[i] \in ToSet(t)

(* A loop with a condition chooses.                                         *)
LEMMA ChosenAre ==
    ASSUME NEW s, Sequence(s), NEW C, NEW g, NEW t,
           t = FlattenSeq([ i \in DOMAIN s |-> Optional(i \in C, g[i]) ])
    PROVE  Chosen(t, s, C, g)
<1> DEFINE T == [ i \in DOMAIN s |-> Optional(i \in C, g[i]) ]
<1>1. DOMAIN T = DOMAIN s /\ \A i \in DOMAIN s : T[i] = Optional(i \in C, g[i])
    OBVIOUS
<1>2. Sequence(T)
    <2>1. T = [ i \in DOMAIN s |-> T[i] ]
        OBVIOUS
    <2> HIDE DEF T
    <2> QED  BY <2>1, <1>1, MadeOf
<1> HIDE DEF T
<1>3. Sequences(T)
    BY <1>1, <1>2, OptionalIs DEF Sequences
<1>4. t = FlattenSeq(T)
    BY DEF T
<1>5. ToSet(t) = UNION { ToSet(T[i]) : i \in DOMAIN T }
    BY <1>3, <1>4, FlattenedToSet
<1>6. Sequence(t)
    BY <1>3, <1>4, FlattenLists
<1>7. \A x \in ToSet(t) : \E i \in DOMAIN s : i \in C /\ x = g[i]
    <2> TAKE x \in ToSet(t)
    <2>1. PICK i \in DOMAIN T : x \in ToSet(T[i])
        BY <1>5
    <2>2. PICK j \in DOMAIN T[i] : x = T[i][j]
        BY <2>1 DEF ToSet
    <2>3. i \in C /\ T[i][j] = g[i]
        <3>1. T[i] = IF i \in C THEN << g[i] >> ELSE << >>
            BY <1>1 DEF Optional
        <3> QED  BY <2>2, <3>1
    <2> QED  BY <2>2, <2>3, <1>1
<1>8. \A i \in DOMAIN s : i \in C => g[i] \in ToSet(t)
    <2> TAKE i \in DOMAIN s
    <2> HAVE i \in C
    <2>1. T[i] = << g[i] >>
        BY <1>1 DEF Optional
    <2>2. g[i] \in ToSet(T[i])
        BY <2>1 DEF ToSet
    <2> QED  BY <2>2, <1>5, <1>1
<1> QED  BY <1>6, <1>7, <1>8 DEF Chosen

(* The statements of a kind in a file.                                      *)
LEMMA OfAre ==
    ASSUME NEW file, Sequence(file), NEW kind
    PROVE  /\ Sequence(Of(file, kind))
           /\ \A st \in ToSet(Of(file, kind)) : st \in ToSet(file) /\ Kind(st) = kind
           /\ \A st \in ToSet(file) : Kind(st) = kind => st \in ToSet(Of(file, kind))
<1> DEFINE C == { i \in DOMAIN file : Kind(file[i]) = kind }
           t == Of(file, kind)
<1>1. [ i \in DOMAIN file |-> Optional(Kind(file[i]) = kind, file[i]) ]
        = [ i \in DOMAIN file |-> Optional(i \in C, file[i]) ]
    BY DEF Optional
<1>2. t = FlattenSeq([ i \in DOMAIN file |-> Optional(i \in C, file[i]) ])
    BY <1>1 DEF Of, Each
<1>3. \A i \in DOMAIN file : (i \in C <=> Kind(file[i]) = kind)
    OBVIOUS
<1> HIDE DEF C, t
<1>a. Chosen(t, file, C, file)
    BY <1>2, ChosenAre
<1>4. /\ Sequence(t)
      /\ \A x \in ToSet(t) : \E i \in DOMAIN file : i \in C /\ x = file[i]
      /\ \A i \in DOMAIN file : i \in C => file[i] \in ToSet(t)
    BY <1>a DEF Chosen
<1>5. Sequence(t) /\ (\A st \in ToSet(t) : st \in ToSet(file) /\ Kind(st) = kind)
        /\ (\A st \in ToSet(file) : Kind(st) = kind => st \in ToSet(t))
    BY <1>3, <1>4 DEF ToSet
<1> QED  BY <1>5 DEF t

(* Their values.                                                            *)
LEMMA ValuesOfAre ==
    ASSUME NEW file, Sequence(file), NEW kind
    PROVE  /\ Sequence(Values(file, kind))
           /\ \A x \in ToSet(Values(file, kind)) :
                 \E st \in ToSet(file) : Kind(st) = kind /\ x = Value(st)
           /\ \A st \in ToSet(file) : Kind(st) = kind => Value(st) \in ToSet(Values(file, kind))
<1> DEFINE C == { i \in DOMAIN file : Kind(file[i]) = kind }
           g == [ i \in DOMAIN file |-> Value(file[i]) ]
           t == Values(file, kind)
<1>1. [ i \in DOMAIN file |-> Optional(Kind(file[i]) = kind, Value(file[i])) ]
        = [ i \in DOMAIN file |-> Optional(i \in C, g[i]) ]
    BY DEF Optional
<1>2. t = FlattenSeq([ i \in DOMAIN file |-> Optional(i \in C, g[i]) ])
    BY <1>1 DEF Values, Each
<1>3. \A i \in DOMAIN file : (i \in C <=> Kind(file[i]) = kind) /\ g[i] = Value(file[i])
    OBVIOUS
<1> HIDE DEF C, t, g
<1>a. Chosen(t, file, C, g)
    BY <1>2, ChosenAre
<1>4. /\ Sequence(t)
      /\ \A x \in ToSet(t) : \E i \in DOMAIN file : i \in C /\ x = g[i]
      /\ \A i \in DOMAIN file : i \in C => g[i] \in ToSet(t)
    BY <1>a DEF Chosen
<1>5. \A x \in ToSet(t) : \E st \in ToSet(file) : Kind(st) = kind /\ x = Value(st)
    BY <1>3, <1>4 DEF ToSet
<1>6. \A st \in ToSet(file) : Kind(st) = kind => Value(st) \in ToSet(t)
    BY <1>3, <1>4 DEF ToSet
<1> QED  BY <1>4, <1>5, <1>6 DEF t

(* A statement the grammar asks for once is there. *)
LEMMA CountOne ==
    ASSUME NEW file, Sequence(file), NEW kind, CountOf(file, kind) = 1
    PROVE  \E st \in ToSet(file) : Kind(st) = kind
<1>1. { i \in DOMAIN file : Kind(file[i]) = kind } # {}
    BY FS_EmptySet DEF CountOf
<1> QED  BY <1>1 DEF ToSet

(* The first element of a list that has one.                                *)
LEMMA HeadIs ==
    ASSUME NEW s, Sequence(s), NEW x \in ToSet(s)
    PROVE  Head(s) \in ToSet(s) /\ s # << >> /\ Head(s) = s[1]
<1>1. s \in Seq(ToSet(s)) /\ Len(s) \in Nat /\ DOMAIN s = 1 .. Len(s)
    BY DEF Sequence, ToSet
<1>2. PICK i \in DOMAIN s : x = s[i]
    BY DEF ToSet
<1>3. s # << >> /\ 1 \in DOMAIN s
    BY <1>1, <1>2
<1>4. Head(s) = s[1]
    BY <1>1, <1>3
<1> QED  BY <1>3, <1>4 DEF ToSet

AcceptedFile(file) == ParsedFile(file) /\ Accepts(file)

(* Every statement of an accepted file is parsed and well-formed.           *)
LEMMA AcceptedIs ==
    ASSUME NEW file, AcceptedFile(file)
    PROVE  Sequence(file) /\ \A st \in ToSet(file) : Parsed(st) /\ WellFormed(st)
<1>1. List(file) /\ (\A i \in DOMAIN file : Parsed(file[i]))
        /\ (\A i \in DOMAIN file : WellFormed(file[i]))
    BY DEF AcceptedFile, ParsedFile, Accepts
<1>2. Sequence(file)
    BY <1>1, ListIs
<1> QED  BY <1>1, <1>2 DEF ToSet

(* The first or the last value, or the default.                             *)
LEMMA FirstOrLast ==
    ASSUME NEW values, Sequence(values), NEW default
    PROVE  /\ values = << >> => LastOr(values, default) = default /\ FirstOr(values, default) = default
           /\ values # << >> => LastOr(values, default) \in ToSet(values)
           /\ values # << >> => FirstOr(values, default) \in ToSet(values)
<1>1. values \in Seq(ToSet(values)) /\ Len(values) \in Nat /\ DOMAIN values = 1 .. Len(values)
    BY DEF Sequence, ToSet
<1>2. ASSUME values # << >>
      PROVE  LastOr(values, default) \in ToSet(values) /\ FirstOr(values, default) \in ToSet(values)
    <2>1. Len(values) # 0
        BY <1>2, EmptyIs
    <2>2. 1 \in DOMAIN values /\ Len(values) \in DOMAIN values
        BY <2>1, <1>1
    <2>3. Head(values) = values[1] /\ Last(values) = values[Len(values)]
        BY <1>1, <1>2 DEF Last
    <2> QED  BY <2>2, <2>3, <1>2 DEF LastOr, FirstOr, ToSet
<1> QED  BY <1>2 DEF LastOr, FirstOr

(* The name and the value of an attribute that end where they should.       *)
LEMMA PairIs ==
    ASSUME NEW v, List(v), Len(v) = 2, AllEnd(v)
    PROVE  v[1] # Unreadable /\ v[2] # Unreadable /\ v = << v[1], v[2] >>
<1>1. Sequence(v)
    BY ListIs
<1>2. DOMAIN v = 1 .. 2
    BY <1>1, SequenceDomain
<1>3. v[1] \in ToSet(v) /\ v[2] \in ToSet(v)
    BY <1>2 DEF ToSet
<1>4. v = << v[1], v[2] >>
    BY <1>1, <1>2 DEF Sequence
<1> QED  BY <1>3, <1>4 DEF AllEnd

(* What the loader finds for an object. *)
LEMMA LoadedTexts ==
    ASSUME NEW file, AcceptedFile(file), NEW o
    PROVE  /\ IsAttributes(Attributes(file, o), ObjectType(o))
           /\ Comment(file, o) # Unreadable
           /\ IsTexts(Descriptions(file, o))
<1>1. Sequence(file) /\ \A st \in ToSet(file) : Parsed(st) /\ WellFormed(st)
    BY AcceptedIs
<1>2. /\ Sequence(About(file, "BA_", o)) /\ Sequence(About(file, "CM_", o))
      /\ Sequence(About(file, "VAL_", o))
    BY <1>1, AboutSequence
<1>3. \A x \in ToSet(About(file, "BA_", o)) : x[1] # Unreadable /\ x[2] # Unreadable
    <2> TAKE x \in ToSet(About(file, "BA_", o))
    <2>1. PICK st \in ToSet(file) : Kind(st) = "BA_" /\ Owner(st) = o /\ x = Value(st)
        BY <1>1, AboutSequence
    <2>2. AllEnd(x)
        BY <2>1, <1>1 DEF WellFormed
    <2>3. List(x) /\ Len(x) = 2
        BY <2>1, <1>1 DEF Parsed
    <2> QED  BY <2>2, <2>3, PairIs
<1>4. \A x \in ToSet(About(file, "CM_", o)) : x # Unreadable
    <2> TAKE x \in ToSet(About(file, "CM_", o))
    <2>1. PICK st \in ToSet(file) : Kind(st) = "CM_" /\ Owner(st) = o /\ x = Value(st)
        BY <1>1, AboutSequence
    <2> QED  BY <2>1, <1>1 DEF WellFormed, Ends
<1>5. \A x \in ToSet(About(file, "VAL_", o)) : IsTexts(x)
    <2> TAKE x \in ToSet(About(file, "VAL_", o))
    <2>1. PICK st \in ToSet(file) : Kind(st) = "VAL_" /\ Owner(st) = o /\ x = Value(st)
        BY <1>1, AboutSequence
    <2>2. Unreadable \notin ToSet(x)
        BY <2>1, <1>1 DEF WellFormed, AllEnd
    <2>3. List(x)
        BY <2>1, <1>1 DEF Parsed
    <2>4. Sequence(x)
        BY <2>3, ListIs
    <2> QED  BY <2>2, <2>4 DEF IsTexts
<1>6. IsAttributes(Attributes(file, o), ObjectType(o))
    <2> DEFINE values == About(file, "BA_", o)
               type == ObjectType(o)
               a == Attributes(file, o)
    <2>1. a = [ i \in DOMAIN values |-> AttributeOf(type, values[i]) ]
        BY DEF Attributes
    <2>2. Sequence(values) /\ \A x \in ToSet(values) : x[1] # Unreadable /\ x[2] # Unreadable
        BY <1>2, <1>3
    <2> HIDE DEF a, type, values
    <2>3. DOMAIN a = DOMAIN values /\ \A i \in DOMAIN a : a[i] = AttributeOf(type, values[i])
        BY <2>1
    <2>4. a = [ i \in DOMAIN values |-> a[i] ]
        BY <2>1
    <2>5. Sequence(a)
        BY <2>2, <2>3, <2>4, MadeOf
    <2>6. \A i \in DOMAIN a : /\ a[i] = [ type |-> type, name |-> a[i].name, value |-> a[i].value ]
                              /\ a[i].name # Unreadable /\ a[i].value # Unreadable
        <3> TAKE i \in DOMAIN a
        <3> DEFINE n == values[i][1]
                   v == values[i][2]
        <3>1. a[i] = [ type |-> type, name |-> n, value |-> v ]
            BY <2>3 DEF AttributeOf
        <3>2. n # Unreadable /\ v # Unreadable
            BY <2>2, <2>3 DEF ToSet
        <3> HIDE DEF n, v
        <3>3. a[i].name = n /\ a[i].value = v
            BY <3>1
        <3> QED  BY <3>1, <3>2, <3>3
    <2>7. IsAttributes(a, type)
        BY <2>5, <2>6 DEF IsAttributes
    <2> QED  BY <2>7 DEF a, type
<1>7. Comment(file, o) # Unreadable
    <2>1. "" # Unreadable
        BY DEF Unreadable
    <2> QED  BY <1>2, <1>4, <2>1, FirstOrLast DEF Comment
<1>8. IsTexts(Descriptions(file, o))
    <2>1. IsTexts(<< >>)
        BY SequenceEmpty DEF IsTexts, ToSet
    <2> QED  BY <1>2, <1>5, <2>1, FirstOrLast DEF Descriptions
<1> QED  BY <1>6, <1>7, <1>8

(* A node is built as IsNode says.                                          *)
LEMMA LoadedNode ==
    ASSUME NEW file, AcceptedFile(file), NEW name, Identifier(name)
    PROVE  IsNode(LoadNode(file, name))
<1> DEFINE o == << "node", name >>
           at == Attributes(file, o)
           co == Comment(file, o)
           n == LoadNode(file, name)
<1>1. IsAttributes(at, ObjectType(o)) /\ co # Unreadable
    BY LoadedTexts
<1>2. ObjectType(o) = "node"
    BY DEF ObjectType
<1>3. n = [ name |-> name, comment |-> co, attributes |-> at ]
    BY DEF LoadNode
<1>4. IsAttributes(at, "node")
    BY <1>1, <1>2
<1> HIDE DEF o, at, co, n
<1>5. n.name = name /\ n.comment = co /\ n.attributes = at
    BY <1>3
<1>6. IsNode(n)
    BY <1>1, <1>3, <1>4, <1>5 DEF IsNode
<1> QED  BY <1>6 DEF n

(* A signal is built as IsSignal says.                                      *)
LEMMA LoadedSignal ==
    ASSUME NEW file, AcceptedFile(file), NEW id, NEW s, Ends(s.unit), List(s.receivers)
    PROVE  IsSignal(LoadSignal(file, id, s))
<1> DEFINE o == << "signal", id, s.name >>
           at == Attributes(file, o)
           co == Comment(file, o)
           de == Descriptions(file, o)
           et == getSignalExtendedValueType(file, o)
           mv == About(file, "SG_MUL_VAL_", o)
           mi == MultiplexerIndicator(s.multiplexer)
           sv == MultiplexerSwitchValue(s.multiplexer)
           l == LoadSignal(file, id, s)
<1>1. IsAttributes(at, ObjectType(o)) /\ co # Unreadable /\ IsTexts(de)
    BY LoadedTexts
<1>2. ObjectType(o) = "signal"
    BY DEF ObjectType
<1>3. l = [ name |-> s.name, multiplexer |-> mi, switch_value |-> sv, head |-> s.head,
            unit |-> s.unit, receivers |-> s.receivers, attributes |-> at, descriptions |-> de, comment |-> co,
            extended_type |-> et, multiplexer_values |-> mv ]
    BY DEF LoadSignal
<1>4. IsAttributes(at, "signal")
    BY <1>1, <1>2
<1>5. et \in {"Integer", "Float", "Double"}
    BY DEF getSignalExtendedValueType
<1>6. mi \in {"NoMux", "MuxSwitch", "MuxValue"} /\ (mi # "MuxValue" => sv = 0)
    BY DEF MultiplexerIndicator, MultiplexerSwitchValue
<1>7. Sequence(file) /\ \A st \in ToSet(file) : Parsed(st) /\ WellFormed(st)
    BY AcceptedIs
<1>8. Sequence(mv) /\ \A i \in DOMAIN mv : mv[i].ranges # << >>
    <2>1. Sequence(mv)
        BY <1>7, AboutSequence
    <2>2. ASSUME NEW i \in DOMAIN mv
          PROVE  mv[i].ranges # << >>
        <3>1. mv[i] \in ToSet(mv)
            BY DEF ToSet
        <3>2. PICK st \in ToSet(file) : Kind(st) = "SG_MUL_VAL_" /\ Owner(st) = o /\ mv[i] = Value(st)
            BY <3>1, <1>7, AboutSequence
        <3> QED  BY <3>2, <1>7 DEF WellFormed
    <2> QED  BY <2>1, <2>2
<1> HIDE DEF o, at, co, de, et, mv, mi, sv, l
<1>9. /\ l.name = s.name /\ l.multiplexer = mi /\ l.switch_value = sv /\ l.head = s.head
      /\ l.unit = s.unit /\ l.receivers = s.receivers /\ l.attributes = at /\ l.descriptions = de /\ l.comment = co
      /\ l.extended_type = et /\ l.multiplexer_values = mv
    BY <1>3
<1>10. IsSignal(l)
    BY <1>1, <1>3, <1>4, <1>5, <1>6, <1>8, <1>9, ListIs DEF IsSignal, Ends
<1> QED  BY <1>10 DEF l

(* A message is built as IsMessage says.                                    *)
LEMMA LoadedMessage ==
    ASSUME NEW file, AcceptedFile(file), NEW st, Kind(st) = "BO_", Parsed(st), WellFormed(st)
    PROVE  IsMessage(LoadMessage(file, st))
<1> DEFINE o == Owner(st)
           at == Attributes(file, o)
           co == Comment(file, o)
           tr == FirstOr(About(file, "BO_TX_BU_", o), << >>)
           sg == About(file, "SIG_GROUP_", o)
           ss == Value(st).signals
           sl == [ i \in DOMAIN ss |-> LoadSignal(file, o[2], ss[i]) ]
           id == o[2]
           nm == Value(st).name
           tm == Value(st).transmitter
           sz == Value(st).size
           m == LoadMessage(file, st)
<1>1. IsAttributes(at, ObjectType(o)) /\ co # Unreadable
    BY LoadedTexts
<1>2. ObjectType(o) = "message" /\ List(ss)
    BY DEF Parsed
<1>3. m = [ id |-> id, name |-> nm, transmitter |-> tm, size |-> sz, signals |-> sl,
            transmitters |-> tr, attributes |-> at, comment |-> co, signal_groups |-> sg ]
    BY DEF LoadMessage
<1>4. Sequence(sg) /\ Sequence(tr)
    <2>1. Sequence(file) /\ \A x \in ToSet(file) : Parsed(x) /\ WellFormed(x)
        BY AcceptedIs
    <2> DEFINE ts == About(file, "BO_TX_BU_", o)
    <2>2. Sequence(ts)
        BY <2>1, AboutSequence
    <2>3. \A v \in ToSet(ts) : List(v)
        <3> TAKE v \in ToSet(ts)
        <3>1. PICK x \in ToSet(file) : Kind(x) = "BO_TX_BU_" /\ Owner(x) = o /\ v = Value(x)
            BY <2>1, AboutSequence
        <3> QED  BY <3>1, <2>1 DEF Parsed
    <2> HIDE DEF ts
    <2>4. tr \in ToSet(ts) \/ tr = << >>
        BY <2>2, FirstOrLast DEF ts
    <2>5. Sequence(tr)
        BY <2>3, <2>4, ListIs, SequenceEmpty
    <2> QED  BY <2>1, <2>5, AboutSequence
<1>5. Sequence(ss)
    BY <1>2, ListIs
<1>6. \A i \in DOMAIN sl : IsSignal(sl[i])
    <2>1. \A i \in DOMAIN ss : Ends(ss[i].unit) /\ List(ss[i].receivers)
        BY DEF WellFormed, Parsed
    <2>2. \A i \in DOMAIN ss : IsSignal(LoadSignal(file, id, ss[i]))
        <3> HIDE DEF ss, id
        <3> QED  BY <2>1, LoadedSignal
    <2> QED  BY <2>2
<1>7. DOMAIN sl = DOMAIN ss /\ sl = [ i \in DOMAIN ss |-> sl[i] ]
    OBVIOUS
<1> HIDE DEF o, at, co, tr, sg, ss, sl, id, nm, tm, sz, m
<1>8. Sequence(sl)
    BY <1>5, <1>7, MadeOf
<1>9. /\ m.id = id /\ m.name = nm /\ m.transmitter = tm /\ m.size = sz /\ m.signals = sl /\ m.transmitters = tr
      /\ m.attributes = at /\ m.comment = co /\ m.signal_groups = sg
    BY <1>3
<1>10. IsAttributes(at, "message")
    BY <1>1, <1>2
<1>11. IsMessage(m)
    BY <1>1, <1>3, <1>4, <1>6, <1>8, <1>9, <1>10 DEF IsMessage
<1> QED  BY <1>11 DEF m

(* An environment variable is built as IsEnvVar says, whatever was left on  *)
(* the stack.                                                               *)
LEMMA LoadedEnvVar ==
    ASSUME NEW file, AcceptedFile(file), NEW st, Kind(st) = "EV_", Parsed(st),
           WellFormed(st), NEW left \in LeftOnStack
    PROVE  IsEnvVar(LoadEnvVar(file, left, st))
<1> DEFINE o == Owner(st)
           at == Attributes(file, o)
           co == Comment(file, o)
           de == Descriptions(file, o)
           data == About(file, "ENVVAR_DATA_", o)
           nm == o[2]
           v == Value(st)
           hd == v.head
           mx == v.maximum
           un == v.unit
           vt == IF data # << >> THEN "Data"
                 ELSE IF v.var_type + 1 \in DOMAIN VarTypes THEN VarTypes[v.var_type + 1]
                 ELSE left
           ds == FirstOr(data, 0)
           ty == IF v.access_type \in DOMAIN AccessTypes THEN AccessTypes[v.access_type]
                 ELSE "Unrestricted"
           an == v.access_nodes
           ev == LoadEnvVar(file, left, st)
<1>1. IsAttributes(at, ObjectType(o)) /\ co # Unreadable /\ IsTexts(de)
    BY LoadedTexts
<1>2. ObjectType(o) = "env"
    BY DEF Parsed
<1>3. ev = [ name |-> nm, head |-> hd, maximum |-> mx, unit |-> un, var_type |-> vt,
             data_size |-> ds, access_type |-> ty, access_nodes |-> an, descriptions |-> de, attributes |-> at,
             comment |-> co ]
    BY DEF LoadEnvVar
<1>4. vt \in LeftOnStack
    <2>1. \A i \in DOMAIN VarTypes : VarTypes[i] \in LeftOnStack
        BY DEF LeftOnStack, ToSet
    <2>2. "Data" \in LeftOnStack
        BY DEF LeftOnStack
    <2> QED  BY <2>1, <2>2
<1>5. vt # "Data" => ds = 0
    <2>1. vt # "Data" => data = << >>
        OBVIOUS
    <2> QED  BY <2>1 DEF FirstOr
<1>6. \E token \in DOMAIN AccessTypes : ty = AccessTypes[token]
    <2>1. "DUMMY_NODE_VECTOR0" \in DOMAIN AccessTypes
            /\ AccessTypes["DUMMY_NODE_VECTOR0"] = "Unrestricted"
        BY DEF AccessTypes
    <2> QED  BY <2>1
<1>7. IsAttributes(at, "env")
    BY <1>1, <1>2
<1>10. un # Unreadable /\ Sequence(an)
    BY ListIs DEF WellFormed, Parsed, Ends
<1> HIDE DEF o, at, co, de, data, nm, v, hd, mx, un, vt, ds, ty, an, ev
<1>8. /\ ev.name = nm /\ ev.head = hd /\ ev.maximum = mx /\ ev.unit = un /\ ev.var_type = vt /\ ev.data_size = ds
      /\ ev.access_type = ty /\ ev.access_nodes = an /\ ev.descriptions = de
      /\ ev.attributes = at /\ ev.comment = co
    BY <1>3
<1>9. IsEnvVar(ev)
    BY <1>1, <1>3, <1>4, <1>5, <1>6, <1>7, <1>8, <1>10 DEF IsEnvVar
<1> QED  BY <1>9 DEF ev

(* A value table is built as IsValueTable says.                             *)
LEMMA LoadedValueTable ==
    ASSUME NEW file, NEW st, Kind(st) = "VAL_TABLE_", Parsed(st), WellFormed(st)
    PROVE  IsValueTable(LoadValueTable(file, st))
<1> DEFINE types == About(file, "SGTYPE_", Owner(st))
           nm == Owner(st)[2]
           de == Value(st)
           ty == IF types = << >> THEN << >> ELSE << Head(types) >>
           vt == LoadValueTable(file, st)
<1>1. vt = [ name |-> nm, descriptions |-> de, signal_type |-> ty ]
    BY DEF LoadValueTable
<1>2. List(de) /\ Unreadable \notin ToSet(de)
    BY DEF Parsed, WellFormed, AllEnd
<1>3. IsTexts(de)
    BY <1>2, ListIs DEF IsTexts
<1>4. Sequence(ty)
    BY SequenceEmpty, SequenceOne
<1> HIDE DEF types, nm, de, ty, vt
<1>5. vt.name = nm /\ vt.descriptions = de /\ vt.signal_type = ty
    BY <1>1
<1>6. IsValueTable(vt)
    BY <1>1, <1>3, <1>4, <1>5 DEF IsValueTable
<1> QED  BY <1>6 DEF vt

(* DBCAST2Network: what is built from an accepted file is a network.        *)
LEMMA LoadIsNetwork ==
    ASSUME NEW file, AcceptedFile(file), NEW left \in LeftOnStack
    PROVE  IsNetwork(Load(file, left))
<1>1. Sequence(file) /\ \A st \in ToSet(file) : Parsed(st) /\ WellFormed(st)
    BY AcceptedIs
<1>2. \A kind \in {"VERSION", "BS_", "BU_"} :
         \E x \in ToSet(Values(file, kind)) : TRUE
    <2> TAKE kind \in {"VERSION", "BS_", "BU_"}
    <2>1. CountOf(file, kind) = 1
        BY DEF AcceptedFile, Accepts
    <2>2. PICK st \in ToSet(file) : Kind(st) = kind
        BY <2>1, <1>1, CountOne
    <2>3. Value(st) \in ToSet(Values(file, kind))
        BY <2>2, <1>1, ValuesOfAre
    <2> QED  BY <2>3
<1>3. \A kind \in {"VERSION", "BS_", "BU_"} :
         \E st \in ToSet(file) : Kind(st) = kind /\ Head(Values(file, kind)) = Value(st)
    <2> TAKE kind \in {"VERSION", "BS_", "BU_"}
    <2>1. Sequence(Values(file, kind))
        BY <1>1, ValuesOfAre
    <2>2. PICK x \in ToSet(Values(file, kind)) : TRUE
        BY <1>2
    <2>3. Head(Values(file, kind)) \in ToSet(Values(file, kind))
        BY <2>1, <2>2, HeadIs
    <2> QED  BY <2>3, <1>1, ValuesOfAre
<1> DEFINE names     == Head(Values(file, "BU_"))
           tables    == Of(file, "VAL_TABLE_")
           messages  == Of(file, "BO_")
           variables == Of(file, "EV_")
           defaults  == Values(file, "BA_DEF_DEF_")
           vs == Head(Values(file, "VERSION"))
           ns == FirstOr(Values(file, "NS_"), << >>)
           bt == getBitTiming(file)
           no == [ i \in DOMAIN names |-> LoadNode(file, names[i]) ]
           ta == [ i \in DOMAIN tables |-> LoadValueTable(file, tables[i]) ]
           me == [ i \in DOMAIN messages |-> LoadMessage(file, messages[i]) ]
           va == [ i \in DOMAIN variables |-> LoadEnvVar(file, left, variables[i]) ]
           df == Values(file, "BA_DEF_")
           dd == [ i \in DOMAIN defaults |-> AttributeOf("network", defaults[i]) ]
           at == Attributes(file, << "network" >>)
           co == Comment(file, << "network" >>)
           net == Load(file, left)
<1>4. net = [ version |-> vs, new_symbols |-> ns, bit_timing |-> bt, nodes |-> no,
              value_tables |-> ta, messages |-> me, environment_variables |-> va,
              attribute_definitions |-> df, attribute_defaults |-> dd, attribute_values |-> at,
              comment |-> co ]
    BY DEF Load
<1>5. vs # Unreadable
    <2>1. PICK st \in ToSet(file) : Kind(st) = "VERSION" /\ vs = Value(st)
        BY <1>3
    <2> QED  BY <2>1, <1>1 DEF WellFormed, Ends
<1>6. bt \in [ 1 .. 3 -> Nat ]
    <2>1. PICK st \in ToSet(file) : Kind(st) = "BS_" /\ Head(Values(file, "BS_")) = Value(st)
        BY <1>3
    <2>2. Value(st) = << >> \/ Value(st) \in [1 .. 3 -> Nat]
        BY <2>1, <1>1 DEF Parsed
    <2>3. << 0, 0, 0 >> \in [ 1 .. 3 -> Nat ]
        OBVIOUS
    <2> QED  BY <2>1, <2>2, <2>3 DEF getBitTiming
<1>7. Sequence(no) /\ \A i \in DOMAIN no : IsNode(no[i])
    <2>1. PICK st \in ToSet(file) : Kind(st) = "BU_" /\ names = Value(st)
        BY <1>3
    <2>2. List(names) /\ Identifiers(names)
        BY <2>1, <1>1 DEF Parsed, WellFormed
    <2>3. Sequence(names)
        BY <2>2, ListIs
    <2> HIDE DEF names
    <2>5. \A i \in DOMAIN names : IsNode(LoadNode(file, names[i]))
        BY <2>2, LoadedNode DEF Identifiers
    <2>6. DOMAIN no = DOMAIN names /\ no = [ i \in DOMAIN names |-> no[i] ]
            /\ \A i \in DOMAIN no : IsNode(no[i])
        BY <2>5
    <2> HIDE DEF no
    <2> QED  BY <2>3, <2>6, MadeOf
<1>8. Sequence(ta) /\ \A i \in DOMAIN ta : IsValueTable(ta[i])
    <2>1. Sequence(tables) /\ \A st \in ToSet(tables) : st \in ToSet(file) /\ Kind(st) = "VAL_TABLE_"
        BY <1>1, OfAre
    <2> HIDE DEF tables
    <2>2. \A i \in DOMAIN tables : IsValueTable(LoadValueTable(file, tables[i]))
        <3> TAKE i \in DOMAIN tables
        <3>1. Kind(tables[i]) = "VAL_TABLE_" /\ Parsed(tables[i]) /\ WellFormed(tables[i])
            BY <2>1, <1>1 DEF ToSet
        <3> QED  BY <3>1, LoadedValueTable
    <2>3. DOMAIN ta = DOMAIN tables /\ ta = [ i \in DOMAIN tables |-> ta[i] ]
            /\ \A i \in DOMAIN ta : IsValueTable(ta[i])
        BY <2>2
    <2> HIDE DEF ta
    <2> QED  BY <2>1, <2>3, MadeOf
<1>9. Sequence(me) /\ \A i \in DOMAIN me : IsMessage(me[i])
    <2>1. Sequence(messages) /\ \A st \in ToSet(messages) : st \in ToSet(file) /\ Kind(st) = "BO_"
        BY <1>1, OfAre
    <2> HIDE DEF messages
    <2>2. \A i \in DOMAIN messages : IsMessage(LoadMessage(file, messages[i]))
        <3> TAKE i \in DOMAIN messages
        <3>1. Kind(messages[i]) = "BO_" /\ Parsed(messages[i]) /\ WellFormed(messages[i])
            BY <2>1, <1>1 DEF ToSet
        <3> QED  BY <3>1, LoadedMessage
    <2>3. DOMAIN me = DOMAIN messages /\ me = [ i \in DOMAIN messages |-> me[i] ]
            /\ \A i \in DOMAIN me : IsMessage(me[i])
        BY <2>2
    <2> HIDE DEF me
    <2> QED  BY <2>1, <2>3, MadeOf
<1>10. Sequence(va) /\ \A i \in DOMAIN va : IsEnvVar(va[i])
    <2>1. Sequence(variables) /\ \A st \in ToSet(variables) : st \in ToSet(file) /\ Kind(st) = "EV_"
        BY <1>1, OfAre
    <2> HIDE DEF variables
    <2>2. \A i \in DOMAIN variables : IsEnvVar(LoadEnvVar(file, left, variables[i]))
        <3> TAKE i \in DOMAIN variables
        <3>1. Kind(variables[i]) = "EV_" /\ Parsed(variables[i]) /\ WellFormed(variables[i])
            BY <2>1, <1>1 DEF ToSet
        <3> QED  BY <3>1, LoadedEnvVar
    <2>3. DOMAIN va = DOMAIN variables /\ va = [ i \in DOMAIN variables |-> va[i] ]
            /\ \A i \in DOMAIN va : IsEnvVar(va[i])
        BY <2>2
    <2> HIDE DEF va
    <2> QED  BY <2>1, <2>3, MadeOf
<1>11. Sequence(df) /\ \A i \in DOMAIN df : IsDefinition(df[i])
    <2>1. Sequence(df)
        BY <1>1, ValuesOfAre
    <2>2. ASSUME NEW i \in DOMAIN df PROVE IsDefinition(df[i])
        <3>1. df[i] \in ToSet(df)
            BY DEF ToSet
        <3>2. PICK st \in ToSet(file) : Kind(st) = "BA_DEF_" /\ df[i] = Value(st)
            BY <3>1, <1>1, ValuesOfAre
        <3> DEFINE d == df[i]
        <3>3. d = [ head |-> d.head, name |-> d.name, enum |-> d.enum ] /\ List(d.enum)
            BY <3>2, <1>1 DEF Parsed
        <3>4. d.name # Unreadable /\ Unreadable \notin ToSet(d.enum)
            BY <3>2, <1>1 DEF WellFormed, Ends, AllEnd
        <3> HIDE DEF d
        <3>5. IsDefinition(d)
            BY <3>3, <3>4, ListIs DEF IsDefinition, IsTexts
        <3> QED  BY <3>5 DEF d
    <2> QED  BY <2>1, <2>2
<1>12. IsAttributes(dd, "network")
    <2>1. Sequence(defaults)
        BY <1>1, ValuesOfAre
    <2>2. \A i \in DOMAIN defaults : defaults[i][1] # Unreadable /\ defaults[i][2] # Unreadable
        <3> TAKE i \in DOMAIN defaults
        <3>1. defaults[i] \in ToSet(defaults)
            BY DEF ToSet
        <3>2. PICK st \in ToSet(file) : Kind(st) = "BA_DEF_DEF_" /\ defaults[i] = Value(st)
            BY <3>1, <1>1, ValuesOfAre
        <3>3. AllEnd(defaults[i])
            BY <3>2, <1>1 DEF WellFormed
        <3>4. List(defaults[i]) /\ Len(defaults[i]) = 2
            BY <3>2, <1>1 DEF Parsed
        <3> HIDE DEF defaults
        <3> QED  BY <3>3, <3>4, PairIs
    <2> HIDE DEF defaults
    <2>3. DOMAIN dd = DOMAIN defaults /\ dd = [ i \in DOMAIN defaults |-> dd[i] ]
            /\ \A i \in DOMAIN dd : dd[i] = AttributeOf("network", defaults[i])
        OBVIOUS
    <2> HIDE DEF dd
    <2>4. Sequence(dd)
        BY <2>1, <2>3, MadeOf
    <2>5. \A i \in DOMAIN dd :
             /\ dd[i] = [ type |-> "network", name |-> dd[i].name, value |-> dd[i].value ]
             /\ dd[i].name # Unreadable /\ dd[i].value # Unreadable
        <3> TAKE i \in DOMAIN dd
        <3> DEFINE n == defaults[i][1]
                   v == defaults[i][2]
        <3>1. dd[i] = [ type |-> "network", name |-> n, value |-> v ]
            BY <2>3 DEF AttributeOf
        <3>2. n # Unreadable /\ v # Unreadable
            BY <2>2, <2>3
        <3> HIDE DEF n, v
        <3>3. dd[i].name = n /\ dd[i].value = v
            BY <3>1
        <3> QED  BY <3>1, <3>2, <3>3
    <2> QED  BY <2>4, <2>5 DEF IsAttributes
<1>13. IsAttributes(at, "network") /\ co # Unreadable
    <2>1. IsAttributes(at, ObjectType(<< "network" >>)) /\ co # Unreadable
        BY LoadedTexts
    <2>2. ObjectType(<< "network" >>) = "network"
        BY DEF ObjectType
    <2> QED  BY <2>1, <2>2
<1> HIDE DEF names, tables, messages, variables, defaults, vs, ns, bt, no, ta, me, va, df, dd, at,
             co, net
<1>14. /\ net.version = vs /\ net.new_symbols = ns /\ net.bit_timing = bt /\ net.nodes = no
       /\ net.value_tables = ta /\ net.messages = me /\ net.environment_variables = va
       /\ net.attribute_definitions = df /\ net.attribute_defaults = dd
       /\ net.attribute_values = at /\ net.comment = co
    BY <1>4
<1>15. IsNetwork(net)
    BY <1>4, <1>5, <1>6, <1>7, <1>8, <1>9, <1>10, <1>11, <1>12, <1>13, <1>14 DEF IsNetwork
<1> QED  BY <1>15 DEF net

(* The names of the nodes are a list of identifiers.                        *)
LEMMA NodeNames ==
    ASSUME NEW file, AcceptedFile(file)
    PROVE  /\ Sequence(Head(Values(file, "BU_")))
           /\ Identifiers(Head(Values(file, "BU_")))
<1> DEFINE names == Head(Values(file, "BU_"))
<1>1. Sequence(file) /\ \A st \in ToSet(file) : Parsed(st) /\ WellFormed(st)
    BY AcceptedIs
<1>2. PICK st \in ToSet(file) : Kind(st) = "BU_"
    <2>1. CountOf(file, "BU_") = 1
        BY DEF AcceptedFile, Accepts
    <2> QED  BY <2>1, <1>1, CountOne
<1>3. PICK s \in ToSet(file) : Kind(s) = "BU_" /\ names = Value(s)
    <2>1. Sequence(Values(file, "BU_")) /\ Value(st) \in ToSet(Values(file, "BU_"))
        BY <1>1, <1>2, ValuesOfAre
    <2>2. names \in ToSet(Values(file, "BU_"))
        BY <2>1, HeadIs
    <2> QED  BY <2>2, <1>1, ValuesOfAre
<1>4. List(names) /\ Identifiers(names)
    BY <1>1, <1>3 DEF Parsed, WellFormed
<1> HIDE DEF names
<1>5. Sequence(names) /\ Identifiers(names)
    BY <1>4, ListIs
<1> QED  BY <1>5 DEF names

(* What Named asks of the objects one by one.                               *)
NamedMessage(m) ==
    /\ Identifier(m.name) /\ Identifier(m.transmitter) /\ Identifiers(m.transmitters)
    /\ \A j \in DOMAIN m.signals : Identifiers(m.signals[j].receivers)

(* Named is that of all messages.                                           *)
LEMMA NamedIs ==
    ASSUME NEW net
    PROVE  Named(net) <=>
             /\ \A i \in DOMAIN net.nodes : Identifier(net.nodes[i].name)
             /\ \A i \in DOMAIN net.messages : NamedMessage(net.messages[i])
             /\ \A i \in DOMAIN net.environment_variables :
                   Identifiers(net.environment_variables[i].access_nodes)
    BY DEF Named, All, NamedMessage

(* A message is loaded with identifiers for names.                          *)
LEMMA LoadedMessageNamed ==
    ASSUME NEW file, AcceptedFile(file), NEW st, Kind(st) = "BO_", Parsed(st), WellFormed(st)
    PROVE  NamedMessage(LoadMessage(file, st))
<1> DEFINE o == Owner(st)
           ts == About(file, "BO_TX_BU_", o)
           tr == FirstOr(ts, << >>)
           ss == Value(st).signals
           sl == [ i \in DOMAIN ss |-> LoadSignal(file, o[2], ss[i]) ]
           m == LoadMessage(file, st)
<1>1. /\ m.name = Value(st).name /\ m.transmitter = Value(st).transmitter
      /\ m.transmitters = tr /\ m.signals = sl
    BY DEF LoadMessage
<1>2. Identifier(m.name) /\ Identifier(m.transmitter)
    BY <1>1 DEF WellFormed
<1>3. Identifiers(tr)
    <2>1. Sequence(file) /\ \A t \in ToSet(file) : Parsed(t) /\ WellFormed(t)
        BY AcceptedIs
    <2>2. Sequence(ts)
        BY <2>1, AboutSequence
    <2>3. \A x \in ToSet(ts) : Identifiers(x)
        <3> TAKE x \in ToSet(ts)
        <3>1. PICK t \in ToSet(file) : Kind(t) = "BO_TX_BU_" /\ Owner(t) = o /\ x = Value(t)
            BY <2>1, AboutSequence
        <3> QED  BY <3>1, <2>1 DEF WellFormed, NameList
    <2>4. Identifiers(<< >>)
        BY DEF Identifiers
    <2> HIDE DEF ts
    <2>5. tr \in ToSet(ts) \/ tr = << >>
        BY <2>2, FirstOrLast
    <2> QED  BY <2>3, <2>4, <2>5
<1>4. \A i \in DOMAIN sl : Identifiers(sl[i].receivers)
    <2>1. \A i \in DOMAIN ss : Identifiers(ss[i].receivers)
        BY DEF WellFormed, NameList
    <2>2. \A i \in DOMAIN ss : LoadSignal(file, o[2], ss[i]).receivers = ss[i].receivers
        BY DEF LoadSignal
    <2> QED  BY <2>1, <2>2
<1> HIDE DEF tr, sl, m
<1>5. NamedMessage(m)
    BY <1>1, <1>2, <1>3, <1>4 DEF NamedMessage
<1> QED  BY <1>5 DEF m

(* DBCX3: all names that are loaded are identifiers.                        *)
LEMMA LoadedNames ==
    ASSUME NEW file, AcceptedFile(file), NEW left
    PROVE  Named(Load(file, left))
<1> DEFINE names == Head(Values(file, "BU_"))
           messages  == Of(file, "BO_")
           variables == Of(file, "EV_")
           no == [ i \in DOMAIN names |-> LoadNode(file, names[i]) ]
           me == [ i \in DOMAIN messages |-> LoadMessage(file, messages[i]) ]
           va == [ i \in DOMAIN variables |-> LoadEnvVar(file, left, variables[i]) ]
           net == Load(file, left)
<1>1. net.nodes = no /\ net.messages = me /\ net.environment_variables = va
    BY DEF Load
<1>2. Sequence(file) /\ \A st \in ToSet(file) : Parsed(st) /\ WellFormed(st)
    BY AcceptedIs
<1>3. \A i \in DOMAIN no : Identifier(no[i].name)
    <2>1. Identifiers(names)
        BY NodeNames
    <2>2. \A n : LoadNode(file, n).name = n
        BY DEF LoadNode
    <2> HIDE DEF names
    <2>3. \A i \in DOMAIN no : i \in DOMAIN names /\ no[i] = LoadNode(file, names[i])
        OBVIOUS
    <2> QED  BY <2>1, <2>2, <2>3 DEF Identifiers
<1>4. \A i \in DOMAIN me : NamedMessage(me[i])
    <2>1. \A st \in ToSet(messages) : st \in ToSet(file) /\ Kind(st) = "BO_"
        BY <1>2, OfAre
    <2> HIDE DEF messages
    <2>2. \A i \in DOMAIN messages : NamedMessage(LoadMessage(file, messages[i]))
        <3> TAKE i \in DOMAIN messages
        <3>1. Kind(messages[i]) = "BO_" /\ Parsed(messages[i]) /\ WellFormed(messages[i])
            BY <2>1, <1>2 DEF ToSet
        <3> QED  BY <3>1, LoadedMessageNamed
    <2> QED  BY <2>2
<1>5. \A i \in DOMAIN va : Identifiers(va[i].access_nodes)
    <2>1. \A st \in ToSet(variables) : st \in ToSet(file) /\ Kind(st) = "EV_"
        BY <1>2, OfAre
    <2> HIDE DEF variables
    <2>2. \A i \in DOMAIN variables : Identifiers(LoadEnvVar(file, left, variables[i]).access_nodes)
        <3> TAKE i \in DOMAIN variables
        <3>1. Kind(variables[i]) = "EV_" /\ WellFormed(variables[i])
            BY <2>1, <1>2 DEF ToSet
        <3>2. LoadEnvVar(file, left, variables[i]).access_nodes = Value(variables[i]).access_nodes
            BY DEF LoadEnvVar
        <3> QED  BY <3>1, <3>2 DEF WellFormed, NameList
    <2> QED  BY <2>2
<1> HIDE DEF no, me, va, net
<1>6. Named(net)
    BY <1>1, <1>3, <1>4, <1>5, NamedIs
<1> QED  BY <1>6 DEF net

-----------------------------------------------------------------------------
(* When the file is well-formed. *)

(* No text is one of a set: of those with a quotation mark in them, or of   *)
(* all that are not read back as they are written.                          *)
Escaped == QuotedTexts \cup DOMAIN Misread
AttributeFree(a, T)   == a.name \notin T /\ a.value \notin T
AttributesFree(as, T) == \A i \in DOMAIN as : AttributeFree(as[i], T)
ObjectFree(x, T) == x.comment \notin T /\ AttributesFree(x.attributes, T)
TextsFree(x, T)  == ToSet(x.descriptions) \cap T = {}
SignalFree(x, T) == ObjectFree(x, T) /\ TextsFree(x, T) /\ x.unit \notin T
DefinitionFree(d, T) == d.name \notin T /\ ToSet(d.enum) \cap T = {}
MessageFree(m, T) ==
    ObjectFree(m, T) /\ \A j \in DOMAIN m.signals : SignalFree(m.signals[j], T)
NetworkFree(net, T) ==
    /\ net.version \notin T /\ net.comment \notin T
    /\ AttributesFree(net.attribute_defaults, T) /\ AttributesFree(net.attribute_values, T)
    /\ \A i \in DOMAIN net.nodes : ObjectFree(net.nodes[i], T)
    /\ \A i \in DOMAIN net.value_tables : TextsFree(net.value_tables[i], T)
    /\ \A i \in DOMAIN net.messages : MessageFree(net.messages[i], T)
    /\ \A i \in DOMAIN net.environment_variables : SignalFree(net.environment_variables[i], T)
    /\ \A i \in DOMAIN net.attribute_definitions : DefinitionFree(net.attribute_definitions[i], T)

TextsIn(as) == UNION { { as[i].name, as[i].value } : i \in DOMAIN as }
TextsOf(x)  == TextsIn(x.attributes) \cup {x.comment}
SignalTexts(x) == TextsOf(x) \cup ToSet(x.descriptions) \cup {x.unit}
MessageTexts(m) == TextsOf(m) \cup UNION { SignalTexts(m.signals[j]) : j \in DOMAIN m.signals }
DefinitionTexts(d) == {d.name} \cup ToSet(d.enum)

(* The texts of an object.                                                  *)
LEMMA TextsOfFree ==
    ASSUME NEW x, NEW T
    PROVE  /\ TextsIn(x) \cap T = {} <=> AttributesFree(x, T)
           /\ TextsOf(x) \cap T = {} <=> ObjectFree(x, T)
           /\ SignalTexts(x) \cap T = {} <=> SignalFree(x, T)
           /\ DefinitionTexts(x) \cap T = {} <=> DefinitionFree(x, T)
<1>1. \A as : TextsIn(as) \cap T = {} <=> AttributesFree(as, T)
    <2> TAKE as
    <2>1. TextsIn(as) \cap T = {} <=> \A i \in DOMAIN as : { as[i].name, as[i].value } \cap T = {}
        BY DEF TextsIn
    <2>2. \A n, v : { n, v } \cap T = {} <=> n \notin T /\ v \notin T
        OBVIOUS
    <2> QED  BY <2>1, <2>2 DEF AttributesFree, AttributeFree
<1>2. TextsOf(x) \cap T = {} <=> ObjectFree(x, T)
    BY <1>1 DEF TextsOf, ObjectFree
<1>3. SignalTexts(x) \cap T = {} <=> SignalFree(x, T)
    BY <1>2 DEF SignalTexts, SignalFree, TextsFree
<1>4. DefinitionTexts(x) \cap T = {} <=> DefinitionFree(x, T)
    BY DEF DefinitionTexts, DefinitionFree
<1> QED  BY <1>1, <1>2, <1>3, <1>4

(* NetworkFree is what Writable and ReadAsWritten ask of the texts.         *)
LEMMA AllTextsAre ==
    ASSUME NEW net, NEW T
    PROVE  AllTexts(net) \cap T = {} <=> NetworkFree(net, T)
<1> DEFINE A == UNION { TextsOf(net.nodes[i]) : i \in DOMAIN net.nodes }
           B == UNION { ToSet(net.value_tables[i].descriptions) : i \in DOMAIN net.value_tables }
           C == UNION { MessageTexts(net.messages[i]) : i \in DOMAIN net.messages }
           D == UNION { SignalTexts(net.environment_variables[i])
                          : i \in DOMAIN net.environment_variables }
           E == UNION { DefinitionTexts(net.attribute_definitions[i])
                          : i \in DOMAIN net.attribute_definitions }
           F == TextsIn(net.attribute_defaults)
           G == TextsIn(net.attribute_values)
<1>1. AllTexts(net) = A \cup B \cup C \cup D \cup E \cup F \cup G \cup { net.version, net.comment }
    BY Zenon DEF AllTexts, TextsOf, TextsIn, SignalTexts, MessageTexts, DefinitionTexts
<1>2. A \cap T = {} <=> \A i \in DOMAIN net.nodes : ObjectFree(net.nodes[i], T)
    <2>1. A \cap T = {} <=> \A i \in DOMAIN net.nodes : TextsOf(net.nodes[i]) \cap T = {}
        OBVIOUS
    <2> QED  BY <2>1, TextsOfFree
<1>3. B \cap T = {} <=> \A i \in DOMAIN net.value_tables : TextsFree(net.value_tables[i], T)
    BY DEF TextsFree
<1>4. \A m : MessageTexts(m) \cap T = {} <=> MessageFree(m, T)
    <2> TAKE m
    <2> DEFINE U == UNION { SignalTexts(m.signals[j]) : j \in DOMAIN m.signals }
    <2>1. U \cap T = {} <=> \A j \in DOMAIN m.signals : SignalTexts(m.signals[j]) \cap T = {}
        OBVIOUS
    <2>2. U \cap T = {} <=> \A j \in DOMAIN m.signals : SignalFree(m.signals[j], T)
        BY <2>1, TextsOfFree
    <2>3. MessageTexts(m) = TextsOf(m) \cup U
        BY DEF MessageTexts
    <2> HIDE DEF U
    <2>4. MessageTexts(m) \cap T = {} <=> TextsOf(m) \cap T = {} /\ U \cap T = {}
        BY <2>3
    <2> QED  BY <2>2, <2>4, TextsOfFree DEF MessageFree
<1>5. C \cap T = {} <=> \A i \in DOMAIN net.messages : MessageTexts(net.messages[i]) \cap T = {}
    OBVIOUS
<1>6. D \cap T = {}
        <=> \A i \in DOMAIN net.environment_variables : SignalFree(net.environment_variables[i], T)
    <2>1. D \cap T = {}
            <=> \A j \in DOMAIN net.environment_variables :
                   SignalTexts(net.environment_variables[j]) \cap T = {}
        OBVIOUS
    <2> QED  BY <2>1, TextsOfFree
<1>7. E \cap T = {}
        <=> \A i \in DOMAIN net.attribute_definitions :
               DefinitionFree(net.attribute_definitions[i], T)
    <2>1. E \cap T = {}
            <=> \A j \in DOMAIN net.attribute_definitions :
                   DefinitionTexts(net.attribute_definitions[j]) \cap T = {}
        OBVIOUS
    <2> QED  BY <2>1, TextsOfFree
<1>8. /\ F \cap T = {} <=> AttributesFree(net.attribute_defaults, T)
      /\ G \cap T = {} <=> AttributesFree(net.attribute_values, T)
    BY TextsOfFree
<1> HIDE DEF A, B, C, D, E, F, G
<1>9. AllTexts(net) \cap T = {}
        <=> /\ A \cap T = {} /\ B \cap T = {} /\ C \cap T = {} /\ D \cap T = {}
            /\ E \cap T = {} /\ F \cap T = {} /\ G \cap T = {}
            /\ net.version \notin T /\ net.comment \notin T
    BY <1>1
<1> QED  BY <1>2, <1>3, <1>4, <1>5, <1>6, <1>7, <1>8, <1>9 DEF NetworkFree

(* A text ends behind its quotation mark unless it has one in it, and is    *)
(* read as written without an escape.                                       *)
LEMMA QuotedIs ==
    ASSUME NEW text, text # Unreadable
    PROVE  /\ Quoted(text) # Unreadable <=> text \notin QuotedTexts
           /\ text \notin Escaped => Quoted(text) = text
BY MisreadAssumption DEF Quoted, Escaped

(* The same of a list of texts.                                             *)
LEMMA QuotedAllIs ==
    ASSUME NEW texts, IsTexts(texts)
    PROVE  /\ Sequence(QuotedAll(texts)) /\ DOMAIN QuotedAll(texts) = DOMAIN texts
           /\ Unreadable \notin ToSet(QuotedAll(texts)) <=> ToSet(texts) \cap QuotedTexts = {}
           /\ ToSet(texts) \cap Escaped = {} => QuotedAll(texts) = texts
<1> DEFINE q == QuotedAll(texts)
<1>1. Sequence(texts) /\ \A i \in DOMAIN texts : texts[i] # Unreadable
    BY DEF IsTexts, ToSet
<1>2. DOMAIN q = DOMAIN texts /\ q = [ i \in DOMAIN texts |-> q[i] ]
        /\ \A i \in DOMAIN texts : q[i] = Quoted(texts[i])
    BY DEF QuotedAll
<1> HIDE DEF q
<1>3. Sequence(q)
    BY <1>1, <1>2, MadeOf
<1>4. \A i \in DOMAIN texts : q[i] # Unreadable <=> texts[i] \notin QuotedTexts
    BY <1>1, <1>2, QuotedIs
<1>5. Unreadable \notin ToSet(q) <=> ToSet(texts) \cap QuotedTexts = {}
    BY <1>2, <1>4 DEF ToSet
<1>6. ToSet(texts) \cap Escaped = {} => q = texts
    <2> HAVE ToSet(texts) \cap Escaped = {}
    <2>1. \A i \in DOMAIN texts : texts[i] \notin Escaped
        BY DEF ToSet
    <2>2. \A i \in DOMAIN texts : q[i] = texts[i]
        BY <2>1, <1>1, <1>2, QuotedIs
    <2> QED  BY <1>1, <1>2, <1>3, <2>2, SequenceEqual
<1> QED  BY <1>2, <1>3, <1>5, <1>6 DEF q

(* The name and the value of an attribute are such a list.                  *)
LEMMA AttributeTextIs ==
    ASSUME NEW a, a.name # Unreadable, a.value # Unreadable
    PROVE  /\ Sequence(AttributeText(a)) /\ Len(AttributeText(a)) = 2
           /\ Unreadable \notin ToSet(AttributeText(a)) <=> AttributeFree(a, QuotedTexts)
           /\ AttributeFree(a, Escaped) => AttributeText(a) = << a.name, a.value >>
<1> DEFINE n == a.name
           v == a.value
           p == << n, v >>
<1>1. n # Unreadable /\ v # Unreadable
    OBVIOUS
<1>2. AttributeText(a) = QuotedAll(p)
    BY DEF AttributeText
<1>3. (AttributeFree(a, QuotedTexts) <=> n \notin QuotedTexts /\ v \notin QuotedTexts)
        /\ (AttributeFree(a, Escaped) <=> n \notin Escaped /\ v \notin Escaped)
    BY DEF AttributeFree
<1> HIDE DEF n, v
<1>4. DOMAIN p = 1 .. 2 /\ p[1] = n /\ p[2] = v /\ p = [ i \in 1 .. 2 |-> p[i] ] /\ Len(p) = 2
    OBVIOUS
<1> HIDE DEF p
<1>5. ToSet(p) = {n, v}
    <2>1. 1 .. 2 = {1, 2}
        OBVIOUS
    <2> QED  BY <1>4, <2>1 DEF ToSet
<1>6. Sequence(p)
    BY <1>4, SequenceMade
<1>7. IsTexts(p)
    BY <1>1, <1>5, <1>6 DEF IsTexts
<1>8. Sequence(QuotedAll(p)) /\ Len(QuotedAll(p)) = 2
    <2> DEFINE q == QuotedAll(p)
    <2>1. Sequence(q) /\ DOMAIN q = 1 .. 2
        BY <1>4, <1>7, QuotedAllIs
    <2> HIDE DEF q
    <2>2. Len(q) = 2
        <3>1. DOMAIN q = 1 .. Len(q) /\ Len(q) \in Nat
            BY <2>1, SequenceDomain
        <3> QED  BY <2>1, <3>1
    <2> QED  BY <2>1, <2>2 DEF q
<1>9. /\ Unreadable \notin ToSet(QuotedAll(p)) <=> AttributeFree(a, QuotedTexts)
      /\ AttributeFree(a, Escaped) => QuotedAll(p) = p
    BY <1>3, <1>5, <1>7, QuotedAllIs
<1> QED  BY <1>2, <1>8, <1>9 DEF p, n, v

(* The statements with a text of an object.                                 *)
WithText == {"CM_", "BA_", "VAL_"}
Clean(kind, v) == IF kind = "CM_" THEN v # Unreadable ELSE Unreadable \notin ToSet(v)
SaidClean(kind, x) == \A v \in ToSet(Said(kind, x)) : Clean(kind, v)
(* An owner that can be named: a node by an identifier. *)
Nameable(o) == o # Nobody /\ (ObjectType(o) = "node" => Identifier(o[2]))
AllWellFormed(part) == \A st \in ToSet(part) : WellFormed(st)

(* Lists of one and no element.                                             *)
LEMMA ToSetFew ==
    ASSUME NEW x
    PROVE  ToSet(<< x >>) = {x} /\ ToSet(<< >>) = {}
BY DEF ToSet

(* A statement with a text is well-formed when the text is readable and it  *)
(* is somebody's.                                                           *)
LEMMA CleanIs ==
    ASSUME NEW st, Kind(st) \in WithText, Nameable(Owner(st))
    PROVE  WellFormed(st) <=> Clean(Kind(st), Value(st))
BY DEF WellFormed, Clean, WithText, Nameable, Ends, AllEnd

(* What is said of an object is readable when it has no quotation mark.     *)
LEMMA SaidCleanIs ==
    ASSUME NEW x
    PROVE  /\ x.comment # Unreadable => (SaidClean("CM_", x) <=> x.comment \notin QuotedTexts)
           /\ \A type : IsAttributes(x.attributes, type) =>
                 (SaidClean("BA_", x) <=> AttributesFree(x.attributes, QuotedTexts))
           /\ IsTexts(x.descriptions) => (SaidClean("VAL_", x) <=> TextsFree(x, QuotedTexts))
<1>1. ASSUME x.comment # Unreadable
      PROVE  SaidClean("CM_", x) <=> x.comment \notin QuotedTexts
    <2>1. Said("CM_", x) = IF x.comment # "" THEN << Quoted(x.comment) >> ELSE << >>
        BY DEF Said, Optional
    <2>2. CASE x.comment = ""
        <3>1. x.comment \notin QuotedTexts
            BY <2>2, QuotedTextsAssumption
        <3>2. ToSet(Said("CM_", x)) = {}
            <4>1. Said("CM_", x) = << >>
                BY <2>1, <2>2
            <4> QED  BY <4>1, ToSetFew
        <3> QED  BY <3>1, <3>2 DEF SaidClean
    <2>3. CASE x.comment # ""
        <3>1. ToSet(Said("CM_", x)) = {Quoted(x.comment)}
            <4>1. Said("CM_", x) = << Quoted(x.comment) >>
                BY <2>1, <2>3
            <4> QED  BY <4>1, ToSetFew
        <3> QED  BY <3>1, <1>1, QuotedIs DEF SaidClean, Clean
    <2> QED  BY <2>2, <2>3
<1>2. ASSUME NEW type, IsAttributes(x.attributes, type)
      PROVE  SaidClean("BA_", x) <=> AttributesFree(x.attributes, QuotedTexts)
    <2> DEFINE as == x.attributes
    <2>1. Said("BA_", x) = [ i \in DOMAIN as |-> AttributeText(as[i]) ]
        BY DEF Said
    <2>2. \A i \in DOMAIN as : as[i].name # Unreadable /\ as[i].value # Unreadable
        BY <1>2 DEF IsAttributes
    <2>3. SaidClean("BA_", x) <=> \A v \in ToSet(Said("BA_", x)) : Unreadable \notin ToSet(v)
        BY DEF SaidClean, Clean
    <2>4. AttributesFree(x.attributes, QuotedTexts)
            <=> \A i \in DOMAIN as : AttributeFree(as[i], QuotedTexts)
        BY DEF AttributesFree
    <2> HIDE DEF as
    <2>5. ToSet(Said("BA_", x)) = { AttributeText(as[i]) : i \in DOMAIN as }
        BY <2>1 DEF ToSet
    <2>6. SaidClean("BA_", x) <=> \A i \in DOMAIN as : Unreadable \notin ToSet(AttributeText(as[i]))
        BY <2>3, <2>5
    <2>7. \A i \in DOMAIN as :
             Unreadable \notin ToSet(AttributeText(as[i])) <=> AttributeFree(as[i], QuotedTexts)
        BY <2>2, AttributeTextIs
    <2> QED  BY <2>4, <2>6, <2>7
<1>3. ASSUME IsTexts(x.descriptions)
      PROVE  SaidClean("VAL_", x) <=> TextsFree(x, QuotedTexts)
    <2>1. Said("VAL_", x)
            = IF x.descriptions # << >> THEN << QuotedAll(x.descriptions) >> ELSE << >>
        BY DEF Said, Optional
    <2>2. CASE x.descriptions = << >>
        <3>1. TextsFree(x, QuotedTexts)
            BY <2>2, SequenceEmpty DEF TextsFree, ToSet
        <3>2. ToSet(Said("VAL_", x)) = {}
            BY <2>1, <2>2, SequenceEmpty DEF ToSet
        <3> QED  BY <3>1, <3>2 DEF SaidClean
    <2>3. CASE x.descriptions # << >>
        <3>1. ToSet(Said("VAL_", x)) = {QuotedAll(x.descriptions)}
            BY <2>1, <2>3 DEF ToSet
        <3>2. SaidClean("VAL_", x) <=> Unreadable \notin ToSet(QuotedAll(x.descriptions))
            BY <3>1 DEF SaidClean, Clean
        <3> QED  BY <3>2, <1>3, QuotedAllIs DEF TextsFree
    <2> QED  BY <2>2, <2>3
<1> QED  BY <1>1, <1>2, <1>3

(* The lines of objects are well-formed when what is said of each is        *)
(* readable.                                                                *)
LEMMA ObjectsClean ==
    ASSUME NEW kind \in WithText, NEW xs, NEW os, Sequence(os), DOMAIN os = DOMAIN xs,
           \A i \in DOMAIN os : Nameable(os[i]) \/ Said(kind, xs[i]) = << >>,
           \A i \in DOMAIN xs : Sequence(Says(kind, xs)[i])
    PROVE  AllWellFormed(ObjectLines(kind, os, Says(kind, xs)))
             <=> \A i \in DOMAIN xs : SaidClean(kind, xs[i])
<1> DEFINE vs == Says(kind, xs)
           part == ObjectLines(kind, os, vs)
<1>1. \A i \in DOMAIN xs : vs[i] = Said(kind, xs[i])
    BY DEF Says
<1>2. \A i \in DOMAIN os : Sequence(vs[i])
    OBVIOUS
<1>8. \A i \in DOMAIN os : \A v \in ToSet(vs[i]) : Nameable(os[i])
    BY <1>1, ToSetFew
<1> HIDE DEF vs
<1>3. \A st \in ToSet(part) :
         /\ Kind(st) = kind
         /\ \E i \in DOMAIN os : Owner(st) = os[i] /\ Value(st) \in ToSet(vs[i])
    BY <1>2, ObjectLinesAre
<1>4. \A i \in DOMAIN os : \A v \in ToSet(vs[i]) : St(kind, os[i], v) \in ToSet(part)
    BY <1>2, ObjectLinesAre
<1> HIDE DEF part
<1>5. ASSUME AllWellFormed(part), NEW i \in DOMAIN xs
      PROVE  SaidClean(kind, xs[i])
    <2>1. ASSUME NEW v \in ToSet(vs[i])
          PROVE  Clean(kind, v)
        <3> DEFINE st == St(kind, os[i], v)
        <3>1. WellFormed(st)
            BY <1>4, <1>5 DEF AllWellFormed
        <3>2. Kind(st) = kind /\ Owner(st) = os[i] /\ Value(st) = v
            BY DEF St, Kind, Owner, Value
        <3> HIDE DEF st
        <3>3. Nameable(Owner(st))
            BY <3>2, <1>8
        <3> QED  BY <3>1, <3>2, <3>3, CleanIs
    <2> QED  BY <2>1, <1>1 DEF SaidClean
<1>6. ASSUME \A i \in DOMAIN xs : SaidClean(kind, xs[i]), NEW st \in ToSet(part)
      PROVE  WellFormed(st)
    <2>1. PICK i \in DOMAIN os : Owner(st) = os[i] /\ Value(st) \in ToSet(vs[i])
        BY <1>3
    <2>2. Clean(kind, Value(st))
        BY <2>1, <1>1, <1>6 DEF SaidClean
    <2>3. Nameable(Owner(st))
        BY <2>1, <1>8
    <2> QED  BY <2>1, <2>2, <2>3, <1>3, CleanIs
<1>7. AllWellFormed(part) <=> \A i \in DOMAIN xs : SaidClean(kind, xs[i])
    BY <1>5, <1>6 DEF AllWellFormed
<1> QED  BY <1>7 DEF part, vs

NestedSay(part, kind, oss, vss) ==
    /\ Sequence(part)
    /\ \A st \in ToSet(part) :
          /\ Kind(st) = kind
          /\ \E i \in DOMAIN oss : \E j \in DOMAIN oss[i] :
                Owner(st) = oss[i][j] /\ Value(st) \in ToSet(vss[i][j])
    /\ \A i \in DOMAIN oss : \A j \in DOMAIN oss[i] : \A v \in ToSet(vss[i][j]) :
          St(kind, oss[i][j], v) \in ToSet(part)

(* What NestedLinesAre says, by name.                                       *)
LEMMA NestedSays ==
    ASSUME NEW kind, NEW oss, Sequences(oss), NEW vss,
           \A i \in DOMAIN oss : \A j \in DOMAIN oss[i] : Sequence(vss[i][j])
    PROVE  NestedSay(NestedLines(kind, oss, vss), kind, oss, vss)
BY NestedLinesAre DEF NestedSay

(* The lines of signals are well-formed when what is said of each is        *)
(* readable.                                                                *)
LEMMA SignalsClean ==
    ASSUME NEW kind \in WithText, NEW ms, NEW oss, Sequences(oss), DOMAIN oss = DOMAIN ms,
           \A i \in DOMAIN ms : DOMAIN oss[i] = DOMAIN ms[i].signals,
           \A i \in DOMAIN oss : \A j \in DOMAIN oss[i] : Nameable(oss[i][j]),
           \A i \in DOMAIN ms : \A j \in DOMAIN ms[i].signals : Sequence(SignalsSay(kind, ms)[i][j])
    PROVE  AllWellFormed(NestedLines(kind, oss, SignalsSay(kind, ms)))
             <=> \A i \in DOMAIN ms : \A j \in DOMAIN ms[i].signals :
                    SaidClean(kind, ms[i].signals[j])
<1> DEFINE vss == SignalsSay(kind, ms)
           part == NestedLines(kind, oss, vss)
<1>1. \A i \in DOMAIN ms : \A j \in DOMAIN ms[i].signals : vss[i][j] = Said(kind, ms[i].signals[j])
    BY DEF SignalsSay, Says
<1>2. \A i \in DOMAIN oss : \A j \in DOMAIN oss[i] : Sequence(vss[i][j])
    OBVIOUS
<1> HIDE DEF vss
<1>a. NestedSay(part, kind, oss, vss)
    BY <1>2, NestedSays
<1>3. \A st \in ToSet(part) :
         /\ Kind(st) = kind
         /\ \E i \in DOMAIN oss : \E j \in DOMAIN oss[i] :
               Owner(st) = oss[i][j] /\ Value(st) \in ToSet(vss[i][j])
    BY <1>a DEF NestedSay
<1>4. \A i \in DOMAIN oss : \A j \in DOMAIN oss[i] : \A v \in ToSet(vss[i][j]) :
         St(kind, oss[i][j], v) \in ToSet(part)
    BY <1>a DEF NestedSay
<1> HIDE DEF part
<1>5. ASSUME AllWellFormed(part), NEW i \in DOMAIN ms, NEW j \in DOMAIN ms[i].signals
      PROVE  SaidClean(kind, ms[i].signals[j])
    <2>1. ASSUME NEW v \in ToSet(vss[i][j])
          PROVE  Clean(kind, v)
        <3> DEFINE st == St(kind, oss[i][j], v)
        <3>1. WellFormed(st)
            BY <1>4, <1>5 DEF AllWellFormed
        <3>2. Kind(st) = kind /\ Owner(st) = oss[i][j] /\ Value(st) = v
            BY DEF St, Kind, Owner, Value
        <3>3. Nameable(oss[i][j])
            OBVIOUS
        <3> HIDE DEF st
        <3> QED  BY <3>1, <3>2, <3>3, CleanIs
    <2> QED  BY <2>1, <1>1 DEF SaidClean
<1>6. ASSUME \A i \in DOMAIN ms : \A j \in DOMAIN ms[i].signals : SaidClean(kind, ms[i].signals[j]),
             NEW st \in ToSet(part)
      PROVE  WellFormed(st)
    <2>1. PICK i \in DOMAIN oss : \E j \in DOMAIN oss[i] :
               Owner(st) = oss[i][j] /\ Value(st) \in ToSet(vss[i][j])
        BY <1>3
    <2>2. PICK j \in DOMAIN oss[i] : Owner(st) = oss[i][j] /\ Value(st) \in ToSet(vss[i][j])
        BY <2>1
    <2>3. Clean(kind, Value(st))
        BY <2>2, <1>1, <1>6 DEF SaidClean
    <2> QED  BY <2>2, <2>3, <1>3, CleanIs
<1>7. AllWellFormed(part)
        <=> \A i \in DOMAIN ms : \A j \in DOMAIN ms[i].signals : SaidClean(kind, ms[i].signals[j])
    BY <1>5, <1>6 DEF AllWellFormed
<1> QED  BY <1>7 DEF part, vss

(* Two parts are well-formed when each is.                                  *)
LEMMA UnionWellFormed ==
    ASSUME NEW a, NEW b, Sequence(a), Sequence(b)
    PROVE  Sequence(a \o b) /\ (AllWellFormed(a \o b) <=> AllWellFormed(a) /\ AllWellFormed(b))
<1>1. Sequence(a \o b) /\ ToSet(a \o b) = ToSet(a) \cup ToSet(b)
    BY Appended, ConcatToSet
<1> QED  BY <1>1 DEF AllWellFormed

(* A node is named by an identifier or nothing is said of it, the other     *)
(* owners can be named.                                                     *)
LEMMA OwnersNameable ==
    ASSUME NEW net, IsNetwork(net)
    PROVE  /\ \A i \in DOMAIN net.nodes : \A kind \in OfNetwork :
                 Nameable(Owners("node", net.nodes)[i]) \/ Said(kind, net.nodes[i]) = << >>
           /\ \A i \in DOMAIN net.messages : Nameable(MessageOwners(net.messages)[i])
           /\ \A i \in DOMAIN net.environment_variables :
                 Nameable(Owners("env", net.environment_variables)[i])
           /\ \A i \in DOMAIN net.messages : \A j \in DOMAIN net.messages[i].signals :
                 Nameable(SignalOwners(net.messages)[i][j])
           /\ Nameable(<< "network" >>)
<1>1. \A x : /\ Identifier(x) => Nameable(<< "node", x >>)
             /\ Nameable(<< "message", x >>) /\ Nameable(<< "env", x >>)
    BY DEF Nobody, Nameable, ObjectType
<1>2. \A x, y : Nameable(<< "signal", x, y >>)
    BY DEF Nobody, Nameable, ObjectType
<1>3. Nameable(<< "network" >>)
    BY DEF Nobody, Nameable, ObjectType
<1>5. \A x : DOMAIN Said("BA_", x) = DOMAIN x.attributes
    <2> TAKE x
    <2>1. Said("BA_", x) = [ i \in DOMAIN x.attributes |-> AttributeText(x.attributes[i]) ]
        BY DEF Said
    <2> QED  BY <2>1
<1>4. ASSUME NEW i \in DOMAIN net.nodes, NEW kind \in OfNetwork
      PROVE  Nameable(Owners("node", net.nodes)[i]) \/ Said(kind, net.nodes[i]) = << >>
    <2> DEFINE n == net.nodes[i]
    <2>1. IsNode(n)
        BY DEF IsNetwork
    <2>2. Owners("node", net.nodes)[i] = << "node", n.name >>
        BY DEF Owners
    <2> HIDE DEF n
    <2>3. CASE Identifier(n.name)
        BY <1>1, <2>2, <2>3
    <2>4. CASE n.comment = "" /\ n.attributes = << >>
        <3>1. Said("CM_", n) = << >>
            BY <2>4 DEF Said, Optional
        <3>2. Sequence(Said("BA_", n))
            BY <2>1, SaidIs DEF IsNode, IsAttributes
        <3>3. DOMAIN Said("BA_", n) = {}
            <4>1. DOMAIN Said("BA_", n) = DOMAIN n.attributes
                BY <1>5
            <4>2. DOMAIN n.attributes = {}
                BY <2>4, SequenceEmpty
            <4> QED  BY <4>1, <4>2
        <3>4. Said("BA_", n) = << >>
            BY <3>2, <3>3, NoDomain
        <3> QED  BY <3>1, <3>4 DEF n, OfNetwork
    <2> QED  BY <2>1, <2>3, <2>4 DEF IsNode
<1> QED  BY <1>1, <1>2, <1>3, <1>4 DEF Owners, MessageOwners, SignalOwners

NetworkObject(net) == [ comment |-> net.comment, attributes |-> net.attribute_values ]
NodesClean(kind, net) == \A i \in DOMAIN net.nodes : SaidClean(kind, net.nodes[i])
MessagesClean(kind, net) == \A i \in DOMAIN net.messages : SaidClean(kind, net.messages[i])
SignalsAreClean(kind, net) ==
    \A i \in DOMAIN net.messages : \A j \in DOMAIN net.messages[i].signals :
        SaidClean(kind, net.messages[i].signals[j])
VariablesClean(kind, net) ==
    \A i \in DOMAIN net.environment_variables : SaidClean(kind, net.environment_variables[i])

(* The parts of the sections with texts.                                    *)
LEMMA PartsClean ==
    ASSUME NEW net, IsNetwork(net), NEW kind
    PROVE  /\ kind \in OfNetwork => (AllWellFormed(NetworkPart(kind, net))
                                       <=> SaidClean(kind, NetworkObject(net)))
           /\ kind \in OfNetwork => (AllWellFormed(NodePart(kind, net)) <=> NodesClean(kind, net))
           /\ kind \in OfNetwork => (AllWellFormed(MessagePart(kind, net)) <=> MessagesClean(kind, net))
           /\ kind \in WithText => (AllWellFormed(SignalPart(kind, net)) <=> SignalsAreClean(kind, net))
           /\ kind \in WithText => (AllWellFormed(EnvPart(kind, net)) <=> VariablesClean(kind, net))
<1>0. /\ OfNetwork \subseteq WithText /\ OfNetwork \subseteq OfMessage
      /\ WithText \subseteq OfSignal /\ WithText \subseteq OfEnv
    BY DEF OfNetwork, WithText, OfMessage, OfSignal, OfEnv
<1>1. ASSUME kind \in OfNetwork
      PROVE  AllWellFormed(NetworkPart(kind, net)) <=> SaidClean(kind, NetworkObject(net))
    <2> DEFINE values == NetworkSays(kind, net)
               part == Lines(kind, << "network" >>, values)
    <2>1. Sequence(values)
        BY <1>1, ValuesAre
    <2>2. values = Said(kind, NetworkObject(net))
        BY DEF NetworkSays, NetworkObject
    <2> HIDE DEF values
    <2>3. /\ \A st \in ToSet(part) :
                Kind(st) = kind /\ Owner(st) = << "network" >> /\ Value(st) \in ToSet(values)
          /\ \A v \in ToSet(values) : St(kind, << "network" >>, v) \in ToSet(part)
        BY <2>1, LinesAre
    <2> HIDE DEF part
    <2>4. Nameable(<< "network" >>) /\ kind \in WithText
        BY OwnersNameable, <1>0, <1>1
    <2>5. ASSUME AllWellFormed(part), NEW v \in ToSet(values)
          PROVE  Clean(kind, v)
        <3> DEFINE st == St(kind, << "network" >>, v)
        <3>1. WellFormed(st)
            BY <2>3, <2>5 DEF AllWellFormed
        <3>2. Kind(st) = kind /\ Owner(st) = << "network" >> /\ Value(st) = v
            BY DEF St, Kind, Owner, Value
        <3> HIDE DEF st
        <3> QED  BY <3>1, <3>2, <2>4, CleanIs
    <2>6. ASSUME \A v \in ToSet(values) : Clean(kind, v), NEW st \in ToSet(part)
          PROVE  WellFormed(st)
        BY <2>3, <2>4, <2>6, CleanIs
    <2>7. AllWellFormed(part) <=> \A v \in ToSet(values) : Clean(kind, v)
        BY <2>5, <2>6 DEF AllWellFormed
    <2> QED  BY <2>2, <2>7 DEF part, values, NetworkPart, SaidClean
<1>2. ASSUME kind \in OfNetwork
      PROVE  AllWellFormed(NodePart(kind, net)) <=> NodesClean(kind, net)
    <2> DEFINE xs == net.nodes
               os == Owners("node", xs)
    <2>1. Sequence(xs)
        BY DEF IsNetwork
    <2>2. Sequence(os) /\ DOMAIN os = DOMAIN xs
        BY <2>1, OwnersAre
    <2>3. \A i \in DOMAIN os : Nameable(os[i]) \/ Said(kind, xs[i]) = << >>
        BY <2>2, <1>2, OwnersNameable
    <2>4. \A i \in DOMAIN xs : Sequence(Says(kind, xs)[i])
        BY <1>2, ValuesAre
    <2>5. kind \in WithText
        BY <1>0, <1>2
    <2> HIDE DEF os, xs
    <2>6. AllWellFormed(ObjectLines(kind, os, Says(kind, xs)))
             <=> \A i \in DOMAIN xs : SaidClean(kind, xs[i])
        BY <2>2, <2>3, <2>4, <2>5, ObjectsClean
    <2> QED  BY <2>6 DEF xs, os, NodePart, NodesClean
<1>3. ASSUME kind \in OfNetwork
      PROVE  AllWellFormed(MessagePart(kind, net)) <=> MessagesClean(kind, net)
    <2> DEFINE xs == net.messages
               os == MessageOwners(xs)
    <2>1. Sequence(xs)
        BY DEF IsNetwork
    <2>2. Sequence(os) /\ DOMAIN os = DOMAIN xs
        BY <2>1, OwnersAre
    <2>3. \A i \in DOMAIN os : Nameable(os[i])
        BY <2>2, OwnersNameable
    <2>4. \A i \in DOMAIN xs : Sequence(Says(kind, xs)[i])
        BY <1>0, <1>3, ValuesAre
    <2>5. kind \in WithText
        BY <1>0, <1>3
    <2> HIDE DEF os, xs
    <2>6. AllWellFormed(ObjectLines(kind, os, Says(kind, xs)))
             <=> \A i \in DOMAIN xs : SaidClean(kind, xs[i])
        BY <2>2, <2>3, <2>4, <2>5, ObjectsClean
    <2> QED  BY <2>6 DEF xs, os, MessagePart, MessagesClean
<1>4. ASSUME kind \in WithText
      PROVE  AllWellFormed(SignalPart(kind, net)) <=> SignalsAreClean(kind, net)
    <2> DEFINE ms == net.messages
               oss == SignalOwners(ms)
    <2>1. Sequence(ms) /\ \A i \in DOMAIN ms : Sequence(ms[i].signals)
        BY DEF IsNetwork, IsMessage
    <2>2. Sequences(oss) /\ DOMAIN oss = DOMAIN ms
            /\ \A i \in DOMAIN ms : DOMAIN oss[i] = DOMAIN ms[i].signals
        BY <2>1, SignalOwnersAre
    <2>3. \A i \in DOMAIN oss : \A j \in DOMAIN oss[i] : Nameable(oss[i][j])
        BY <2>2, OwnersNameable
    <2>4. \A i \in DOMAIN ms : \A j \in DOMAIN ms[i].signals : Sequence(SignalsSay(kind, ms)[i][j])
        BY <1>0, <1>4, ValuesAre
    <2> HIDE DEF ms, oss
    <2>5. AllWellFormed(NestedLines(kind, oss, SignalsSay(kind, ms)))
             <=> \A i \in DOMAIN ms : \A j \in DOMAIN ms[i].signals :
                    SaidClean(kind, ms[i].signals[j])
        BY <1>4, <2>2, <2>3, <2>4, SignalsClean
    <2> QED  BY <2>5 DEF ms, oss, SignalPart, SignalsAreClean
<1>5. ASSUME kind \in WithText
      PROVE  AllWellFormed(EnvPart(kind, net)) <=> VariablesClean(kind, net)
    <2> DEFINE xs == net.environment_variables
               os == Owners("env", xs)
    <2>1. Sequence(xs)
        BY DEF IsNetwork
    <2>2. Sequence(os) /\ DOMAIN os = DOMAIN xs
        BY <2>1, OwnersAre
    <2>3. \A i \in DOMAIN os : Nameable(os[i])
        BY <2>2, OwnersNameable
    <2>4. \A i \in DOMAIN xs : Sequence(Says(kind, xs)[i])
        BY <1>0, <1>5, ValuesAre
    <2> HIDE DEF os, xs
    <2>6. AllWellFormed(ObjectLines(kind, os, Says(kind, xs)))
             <=> \A i \in DOMAIN xs : SaidClean(kind, xs[i])
        BY <1>5, <2>2, <2>3, <2>4, ObjectsClean
    <2> QED  BY <2>6 DEF xs, os, EnvPart, VariablesClean
<1> QED  BY <1>1, <1>2, <1>3, <1>4, <1>5

(* The sections with comments and with attributes.                          *)
LEMMA FivePartsClean ==
    ASSUME NEW net, IsNetwork(net), NEW kind \in OfNetwork
    PROVE  AllWellFormed(FiveParts(kind, net))
             <=> /\ SaidClean(kind, NetworkObject(net)) /\ NodesClean(kind, net)
                 /\ MessagesClean(kind, net) /\ SignalsAreClean(kind, net)
                 /\ VariablesClean(kind, net)
<1>1. kind \in WithText
    BY DEF OfNetwork, WithText
<1>2. AllWellFormed(FiveParts(kind, net))
        <=> /\ AllWellFormed(NetworkPart(kind, net)) /\ AllWellFormed(NodePart(kind, net))
            /\ AllWellFormed(MessagePart(kind, net)) /\ AllWellFormed(SignalPart(kind, net))
            /\ AllWellFormed(EnvPart(kind, net))
    BY FivePartsAre DEF AllWellFormed
<1> QED  BY <1>1, <1>2, PartsClean

(* The texts of the sections that say something of an object have no        *)
(* quotation marks in them.                                                 *)
SaidFree(net) ==
    /\ net.version \notin QuotedTexts /\ ObjectFree(NetworkObject(net), QuotedTexts)
    /\ \A i \in DOMAIN net.nodes : ObjectFree(net.nodes[i], QuotedTexts)
    /\ \A i \in DOMAIN net.messages :
          /\ ObjectFree(net.messages[i], QuotedTexts)
          /\ \A j \in DOMAIN net.messages[i].signals :
                /\ ObjectFree(net.messages[i].signals[j], QuotedTexts)
                /\ TextsFree(net.messages[i].signals[j], QuotedTexts)
    /\ \A i \in DOMAIN net.environment_variables :
          /\ ObjectFree(net.environment_variables[i], QuotedTexts)
          /\ TextsFree(net.environment_variables[i], QuotedTexts)

(* These sections are well-formed exactly then.                             *)
LEMMA TextSections ==
    ASSUME NEW net, IsNetwork(net)
    PROVE  SaidFree(net)
             <=> /\ Quoted(net.version) # Unreadable
                 /\ AllWellFormed(FiveParts("CM_", net)) /\ AllWellFormed(FiveParts("BA_", net))
                 /\ AllWellFormed(SignalPart("VAL_", net)) /\ AllWellFormed(EnvPart("VAL_", net))
<1>1. \A x : \A type : x.comment # Unreadable /\ IsAttributes(x.attributes, type) =>
         (ObjectFree(x, QuotedTexts) <=> SaidClean("CM_", x) /\ SaidClean("BA_", x))
    BY SaidCleanIs DEF ObjectFree
<1>2. \A x : IsTexts(x.descriptions) => (TextsFree(x, QuotedTexts) <=> SaidClean("VAL_", x))
    BY SaidCleanIs
<1>3. ObjectFree(NetworkObject(net), QuotedTexts)
        <=> SaidClean("CM_", NetworkObject(net)) /\ SaidClean("BA_", NetworkObject(net))
    <2> DEFINE x == NetworkObject(net)
    <2>1. x.comment = net.comment /\ x.attributes = net.attribute_values
        BY DEF NetworkObject
    <2> HIDE DEF x
    <2>2. x.comment # Unreadable /\ IsAttributes(x.attributes, "network")
        BY <2>1 DEF IsNetwork
    <2>3. ObjectFree(x, QuotedTexts) <=> SaidClean("CM_", x) /\ SaidClean("BA_", x)
        BY <2>2, <1>1
    <2> QED  BY <2>3 DEF x
<1>5. \A i \in DOMAIN net.nodes :
         ObjectFree(net.nodes[i], QuotedTexts) <=> SaidClean("CM_", net.nodes[i]) /\ SaidClean("BA_", net.nodes[i])
    <2> TAKE i \in DOMAIN net.nodes
    <2>1. net.nodes[i].comment # Unreadable /\ IsAttributes(net.nodes[i].attributes, "node")
        BY DEF IsNetwork, IsNode
    <2> QED  BY <2>1, <1>1
<1>6. \A i \in DOMAIN net.messages :
         /\ ObjectFree(net.messages[i], QuotedTexts)
              <=> SaidClean("CM_", net.messages[i]) /\ SaidClean("BA_", net.messages[i])
         /\ \A j \in DOMAIN net.messages[i].signals :
               /\ ObjectFree(net.messages[i].signals[j], QuotedTexts)
                    <=> /\ SaidClean("CM_", net.messages[i].signals[j])
                        /\ SaidClean("BA_", net.messages[i].signals[j])
               /\ TextsFree(net.messages[i].signals[j], QuotedTexts)
                    <=> SaidClean("VAL_", net.messages[i].signals[j])
    <2> TAKE i \in DOMAIN net.messages
    <2>1. IsMessage(net.messages[i])
        BY DEF IsNetwork
    <2>2. net.messages[i].comment # Unreadable
            /\ IsAttributes(net.messages[i].attributes, "message")
        BY <2>1 DEF IsMessage
    <2>3. ASSUME NEW j \in DOMAIN net.messages[i].signals
          PROVE  LET s == net.messages[i].signals[j]
                 IN  /\ ObjectFree(s, QuotedTexts) <=> SaidClean("CM_", s) /\ SaidClean("BA_", s)
                     /\ TextsFree(s, QuotedTexts) <=> SaidClean("VAL_", s)
        <3> DEFINE s == net.messages[i].signals[j]
        <3>1. s.comment # Unreadable /\ IsAttributes(s.attributes, "signal") /\ IsTexts(s.descriptions)
            BY <2>1 DEF IsMessage, IsSignal
        <3> HIDE DEF s
        <3>2. /\ ObjectFree(s, QuotedTexts) <=> SaidClean("CM_", s) /\ SaidClean("BA_", s)
              /\ TextsFree(s, QuotedTexts) <=> SaidClean("VAL_", s)
            BY <3>1, <1>1, <1>2
        <3> QED  BY <3>2, Zenon DEF s
    <2> QED  BY <2>2, <2>3, <1>1
<1>7. \A i \in DOMAIN net.environment_variables :
         /\ ObjectFree(net.environment_variables[i], QuotedTexts)
              <=> /\ SaidClean("CM_", net.environment_variables[i])
                  /\ SaidClean("BA_", net.environment_variables[i])
         /\ TextsFree(net.environment_variables[i], QuotedTexts)
              <=> SaidClean("VAL_", net.environment_variables[i])
    <2> TAKE i \in DOMAIN net.environment_variables
    <2> DEFINE x == net.environment_variables[i]
    <2>1. x.comment # Unreadable /\ IsAttributes(x.attributes, "env") /\ IsTexts(x.descriptions)
        BY DEF IsNetwork, IsEnvVar
    <2> HIDE DEF x
    <2>2. /\ ObjectFree(x, QuotedTexts) <=> SaidClean("CM_", x) /\ SaidClean("BA_", x)
          /\ TextsFree(x, QuotedTexts) <=> SaidClean("VAL_", x)
        BY <2>1, <1>1, <1>2
    <2> QED  BY <2>2 DEF x
<1>8. Quoted(net.version) # Unreadable <=> net.version \notin QuotedTexts
    BY QuotedIs DEF IsNetwork
<1>9. AllWellFormed(FiveParts("CM_", net))
        <=> /\ SaidClean("CM_", NetworkObject(net)) /\ NodesClean("CM_", net)
            /\ MessagesClean("CM_", net) /\ SignalsAreClean("CM_", net)
            /\ VariablesClean("CM_", net)
    BY FivePartsClean DEF OfNetwork
<1>10. AllWellFormed(FiveParts("BA_", net))
        <=> /\ SaidClean("BA_", NetworkObject(net)) /\ NodesClean("BA_", net)
            /\ MessagesClean("BA_", net) /\ SignalsAreClean("BA_", net)
            /\ VariablesClean("BA_", net)
    BY FivePartsClean DEF OfNetwork
<1>11. /\ AllWellFormed(SignalPart("VAL_", net)) <=> SignalsAreClean("VAL_", net)
       /\ AllWellFormed(EnvPart("VAL_", net)) <=> VariablesClean("VAL_", net)
    BY PartsClean DEF WithText
<1> QED  BY <1>3, <1>5, <1>6, <1>7, <1>8, <1>9, <1>10, <1>11
         DEF SaidFree, NodesClean, MessagesClean, SignalsAreClean, VariablesClean

(* Write puts the sections together.                                        *)
LEMMA WrittenStatements ==
    ASSUME NEW net, IsNetwork(net)
    PROVE  /\ Sequence(Write(net))
           /\ Write(net) = FlattenSeq(SectionsOf(net))
           /\ ToSet(Write(net)) = UNION { ToSet(SectionsOf(net)[k]) : k \in 1 .. 18 }
<1>1. Write(net) = FlattenSeq(SectionsOf(net))
    BY SectionsAre DEF Write
<1>2. Sequences(SectionsOf(net)) /\ DOMAIN SectionsOf(net) = 1 .. 18
    BY SectionsAreOfKind
<1> QED  BY <1>1, <1>2, FlattenLists, FlattenedToSet

(* The sections with what they are made of. *)
LEMMA SectionAt ==
    ASSUME NEW net
    PROVE  /\ SectionsOf(net)[1] = << St("VERSION", << >>, Quoted(net.version)) >>
           /\ SectionsOf(net)[3] = << BitTimingLine(net.bit_timing) >>
           /\ SectionsOf(net)[4] = << NodesLine(net.nodes) >>
           /\ SectionsOf(net)[5] = Tables(net)
           /\ SectionsOf(net)[6] = Messages(net)
           /\ SectionsOf(net)[7] = MessagePart("BO_TX_BU_", net)
           /\ SectionsOf(net)[8] = Variables(net)
           /\ SectionsOf(net)[9] = EnvPart("ENVVAR_DATA_", net)
           /\ SectionsOf(net)[10] = SignalTypeSection(net)
           /\ SectionsOf(net)[11] = FiveParts("CM_", net)
           /\ SectionsOf(net)[12] = Lines("BA_DEF_", << >>, Definitions(net))
           /\ SectionsOf(net)[13] = Lines("BA_DEF_DEF_", << "network" >>, Defaults(net))
           /\ SectionsOf(net)[14] = FiveParts("BA_", net)
           /\ SectionsOf(net)[15] = SignalPart("VAL_", net) \o EnvPart("VAL_", net)
           /\ SectionsOf(net)[16] = MessagePart("SIG_GROUP_", net)
           /\ SectionsOf(net)[17] = SignalPart("SIG_VALTYPE_", net)
           /\ SectionsOf(net)[18] = SignalPart("SG_MUL_VAL_", net)
           /\ SectionsOf(net)[2] = << St("NS_", << >>, net.new_symbols) >>
BY DEF SectionsOf

(* The statements nothing is asked of. *)
Unasked == {"NS_", "BS_", "ENVVAR_DATA_", "SIG_GROUP_", "SIG_VALTYPE_", "SGTYPE_"}

(* They are well-formed.                                                    *)
LEMMA UnaskedWellFormed ==
    ASSUME NEW part, NEW kind \in Unasked, OfKind(part, kind)
    PROVE  AllWellFormed(part)
<1>1. ASSUME NEW st \in ToSet(part)
      PROVE  WellFormed(st)
    <2>1. Kind(st) = kind
        BY DEF OfKind
    <2> QED  BY <2>1 DEF WellFormed, Unasked
<1> QED  BY <1>1 DEF AllWellFormed

(* The value tables are well-formed when their descriptions are readable.   *)
LEMMA TablesWellFormed ==
    ASSUME NEW net, IsNetwork(net)
    PROVE  /\ AllWellFormed(Tables(net))
                <=> \A i \in DOMAIN net.value_tables : TextsFree(net.value_tables[i], QuotedTexts)
           /\ AllWellFormed(Tables(net)) => AllWellFormed(SignalTypeSection(net))
<1>1. Sequence(net.value_tables)
        /\ \A i \in DOMAIN net.value_tables : IsTexts(net.value_tables[i].descriptions)
    BY DEF IsNetwork, IsValueTable
<1>2. \A vt : IsTexts(vt.descriptions) => (WellFormed(TableSt(vt)) <=> TextsFree(vt, QuotedTexts))
    <2> TAKE vt
    <2> HAVE IsTexts(vt.descriptions)
    <2> DEFINE st == TableSt(vt)
    <2>1. Kind(st) = "VAL_TABLE_" /\ Value(st) = QuotedAll(vt.descriptions)
        BY DEF TableSt, St, Kind, Value
    <2> HIDE DEF st
    <2>2. WellFormed(st) <=> Unreadable \notin ToSet(QuotedAll(vt.descriptions))
        BY <2>1 DEF WellFormed, AllEnd
    <2> QED  BY <2>2, QuotedAllIs DEF TextsFree, st
<1>3. \A vt : vt.descriptions = << >> => TextsFree(vt, QuotedTexts)
    BY ToSetFew DEF TextsFree
<1>4. ToSet(Tables(net))
        = { TableSt(net.value_tables[i]) :
              i \in { j \in DOMAIN net.value_tables : net.value_tables[j].descriptions # << >> } }
    BY <1>1, TablesAre
<1>5. ToSet(SignalTypeSection(net)) \subseteq ToSet(Tables(net))
    BY <1>1, <1>4, TablesAre
<1>6. AllWellFormed(Tables(net))
        <=> \A i \in DOMAIN net.value_tables :
               net.value_tables[i].descriptions # << >> => WellFormed(TableSt(net.value_tables[i]))
    BY <1>4 DEF AllWellFormed
<1> QED  BY <1>1, <1>2, <1>3, <1>5, <1>6 DEF AllWellFormed

(* A name is read back as one exactly when an identifier is read.           *)
LEMMA OneNameIs ==
    ASSUME NEW name
    PROVE  /\ OneName(name) <=> Identifier(Name(name))
           /\ Identifier(name) => Name(name) = name /\ Words(name) = << name >>
           /\ Sequence(Words(name)) /\ (AllEnd(Words(name)) <=> Identifiers(Words(name)))
<1>1. ~ Identifier(Unreadable)
    BY DEF Identifier
<1>2. CASE name \in DOMAIN FreeNames
    <2> DEFINE ws == FreeNames[name]
    <2>1. Words(name) = ws /\ ~ Identifier(name)
        BY <1>2 DEF Words, Identifier
    <2>2. ws \in Seq(ToSet(ws)) /\ ToSet(ws) \cap DOMAIN FreeNames = {}
        BY <1>2, FreeNamesAssumption
    <2> HIDE DEF ws
    <2>3. Sequence(ws)
        BY <2>2, ListIs DEF List
    <2>4. \A w \in ToSet(ws) : Identifier(w) <=> w # Unreadable
        BY <2>2 DEF Identifier
    <2>5. AllEnd(ws) <=> Identifiers(ws)
        BY <2>4 DEF AllEnd, Identifiers, ToSet
    <2>6. CASE Len(ws) = 1
        <3>1. DOMAIN ws = 1 .. 1 /\ Head(ws) = ws[1]
            BY <2>3, <2>6, SequenceDomain
        <3>2. Head(ws) \in ToSet(ws)
            BY <3>1 DEF ToSet
        <3>3. Name(name) = Head(ws)
            BY <2>1, <2>6 DEF Name
        <3>4. Identifier(Head(ws)) <=> Head(ws) # Unreadable
            BY <3>2, <2>4
        <3> QED  BY <2>1, <2>3, <2>5, <3>3, <3>4 DEF OneName
    <2>7. CASE Len(ws) # 1
        <3>1. Name(name) = Unreadable
            BY <2>1, <2>7 DEF Name
        <3> QED  BY <1>1, <2>1, <2>3, <2>5, <3>1 DEF OneName
    <2> QED  BY <2>6, <2>7
<1>3. CASE name \notin DOMAIN FreeNames
    <2> DEFINE ws == << name >>
    <2>1. Words(name) = ws /\ (Identifier(name) <=> name # Unreadable)
        BY <1>3 DEF Words, Identifier
    <2>2. Sequence(ws) /\ ToSet(ws) = {name}
        BY SequenceOne, ToSetFew
    <2>3. Len(ws) = 1 /\ Head(ws) = name /\ DOMAIN ws = {1} /\ ws[1] = name
        BY SequenceOne
    <2> HIDE DEF ws
    <2>4. Name(name) = name
        BY <2>1, <2>3 DEF Name
    <2>5. AllEnd(ws) <=> Identifiers(ws)
        BY <2>1, <2>2, <2>3 DEF AllEnd, Identifiers
    <2> QED  BY <2>1, <2>2, <2>4, <2>5 DEF OneName, ws
<1> QED  BY <1>2, <1>3

(* The names of a list.                                                     *)
LEMMA NameEachIs ==
    ASSUME NEW names, Sequence(names)
    PROVE  /\ Sequence(NameEach(names)) /\ DOMAIN NameEach(names) = DOMAIN names
           /\ NameEach(names) = << >> <=> names = << >>
           /\ Identifiers(NameEach(names)) <=> OneNameEach(names)
           /\ Identifiers(names) => NameEach(names) = names
<1> DEFINE q == NameEach(names)
<1>1. DOMAIN q = DOMAIN names /\ q = [ i \in DOMAIN names |-> q[i] ]
        /\ \A i \in DOMAIN names : q[i] = Name(names[i])
    BY DEF NameEach
<1>2. OneNameEach(names) <=> \A i \in DOMAIN names : OneName(names[i])
    BY DEF OneNameEach, All
<1> HIDE DEF q
<1>3. Sequence(q)
    BY <1>1, MadeOf
<1>4. q = << >> <=> names = << >>
    BY <1>1, <1>3, NoDomain, SequenceEmpty
<1>5. Identifiers(q) <=> OneNameEach(names)
    BY <1>1, <1>2, OneNameIs DEF Identifiers
<1>6. Identifiers(names) => q = names
    <2> HAVE Identifiers(names)
    <2>1. \A i \in DOMAIN names : q[i] = names[i]
        BY <1>1, OneNameIs DEF Identifiers
    <2> QED  BY <1>1, <1>3, <2>1, SequenceEqual
<1> QED  BY <1>1, <1>3, <1>4, <1>5, <1>6 DEF q

(* The line of the nodes is well-formed when their names are read.          *)
LEMMA NodesWellFormed ==
    ASSUME NEW net, IsNetwork(net)
    PROVE  /\ WellFormed(NodesLine(net.nodes))
                <=> \A i \in DOMAIN net.nodes : AllEnd(Words(net.nodes[i].name))
           /\ Sequence(Value(NodesLine(net.nodes)))
<1> DEFINE xs == net.nodes
           t == [ i \in DOMAIN xs |-> Words(xs[i].name) ]
           names == FlattenSeq(t)
           st == NodesLine(xs)
<1>1. Kind(st) = "BU_" /\ Value(st) = names
    BY DEF NodesLine, St, Kind, Value, Each
<1>2. Sequence(xs)
    BY DEF IsNetwork
<1> HIDE DEF xs, st
<1>3. DOMAIN t = DOMAIN xs /\ t = [ i \in DOMAIN xs |-> t[i] ]
        /\ \A i \in DOMAIN xs : t[i] = Words(xs[i].name)
    OBVIOUS
<1> HIDE DEF t
<1>4. Sequences(t)
    <2>1. Sequence(t)
        BY <1>2, <1>3, MadeOf
    <2> QED  BY <2>1, <1>3, OneNameIs DEF Sequences
<1>5. Sequence(names) /\ ToSet(names) = UNION { ToSet(t[i]) : i \in DOMAIN t }
    BY <1>4, FlattenLists, FlattenedToSet
<1> HIDE DEF names
<1>6. Identifiers(names) <=> \A n \in ToSet(names) : Identifier(n)
    BY DEF Identifiers, ToSet
<1>7. \A i \in DOMAIN t : Identifiers(t[i]) <=> \A n \in ToSet(t[i]) : Identifier(n)
    BY DEF Identifiers, ToSet
<1>8. Identifiers(names) <=> \A i \in DOMAIN t : Identifiers(t[i])
    BY <1>5, <1>6, <1>7
<1>9. Identifiers(names) <=> \A i \in DOMAIN xs : AllEnd(Words(xs[i].name))
    BY <1>3, <1>8, OneNameIs
<1>10. WellFormed(st) <=> Identifiers(names)
    BY <1>1 DEF WellFormed
<1> QED  BY <1>1, <1>5, <1>9, <1>10 DEF xs, st

(* A signal has a list of names of receivers, and its unit ends.            *)
LEMMA SignalWellFormed ==
    ASSUME NEW s, IsSignal(s)
    PROVE  /\ Sequence(SignalText(s).receivers)
           /\ NameList(SignalText(s).receivers) /\ Ends(SignalText(s).unit)
                <=> s.receivers # << >> /\ OneNameEach(s.receivers) /\ s.unit \notin QuotedTexts
<1> DEFINE v == SignalText(s)
<1>1. v.receivers = NameEach(s.receivers) /\ v.unit = Quoted(s.unit)
    BY DEF SignalText
<1>2. Sequence(s.receivers) /\ s.unit # Unreadable
    BY DEF IsSignal
<1> HIDE DEF v
<1>3. NameList(v.receivers) <=> s.receivers # << >> /\ OneNameEach(s.receivers)
    BY <1>1, <1>2, NameEachIs DEF NameList
<1>4. Ends(v.unit) <=> s.unit \notin QuotedTexts
    BY <1>1, <1>2, QuotedIs DEF Ends
<1> QED  BY <1>1, <1>2, <1>3, <1>4, NameEachIs DEF v

(* What is said of a message in its own line and those of its signals.      *)
Declared(m) ==
    /\ OneName(m.name) /\ OneName(m.transmitter)
    /\ \A i \in DOMAIN m.signals :
          /\ m.signals[i].receivers # << >> /\ OneNameEach(m.signals[i].receivers)
          /\ m.signals[i].unit \notin QuotedTexts
GoodMessage(m) == Declared(m) /\ OneNameEach(m.transmitters)

(* That line is well-formed when the names are there and the units end.     *)
LEMMA MessageWellFormed ==
    ASSUME NEW m, IsMessage(m)
    PROVE  WellFormed(MessageLine(m)) <=> Declared(m)
<1> DEFINE sl == [ i \in DOMAIN m.signals |-> SignalText(m.signals[i]) ]
           v == [ name |-> Name(m.name), transmitter |-> Name(m.transmitter),
                  size |-> m.size, signals |-> sl ]
           st == MessageLine(m)
           Good(i) == NameList(sl[i].receivers) /\ Ends(sl[i].unit)
<1>1. Kind(st) = "BO_" /\ Value(st) = v
    BY DEF MessageLine, St, Kind, Value
<1>2. DOMAIN sl = DOMAIN m.signals /\ \A i \in DOMAIN sl : sl[i] = SignalText(m.signals[i])
    OBVIOUS
<1> HIDE DEF sl
<1>3. v.name = Name(m.name) /\ v.transmitter = Name(m.transmitter) /\ v.signals = sl
    OBVIOUS
<1> HIDE DEF v, st
<1>4. WellFormed(st) <=> /\ Identifier(v.name) /\ Identifier(v.transmitter)
                         /\ \A i \in DOMAIN v.signals :
                               NameList(v.signals[i].receivers) /\ Ends(v.signals[i].unit)
    BY <1>1 DEF WellFormed
<1>5. WellFormed(st) <=> /\ OneName(m.name) /\ OneName(m.transmitter)
                         /\ \A i \in DOMAIN m.signals : Good(i)
    <2>1. /\ Identifier(v.name) <=> OneName(m.name)
          /\ Identifier(v.transmitter) <=> OneName(m.transmitter)
        BY <1>3, OneNameIs
    <2>2. (\A i \in DOMAIN v.signals : NameList(v.signals[i].receivers) /\ Ends(v.signals[i].unit))
            <=> \A i \in DOMAIN m.signals : Good(i)
        BY <1>2, <1>3
    <2> HIDE DEF Good
    <2> QED  BY <1>4, <2>1, <2>2
<1>6. \A i \in DOMAIN m.signals :
         Good(i) <=> /\ m.signals[i].receivers # << >> /\ OneNameEach(m.signals[i].receivers)
                     /\ m.signals[i].unit \notin QuotedTexts
    BY <1>2, SignalWellFormed DEF IsMessage
<1> HIDE DEF Good
<1> QED  BY <1>5, <1>6 DEF st, Declared

(* What says who sends a message is a list of names.                        *)
LEMMA TransmittersSaid ==
    ASSUME NEW m, Sequence(m.transmitters)
    PROVE  /\ \A v \in ToSet(Said("BO_TX_BU_", m)) : Sequence(v)
           /\ OneNameEach(m.transmitters)
                <=> \A v \in ToSet(Said("BO_TX_BU_", m)) : NameList(v)
<1> DEFINE names == NameEach(m.transmitters)
           said == Said("BO_TX_BU_", m)
<1>1. said = IF m.transmitters # << >> THEN << names >> ELSE << >>
    BY DEF Said, Optional
<1>2. Sequence(names) /\ (names = << >> <=> m.transmitters = << >>)
        /\ (Identifiers(names) <=> OneNameEach(m.transmitters))
    BY NameEachIs
<1> HIDE DEF names, said
<1>3. CASE m.transmitters # << >>
    <2>1. ToSet(said) = {names}
        BY <1>1, <1>3, ToSetFew
    <2> QED  BY <1>2, <1>3, <2>1 DEF NameList, said
<1>4. CASE m.transmitters = << >>
    <2>1. ToSet(said) = {}
        BY <1>1, <1>4, ToSetFew
    <2>2. OneNameEach(m.transmitters)
        BY <1>4, SequenceEmpty DEF OneNameEach, All
    <2> QED  BY <2>1, <2>2 DEF said
<1> QED  BY <1>3, <1>4

(* The messages and their transmitters are well-formed when the names are   *)
(* there.                                                                   *)
LEMMA MessagesWellFormed ==
    ASSUME NEW net, IsNetwork(net)
    PROVE  /\ AllWellFormed(Messages(net)) /\ AllWellFormed(MessagePart("BO_TX_BU_", net))
                <=> \A i \in DOMAIN net.messages : GoodMessage(net.messages[i])
           /\ \A st \in ToSet(MessagePart("BO_TX_BU_", net)) : Sequence(Value(st))
<1> DEFINE ms == net.messages
           Sent(m) == OneNameEach(m.transmitters)
<1>1. Sequence(ms)
    BY DEF IsNetwork
<1>2. \A i \in DOMAIN ms : IsMessage(ms[i]) /\ Sequence(ms[i].transmitters)
    BY DEF IsNetwork, IsMessage
<1>3. AllWellFormed(Messages(net)) <=> \A i \in DOMAIN ms : Declared(ms[i])
    <2>1. ToSet(Messages(net)) = { MessageLine(ms[i]) : i \in DOMAIN ms }
        BY DEF Messages, ToSet
    <2>2. AllWellFormed(Messages(net)) <=> \A i \in DOMAIN ms : WellFormed(MessageLine(ms[i]))
        BY <2>1 DEF AllWellFormed
    <2> QED  BY <2>2, <1>2, MessageWellFormed
<1>4. /\ AllWellFormed(MessagePart("BO_TX_BU_", net)) <=> \A i \in DOMAIN ms : Sent(ms[i])
      /\ \A st \in ToSet(MessagePart("BO_TX_BU_", net)) : Sequence(Value(st))
    <2> DEFINE os == MessageOwners(ms)
               vs == Says("BO_TX_BU_", ms)
               part == ObjectLines("BO_TX_BU_", os, vs)
    <2>1. Sequence(os) /\ DOMAIN os = DOMAIN ms
        BY <1>1, OwnersAre
    <2>2. \A i \in DOMAIN os : Sequence(vs[i])
        BY <2>1, ValuesAre DEF OfMessage
    <2>3. \A i \in DOMAIN os : vs[i] = Said("BO_TX_BU_", ms[i])
        BY <2>1 DEF Says
    <2> HIDE DEF os, vs
    <2>4. /\ \A st \in ToSet(part) :
                /\ Kind(st) = "BO_TX_BU_"
                /\ \E i \in DOMAIN os : Owner(st) = os[i] /\ Value(st) \in ToSet(vs[i])
          /\ \A i \in DOMAIN os : \A v \in ToSet(vs[i]) : St("BO_TX_BU_", os[i], v) \in ToSet(part)
        BY <2>1, <2>2, ObjectLinesAre
    <2> HIDE DEF part
    <2>5. \A st : Kind(st) = "BO_TX_BU_" => (WellFormed(st) <=> NameList(Value(st)))
        BY DEF WellFormed
    <2>6. \A i \in DOMAIN os :
             /\ Sent(ms[i]) <=> \A v \in ToSet(vs[i]) : NameList(v)
             /\ \A v \in ToSet(vs[i]) : Sequence(v)
        BY <1>2, <2>1, <2>3, TransmittersSaid
    <2> HIDE DEF Sent, ms
    <2>7. ASSUME AllWellFormed(part), NEW i \in DOMAIN ms
          PROVE  Sent(ms[i])
        <3>1. ASSUME NEW v \in ToSet(vs[i])
              PROVE  NameList(v)
            <4> DEFINE st == St("BO_TX_BU_", os[i], v)
            <4>1. st \in ToSet(part)
                BY <2>1, <2>4
            <4>2. Kind(st) = "BO_TX_BU_" /\ Value(st) = v
                BY DEF St, Kind, Value
            <4> HIDE DEF st
            <4> QED  BY <2>5, <2>7, <4>1, <4>2 DEF AllWellFormed
        <3> QED  BY <3>1, <2>1, <2>6
    <2>8. ASSUME NEW st \in ToSet(part)
          PROVE  Sequence(Value(st)) /\ ((\A i \in DOMAIN ms : Sent(ms[i])) => WellFormed(st))
        <3>1. PICK i \in DOMAIN os : Value(st) \in ToSet(vs[i])
            BY <2>4
        <3> QED  BY <3>1, <2>1, <2>4, <2>5, <2>6, <2>8
    <2>9. AllWellFormed(part) <=> \A i \in DOMAIN ms : Sent(ms[i])
        BY <2>7, <2>8 DEF AllWellFormed
    <2> QED  BY <2>8, <2>9 DEF part, os, vs, ms, Sent, MessagePart
<1> QED  BY <1>3, <1>4 DEF GoodMessage

GoodVariable(ev) ==
    /\ ev.access_nodes # << >> /\ OneNameEach(ev.access_nodes)
    /\ ev.var_type # NoVarType /\ ev.unit \notin QuotedTexts

(* The number of a type is written for those there are.                     *)
LEMMA VarTypeWritten ==
    ASSUME NEW type \in LeftOnStack
    PROVE  VarTypeCode(type) # NoNumber <=> type # NoVarType
<1>1. DOMAIN VarTypes = 1 .. 3 /\ VarTypes[1] = "Integer" /\ VarTypes[2] = "Float"
        /\ VarTypes[3] = "String"
    BY DEF VarTypes
<1>2. ToSet(VarTypes) = { VarTypes[i] : i \in DOMAIN VarTypes }
    BY DEF ToSet
<1>3. CASE type \in ToSet(VarTypes)
    <2>1. PICK i \in DOMAIN VarTypes : VarTypes[i] = type
        BY <1>2, <1>3
    <2> DEFINE k == CHOOSE j \in DOMAIN VarTypes : VarTypes[j] = type
    <2>2. k \in 1 .. 3
        BY <2>1, <1>1
    <2> HIDE DEF k
    <2>3. type # "Data" /\ type # NoVarType
        BY <2>1, <1>1 DEF NoVarType
    <2>4. VarTypeCode(type) = k - 1
        BY <2>3 DEF VarTypeCode, k
    <2> QED  BY <2>2, <2>3, <2>4 DEF NoNumber
<1>4. CASE type = "Data"
    BY <1>4 DEF VarTypeCode, NoNumber, NoVarType
<1>5. CASE type = NoVarType
    BY <1>5 DEF VarTypeCode, NoNumber, NoVarType
<1> QED  BY <1>3, <1>4, <1>5 DEF LeftOnStack

(* The variables are well-formed when the names and the type are there and  *)
(* the units end.                                                           *)
LEMMA VariablesWellFormed ==
    ASSUME NEW net, IsNetwork(net)
    PROVE  AllWellFormed(Variables(net))
             <=> \A i \in DOMAIN net.environment_variables :
                    GoodVariable(net.environment_variables[i])
<1> DEFINE xs == net.environment_variables
<1>1. \A ev : IsEnvVar(ev) => (WellFormed(EnvVarLine(ev)) <=> GoodVariable(ev))
    <2> TAKE ev
    <2> HAVE IsEnvVar(ev)
    <2> DEFINE st == EnvVarLine(ev)
               c == VarTypeCode(ev.var_type)
               names == NameEach(ev.access_nodes)
               unit == Quoted(ev.unit)
    <2>1. /\ Kind(st) = "EV_" /\ Value(st).var_type = c /\ Value(st).access_nodes = names
          /\ Value(st).unit = unit
        BY DEF EnvVarLine, St, Kind, Value
    <2>2. ev.var_type \in LeftOnStack /\ Sequence(ev.access_nodes) /\ ev.unit # Unreadable
        BY DEF IsEnvVar
    <2> HIDE DEF st
    <2>3. WellFormed(st) <=> NameList(names) /\ c # NoNumber /\ Ends(unit)
        BY <2>1, Zenon DEF WellFormed
    <2>4. c # NoNumber <=> ev.var_type # NoVarType
        BY <2>2, VarTypeWritten
    <2>5. NameList(names) <=> ev.access_nodes # << >> /\ OneNameEach(ev.access_nodes)
        BY <2>2, NameEachIs DEF NameList
    <2>6. Ends(unit) <=> ev.unit \notin QuotedTexts
        BY <2>2, QuotedIs DEF Ends
    <2> HIDE DEF c, names, unit
    <2> QED  BY <2>3, <2>4, <2>5, <2>6 DEF st, GoodVariable
<1>2. ToSet(Variables(net)) = { EnvVarLine(xs[i]) : i \in DOMAIN xs }
    BY DEF Variables, ToSet
<1>3. \A i \in DOMAIN xs : IsEnvVar(xs[i])
    BY DEF IsNetwork
<1> QED  BY <1>1, <1>2, <1>3 DEF AllWellFormed

(* The kinds of the sections by their numbers.                              *)
LEMMA SectionKinds ==
    /\ SectionKind(1) = "VERSION" /\ SectionKind(2) = "NS_" /\ SectionKind(3) = "BS_"
    /\ SectionKind(4) = "BU_" /\ SectionKind(5) = "VAL_TABLE_" /\ SectionKind(6) = "BO_"
    /\ SectionKind(7) = "BO_TX_BU_" /\ SectionKind(8) = "EV_" /\ SectionKind(9) = "ENVVAR_DATA_"
    /\ SectionKind(10) = "VAL_TABLE_" /\ SectionKind(11) = "CM_" /\ SectionKind(12) = "BA_DEF_"
    /\ SectionKind(13) = "BA_DEF_DEF_" /\ SectionKind(14) = "BA_" /\ SectionKind(15) = "VAL_"
    /\ SectionKind(16) = "SIG_GROUP_" /\ SectionKind(17) = "SIG_VALTYPE_"
    /\ SectionKind(18) = "SG_MUL_VAL_"
BY DEF SectionKind, SectionOrder

(* The default values of the attributes.                                    *)
LEMMA DefaultsWellFormed ==
    ASSUME NEW net, IsNetwork(net)
    PROVE  AllWellFormed(Lines("BA_DEF_DEF_", << "network" >>, Defaults(net)))
             <=> AttributesFree(net.attribute_defaults, QuotedTexts)
<1> DEFINE as == net.attribute_defaults
           values == Defaults(net)
           o == << "network" >>
           part == Lines("BA_DEF_DEF_", o, values)
<1>1. values = [ i \in DOMAIN as |-> AttributeText(as[i]) ]
    BY DEF Defaults, Said
<1>2. Sequence(as) /\ \A i \in DOMAIN as : as[i].name # Unreadable /\ as[i].value # Unreadable
    BY DEF IsNetwork, IsAttributes
<1> HIDE DEF values
<1>3. DOMAIN values = DOMAIN as /\ values = [ i \in DOMAIN as |-> values[i] ]
        /\ \A i \in DOMAIN as : values[i] = AttributeText(as[i])
    BY <1>1
<1>4. Sequence(values)
    BY <1>2, <1>3, MadeOf
<1>5. ObjectType(o) = "network"
    BY DEF ObjectType
<1> HIDE DEF o
<1>6. /\ \A st \in ToSet(part) :
            Kind(st) = "BA_DEF_DEF_" /\ Owner(st) = o /\ Value(st) \in ToSet(values)
      /\ \A v \in ToSet(values) : St("BA_DEF_DEF_", o, v) \in ToSet(part)
    BY <1>4, LinesAre
<1> HIDE DEF part
<1>7. \A st : Kind(st) = "BA_DEF_DEF_" /\ Owner(st) = o => (WellFormed(st) <=> AllEnd(Value(st)))
    BY <1>5 DEF WellFormed
<1>8. ASSUME AllWellFormed(part), NEW v \in ToSet(values)
      PROVE  AllEnd(v)
    <2> DEFINE st == St("BA_DEF_DEF_", o, v)
    <2>1. st \in ToSet(part)
        BY <1>6
    <2>2. Kind(st) = "BA_DEF_DEF_" /\ Owner(st) = o /\ Value(st) = v
        BY DEF St, Kind, Owner, Value
    <2> HIDE DEF st
    <2> QED  BY <2>1, <2>2, <1>7, <1>8 DEF AllWellFormed
<1>9. AllWellFormed(part) <=> \A v \in ToSet(values) : AllEnd(v)
    BY <1>6, <1>7, <1>8 DEF AllWellFormed
<1>10. ToSet(values) = { AttributeText(as[i]) : i \in DOMAIN as }
    BY <1>1 DEF ToSet
<1>11. AllWellFormed(part) <=> \A i \in DOMAIN as : AllEnd(AttributeText(as[i]))
    BY <1>9, <1>10
<1>12. \A i \in DOMAIN as : AllEnd(AttributeText(as[i])) <=> AttributeFree(as[i], QuotedTexts)
    BY <1>2, AttributeTextIs DEF AllEnd
<1> QED  BY <1>11, <1>12 DEF part, values, o, AttributesFree

(* The line of a definition reads back as the definition with its texts.    *)
LEMMA DefinitionIs ==
    ASSUME NEW d, IsDefinition(d)
    PROVE  LET v == Value(DefinitionLine(d))
           IN  /\ v = [ head |-> v.head, name |-> v.name, enum |-> v.enum ]
               /\ Sequence(v.enum)
               /\ Ends(v.name) /\ AllEnd(v.enum) <=> DefinitionFree(d, QuotedTexts)
               /\ DefinitionFree(d, Escaped) => v = d
<1> DEFINE name == Quoted(d.name)
           enum == QuotedAll(d.enum)
           v == [ head |-> d.head, name |-> name, enum |-> enum ]
<1>1. Value(DefinitionLine(d)) = v
    BY DEF DefinitionLine, St, Value
<1>2. d.name # Unreadable /\ IsTexts(d.enum)
        /\ d = [ head |-> d.head, name |-> d.name, enum |-> d.enum ]
    BY DEF IsDefinition
<1>3. Ends(name) <=> d.name \notin QuotedTexts
    BY <1>2, QuotedIs DEF Ends
<1>4. Sequence(enum) /\ (AllEnd(enum) <=> ToSet(d.enum) \cap QuotedTexts = {})
    BY <1>2, QuotedAllIs DEF AllEnd
<1>5. DefinitionFree(d, Escaped) => name = d.name /\ enum = d.enum
    BY <1>2, QuotedIs, QuotedAllIs DEF DefinitionFree
<1> HIDE DEF name, enum
<1>6. v.name = name /\ v.enum = enum /\ v = [ head |-> v.head, name |-> v.name, enum |-> v.enum ]
    OBVIOUS
<1>7. DefinitionFree(d, Escaped) => v = d
    BY <1>2, <1>5
<1> HIDE DEF v
<1> QED  BY <1>1, <1>3, <1>4, <1>6, <1>7 DEF DefinitionFree

(* The definitions of the attributes.                                       *)
LEMMA DefinitionsWellFormed ==
    ASSUME NEW net, IsNetwork(net)
    PROVE  AllWellFormed(Lines("BA_DEF_", << >>, Definitions(net)))
             <=> \A i \in DOMAIN net.attribute_definitions :
                    DefinitionFree(net.attribute_definitions[i], QuotedTexts)
<1> DEFINE ds == net.attribute_definitions
           part == Lines("BA_DEF_", << >>, Definitions(net))
           Good(v) == Ends(v.name) /\ AllEnd(v.enum)
<1>1. \A i \in DOMAIN ds : IsDefinition(ds[i])
    BY DEF IsNetwork
<1>2. ToSet(part) = { DefinitionLine(ds[i]) : i \in DOMAIN ds }
    <2>1. DOMAIN part = DOMAIN ds /\ \A i \in DOMAIN ds :
             part[i] = St("BA_DEF_", << >>, Value(DefinitionLine(ds[i])))
        BY DEF Lines, Definitions
    <2>2. \A d : DefinitionLine(d) = St("BA_DEF_", << >>, Value(DefinitionLine(d)))
        BY DEF DefinitionLine, St, Value
    <2> HIDE DEF part
    <2> QED  BY <2>1, <2>2 DEF ToSet
<1>3. \A d : WellFormed(DefinitionLine(d)) <=> Good(Value(DefinitionLine(d)))
    <2> TAKE d
    <2> DEFINE st == DefinitionLine(d)
    <2>1. Kind(st) = "BA_DEF_"
        BY DEF DefinitionLine, St, Kind
    <2> HIDE DEF st
    <2>2. WellFormed(st) <=> Good(Value(st))
        BY <2>1 DEF WellFormed
    <2> QED  BY <2>2 DEF st
<1>4. \A i \in DOMAIN ds : Good(Value(DefinitionLine(ds[i]))) <=> DefinitionFree(ds[i], QuotedTexts)
    BY <1>1, DefinitionIs
<1> HIDE DEF Good, part
<1>5. AllWellFormed(part) <=> \A i \in DOMAIN ds : WellFormed(DefinitionLine(ds[i]))
    BY <1>2 DEF AllWellFormed
<1> QED  BY <1>3, <1>4, <1>5 DEF part

(* The multiplexer values always have ranges.                               *)
LEMMA MultiplexersWellFormed ==
    ASSUME NEW net, IsNetwork(net)
    PROVE  AllWellFormed(SignalPart("SG_MUL_VAL_", net))
<1> DEFINE a == SignalPart("SG_MUL_VAL_", net)
           ms == net.messages
           oss == SignalOwners(ms)
           vss == SignalsSay("SG_MUL_VAL_", ms)
<1>1. Sequence(ms) /\ (\A i \in DOMAIN ms : Sequence(ms[i].signals))
    BY DEF IsNetwork, IsMessage
<1>2. Sequences(oss) /\ DOMAIN oss = DOMAIN ms
        /\ \A i \in DOMAIN ms : DOMAIN oss[i] = DOMAIN ms[i].signals
    BY <1>1, SignalOwnersAre
<1>3. \A i \in DOMAIN ms : \A j \in DOMAIN ms[i].signals : Sequence(vss[i][j])
    BY ValuesAre DEF OfSignal
<1>4. \A i \in DOMAIN ms : \A j \in DOMAIN ms[i].signals :
         vss[i][j] = ms[i].signals[j].multiplexer_values
    BY DEF SignalsSay, Says, Said
<1>5. \A i \in DOMAIN ms : \A j \in DOMAIN ms[i].signals :
         \A v \in ToSet(ms[i].signals[j].multiplexer_values) : v.ranges # << >>
    <2> TAKE i \in DOMAIN ms
    <2> TAKE j \in DOMAIN ms[i].signals
    <2> DEFINE s == ms[i].signals[j]
    <2>1. IsMessage(ms[i])
        BY DEF IsNetwork
    <2>2. IsSignal(s)
        BY <2>1 DEF IsMessage
    <2> HIDE DEF s
    <2>3. \A k \in DOMAIN s.multiplexer_values : s.multiplexer_values[k].ranges # << >>
        BY <2>2 DEF IsSignal
    <2>4. \A v \in ToSet(s.multiplexer_values) : v.ranges # << >>
        BY <2>3 DEF ToSet
    <2> QED  BY <2>4 DEF s
<1>6. a = NestedLines("SG_MUL_VAL_", oss, vss)
    BY DEF SignalPart
<1> HIDE DEF ms, oss, vss, a
<1>7. NestedSay(a, "SG_MUL_VAL_", oss, vss)
    BY <1>2, <1>3, <1>6, NestedSays
<1>8. ASSUME NEW st \in ToSet(a)
      PROVE  WellFormed(st)
    <2>1. Kind(st) = "SG_MUL_VAL_"
        BY <1>7 DEF NestedSay
    <2>2. PICK i \in DOMAIN oss : \E j \in DOMAIN oss[i] :
             Owner(st) = oss[i][j] /\ Value(st) \in ToSet(vss[i][j])
        BY <1>7 DEF NestedSay
    <2>3. PICK j \in DOMAIN oss[i] : Value(st) \in ToSet(vss[i][j])
        BY <2>2
    <2>4. Value(st).ranges # << >>
        BY <1>2, <1>4, <1>5, <2>3
    <2> QED  BY <2>1, <2>4 DEF WellFormed
<1>9. AllWellFormed(a)
    BY <1>8 DEF AllWellFormed
<1> QED  BY <1>9 DEF a

(* Everything read from the file ends where it should.                      *)
AllReadable(net) ==
    /\ NetworkFree(net, QuotedTexts)
    /\ \A i \in DOMAIN net.nodes : AllEnd(Words(net.nodes[i].name))
    /\ \A i \in DOMAIN net.messages : GoodMessage(net.messages[i])
    /\ \A i \in DOMAIN net.environment_variables :
          GoodVariable(net.environment_variables[i])

(* What that says of the texts is said by the sections that have them.      *)
LEMMA AllReadableIs ==
    ASSUME NEW net
    PROVE  AllReadable(net)
             <=> /\ SaidFree(net)
                 /\ \A i \in DOMAIN net.nodes : AllEnd(Words(net.nodes[i].name))
                 /\ \A i \in DOMAIN net.value_tables : TextsFree(net.value_tables[i], QuotedTexts)
                 /\ \A i \in DOMAIN net.messages : GoodMessage(net.messages[i])
                 /\ \A i \in DOMAIN net.environment_variables :
                       GoodVariable(net.environment_variables[i])
                 /\ \A i \in DOMAIN net.attribute_definitions :
                       DefinitionFree(net.attribute_definitions[i], QuotedTexts)
                 /\ AttributesFree(net.attribute_defaults, QuotedTexts)
<1>1. ObjectFree(NetworkObject(net), QuotedTexts)
        <=> net.comment \notin QuotedTexts /\ AttributesFree(net.attribute_values, QuotedTexts)
    BY DEF ObjectFree, NetworkObject
<1>2. \A m : GoodMessage(m) =>
         (MessageFree(m, QuotedTexts)
            <=> /\ ObjectFree(m, QuotedTexts)
                /\ \A j \in DOMAIN m.signals :
                      ObjectFree(m.signals[j], QuotedTexts) /\ TextsFree(m.signals[j], QuotedTexts))
    BY DEF GoodMessage, Declared, MessageFree, SignalFree
<1>3. \A ev : GoodVariable(ev) =>
         (SignalFree(ev, QuotedTexts) <=> ObjectFree(ev, QuotedTexts) /\ TextsFree(ev, QuotedTexts))
    BY DEF GoodVariable, SignalFree
<1> QED  BY <1>1, <1>2, <1>3, Zenon DEF AllReadable, NetworkFree, SaidFree

(* The whole file is well-formed exactly when texts, messages and variables *)
(* are.                                                                     *)
LEMMA WriteWellFormed ==
    ASSUME NEW net, IsNetwork(net)
    PROVE  AllWellFormed(Write(net)) <=> AllReadable(net)
<1> DEFINE S == SectionsOf(net)
<1>1. AllWellFormed(Write(net)) <=> \A k \in 1 .. 18 : AllWellFormed(S[k])
    <2>1. ToSet(Write(net)) = UNION { ToSet(S[k]) : k \in 1 .. 18 }
        BY WrittenStatements
    <2> HIDE DEF S
    <2> QED  BY <2>1 DEF AllWellFormed
<1>2. \A k \in 1 .. 18 : OfKind(S[k], SectionKind(k))
    BY SectionsAreOfKind
<1>3. \A k \in {2, 3, 9, 16, 17} : AllWellFormed(S[k])
    <2> TAKE k \in {2, 3, 9, 16, 17}
    <2>1. SectionKind(k) \in Unasked
        BY SectionKinds DEF Unasked
    <2> HIDE DEF S
    <2>2. OfKind(S[k], SectionKind(k))
        BY <1>2
    <2> QED  BY <2>1, <2>2, UnaskedWellFormed
<1>4. AllWellFormed(S[1]) <=> Quoted(net.version) # Unreadable
    <2> DEFINE st == St("VERSION", << >>, Quoted(net.version))
    <2>1. ToSet(S[1]) = {st}
        BY SectionAt, ToSetFew
    <2>2. Kind(st) = "VERSION" /\ Value(st) = Quoted(net.version)
        BY DEF St, Kind, Value
    <2> HIDE DEF st, S
    <2>3. WellFormed(st) <=> Quoted(net.version) # Unreadable
        BY <2>2 DEF WellFormed, Ends
    <2> QED  BY <2>1, <2>3 DEF AllWellFormed
<1>b. AllWellFormed(S[4]) <=> \A i \in DOMAIN net.nodes : AllEnd(Words(net.nodes[i].name))
    <2>1. ToSet(S[4]) = {NodesLine(net.nodes)}
        BY SectionAt, ToSetFew
    <2> HIDE DEF S
    <2> QED  BY <2>1, NodesWellFormed DEF AllWellFormed
<1>5. /\ AllWellFormed(S[5])
           <=> \A i \in DOMAIN net.value_tables : TextsFree(net.value_tables[i], QuotedTexts)
      /\ AllWellFormed(S[5]) => AllWellFormed(S[10])
    BY TablesWellFormed, SectionAt
<1>6. AllWellFormed(S[6]) /\ AllWellFormed(S[7])
        <=> \A i \in DOMAIN net.messages : GoodMessage(net.messages[i])
    BY MessagesWellFormed, SectionAt
<1>7. AllWellFormed(S[8])
        <=> \A i \in DOMAIN net.environment_variables : GoodVariable(net.environment_variables[i])
    BY VariablesWellFormed, SectionAt
<1>c. AllWellFormed(S[12])
        <=> \A i \in DOMAIN net.attribute_definitions :
               DefinitionFree(net.attribute_definitions[i], QuotedTexts)
    BY DefinitionsWellFormed, SectionAt
<1>8. AllWellFormed(S[13]) <=> AttributesFree(net.attribute_defaults, QuotedTexts)
    BY DefaultsWellFormed, SectionAt
<1>9. AllWellFormed(S[15])
        <=> AllWellFormed(SignalPart("VAL_", net)) /\ AllWellFormed(EnvPart("VAL_", net))
    <2> DEFINE a == SignalPart("VAL_", net)
               b == EnvPart("VAL_", net)
    <2>1. Sequence(a) /\ Sequence(b)
        BY PartsAre DEF PartOf, OfSignal, OfEnv
    <2>2. S[15] = a \o b
        BY SectionAt
    <2> HIDE DEF a, b, S
    <2>3. AllWellFormed(a \o b) <=> AllWellFormed(a) /\ AllWellFormed(b)
        BY <2>1, UnionWellFormed
    <2>4. AllWellFormed(S[15]) <=> AllWellFormed(a) /\ AllWellFormed(b)
        BY <2>2, <2>3
    <2> QED  BY <2>4 DEF a, b
<1>10. AllWellFormed(S[11]) <=> AllWellFormed(FiveParts("CM_", net))
    BY SectionAt
<1>11. AllWellFormed(S[14]) <=> AllWellFormed(FiveParts("BA_", net))
    BY SectionAt
<1>a. AllWellFormed(S[18])
    BY MultiplexersWellFormed, SectionAt
<1>12. \A k \in 1 .. 18 :
          k \in {2, 3, 9, 16, 17} \/ k \in {1, 4, 5, 6, 7, 8, 10, 11, 12, 13, 14, 15, 18}
    OBVIOUS
<1> HIDE DEF S
<1>13. (\A k \in 1 .. 18 : AllWellFormed(S[k]))
         <=> /\ AllWellFormed(S[1]) /\ AllWellFormed(S[4]) /\ AllWellFormed(S[5])
             /\ AllWellFormed(S[6]) /\ AllWellFormed(S[7]) /\ AllWellFormed(S[8])
             /\ AllWellFormed(S[10]) /\ AllWellFormed(S[11]) /\ AllWellFormed(S[12])
             /\ AllWellFormed(S[13]) /\ AllWellFormed(S[14]) /\ AllWellFormed(S[15])
    BY <1>3, <1>a, <1>12
<1> QED  BY <1>1, <1>b, <1>c, <1>4, <1>5, <1>6, <1>7, <1>8, <1>9, <1>10, <1>11, <1>13,
            TextSections, AllReadableIs

(* No value table is written a second time behind other sections. *)
TablesApart(net) ==
    \/ \A i \in DOMAIN net.value_tables :
          net.value_tables[i].signal_type = << >> \/ net.value_tables[i].descriptions = << >>
    \/ net.messages = << >> /\ net.environment_variables = << >>

(* Writable is that and the place of the value tables.                      *)
LEMMA WritableIs ==
    ASSUME NEW net, IsNetwork(net)
    PROVE  Writable(net) <=> TablesApart(net) /\ AllWellFormed(Write(net))
<1>1. Writable(net)
        <=> /\ TablesApart(net) /\ AllTexts(net) \cap QuotedTexts = {}
            /\ \A i \in DOMAIN net.nodes :
                  /\ AllEnd(Words(net.nodes[i].name))
                  /\ net.nodes[i].comment # "" \/ net.nodes[i].attributes # << >>
                        => Identifier(net.nodes[i].name)
            /\ \A i \in DOMAIN net.messages :
                  /\ OneName(net.messages[i].name) /\ OneName(net.messages[i].transmitter)
                  /\ OneNameEach(net.messages[i].transmitters)
                  /\ \A j \in DOMAIN net.messages[i].signals :
                        /\ net.messages[i].signals[j].receivers # << >>
                        /\ OneNameEach(net.messages[i].signals[j].receivers)
            /\ \A i \in DOMAIN net.environment_variables :
                  /\ net.environment_variables[i].access_nodes # << >>
                  /\ OneNameEach(net.environment_variables[i].access_nodes)
                  /\ net.environment_variables[i].var_type # NoVarType
    BY Zenon DEF Writable, All, TablesApart
<1>2. \A i \in DOMAIN net.nodes :
         net.nodes[i].comment # "" \/ net.nodes[i].attributes # << >>
            => Identifier(net.nodes[i].name)
    BY DEF IsNetwork, IsNode
<1>3. AllTexts(net) \cap QuotedTexts = {} <=> NetworkFree(net, QuotedTexts)
    BY AllTextsAre
<1>4. NetworkFree(net, QuotedTexts) =>
         /\ \A i \in DOMAIN net.messages : \A j \in DOMAIN net.messages[i].signals :
               net.messages[i].signals[j].unit \notin QuotedTexts
         /\ \A i \in DOMAIN net.environment_variables :
               net.environment_variables[i].unit \notin QuotedTexts
    BY DEF NetworkFree, MessageFree, SignalFree
<1>5. Writable(net) <=> TablesApart(net) /\ AllReadable(net)
    BY <1>1, <1>2, <1>3, <1>4 DEF AllReadable, GoodMessage, Declared, GoodVariable
<1> QED  BY <1>5, WriteWellFormed

-----------------------------------------------------------------------------
(* What is written has the attributes of what is parsed.                    *)
AllParsed(part) == \A st \in ToSet(part) : Parsed(st)

(* The parser asks nothing of the other statements.                         *)
LEMMA PartParsed ==
    ASSUME NEW part, NEW kind, OfKind(part, kind),
           kind \notin {"BS_", "BU_", "BO_TX_BU_", "VAL_", "VAL_TABLE_", "BO_", "EV_",
                        "BA_DEF_", "BA_DEF_DEF_", "BA_"}
    PROVE  AllParsed(part)
<1>1. ASSUME NEW st \in ToSet(part)
      PROVE  Parsed(st)
    <2>1. Kind(st) = kind
        BY DEF OfKind
    <2> QED  BY <2>1 DEF Parsed
<1> QED  BY <1>1 DEF AllParsed

(* Descriptions are a list.                                                 *)
LEMMA DescriptionsParsed ==
    ASSUME NEW st, Kind(st) \in {"VAL_", "VAL_TABLE_"}, NEW texts, IsTexts(texts),
           Value(st) = QuotedAll(texts)
    PROVE  Parsed(st)
<1>1. Sequence(Value(st))
    BY QuotedAllIs
<1>2. List(Value(st))
    BY <1>1, ListIs
<1> QED  BY <1>2 DEF Parsed

(* The values the parser makes a list of: names, texts, or an attribute.    *)
Listed == {"BO_TX_BU_", "VAL_", "BA_"}
SaidList(kind, x) ==
    \A v \in ToSet(Said(kind, x)) : Sequence(v) /\ (kind = "BA_" => Len(v) = 2)

(* What is said of an object is such a list.                                *)
LEMMA SaidLists ==
    ASSUME NEW x
    PROVE  /\ Sequence(x.transmitters) => SaidList("BO_TX_BU_", x)
           /\ IsTexts(x.descriptions) => SaidList("VAL_", x)
           /\ \A type : IsAttributes(x.attributes, type) => SaidList("BA_", x)
<1>1. ASSUME Sequence(x.transmitters)
      PROVE  SaidList("BO_TX_BU_", x)
    BY <1>1, TransmittersSaid DEF SaidList
<1>2. ASSUME IsTexts(x.descriptions)
      PROVE  SaidList("VAL_", x)
    <2> DEFINE texts == QuotedAll(x.descriptions)
    <2>1. Said("VAL_", x) = IF x.descriptions # << >> THEN << texts >> ELSE << >>
        BY DEF Said, Optional
    <2>2. Sequence(texts)
        BY <1>2, QuotedAllIs
    <2> HIDE DEF texts
    <2>3. \A v \in ToSet(Said("VAL_", x)) : v = texts
        BY <2>1, ToSetFew
    <2> QED  BY <2>2, <2>3 DEF SaidList
<1>3. ASSUME NEW type, IsAttributes(x.attributes, type)
      PROVE  SaidList("BA_", x)
    <2> DEFINE as == x.attributes
    <2>1. Said("BA_", x) = [ i \in DOMAIN as |-> AttributeText(as[i]) ]
        BY DEF Said
    <2>2. \A i \in DOMAIN as : as[i].name # Unreadable /\ as[i].value # Unreadable
        BY <1>3 DEF IsAttributes
    <2> HIDE DEF as
    <2>3. \A i \in DOMAIN as : Sequence(AttributeText(as[i])) /\ Len(AttributeText(as[i])) = 2
        BY <2>2, AttributeTextIs
    <2>4. ToSet(Said("BA_", x)) = { AttributeText(as[i]) : i \in DOMAIN as }
        BY <2>1 DEF ToSet
    <2> QED  BY <2>3, <2>4 DEF SaidList
<1> QED  BY <1>1, <1>2, <1>3

(* A statement with such a list is one of the parser's.                     *)
LEMMA ListParsed ==
    ASSUME NEW st, Kind(st) \in Listed, NEW x, SaidList(Kind(st), x),
           Value(st) \in ToSet(Said(Kind(st), x))
    PROVE  Parsed(st)
<1>1. Sequence(Value(st)) /\ (Kind(st) = "BA_" => Len(Value(st)) = 2)
    BY DEF SaidList
<1>2. List(Value(st))
    BY <1>1, ListIs
<1> QED  BY <1>1, <1>2, Zenon DEF Parsed, Listed

(* So are the lines of a list of objects.                                   *)
LEMMA ObjectsParsed ==
    ASSUME NEW kind \in Listed, NEW xs, NEW os, Sequence(os), DOMAIN os = DOMAIN xs,
           \A i \in DOMAIN xs : Sequence(Says(kind, xs)[i]),
           \A i \in DOMAIN xs : SaidList(kind, xs[i])
    PROVE  AllParsed(ObjectLines(kind, os, Says(kind, xs)))
<1> DEFINE vs == Says(kind, xs)
           part == ObjectLines(kind, os, vs)
<1>1. \A i \in DOMAIN xs : vs[i] = Said(kind, xs[i])
    BY DEF Says
<1>2. \A i \in DOMAIN os : Sequence(vs[i])
    OBVIOUS
<1> HIDE DEF vs
<1>3. \A st \in ToSet(part) :
         /\ Kind(st) = kind
         /\ \E i \in DOMAIN os : Owner(st) = os[i] /\ Value(st) \in ToSet(vs[i])
    BY <1>2, ObjectLinesAre
<1> HIDE DEF part
<1>4. ASSUME NEW st \in ToSet(part)
      PROVE  Parsed(st)
    <2>1. PICK i \in DOMAIN os : Value(st) \in ToSet(vs[i])
        BY <1>3
    <2>2. Kind(st) = kind /\ Value(st) \in ToSet(Said(kind, xs[i])) /\ SaidList(kind, xs[i])
        BY <2>1, <1>1, <1>3
    <2> QED  BY <2>2, ListParsed
<1> QED  BY <1>4 DEF AllParsed, part, vs

(* And those of the signals.                                                *)
LEMMA SignalsParsed ==
    ASSUME NEW kind \in Listed, NEW ms, NEW oss, Sequences(oss), DOMAIN oss = DOMAIN ms,
           \A i \in DOMAIN ms : DOMAIN oss[i] = DOMAIN ms[i].signals,
           \A i \in DOMAIN ms : \A j \in DOMAIN ms[i].signals :
               Sequence(SignalsSay(kind, ms)[i][j]),
           \A i \in DOMAIN ms : \A j \in DOMAIN ms[i].signals : SaidList(kind, ms[i].signals[j])
    PROVE  AllParsed(NestedLines(kind, oss, SignalsSay(kind, ms)))
<1> DEFINE vss == SignalsSay(kind, ms)
           part == NestedLines(kind, oss, vss)
<1>1. \A i \in DOMAIN ms : \A j \in DOMAIN ms[i].signals : vss[i][j] = Said(kind, ms[i].signals[j])
    BY DEF SignalsSay, Says
<1>2. \A i \in DOMAIN oss : \A j \in DOMAIN oss[i] : Sequence(vss[i][j])
    OBVIOUS
<1> HIDE DEF vss
<1>3. NestedSay(part, kind, oss, vss)
    BY <1>2, NestedSays
<1> HIDE DEF part
<1>4. ASSUME NEW st \in ToSet(part)
      PROVE  Parsed(st)
    <2>1. PICK i \in DOMAIN oss : \E j \in DOMAIN oss[i] :
             Owner(st) = oss[i][j] /\ Value(st) \in ToSet(vss[i][j])
        BY <1>3 DEF NestedSay
    <2>2. PICK j \in DOMAIN oss[i] : Value(st) \in ToSet(vss[i][j])
        BY <2>1
    <2>3. Kind(st) = kind
        BY <1>3 DEF NestedSay
    <2>4. Value(st) \in ToSet(Said(kind, ms[i].signals[j])) /\ SaidList(kind, ms[i].signals[j])
        BY <2>2, <1>1
    <2> QED  BY <2>3, <2>4, ListParsed
<1> QED  BY <1>4 DEF AllParsed, part, vss

(* The parts with such lists.                                               *)
LEMMA PartsParsed ==
    ASSUME NEW net, IsNetwork(net)
    PROVE  /\ AllParsed(NetworkPart("BA_", net)) /\ AllParsed(NodePart("BA_", net))
           /\ \A kind \in {"BA_", "BO_TX_BU_"} : AllParsed(MessagePart(kind, net))
           /\ \A kind \in {"BA_", "VAL_"} :
                 AllParsed(SignalPart(kind, net)) /\ AllParsed(EnvPart(kind, net))
<1>1. /\ Sequence(net.nodes) /\ Sequence(net.messages) /\ Sequence(net.environment_variables)
      /\ \A i \in DOMAIN net.messages : Sequence(net.messages[i].signals)
    BY DEF IsNetwork, IsMessage
<1>2. \A kind \in {"BA_", "BO_TX_BU_", "VAL_"} : kind \in Listed
    BY DEF Listed
<1>3. AllParsed(NetworkPart("BA_", net))
    <2> DEFINE x == [ comment |-> net.comment, attributes |-> net.attribute_values ]
               o == << "network" >>
               part == NetworkPart("BA_", net)
    <2>1. x.attributes = net.attribute_values
        OBVIOUS
    <2>2. part = Lines("BA_", o, Said("BA_", x))
        BY DEF NetworkPart, NetworkSays
    <2>3. Sequence(Said("BA_", x))
        BY ValuesAre DEF OfNetwork, NetworkSays
    <2> HIDE DEF x, part, o
    <2>4. SaidList("BA_", x)
        BY <2>1, SaidLists DEF IsNetwork
    <2>5. \A st \in ToSet(part) : Kind(st) = "BA_" /\ Value(st) \in ToSet(Said("BA_", x))
        BY <2>2, <2>3, LinesAre
    <2> QED  BY <2>4, <2>5, <1>2, ListParsed DEF AllParsed, part
<1>4. AllParsed(NodePart("BA_", net))
    <2> DEFINE xs == net.nodes
               os == Owners("node", xs)
    <2>1. Sequence(os) /\ DOMAIN os = DOMAIN xs
        BY <1>1, OwnersAre
    <2>2. \A i \in DOMAIN xs : Sequence(Says("BA_", xs)[i])
        BY ValuesAre DEF OfNetwork
    <2>3. \A i \in DOMAIN xs : SaidList("BA_", xs[i])
        BY SaidLists DEF IsNetwork, IsNode
    <2> HIDE DEF xs, os
    <2>4. AllParsed(ObjectLines("BA_", os, Says("BA_", xs)))
        BY <1>2, <2>1, <2>2, <2>3, ObjectsParsed
    <2> QED  BY <2>4 DEF xs, os, NodePart
<1>5. ASSUME NEW kind \in {"BA_", "BO_TX_BU_"}
      PROVE  AllParsed(MessagePart(kind, net))
    <2> DEFINE xs == net.messages
               os == MessageOwners(xs)
    <2>1. Sequence(os) /\ DOMAIN os = DOMAIN xs
        BY <1>1, OwnersAre
    <2>2. \A i \in DOMAIN xs : Sequence(Says(kind, xs)[i])
        BY <1>5, ValuesAre DEF OfMessage
    <2>3. \A i \in DOMAIN xs : SaidList(kind, xs[i])
        <3>1. \A i \in DOMAIN xs : Sequence(xs[i].transmitters) /\ IsAttributes(xs[i].attributes, "message")
            BY DEF IsNetwork, IsMessage
        <3> HIDE DEF xs
        <3> QED  BY <3>1, SaidLists
    <2> HIDE DEF xs, os
    <2>4. AllParsed(ObjectLines(kind, os, Says(kind, xs)))
        BY <1>2, <2>1, <2>2, <2>3, ObjectsParsed
    <2> QED  BY <2>4 DEF xs, os, MessagePart
<1>6. ASSUME NEW kind \in {"BA_", "VAL_"}
      PROVE  AllParsed(SignalPart(kind, net))
    <2> DEFINE ms == net.messages
               oss == SignalOwners(ms)
    <2>1. Sequences(oss) /\ DOMAIN oss = DOMAIN ms
            /\ \A i \in DOMAIN ms : DOMAIN oss[i] = DOMAIN ms[i].signals
        BY <1>1, SignalOwnersAre
    <2>2. \A i \in DOMAIN ms : \A j \in DOMAIN ms[i].signals : Sequence(SignalsSay(kind, ms)[i][j])
        BY <1>6, ValuesAre DEF OfSignal
    <2>3. \A i \in DOMAIN ms : \A j \in DOMAIN ms[i].signals : SaidList(kind, ms[i].signals[j])
        <3>1. \A i \in DOMAIN ms : IsMessage(ms[i])
            BY DEF IsNetwork
        <3>2. \A i \in DOMAIN ms : \A j \in DOMAIN ms[i].signals :
                 IsTexts(ms[i].signals[j].descriptions)
                   /\ IsAttributes(ms[i].signals[j].attributes, "signal")
            BY <3>1 DEF IsMessage, IsSignal
        <3> HIDE DEF ms
        <3> QED  BY <3>2, SaidLists
    <2> HIDE DEF ms, oss
    <2>4. AllParsed(NestedLines(kind, oss, SignalsSay(kind, ms)))
        BY <1>2, <2>1, <2>2, <2>3, SignalsParsed
    <2> QED  BY <2>4 DEF ms, oss, SignalPart
<1>7. ASSUME NEW kind \in {"BA_", "VAL_"}
      PROVE  AllParsed(EnvPart(kind, net))
    <2> DEFINE xs == net.environment_variables
               os == Owners("env", xs)
    <2>1. Sequence(os) /\ DOMAIN os = DOMAIN xs
        BY <1>1, OwnersAre
    <2>2. \A i \in DOMAIN xs : Sequence(Says(kind, xs)[i])
        BY <1>7, ValuesAre DEF OfEnv
    <2>3. \A i \in DOMAIN xs : SaidList(kind, xs[i])
        <3>1. \A i \in DOMAIN xs : IsTexts(xs[i].descriptions) /\ IsAttributes(xs[i].attributes, "env")
            BY DEF IsNetwork, IsEnvVar
        <3> HIDE DEF xs
        <3> QED  BY <3>1, SaidLists
    <2> HIDE DEF xs, os
    <2>4. AllParsed(ObjectLines(kind, os, Says(kind, xs)))
        BY <1>2, <2>1, <2>2, <2>3, ObjectsParsed
    <2> QED  BY <2>4 DEF xs, os, EnvPart
<1> QED  BY <1>3, <1>4, <1>5, <1>6, <1>7

(* The file written for a network has the attributes of a parsed one.       *)
LEMMA WriteParsed ==
    ASSUME NEW net, IsNetwork(net)
    PROVE  ParsedFile(Write(net))
<1> DEFINE S == SectionsOf(net)
<1>1. ToSet(Write(net)) = UNION { ToSet(S[k]) : k \in 1 .. 18 } /\ Sequence(Write(net))
    BY WrittenStatements
<1>2. \A k \in 1 .. 18 : OfKind(S[k], SectionKind(k))
    BY SectionsAreOfKind
<1>3. \A k \in {1, 2, 9, 11, 16, 17, 18} : AllParsed(S[k])
    <2> TAKE k \in {1, 2, 9, 11, 16, 17, 18}
    <2>1. SectionKind(k) \notin {"BS_", "BU_", "BO_TX_BU_", "VAL_", "VAL_TABLE_", "BO_", "EV_",
                                 "BA_DEF_", "BA_DEF_DEF_", "BA_"}
        BY SectionKinds
    <2> HIDE DEF S
    <2>2. OfKind(S[k], SectionKind(k))
        BY <1>2
    <2> QED  BY <2>1, <2>2, PartParsed
<1>4. AllParsed(S[3])
    <2> DEFINE st == BitTimingLine(net.bit_timing)
    <2>1. ToSet(S[3]) = {st}
        BY SectionAt, ToSetFew
    <2>2. Kind(st) = "BS_" /\ (Value(st) = << >> \/ Value(st) = net.bit_timing)
        BY DEF BitTimingLine, St, Kind, Value
    <2>3. net.bit_timing \in [ 1 .. 3 -> Nat ]
        BY DEF IsNetwork
    <2> HIDE DEF st, S
    <2>4. Parsed(st)
        BY <2>2, <2>3 DEF Parsed
    <2> QED  BY <2>1, <2>4 DEF AllParsed
<1>5. AllParsed(S[4])
    <2> DEFINE st == NodesLine(net.nodes)
    <2>1. ToSet(S[4]) = {st}
        BY SectionAt, ToSetFew
    <2>2. Kind(st) = "BU_"
        BY DEF NodesLine, St, Kind
    <2>3. Sequence(Value(st))
        BY NodesWellFormed
    <2> HIDE DEF st, S
    <2>4. List(Value(st))
        BY <2>3, ListIs
    <2>5. Parsed(st)
        BY <2>2, <2>4 DEF Parsed
    <2> QED  BY <2>1, <2>5 DEF AllParsed
<1>6. AllParsed(S[5]) /\ AllParsed(S[10])
    <2> DEFINE ts == net.value_tables
    <2>1. Sequence(ts) /\ \A i \in DOMAIN ts : IsTexts(ts[i].descriptions)
        BY DEF IsNetwork, IsValueTable
    <2>2. \A vt : IsTexts(vt.descriptions) => Parsed(TableSt(vt))
        <3> TAKE vt
        <3> HAVE IsTexts(vt.descriptions)
        <3>1. Kind(TableSt(vt)) = "VAL_TABLE_" /\ Value(TableSt(vt)) = QuotedAll(vt.descriptions)
            BY DEF TableSt, St, Kind, Value
        <3> QED  BY <3>1, DescriptionsParsed
    <2>3. \A st \in ToSet(Tables(net)) : Parsed(st)
        BY <2>1, <2>2, TablesAre
    <2>4. \A st \in ToSet(SignalTypeSection(net)) : Parsed(st)
        BY <2>1, <2>2, TablesAre
    <2> QED  BY <2>3, <2>4, SectionAt DEF AllParsed
<1>7. AllParsed(S[6])
    <2>1. ToSet(S[6]) = { MessageLine(net.messages[i]) : i \in DOMAIN net.messages }
        <3>1. S[6] = Messages(net)
            BY SectionAt
        <3>2. ToSet(Messages(net)) = { MessageLine(net.messages[i]) : i \in DOMAIN net.messages }
            BY DEF Messages, ToSet
        <3> QED  BY <3>1, <3>2
    <2>2. ASSUME NEW i \in DOMAIN net.messages
          PROVE  Parsed(MessageLine(net.messages[i]))
        <3> DEFINE m == net.messages[i]
                   st == MessageLine(m)
                   ss == m.signals
                   sl == [ j \in DOMAIN ss |-> SignalText(ss[j]) ]
        <3>1. Sequence(ss) /\ \A j \in DOMAIN ss : IsSignal(ss[j])
            BY DEF IsNetwork, IsMessage
        <3>2. DOMAIN sl = DOMAIN ss /\ sl = [ j \in DOMAIN ss |-> sl[j] ]
                /\ \A j \in DOMAIN ss : sl[j] = SignalText(ss[j])
            OBVIOUS
        <3>3. Kind(st) = "BO_" /\ ObjectType(Owner(st)) = "message" /\ Value(st).signals = sl
            BY DEF MessageLine, St, Kind, Owner, Value, ObjectType
        <3> HIDE DEF st, sl, ss
        <3>4. Sequence(sl)
            BY <3>1, <3>2, MadeOf
        <3>5. List(sl) /\ \A j \in DOMAIN sl : List(sl[j].receivers)
            BY <3>1, <3>2, <3>4, ListIs, SignalWellFormed
        <3>6. Parsed(st)
            BY <3>3, <3>5 DEF Parsed
        <3> QED  BY <3>6 DEF st
    <2> QED  BY <2>1, <2>2 DEF AllParsed
<1>8. AllParsed(S[8])
    <2>1. ToSet(S[8]) = { EnvVarLine(net.environment_variables[i])
                            : i \in DOMAIN net.environment_variables }
        <3>1. S[8] = Variables(net)
            BY SectionAt
        <3>2. ToSet(Variables(net)) = { EnvVarLine(net.environment_variables[i])
                                          : i \in DOMAIN net.environment_variables }
            BY DEF Variables, ToSet
        <3> QED  BY <3>1, <3>2
    <2>2. \A ev : Sequence(ev.access_nodes) => Parsed(EnvVarLine(ev))
        <3> TAKE ev
        <3> HAVE Sequence(ev.access_nodes)
        <3> DEFINE st == EnvVarLine(ev)
        <3>1. /\ Kind(st) = "EV_" /\ ObjectType(Owner(st)) = "env"
              /\ Value(st).access_nodes = NameEach(ev.access_nodes)
            BY DEF EnvVarLine, St, Kind, Owner, Value, ObjectType
        <3> HIDE DEF st
        <3>2. List(Value(st).access_nodes)
            BY <3>1, NameEachIs, ListIs
        <3>3. Parsed(st)
            BY <3>1, <3>2 DEF Parsed
        <3> QED  BY <3>3 DEF st
    <2>3. \A i \in DOMAIN net.environment_variables :
             Sequence(net.environment_variables[i].access_nodes)
        BY DEF IsNetwork, IsEnvVar
    <2> QED  BY <2>1, <2>2, <2>3 DEF AllParsed
<1>9. AllParsed(S[15])
    <2> DEFINE a == SignalPart("VAL_", net)
               b == EnvPart("VAL_", net)
    <2>1. Sequence(a) /\ Sequence(b)
        BY PartsAre DEF PartOf, OfSignal, OfEnv
    <2>2. AllParsed(a) /\ AllParsed(b)
        BY PartsParsed
    <2>3. S[15] = a \o b
        BY SectionAt
    <2> HIDE DEF a, b, S
    <2>4. ToSet(S[15]) = ToSet(a) \cup ToSet(b)
        BY <2>1, <2>3, ConcatToSet
    <2> QED  BY <2>2, <2>4 DEF AllParsed
<1>a. AllParsed(S[7])
    BY PartsParsed, SectionAt
<1>b. AllParsed(S[14])
    <2>1. ToSet(FiveParts("BA_", net))
             = ToSet(NetworkPart("BA_", net)) \cup ToSet(NodePart("BA_", net))
                 \cup ToSet(MessagePart("BA_", net)) \cup ToSet(SignalPart("BA_", net))
                 \cup ToSet(EnvPart("BA_", net))
        BY FivePartsAre DEF OfNetwork
    <2>2. /\ AllParsed(NetworkPart("BA_", net)) /\ AllParsed(NodePart("BA_", net))
          /\ AllParsed(MessagePart("BA_", net)) /\ AllParsed(SignalPart("BA_", net))
          /\ AllParsed(EnvPart("BA_", net))
        BY PartsParsed
    <2>3. AllParsed(FiveParts("BA_", net))
        BY <2>1, <2>2, Zenon DEF AllParsed
    <2> QED  BY <2>3, SectionAt
<1>c. AllParsed(S[13])
    <2> DEFINE x == [ attributes |-> net.attribute_defaults ]
               o == << "network" >>
               part == S[13]
    <2>1. x.attributes = net.attribute_defaults
        OBVIOUS
    <2>2. part = Lines("BA_DEF_DEF_", o, Said("BA_", x))
        BY SectionAt DEF Defaults
    <2> HIDE DEF x, part, o
    <2>3. SaidList("BA_", x)
        BY <2>1, SaidLists DEF IsNetwork
    <2>4. Sequence(Said("BA_", x))
        BY <2>1, SaidIs DEF IsNetwork, IsAttributes
    <2>5. \A st \in ToSet(part) : Kind(st) = "BA_DEF_DEF_" /\ Value(st) \in ToSet(Said("BA_", x))
        BY <2>2, <2>4, LinesAre
    <2>6. \A st \in ToSet(part) : List(Value(st)) /\ Len(Value(st)) = 2
        BY <2>3, <2>5, ListIs DEF SaidList
    <2>7. ASSUME NEW st \in ToSet(part)
          PROVE  Parsed(st)
        BY <2>5, <2>6 DEF Parsed
    <2> QED  BY <2>7 DEF AllParsed, part
<1>d. AllParsed(S[12])
    <2> DEFINE ds == net.attribute_definitions
               values == Definitions(net)
               part == S[12]
    <2>1. DOMAIN values = DOMAIN ds /\ values = [ i \in DOMAIN ds |-> values[i] ]
            /\ \A i \in DOMAIN ds : values[i] = Value(DefinitionLine(ds[i]))
        BY DEF Definitions
    <2>2. Sequence(ds) /\ \A i \in DOMAIN ds : IsDefinition(ds[i])
        BY DEF IsNetwork
    <2>3. part = Lines("BA_DEF_", << >>, values)
        BY SectionAt
    <2> HIDE DEF values, part
    <2>4. Sequence(values)
        BY <2>1, <2>2, MadeOf
    <2>5. \A st \in ToSet(part) : Kind(st) = "BA_DEF_" /\ Value(st) \in ToSet(values)
        BY <2>3, <2>4, LinesAre
    <2>6. \A v \in ToSet(values) :
             v = [ head |-> v.head, name |-> v.name, enum |-> v.enum ] /\ List(v.enum)
        <3> TAKE v \in ToSet(values)
        <3>1. PICK i \in DOMAIN ds : v = values[i]
            BY <2>1 DEF ToSet
        <3>2. v = Value(DefinitionLine(ds[i])) /\ IsDefinition(ds[i])
            BY <3>1, <2>1, <2>2
        <3>3. v = [ head |-> v.head, name |-> v.name, enum |-> v.enum ] /\ Sequence(v.enum)
            BY <3>2, DefinitionIs
        <3> QED  BY <3>3, ListIs
    <2>7. ASSUME NEW st \in ToSet(part)
          PROVE  Parsed(st)
        <3> DEFINE v == Value(st)
        <3>1. v = [ head |-> v.head, name |-> v.name, enum |-> v.enum ] /\ List(v.enum)
            BY <2>5, <2>6
        <3>2. Kind(st) = "BA_DEF_"
            BY <2>5
        <3> QED  BY <3>1, <3>2 DEF Parsed
    <2> QED  BY <2>7 DEF AllParsed, part
<1> HIDE DEF S
<1>10. \A k \in 1 .. 18 : AllParsed(S[k])
    <2> TAKE k \in 1 .. 18
    <2>1. k \in {1, 2, 9, 11, 16, 17, 18} \/ k \in {3, 4, 5, 6, 7, 8, 10, 12, 13, 14, 15}
        OBVIOUS
    <2> QED  BY <2>1, <1>3, <1>4, <1>5, <1>6, <1>7, <1>8, <1>9, <1>a, <1>b, <1>c, <1>d
<1>11. \A st \in ToSet(Write(net)) : Parsed(st)
    BY <1>1, <1>10 DEF AllParsed
<1>12. \A i \in DOMAIN Write(net) : Parsed(Write(net)[i])
    BY <1>11 DEF ToSet
<1> QED  BY <1>1, <1>12, ListIs DEF ParsedFile

-----------------------------------------------------------------------------
(* When it is in the order of the grammar. *)

(* A statement's section is the place of its keyword in the grammar.        *)
LEMMA SectionNumber ==
    ASSUME NEW st, NEW k \in 1 .. 18, Kind(st) = SectionOrder[k]
    PROVE  Section(st) = k
<1>1. DOMAIN SectionOrder = 1 .. 18
    BY DEF SectionOrder
<1>2. \A i \in 1 .. 18 : SectionOrder[i] = SectionOrder[k] => i = k
    BY DEF SectionOrder
<1> QED  BY <1>1, <1>2 DEF Section

(* Where a statement of the file comes from tells its section.              *)
LEMMA PlacesKinds ==
    ASSUME NEW net, IsNetwork(net), NEW p, NEW q, Places(SectionsOf(net), 18, Write(net), p, q)
    PROVE  \A j \in DOMAIN Write(net) :
              /\ p[j] \in 1 .. 18
              /\ Kind(Write(net)[j]) = SectionKind(p[j])
              /\ Section(Write(net)[j]) = IF p[j] = 10 THEN 5 ELSE p[j]
<1> DEFINE W == Write(net)
           S == SectionsOf(net)
<1>0. \A k \in 1 .. 18 : OfKind(S[k], SectionKind(k))
    BY SectionsAreOfKind
<1>1. Places(S, 18, W, p, q)
    OBVIOUS
<1> HIDE DEF W, S
<1> SUFFICES ASSUME NEW j \in DOMAIN W
             PROVE  /\ p[j] \in 1 .. 18
                    /\ Kind(W[j]) = SectionKind(p[j])
                    /\ Section(W[j]) = IF p[j] = 10 THEN 5 ELSE p[j]
    BY DEF W
<1>2. p[j] \in 1 .. 18 /\ q[j] \in DOMAIN S[p[j]] /\ W[j] = S[p[j]][q[j]]
    BY <1>1 DEF Places
<1>3. Kind(W[j]) = SectionKind(p[j])
    <2>1. OfKind(S[p[j]], SectionKind(p[j]))
        BY <1>0, <1>2
    <2>2. W[j] \in ToSet(S[p[j]])
        BY <1>2 DEF ToSet
    <2> QED  BY <2>1, <2>2 DEF OfKind
<1>4. Section(W[j]) = IF p[j] = 10 THEN 5 ELSE p[j]
    <2>1. CASE p[j] = 10
        <3>1. Kind(W[j]) = SectionOrder[5]
            BY <1>3, <2>1 DEF SectionKind, SectionOrder
        <3> QED  BY <3>1, <2>1, SectionNumber
    <2>2. CASE p[j] # 10
        <3>1. Kind(W[j]) = SectionOrder[p[j]]
            BY <1>3, <2>2 DEF SectionKind
        <3> QED  BY <3>1, <1>2, <2>2, SectionNumber
    <2> QED  BY <2>1, <2>2
<1> QED  BY <1>2, <1>3, <1>4

InOrder(file) == \A i, j \in DOMAIN file : i < j => Section(file[i]) <= Section(file[j])

(* Every statement of the file comes from a place in a section.             *)
LEMMA WrittenPlaces ==
    ASSUME NEW net, IsNetwork(net)
    PROVE  \E p, q : Places(SectionsOf(net), 18, Write(net), p, q)
<1> DEFINE S == SectionsOf(net)
<1>1. Sequences(S) /\ DOMAIN S = 1 .. 18
    BY SectionsAreOfKind
<1>2. Write(net) = FlattenSeq(S)
    BY WrittenStatements
<1> HIDE DEF S
<1>3. Len(S) = 18
    <2>1. Len(S) \in Nat /\ DOMAIN S = 1 .. Len(S)
        BY <1>1, SequenceDomain DEF Sequences
    <2> QED  BY <2>1, <1>1, SameInterval
<1>4. \E p, q : Places(S, Len(S), FlattenSeq(S), p, q)
    BY <1>1, FlattenPlaces
<1> QED  BY <1>2, <1>3, <1>4 DEF S

(* Where sections are empty. *)
LEMMA EmptySections ==
    ASSUME NEW net, IsNetwork(net)
    PROVE  /\ SectionsOf(net)[10] # << >> <=>
                \E i \in DOMAIN net.value_tables :
                   net.value_tables[i].signal_type # << >> /\ net.value_tables[i].descriptions # << >>
           /\ net.messages # << >> => SectionsOf(net)[6] # << >>
           /\ net.environment_variables # << >> => SectionsOf(net)[8] # << >>
           /\ net.messages = << >> => SectionsOf(net)[6] = << >> /\ SectionsOf(net)[7] = << >>
           /\ net.environment_variables = << >> =>
                SectionsOf(net)[8] = << >> /\ SectionsOf(net)[9] = << >>
<1> DEFINE S == SectionsOf(net)
<1>1. Sequences(S) /\ DOMAIN S = 1 .. 18
    BY SectionsAreOfKind
<1>2. \A k \in 1 .. 18 : Sequence(S[k])
    BY <1>1 DEF Sequences
<1>3. \A s : Sequence(s) => (s # << >> <=> ToSet(s) # {})
    <2> TAKE s
    <2> HAVE Sequence(s)
    <2>1. ToSet(s) = {} => DOMAIN s = {}
        BY DEF ToSet
    <2>2. ToSet(s) = {} => s = << >>
        BY <2>1, NoDomain
    <2> QED  BY <2>2, ToSetFew
<1>4. S[10] # << >> <=> ToSet(SignalTypeSection(net)) # {}
    BY <1>2, <1>3, SectionAt
<1>5. ToSet(SignalTypeSection(net))
        = { TableSt(net.value_tables[i]) :
              i \in { j \in DOMAIN net.value_tables :
                        /\ net.value_tables[j].descriptions # << >>
                        /\ net.value_tables[j].signal_type # << >> } }
    BY TablesAre DEF IsNetwork
<1>6. S[10] # << >> <=>
                \E i \in DOMAIN net.value_tables :
                   net.value_tables[i].signal_type # << >> /\ net.value_tables[i].descriptions # << >>
    BY <1>4, <1>5
<1>7. /\ net.messages # << >> => S[6] # << >>
      /\ net.messages = << >> => S[6] = << >> /\ S[7] = << >>
    <2> DEFINE ms == net.messages
    <2>1. Sequence(ms)
        BY DEF IsNetwork
    <2>2. S[6] = Messages(net) /\ S[7] = MessagePart("BO_TX_BU_", net)
        BY SectionAt
    <2>3. DOMAIN Messages(net) = DOMAIN ms
        BY DEF Messages
    <2>4. ASSUME ms # << >>
          PROVE  S[6] # << >>
        <3>1. DOMAIN ms # {}
            BY <2>1, <2>4, NoDomain
        <3> QED  BY <2>2, <2>3, <3>1, SequenceEmpty
    <2>5. ASSUME ms = << >>
          PROVE  S[6] = << >> /\ S[7] = << >>
        <3>1. DOMAIN ms = {}
            BY <2>5, SequenceEmpty
        <3>2. S[6] = << >>
            BY <1>2, <2>2, <2>3, <3>1, NoDomain
        <3>3. MessagePart("BO_TX_BU_", net) = << >>
            <4> DEFINE os == MessageOwners(ms)
                       vs == Says("BO_TX_BU_", ms)
                       t == [ i \in DOMAIN os |-> Lines("BO_TX_BU_", os[i], vs[i]) ]
            <4>1. Sequence(os) /\ DOMAIN os = {}
                BY <2>1, <3>1, OwnersAre
            <4>2. MessagePart("BO_TX_BU_", net) = FlattenSeq(t)
                BY DEF MessagePart, ObjectLines
            <4> HIDE DEF os, vs
            <4>3. DOMAIN t = DOMAIN os /\ t = [ i \in DOMAIN os |-> t[i] ]
                OBVIOUS
            <4> HIDE DEF t
            <4>4. Sequence(t)
                BY <4>1, <4>3, MadeOf
            <4>5. FlattenSeq(t) = << >>
                BY <4>1, <4>3, <4>4, FlattenEmpty
            <4> QED  BY <4>2, <4>5
        <3> QED  BY <2>2, <3>2, <3>3
    <2> QED  BY <2>4, <2>5
<1>8. /\ net.environment_variables # << >> => S[8] # << >>
      /\ net.environment_variables = << >> => S[8] = << >> /\ S[9] = << >>
    <2> DEFINE ms == net.environment_variables
    <2>1. Sequence(ms)
        BY DEF IsNetwork
    <2>2. S[8] = Variables(net) /\ S[9] = EnvPart("ENVVAR_DATA_", net)
        BY SectionAt
    <2>3. DOMAIN Variables(net) = DOMAIN ms
        BY DEF Variables
    <2>4. ASSUME ms # << >>
          PROVE  S[8] # << >>
        <3>1. DOMAIN ms # {}
            BY <2>1, <2>4, NoDomain
        <3> QED  BY <2>2, <2>3, <3>1, SequenceEmpty
    <2>5. ASSUME ms = << >>
          PROVE  S[8] = << >> /\ S[9] = << >>
        <3>1. DOMAIN ms = {}
            BY <2>5, SequenceEmpty
        <3>2. S[8] = << >>
            BY <1>2, <2>2, <2>3, <3>1, NoDomain
        <3>3. EnvPart("ENVVAR_DATA_", net) = << >>
            <4> DEFINE os == Owners("env", ms)
                       vs == Says("ENVVAR_DATA_", ms)
                       t == [ i \in DOMAIN os |-> Lines("ENVVAR_DATA_", os[i], vs[i]) ]
            <4>1. Sequence(os) /\ DOMAIN os = {}
                BY <2>1, <3>1, OwnersAre
            <4>2. EnvPart("ENVVAR_DATA_", net) = FlattenSeq(t)
                BY DEF EnvPart, ObjectLines
            <4> HIDE DEF os, vs
            <4>3. DOMAIN t = DOMAIN os /\ t = [ i \in DOMAIN os |-> t[i] ]
                OBVIOUS
            <4> HIDE DEF t
            <4>4. Sequence(t)
                BY <4>1, <4>3, MadeOf
            <4>5. FlattenSeq(t) = << >>
                BY <4>1, <4>3, <4>4, FlattenEmpty
            <4> QED  BY <4>2, <4>5
        <3> QED  BY <2>2, <3>2, <3>3
    <2> QED  BY <2>4, <2>5
<1> QED  BY <1>6, <1>7, <1>8

(* The file is in the order of the grammar unless a value table is written  *)
(* again too late.                                                          *)
LEMMA WrittenInOrder ==
    ASSUME NEW net, IsNetwork(net)
    PROVE  InOrder(Write(net)) <=> TablesApart(net)
<1> DEFINE W == Write(net)
           S == SectionsOf(net)
<1>1. PICK p, q : Places(S, 18, W, p, q)
    BY WrittenPlaces
<1>2. \A j \in DOMAIN W : /\ p[j] \in 1 .. 18
                          /\ Section(W[j]) = IF p[j] = 10 THEN 5 ELSE p[j]
    BY <1>1, PlacesKinds
<1>3. /\ S[10] # << >> <=>
                \E i \in DOMAIN net.value_tables :
                   net.value_tables[i].signal_type # << >> /\ net.value_tables[i].descriptions # << >>
      /\ net.messages # << >> => S[6] # << >>
      /\ net.environment_variables # << >> => S[8] # << >>
      /\ net.messages = << >> => S[6] = << >> /\ S[7] = << >>
      /\ net.environment_variables = << >> => S[8] = << >> /\ S[9] = << >>
    BY EmptySections
<1>4. Sequences(S) /\ DOMAIN S = 1 .. 18
    BY SectionsAreOfKind
<1>5. Sequence(W)
    BY WrittenStatements
<1>6. TablesApart(net)
        <=> S[10] = << >> \/ (net.messages = << >> /\ net.environment_variables = << >>)
    BY <1>3 DEF TablesApart
<1> HIDE DEF S, W
<1>7. \A k \in 1 .. 18 : S[k] # << >> => \E j \in DOMAIN W : p[j] = k
    <2> TAKE k \in 1 .. 18
    <2> HAVE S[k] # << >>
    <2>1. PICK r \in DOMAIN S[k] : TRUE
        BY <1>4, NoDomain DEF Sequences
    <2> QED  BY <2>1, <1>1 DEF Places
<1>8. \A k \in 1 .. 18 : S[k] = << >> => \A j \in DOMAIN W : p[j] # k
    BY <1>1, SequenceEmpty DEF Places
<1>9. \A i, j \in DOMAIN W : i < j => p[i] <= p[j]
    BY <1>1 DEF Places
<1>10. DOMAIN W \subseteq Nat
    BY <1>5, SequenceDomain
<1>11. ASSUME S[10] = << >>
       PROVE  InOrder(W)
    <2>1. \A j \in DOMAIN W : p[j] # 10
        BY <1>8, <1>11
    <2> QED  BY <2>1, <1>2, <1>9 DEF InOrder
<1>12. ASSUME net.messages = << >>, net.environment_variables = << >>
       PROVE  InOrder(W)
    <2>1. \A j \in DOMAIN W : p[j] \notin 6 .. 9
        <3> TAKE j \in DOMAIN W
        <3>1. p[j] # 6 /\ p[j] # 7 /\ p[j] # 8 /\ p[j] # 9
            BY <1>3, <1>8, <1>12
        <3> QED  BY <3>1, <1>2
    <2> QED  BY <2>1, <1>2, <1>9 DEF InOrder
<1>13. ASSUME InOrder(W), S[10] # << >>, NEW k \in {6, 8}, S[k] # << >>
       PROVE  FALSE
    <2>1. PICK i \in DOMAIN W : p[i] = k
        BY <1>7, <1>13
    <2>2. PICK j \in DOMAIN W : p[j] = 10
        BY <1>7, <1>13
    <2>3. i < j
        BY <2>1, <2>2, <1>9, <1>10
    <2>4. Section(W[i]) = k /\ Section(W[j]) = 5
        BY <2>1, <2>2, <1>2
    <2> QED  BY <2>3, <2>4, <1>13 DEF InOrder
<1>14. InOrder(W) <=> TablesApart(net)
    BY <1>3, <1>6, <1>11, <1>12, <1>13
<1> QED  BY <1>14 DEF W

(* The first four statements are written once.                              *)
LEMMA WrittenOnce ==
    ASSUME NEW net, IsNetwork(net), NEW k \in 1 .. 4
    PROVE  CountOf(Write(net), SectionOrder[k]) = 1
<1> DEFINE W == Write(net)
           S == SectionsOf(net)
<1>1. PICK p, q : Places(S, 18, W, p, q)
    BY WrittenPlaces
<1>2. \A j \in DOMAIN W : p[j] \in 1 .. 18 /\ Kind(W[j]) = SectionKind(p[j])
    BY <1>1, PlacesKinds
<1>3. DOMAIN S[k] = {1}
    <2>1. \A x : DOMAIN << x >> = {1}
        BY SequenceOne
    <2>2. k = 1 \/ k = 2 \/ k = 3 \/ k = 4
        OBVIOUS
    <2>3. DOMAIN S[1] = {1} /\ DOMAIN S[2] = {1} /\ DOMAIN S[3] = {1} /\ DOMAIN S[4] = {1}
        BY <2>1, SectionAt
    <2> HIDE DEF S
    <2> QED  BY <2>2, <2>3
<1>4. \A i \in 1 .. 18 : SectionKind(i) = SectionOrder[k] <=> i = k
    BY DEF SectionKind, SectionOrder
<1> HIDE DEF S, W
<1>5. { j \in DOMAIN W : Kind(W[j]) = SectionOrder[k] } = { j \in DOMAIN W : p[j] = k }
    BY <1>2, <1>4
<1>6. \A j \in DOMAIN W : p[j] = k => q[j] = 1
    BY <1>1, <1>3 DEF Places
<1>7. PICK i \in DOMAIN W : p[i] = k
    <2>1. \A n \in 1 .. 18 : \A r \in DOMAIN S[n] : \E j \in DOMAIN W : p[j] = n /\ q[j] = r
        BY <1>1 DEF Places
    <2>2. k \in 1 .. 18 /\ 1 \in DOMAIN S[k]
        BY <1>3
    <2>3. \E j \in DOMAIN W : p[j] = k /\ q[j] = 1
        BY <2>1, <2>2
    <2> QED  BY <2>3
<1>8. \A j \in DOMAIN W : p[j] = k => j = i
    BY <1>1, <1>6, <1>7 DEF Places
<1>9. { j \in DOMAIN W : p[j] = k } = {i}
    BY <1>7, <1>8
<1>10. CountOf(W, SectionOrder[k]) = 1
    BY <1>5, <1>9, FS_Singleton DEF CountOf
<1> QED  BY <1>10 DEF W

(* The grammar accepts the file written for a network exactly when that is  *)
(* Writable.                                                                *)
LEMMA WriteAccepted ==
    ASSUME NEW net, IsNetwork(net)
    PROVE  Accepts(Write(net)) <=> Writable(net)
<1> DEFINE W == Write(net)
<1>1. /\ SectionOrder[1] = "VERSION" /\ SectionOrder[2] = "NS_" /\ SectionOrder[3] = "BS_"
      /\ SectionOrder[4] = "BU_"
    BY DEF SectionOrder
<1>2. /\ CountOf(W, "VERSION") = 1 /\ CountOf(W, "NS_") = 1 /\ CountOf(W, "BS_") = 1
      /\ CountOf(W, "BU_") = 1
    <2>1. /\ CountOf(W, SectionOrder[1]) = 1 /\ CountOf(W, SectionOrder[2]) = 1
          /\ CountOf(W, SectionOrder[3]) = 1 /\ CountOf(W, SectionOrder[4]) = 1
        BY WrittenOnce
    <2> QED  BY <2>1, <1>1
<1>3. AllWellFormed(W) <=> \A i \in DOMAIN W : WellFormed(W[i])
    BY DEF AllWellFormed, ToSet
<1>4. InOrder(W) <=> TablesApart(net)
    BY WrittenInOrder
<1>5. Writable(net) <=> TablesApart(net) /\ AllWellFormed(W)
    BY WritableIs
<1> HIDE DEF W
<1>6. Accepts(W) <=> InOrder(W) /\ \A i \in DOMAIN W : WellFormed(W[i])
    BY <1>2 DEF Accepts, InOrder
<1> QED  BY <1>3, <1>4, <1>5, <1>6 DEF W
=============================================================================

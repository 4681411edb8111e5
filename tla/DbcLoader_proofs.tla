--------------------------- MODULE DbcLoader_proofs ---------------------------
(***************************************************************************)
(* For every set of owners and every parsed file: the network assembled    *)
(* from the caches is the one a scan of the file for every object gives.   *)
(*                                                                         *)
(* The inductive invariant says of each cache what it holds of the prefix  *)
(* of its list handled so far; a cache is complete once its loop is left.  *)
(***************************************************************************)
EXTENDS DbcLoader, TLAPS

(* How many entries of each list have been handled. *)
AttributesDone ==
    IF pc = "attribute_values" THEN next - 1 ELSE Len(gnet.attribute_values)
DescriptionsDone ==
    IF pc = "attribute_values" THEN 0
    ELSE IF pc = "value_descriptions" THEN next - 1
    ELSE Len(gnet.value_descriptions)
CommentsDone ==
    IF pc \in {"attribute_values", "value_descriptions"} THEN 0
    ELSE IF pc = "comments" THEN next - 1
    ELSE Len(gnet.comments)

(* The entries among the first n that name o; p is the last of them or 0. *)
NamingUpTo(entries, n, o) == { i \in 1 .. n : entries[i].owner = o }
IsLastUpTo(p, entries, n, o) ==
    IF p = 0 THEN \A j \in 1 .. n : entries[j].owner # o
    ELSE /\ p \in 1 .. n
         /\ entries[p].owner = o
         /\ \A j \in 1 .. n : entries[j].owner = o => j <= p

AttributesInv ==
    /\ AttributesDone \in 0 .. Len(gnet.attribute_values)
    /\ \A o \in Owners :
          attributes[o] = NamingUpTo(gnet.attribute_values, AttributesDone, o)
DescriptionsInv ==
    /\ DescriptionsDone \in 0 .. Len(gnet.value_descriptions)
    /\ \A o \in Owners :
          IsLastUpTo(description[o], gnet.value_descriptions, DescriptionsDone, o)
CommentsInv ==
    /\ CommentsDone \in 0 .. Len(gnet.comments)
    /\ \A o \in Owners :
          IsLastUpTo(comment[o], gnet.comments, CommentsDone, o)
NetworkInv ==
    pc = "done" =>
        network = [o \in gnet.declared |->
                     [ attributes  |-> attributes[o],
                       description |-> description[o],
                       comment     |-> comment[o] ] ]

IInv == TypeOK /\ AttributesInv /\ DescriptionsInv /\ CommentsInv /\ NetworkInv

-----------------------------------------------------------------------------
(* The lists of a parsed file are sequences of entries. *)
LEMMA AstLists ==
    ASSUME NEW g \in Asts
    PROVE  /\ g.declared \subseteq Owners
           /\ g.attribute_values \in Seq(Entry)
           /\ g.value_descriptions \in Seq(Entry)
           /\ g.comments \in Seq(Entry)
  BY AstsAssumption DEF Ast

(* An entry of a list names an owner. *)
LEMMA EntryOwner ==
    ASSUME NEW entries \in Seq(Entry), NEW i \in 1 .. Len(entries)
    PROVE  /\ entries[i].owner \in Owners
           /\ DOMAIN entries = 1 .. Len(entries)
           /\ Len(entries) \in Nat
  <1>1. DOMAIN entries = 1 .. Len(entries) /\ Len(entries) \in Nat
    OBVIOUS
  <1>2. entries[i] \in Entry
    BY <1>1
  <1> QED
    BY <1>1, <1>2 DEF Entry

(* Setting the pointer of the owner of entry n + 1 to n + 1 keeps every     *)
(* pointer at the last entry of its owner.                                  *)
LEMMA SetKeepsLast ==
    ASSUME NEW entries \in Seq(Entry),
           NEW n \in Nat, n + 1 \in 1 .. Len(entries),
           NEW o \in Owners, NEW p \in Nat,
           IsLastUpTo(p, entries, n, o)
    PROVE  IsLastUpTo(IF o = entries[n + 1].owner THEN n + 1 ELSE p,
                      entries, n + 1, o)
  <1>1. \A j \in 1 .. n + 1 : j \in 1 .. n \/ j = n + 1
    OBVIOUS
  <1>2. CASE o = entries[n + 1].owner
    BY <1>1, <1>2 DEF IsLastUpTo
  <1>3. CASE o # entries[n + 1].owner
    BY <1>1, <1>3 DEF IsLastUpTo
  <1> QED
    BY <1>2, <1>3

(* The pointer at the last entry of the whole list is LastNaming. *)
LEMMA LastIsLastNaming ==
    ASSUME NEW entries \in Seq(Entry), NEW o \in Owners, NEW p \in Nat,
           IsLastUpTo(p, entries, Len(entries), o)
    PROVE  p = LastNaming(entries, o)
  <1>1. DOMAIN entries = 1 .. Len(entries)
    OBVIOUS
  <1>2. CASE p = 0
    <2>1. Naming(entries, o) = {}
      BY <1>1, <1>2 DEF IsLastUpTo, Naming
    <2> QED
      BY <2>1, <1>2 DEF LastNaming
  <1>3. CASE p # 0
    <2>1. /\ p \in Naming(entries, o)
          /\ \A j \in Naming(entries, o) : j <= p
      BY <1>1, <1>3 DEF IsLastUpTo, Naming
    <2>2. Naming(entries, o) \subseteq Int
      BY <1>1 DEF Naming
    <2>3. \A q \in Naming(entries, o) :
             (\A j \in Naming(entries, o) : j <= q) => q = p
      BY <2>1, <2>2
    <2>4. (CHOOSE i \in Naming(entries, o) :
              \A j \in Naming(entries, o) : j <= i) = p
      BY <2>1, <2>3
    <2> QED
      BY <2>1, <2>4 DEF LastNaming
  <1> QED
    BY <1>2, <1>3

-----------------------------------------------------------------------------
(* The empty caches hold what no entry handled yet gives. *)
LEMMA InitIInv == Init => IInv
  <1> SUFFICES ASSUME Init PROVE IInv
    OBVIOUS
  <1>1. /\ gnet \in Asts /\ pc = "attribute_values" /\ next = 1
        /\ attributes  = [o \in Owners |-> {}]
        /\ description = [o \in Owners |-> 0]
        /\ comment     = [o \in Owners |-> 0]
        /\ network = Unassembled
    BY DEF Init
  <1>2. /\ Len(gnet.attribute_values) \in Nat
        /\ Len(gnet.value_descriptions) \in Nat
        /\ Len(gnet.comments) \in Nat
    BY <1>1, AstLists
  <1>3. TypeOK
    BY <1>1 DEF TypeOK
  <1>4. AttributesInv
    BY <1>1, <1>2 DEF AttributesInv, AttributesDone, NamingUpTo
  <1>5. DescriptionsInv
    BY <1>1, <1>2 DEF DescriptionsInv, DescriptionsDone, IsLastUpTo
  <1>6. CommentsInv
    BY <1>1, <1>2 DEF CommentsInv, CommentsDone, IsLastUpTo
  <1>7. NetworkInv
    BY <1>1 DEF NetworkInv
  <1> QED
    BY <1>3, <1>4, <1>5, <1>6, <1>7 DEF IInv

(* Every step of the loader preserves the inductive invariant. *)
LEMMA NextIInv == IInv /\ [Next]_vars => IInv'
  <1> SUFFICES ASSUME IInv, [Next]_vars PROVE IInv'
    OBVIOUS
  <1> USE DEF IInv
  <1>t. TypeOK
    OBVIOUS
  <1>l. /\ gnet.attribute_values \in Seq(Entry)
        /\ gnet.value_descriptions \in Seq(Entry)
        /\ gnet.comments \in Seq(Entry)
        /\ Len(gnet.attribute_values) \in Nat
        /\ Len(gnet.value_descriptions) \in Nat
        /\ Len(gnet.comments) \in Nat
    BY <1>t, AstLists DEF TypeOK
  <1>1. CASE CacheAttribute
    <2> DEFINE entries == gnet.attribute_values
               owner   == entries[next].owner
    <2>1. /\ pc = "attribute_values" /\ next <= Len(entries)
          /\ attributes' = [attributes EXCEPT ![owner] = @ \cup {next}]
          /\ next' = next + 1 /\ pc' = pc /\ gnet' = gnet
          /\ UNCHANGED << description, comment, network >>
      BY <1>1 DEF CacheAttribute
    <2>2. next \in 1 .. Len(entries) /\ owner \in Owners
      BY <1>t, <1>l, <2>1, EntryOwner DEF TypeOK
    <2>3. TypeOK'
      BY <1>t, <2>1, <2>2 DEF TypeOK
    <2>4. AttributesInv'
      <3>1. AttributesDone = next - 1 /\ AttributesDone' = next
        BY <2>1, <2>2 DEF AttributesDone
      <3>2. ASSUME NEW o \in Owners
            PROVE  attributes'[o] = NamingUpTo(entries, next, o)
        <4>1. attributes[o] = NamingUpTo(entries, next - 1, o)
          BY <3>1 DEF AttributesInv
        <4>2. attributes'[o] =
                IF o = owner THEN attributes[o] \cup {next} ELSE attributes[o]
          BY <1>t, <2>1, <2>2 DEF TypeOK
        <4>3. \A i : i \in 1 .. next <=> i \in 1 .. next - 1 \/ i = next
          BY <2>2
        <4> QED
          BY <4>1, <4>2, <4>3 DEF NamingUpTo
      <3>3. next \in 0 .. Len(entries)
        BY <1>l, <2>2
      <3> HIDE DEF owner
      <3>4. gnet.attribute_values' = entries
        BY <2>1
      <3> HIDE DEF entries
      <3> QED
        BY <3>1, <3>2, <3>3, <3>4 DEF AttributesInv
    <2>5. DescriptionsInv' /\ CommentsInv' /\ NetworkInv'
      BY <2>1 DEF DescriptionsInv, DescriptionsDone, CommentsInv,
                  CommentsDone, NetworkInv
    <2> QED
      BY <2>3, <2>4, <2>5
  <1>2. CASE CacheDescription
    <2> DEFINE entries == gnet.value_descriptions
               owner   == entries[next].owner
    <2>1. /\ pc = "value_descriptions" /\ next <= Len(entries)
          /\ description' = [description EXCEPT ![owner] = next]
          /\ next' = next + 1 /\ pc' = pc /\ gnet' = gnet
          /\ UNCHANGED << attributes, comment, network >>
      BY <1>2 DEF CacheDescription
    <2>2. next \in 1 .. Len(entries) /\ owner \in Owners
      BY <1>t, <1>l, <2>1, EntryOwner DEF TypeOK
    <2>3. TypeOK'
      BY <1>t, <2>1, <2>2 DEF TypeOK
    <2>4. DescriptionsInv'
      <3>1. DescriptionsDone = next - 1 /\ DescriptionsDone' = next
        BY <2>1, <2>2 DEF DescriptionsDone
      <3>2. ASSUME NEW o \in Owners
            PROVE  IsLastUpTo(description'[o], entries, next, o)
        <4>1. IsLastUpTo(description[o], entries, next - 1, o)
          BY <3>1 DEF DescriptionsInv
        <4>2. description'[o] = IF o = owner THEN next ELSE description[o]
          BY <1>t, <2>1, <2>2 DEF TypeOK
        <4>3. next - 1 \in Nat /\ (next - 1) + 1 = next /\ description[o] \in Nat
          BY <1>t, <2>2 DEF TypeOK
        <4> HIDE DEF entries
        <4>4. entries \in Seq(Entry)
          BY <1>l DEF entries
        <4>5. \A n \in Nat : n + 1 = next /\ IsLastUpTo(description[o], entries, n, o)
                 => IsLastUpTo(IF o = entries[next].owner THEN next ELSE description[o],
                               entries, next, o)
          BY <2>2, <4>3, <4>4, SetKeepsLast
        <4> QED
          BY <4>1, <4>2, <4>3, <4>5
      <3> QED
        BY <2>1, <2>2, <3>1, <3>2 DEF DescriptionsInv
    <2>5. AttributesInv' /\ CommentsInv' /\ NetworkInv'
      BY <2>1 DEF AttributesInv, AttributesDone, CommentsInv,
                  CommentsDone, NetworkInv
    <2> QED
      BY <2>3, <2>4, <2>5
  <1>3. CASE CacheComment
    <2> DEFINE entries == gnet.comments
               owner   == entries[next].owner
    <2>1. /\ pc = "comments" /\ next <= Len(entries)
          /\ comment' = [comment EXCEPT ![owner] = next]
          /\ next' = next + 1 /\ pc' = pc /\ gnet' = gnet
          /\ UNCHANGED << attributes, description, network >>
      BY <1>3 DEF CacheComment
    <2>2. next \in 1 .. Len(entries) /\ owner \in Owners
      BY <1>t, <1>l, <2>1, EntryOwner DEF TypeOK
    <2>3. TypeOK'
      BY <1>t, <2>1, <2>2 DEF TypeOK
    <2>4. CommentsInv'
      <3>1. CommentsDone = next - 1 /\ CommentsDone' = next
        BY <2>1, <2>2 DEF CommentsDone
      <3>2. ASSUME NEW o \in Owners
            PROVE  IsLastUpTo(comment'[o], entries, next, o)
        <4>1. IsLastUpTo(comment[o], entries, next - 1, o)
          BY <3>1 DEF CommentsInv
        <4>2. comment'[o] = IF o = owner THEN next ELSE comment[o]
          BY <1>t, <2>1, <2>2 DEF TypeOK
        <4>3. next - 1 \in Nat /\ (next - 1) + 1 = next /\ comment[o] \in Nat
          BY <1>t, <2>2 DEF TypeOK
        <4> HIDE DEF entries
        <4>4. entries \in Seq(Entry)
          BY <1>l DEF entries
        <4>5. \A n \in Nat : n + 1 = next /\ IsLastUpTo(comment[o], entries, n, o)
                 => IsLastUpTo(IF o = entries[next].owner THEN next ELSE comment[o],
                               entries, next, o)
          BY <2>2, <4>3, <4>4, SetKeepsLast
        <4> QED
          BY <4>1, <4>2, <4>3, <4>5
      <3> QED
        BY <2>1, <2>2, <3>1, <3>2 DEF CommentsInv
    <2>5. AttributesInv' /\ DescriptionsInv' /\ NetworkInv'
      BY <2>1 DEF AttributesInv, AttributesDone, DescriptionsInv,
                  DescriptionsDone, NetworkInv
    <2> QED
      BY <2>3, <2>4, <2>5
  <1>4. CASE NextLoop
    <2>1. /\ next' = 1 /\ gnet' = gnet
          /\ UNCHANGED << attributes, description, comment, network >>
          /\ \/ /\ pc = "attribute_values" /\ pc' = "value_descriptions"
                /\ next > Len(gnet.attribute_values)
             \/ /\ pc = "value_descriptions" /\ pc' = "comments"
                /\ next > Len(gnet.value_descriptions)
      BY <1>4 DEF NextLoop
    <2>2. TypeOK'
      BY <1>t, <2>1 DEF TypeOK
    <2>3. /\ AttributesDone' = AttributesDone
          /\ DescriptionsDone' = DescriptionsDone
          /\ CommentsDone' = CommentsDone
      <3>1. next \in Nat /\ (1 - 1 = 0)
        BY <1>t DEF TypeOK
      <3>2. CASE pc = "attribute_values"
        <4>1. next - 1 = Len(gnet.attribute_values)
          BY <1>l, <2>1, <3>1, <3>2 DEF AttributesInv, AttributesDone
        <4> QED
          BY <2>1, <3>1, <3>2, <4>1
             DEF AttributesDone, DescriptionsDone, CommentsDone
      <3>3. CASE pc = "value_descriptions"
        <4>1. next - 1 = Len(gnet.value_descriptions)
          BY <1>l, <2>1, <3>1, <3>3 DEF DescriptionsInv, DescriptionsDone
        <4> QED
          BY <2>1, <3>1, <3>3, <4>1
             DEF AttributesDone, DescriptionsDone, CommentsDone
      <3> QED
        BY <2>1, <3>2, <3>3
    <2>4. AttributesInv' /\ DescriptionsInv' /\ CommentsInv' /\ NetworkInv'
      BY <2>1, <2>3 DEF AttributesInv, DescriptionsInv, CommentsInv, NetworkInv
    <2> QED
      BY <2>2, <2>4
  <1>5. CASE Assemble
    <2>1. /\ pc = "comments" /\ pc' = "done" /\ next > Len(gnet.comments)
          /\ UNCHANGED << gnet, next, attributes, description, comment >>
          /\ network' = [o \in gnet.declared |->
                           [ attributes  |-> attributes[o],
                             description |-> description[o],
                             comment     |-> comment[o] ] ]
      BY <1>5 DEF Assemble
    <2>2. TypeOK'
      BY <1>t, <2>1 DEF TypeOK
    <2>3. /\ AttributesDone' = AttributesDone
          /\ DescriptionsDone' = DescriptionsDone
          /\ CommentsDone' = CommentsDone
      BY <1>t, <1>l, <2>1 DEF TypeOK, AttributesDone, DescriptionsDone,
         CommentsInv, CommentsDone
    <2>4. AttributesInv' /\ DescriptionsInv' /\ CommentsInv'
      BY <2>1, <2>3 DEF AttributesInv, DescriptionsInv, CommentsInv
    <2>5. NetworkInv'
      BY <2>1 DEF NetworkInv
    <2> QED
      BY <2>2, <2>4, <2>5
  <1>6. CASE UNCHANGED vars
    BY <1>6 DEF vars, TypeOK, AttributesInv, AttributesDone, DescriptionsInv,
       DescriptionsDone, CommentsInv, CommentsDone, NetworkInv
  <1> QED
    BY <1>1, <1>2, <1>3, <1>4, <1>5, <1>6 DEF Next

(* The inductive invariant holds always. *)
THEOREM Invariance == Spec => []IInv
  BY InitIInv, NextIInv, PTL DEF Spec

(* The loader's state has its types, whatever the file. *)
THEOREM TypeCorrect == Spec => []TypeOK
  <1>1. IInv => TypeOK
    BY DEF IInv
  <1> QED
    BY <1>1, Invariance, PTL

(* DBCAST2Network loads, for every file, what one scan of the file per      *)
(* object finds: all attributes that name it, its last description and its  *)
(* last comment.                                                            *)
THEOREM NetworkIsOwnerScanAlways == Spec => []NetworkIsOwnerScan
  <1>1. IInv => NetworkIsOwnerScan
    <2> SUFFICES ASSUME IInv, pc = "done"
                 PROVE  network = [o \in gnet.declared |->
                     [ attributes  |-> Naming(gnet.attribute_values, o),
                       description |-> LastNaming(gnet.value_descriptions, o),
                       comment     |-> LastNaming(gnet.comments, o) ] ]
      BY DEF NetworkIsOwnerScan
    <2>1. /\ gnet.declared \subseteq Owners
          /\ gnet.attribute_values \in Seq(Entry)
          /\ gnet.value_descriptions \in Seq(Entry)
          /\ gnet.comments \in Seq(Entry)
      BY AstLists DEF IInv, TypeOK
    <2>2. ASSUME NEW o \in gnet.declared
          PROVE  /\ attributes[o] = Naming(gnet.attribute_values, o)
                 /\ description[o] = LastNaming(gnet.value_descriptions, o)
                 /\ comment[o] = LastNaming(gnet.comments, o)
      <3>1. o \in Owners /\ description[o] \in Nat /\ comment[o] \in Nat
        BY <2>1 DEF IInv, TypeOK
      <3>2. attributes[o] = Naming(gnet.attribute_values, o)
        <4>1. attributes[o] = NamingUpTo(gnet.attribute_values,
                                         Len(gnet.attribute_values), o)
          BY <3>1 DEF IInv, AttributesInv, AttributesDone
        <4> QED
          BY <2>1, <4>1 DEF NamingUpTo, Naming
      <3>3. IsLastUpTo(description[o], gnet.value_descriptions,
                       Len(gnet.value_descriptions), o)
        BY <3>1 DEF IInv, DescriptionsInv, DescriptionsDone
      <3>4. IsLastUpTo(comment[o], gnet.comments, Len(gnet.comments), o)
        BY <3>1 DEF IInv, CommentsInv, CommentsDone
      <3> QED
        BY <2>1, <3>1, <3>2, <3>3, <3>4, LastIsLastNaming
    <2> QED
      BY <2>2 DEF IInv, NetworkInv
  <1> QED
    BY <1>1, Invariance, PTL
=============================================================================

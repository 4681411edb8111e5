------------------------ MODULE NetworkObjects_proofs ------------------------
(***************************************************************************)
(* For all kinds of objects, however many and in arrays of any length: the *)
(* memory of a network's objects stays well formed, has one owner for      *)
(* every block, and its pointers point where the code means them to.       *)
(*                                                                         *)
(* The inductive invariant names the objects: an address is found again    *)
(* from an object's number, a block from the number of its owner and the   *)
(* list it is the buffer of. Whether a block was freed, moved or copied is *)
(* then a question about numbers and names of lists.                       *)
(***************************************************************************)
EXTENDS NetworkObjects, SequenceLemmas, FiniteSetTheorems, TLAPS

Fields == {"kind", "id", "lists", "inline", "indicator", "mux", "error", "passed_for"}

(* The memory m, the caller's handles hs, and n objects created so far.     *)
BlocksInv(m, n) ==
    \A b \in DOMAIN m :
        /\ b = << b[1], b[2], b[3] >> /\ b[1] \in 1 .. n /\ b[3] \in Nat
        /\ Sequence(m[b])

(* The kinds of objects with a member held by value that is an object too.  *)
HasMember == {"Network", "ValueTable"}

(* An object has the buffers of its own lists, and in them objects of the   *)
(* kind the lists are for.                                                  *)
ObjectInv(m, n, o) ==
    /\ DOMAIN o = Fields
    /\ o.kind \in Kinds /\ o.id \in 1 .. n
    /\ o.inline \subseteq 1 .. n /\ (o.kind \notin HasMember => o.inline = {})
    /\ DOMAIN o.lists = DOMAIN ListKinds[o.kind]
    /\ \A l \in DOMAIN o.lists :
         /\ o.lists[l] \in DOMAIN m /\ o.lists[l][1] = o.id /\ o.lists[l][2] = l
         /\ \A i \in DOMAIN m[o.lists[l]] :
              m[o.lists[l]][i].kind = ListKinds[o.kind][l]
ObjectsInv(m, n) ==
    \A b \in DOMAIN m : \A i \in DOMAIN m[b] : ObjectInv(m, n, m[b][i])

(* The handles are the blocks of one object, and all of them. *)
HandlesInv(m, hs) ==
    /\ \A b \in DOMAIN m : b[2] = "self" => b \in hs
    /\ \A h \in hs : /\ h \in DOMAIN m /\ h = Self(h[1])
                     /\ Len(m[h]) = 1 /\ m[h][1].id = h[1]

(* No two objects have one number. *)
NumbersInv(m) ==
    \A b, c \in DOMAIN m : \A i \in DOMAIN m[b], j \in DOMAIN m[c] :
        m[b][i].id = m[c][j].id => b = c /\ i = j

(* Every buffer belongs to an object in memory. *)
OwnedInv(m) ==
    \A b \in DOMAIN m : b[2] # "self" =>
        \E c \in DOMAIN m : \E i \in DOMAIN m[c] : b \in Blocks(m[c][i])

(* What a message knows of the multiplexer switches among its signals. *)
MuxInv(m, o) ==
    LET signals  == m[o.lists.signals]
        switches == { i \in DOMAIN signals : signals[i].indicator = "MuxSwitch" }
    IN  /\ o.mux = Null <=> switches = {}
        /\ o.mux # Null =>
             /\ o.mux[1] = o.lists.signals
             /\ o.mux[2] \in switches /\ \A i \in switches : i <= o.mux[2]
        /\ o.error <=> /\ switches = {}
                       /\ \E i \in DOMAIN signals : signals[i].indicator = "MuxValue"
MessagesInv(m) ==
    \A b \in DOMAIN m : \A i \in DOMAIN m[b] :
        m[b][i].kind = "Message" => MuxInv(m, m[b][i])

WellFormed(m, hs, n) ==
    /\ n \in Nat
    /\ BlocksInv(m, n)
    /\ ObjectsInv(m, n)
    /\ HandlesInv(m, hs)
    /\ NumbersInv(m)
    /\ OwnedInv(m)
    /\ MessagesInv(m)

IInv == created \in 0 .. MaxObjects /\ WellFormed(mem, handles, created)

-----------------------------------------------------------------------------
(* The kinds of objects and their lists. *)

(* How deep the tree of an object of a kind is at most. *)
Rank(kind) == CASE kind = "Network" -> 3
                [] kind = "Message" -> 2
                [] kind \in {"Node", "Signal", "EnvironmentVariable", "ValueTable"} -> 1
                [] OTHER -> 0

(* The elements of a list are of a kind with shallower trees, no list is    *)
(* named as the block of an object of its own is, only messages have        *)
(* signals and only networks messages.                                      *)
LEMMA ListsOfKinds ==
    ASSUME NEW k \in Kind, NEW l \in DOMAIN ListKinds[k]
    PROVE  /\ l # "self"
           /\ ListKinds[k][l] \in Kind
           /\ Rank(k) \in 1 .. 3
           /\ Rank(ListKinds[k][l]) \in Nat
           /\ Rank(ListKinds[k][l]) < Rank(k)
           /\ ListKinds[k][l] = "Signal" => k = "Message" /\ l = "signals"
           /\ ListKinds[k][l] = "Message" => k = "Network" /\ l = "messages"
  <1>1. CASE k = "Network"
    BY <1>1 DEF Kind, ListKinds, NoLists, Rank
  <1>2. CASE k = "Message"
    BY <1>2 DEF Kind, ListKinds, NoLists, Rank
  <1>3. CASE k \in {"Node", "Signal", "EnvironmentVariable", "ValueTable"}
    BY <1>3 DEF Kind, ListKinds, NoLists, Rank
  <1>4. CASE k \notin {"Node", "Signal", "EnvironmentVariable", "ValueTable",
                        "Message", "Network"}
    BY <1>4 DEF Kind, ListKinds, NoLists
  <1> QED
    BY <1>1, <1>2, <1>3, <1>4

(* A message has signals, a network messages.                               *)
LEMMA ListsOfMessages ==
    /\ "Message" \in Kind /\ "signals" \in DOMAIN ListKinds["Message"]
    /\ ListKinds["Message"].signals = "Signal"
    /\ "Network" \in Kind /\ "messages" \in DOMAIN ListKinds["Network"]
    /\ ListKinds["Network"].messages = "Message"
  BY DEF Kind, ListKinds, NoLists

-----------------------------------------------------------------------------
(* The number of a list with one place.                                     *)
LEMMA OneNumber ==
    ASSUME NEW n \in Nat, 1 .. n = {1}
    PROVE  n = 1
  <1>1. n # 0
    OBVIOUS
  <1>2. n \in 1 .. n
    BY <1>1
  <1> QED
    BY <1>2

-----------------------------------------------------------------------------
(* Blocks and their names in a well formed memory. *)
LEMMA BufferOf ==
    ASSUME NEW m, NEW hs, NEW n, WellFormed(m, hs, n),
           NEW b \in DOMAIN m, NEW i \in DOMAIN m[b], NEW l \in DOMAIN m[b][i].lists
    PROVE  /\ m[b][i].kind \in Kind
           /\ l \in DOMAIN ListKinds[m[b][i].kind]
           /\ l # "self"
           /\ m[b][i].lists[l] \in DOMAIN m
           /\ m[b][i].lists[l][1] = m[b][i].id
           /\ m[b][i].lists[l][2] = l
           /\ \A j \in DOMAIN m[m[b][i].lists[l]] :
                m[m[b][i].lists[l]][j].kind = ListKinds[m[b][i].kind][l]
  <1>1. ObjectInv(m, n, m[b][i])
    BY DEF WellFormed, ObjectsInv
  <1>2. m[b][i].kind \in Kind /\ l \in DOMAIN ListKinds[m[b][i].kind]
    BY <1>1, KindsAssumption DEF ObjectInv
  <1>3. l # "self"
    BY <1>2, ListsOfKinds
  <1> QED
    BY <1>1, <1>2, <1>3 DEF ObjectInv

(* A message in memory has a list of signals.                               *)
LEMMA MessageLists ==
    ASSUME NEW m, NEW hs, NEW n, WellFormed(m, hs, n),
           NEW b \in DOMAIN m, NEW i \in DOMAIN m[b], m[b][i].kind = "Message"
    PROVE  "signals" \in DOMAIN m[b][i].lists
  <1>1. DOMAIN m[b][i].lists = DOMAIN ListKinds["Message"]
    BY DEF WellFormed, ObjectsInv, ObjectInv
  <1> QED
    BY <1>1, ListsOfMessages

(* A handle is a block of its own with the object of its number.            *)
LEMMA HandleIs ==
    ASSUME NEW m, NEW hs, NEW n, WellFormed(m, hs, n), NEW h \in hs
    PROVE  /\ h \in DOMAIN m /\ h = Self(h[1]) /\ h[1] \in 1 .. n
           /\ h[2] = "self"
           /\ DOMAIN m[h] = {1} /\ m[h][1].id = h[1]
           /\ ObjectInv(m, n, m[h][1])
  <1>1. h \in DOMAIN m /\ h = Self(h[1]) /\ Len(m[h]) = 1 /\ m[h][1].id = h[1]
    BY DEF WellFormed, HandlesInv
  <1>2. h[1] \in 1 .. n /\ DOMAIN m[h] = 1 .. 1
    BY <1>1, SequenceDomain DEF WellFormed, BlocksInv
  <1>3. h[2] = "self"
    BY <1>1 DEF Self
  <1>4. DOMAIN m[h] = {1}
    BY <1>2
  <1>5. ObjectInv(m, n, m[h][1])
    BY <1>1, <1>4 DEF WellFormed, ObjectsInv
  <1> QED
    BY <1>1, <1>2, <1>3, <1>4, <1>5

(* A block that is no handle is the buffer its name says. *)
LEMMA OwnerOf ==
    ASSUME NEW m, NEW hs, NEW n, WellFormed(m, hs, n),
           NEW b \in DOMAIN m, b \notin hs
    PROVE  /\ b[2] # "self"
           /\ \E c \in DOMAIN m : \E i \in DOMAIN m[c] :
                /\ m[c][i].id = b[1]
                /\ b[2] \in DOMAIN m[c][i].lists
                /\ m[c][i].lists[b[2]] = b
  <1>1. b[2] # "self"
    BY DEF WellFormed, HandlesInv
  <1>2. PICK c \in DOMAIN m : \E i \in DOMAIN m[c] : b \in Blocks(m[c][i])
    BY <1>1 DEF WellFormed, OwnedInv
  <1>3. PICK i \in DOMAIN m[c] : b \in Blocks(m[c][i])
    BY <1>2
  <1>4. PICK l \in DOMAIN m[c][i].lists : b = m[c][i].lists[l]
    BY <1>3 DEF Blocks
  <1>5. b[1] = m[c][i].id /\ b[2] = l
    BY <1>4, BufferOf
  <1> QED
    BY <1>1, <1>4, <1>5

(* A list has one block at a time, of however many it had before.           *)
LEMMA BlockName ==
    ASSUME NEW m, NEW hs, NEW n, WellFormed(m, hs, n),
           NEW b \in DOMAIN m, NEW c \in DOMAIN m, b[1] = c[1], b[2] = c[2]
    PROVE  b = c
  <1>1. CASE b[2] = "self"
    <2>1. b \in hs /\ c \in hs
      BY <1>1 DEF WellFormed, HandlesInv
    <2> QED
      BY <2>1, HandleIs
  <1>2. CASE b[2] # "self"
    <2>1. b \notin hs /\ c \notin hs
      BY <1>2, HandleIs
    <2>2. PICK d \in DOMAIN m : \E i \in DOMAIN m[d] :
            m[d][i].id = b[1] /\ m[d][i].lists[b[2]] = b
      BY <2>1, OwnerOf
    <2>3. PICK i \in DOMAIN m[d] : m[d][i].id = b[1] /\ m[d][i].lists[b[2]] = b
      BY <2>2
    <2>4. PICK e \in DOMAIN m : \E j \in DOMAIN m[e] :
            m[e][j].id = c[1] /\ m[e][j].lists[c[2]] = c
      BY <2>1, OwnerOf
    <2>5. PICK j \in DOMAIN m[e] : m[e][j].id = c[1] /\ m[e][j].lists[c[2]] = c
      BY <2>4
    <2>6. d = e /\ i = j
      BY <2>3, <2>5 DEF WellFormed, NumbersInv
    <2> QED
      BY <2>3, <2>5, <2>6
  <1> QED
    BY <1>1, <1>2

(* A buffer has one owner. *)
LEMMA OneOwnerOf ==
    ASSUME NEW m, NEW hs, NEW n, WellFormed(m, hs, n),
           NEW b \in DOMAIN m, NEW i \in DOMAIN m[b],
           NEW c \in DOMAIN m, NEW j \in DOMAIN m[c],
           NEW d, d \in Blocks(m[b][i]), d \in Blocks(m[c][j])
    PROVE  b = c /\ i = j
  <1>1. PICK l \in DOMAIN m[b][i].lists : d = m[b][i].lists[l]
    BY DEF Blocks
  <1>2. PICK k \in DOMAIN m[c][j].lists : d = m[c][j].lists[k]
    BY DEF Blocks
  <1>3. d[1] = m[b][i].id
    BY <1>1, BufferOf
  <1>4. d[1] = m[c][j].id
    BY <1>2, BufferOf
  <1>5. m[b][i].id = m[c][j].id
    BY <1>3, <1>4
  <1>6. NumbersInv(m)
    BY DEF WellFormed
  <1> QED
    BY <1>5, <1>6 DEF NumbersInv

-----------------------------------------------------------------------------
(* Create: what the new memory is, and when it is well formed. *)
NewObject(n, kind, contents, inline, indicator) ==
    [ kind |-> kind, id |-> n + 1,
      lists |-> [ l \in DOMAIN contents |-> Buffer(n + 1, l) ],
      inline |-> inline, indicator |-> indicator,
      mux |-> IF kind = "Message"
                THEN MuxSignal(Buffer(n + 1, "signals"), contents.signals) ELSE Null,
      error |-> kind = "Message" /\ MuxValueWithoutSwitch(contents.signals),
      passed_for |-> "none" ]
NewMemory(m, n, contents, freed, object) ==
    LET new == { Buffer(n + 1, l) : l \in DOMAIN contents } \cup {Self(n + 1)}
    IN  [ b \in (DOMAIN m \ freed) \cup new |->
            IF b = Self(n + 1) THEN << object >>
            ELSE IF b \in new THEN contents[b[2]]
            ELSE m[b] ]

(* The objects of the handles go into the lists of their kinds, each once;  *)
(* one that goes nowhere has no lists of its own.                           *)
IsObjectOf(o, m, g) == \E p : o = [ m[g][1] EXCEPT !.passed_for = p ]
Fits(m, kind, contents, freed) ==
    /\ DOMAIN contents = DOMAIN ListKinds[kind]
    /\ \A l \in DOMAIN contents :
         /\ Sequence(contents[l])
         /\ \A i \in DOMAIN contents[l] :
              \E g \in freed : /\ IsObjectOf(contents[l][i], m, g)
                               /\ m[g][1].kind = ListKinds[kind][l]
    /\ \A k, l \in DOMAIN contents : \A i \in DOMAIN contents[k], j \in DOMAIN contents[l] :
         contents[k][i].id = contents[l][j].id => k = l /\ i = j
    /\ \A g \in freed :
         \/ \E l \in DOMAIN contents : \E i \in DOMAIN contents[l] :
              IsObjectOf(contents[l][i], m, g)
         \/ DOMAIN ListKinds[m[g][1].kind] = {}

(* The parts of an object of a handle.                                      *)
LEMMA ObjectOfIs ==
    ASSUME NEW o, NEW m, NEW g, IsObjectOf(o, m, g), DOMAIN m[g][1] = Fields
    PROVE  /\ DOMAIN o = Fields
           /\ o.kind = m[g][1].kind /\ o.id = m[g][1].id /\ o.lists = m[g][1].lists
           /\ o.inline = m[g][1].inline /\ o.indicator = m[g][1].indicator
           /\ o.mux = m[g][1].mux /\ o.error = m[g][1].error
  BY DEF IsObjectOf, Fields

(* The constructor of a message finds its last switch, or none.             *)
LEMMA MuxComputed ==
    ASSUME NEW block, NEW signals, Sequence(signals)
    PROVE  LET switches == { i \in DOMAIN signals : signals[i].indicator = "MuxSwitch" }
               mux      == MuxSignal(block, signals)
           IN  /\ mux = Null <=> switches = {}
               /\ mux # Null =>
                    /\ mux[1] = block
                    /\ mux[2] \in switches /\ \A i \in switches : i <= mux[2]
  <1> DEFINE switches == { i \in DOMAIN signals : signals[i].indicator = "MuxSwitch" }
             LastSwitch     == CHOOSE i \in switches : \A j \in switches : j <= i
  <1>1. Len(signals) \in Nat /\ switches \subseteq 1 .. Len(signals)
    BY SequenceDomain
  <1>2. ASSUME switches # {}
        PROVE  LastSwitch \in switches /\ \A j \in switches : j <= LastSwitch
    <2> DEFINE mirrored == { Len(signals) - i : i \in switches }
    <2>1. mirrored \subseteq Nat /\ mirrored # {}
      BY <1>1, <1>2
    <2>2. PICK x \in mirrored : \A y \in mirrored : x <= y
      BY <2>1, LeastNumber
    <2>3. PICK i \in switches : x = Len(signals) - i
      BY <2>2
    <2>4. ASSUME NEW j \in switches
          PROVE  j <= i
      <3>1. Len(signals) - j \in mirrored
        OBVIOUS
      <3>2. Len(signals) - i <= Len(signals) - j
        BY <3>1, <2>2, <2>3
      <3>3. i \in Nat /\ j \in Nat /\ Len(signals) \in Nat
        BY <1>1
      <3> QED
        BY <3>2, <3>3
    <2> QED
      BY <2>4
  <1> HIDE DEF switches
  <1>3. CASE switches = {}
    BY <1>3 DEF MuxSignal, switches
  <1>4. CASE switches # {}
    <2>1. MuxSignal(block, signals) = Address(block, LastSwitch)
      BY <1>4 DEF MuxSignal, switches
    <2> HIDE DEF LastSwitch
    <2>2. Address(block, LastSwitch) # Null /\ Address(block, LastSwitch)[1] = block
            /\ Address(block, LastSwitch)[2] = LastSwitch
      BY DEF Address, Null
    <2> QED
      BY <1>2, <1>4, <2>1, <2>2 DEF switches
  <1> QED
    BY <1>3, <1>4

(* The blocks of the new memory, and where the objects in them come from.   *)
LEMMA NewMemoryIs ==
    ASSUME NEW m, NEW n \in Nat, BlocksInv(m, n),
           NEW contents, NEW freed, NEW object,
           \A l \in DOMAIN contents : l # "self" /\ Sequence(contents[l]),
           NEW m2, m2 = NewMemory(m, n, contents, freed, object)
    PROVE  /\ DOMAIN m2 = (DOMAIN m \ freed)
                \cup { Buffer(n + 1, l) : l \in DOMAIN contents } \cup {Self(n + 1)}
           /\ m2[Self(n + 1)] = << object >>
           /\ \A l \in DOMAIN contents : m2[Buffer(n + 1, l)] = contents[l]
           /\ \A b \in DOMAIN m \ freed : b[1] # n + 1 /\ m2[b] = m[b]
  <1> DEFINE buffers == { Buffer(n + 1, l) : l \in DOMAIN contents }
  <1>1. DOMAIN m2 = (DOMAIN m \ freed) \cup buffers \cup {Self(n + 1)}
    BY DEF NewMemory
  <1>2. m2[Self(n + 1)] = << object >>
    BY DEF NewMemory
  <1>3. ASSUME NEW l \in DOMAIN contents
        PROVE  m2[Buffer(n + 1, l)] = contents[l]
    <2>1. Buffer(n + 1, l) # Self(n + 1) /\ Buffer(n + 1, l)[2] = l
      BY DEF Buffer, Self
    <2> QED
      BY <2>1 DEF NewMemory
  <1>4. ASSUME NEW b \in DOMAIN m \ freed
        PROVE  b[1] # n + 1 /\ m2[b] = m[b]
    <2>1. b[1] \in 1 .. n
      BY DEF BlocksInv
    <2>2. b[1] # n + 1
      BY <2>1
    <2>3. b # Self(n + 1) /\ \A l : b # Buffer(n + 1, l)
      BY <2>2 DEF Self, Buffer
    <2> QED
      BY <2>2, <2>3 DEF NewMemory
  <1> QED
    BY <1>1, <1>2, <1>3, <1>4

(* Creating an object of well-formed parts keeps memory well-formed.        *)
LEMMA CreateKeeps ==
    ASSUME NEW m, NEW hs, NEW n, WellFormed(m, hs, n),
           NEW kind \in Kinds, NEW contents, NEW freed \in SUBSET hs,
           NEW inline \in SUBSET (1 .. n), kind \notin HasMember => inline = {},
           NEW indicator,
           Fits(m, kind, contents, freed)
    PROVE  WellFormed(NewMemory(m, n, contents, freed,
                                NewObject(n, kind, contents, inline, indicator)),
                      (hs \ freed) \cup {Self(n + 1)}, n + 1)
  <1> DEFINE id      == n + 1
             object  == NewObject(n, kind, contents, inline, indicator)
             buffers == { Buffer(id, l) : l \in DOMAIN contents }
             m2      == NewMemory(m, n, contents, freed, object)
             hs2     == (hs \ freed) \cup {Self(id)}
  <1>1. n \in Nat /\ id \in Nat /\ n < id
    BY DEF WellFormed
  <1>2. kind \in Kind
    BY KindsAssumption
  <1>3. /\ DOMAIN contents = DOMAIN ListKinds[kind]
        /\ \A l \in DOMAIN contents : l # "self" /\ Sequence(contents[l])
    BY <1>2, ListsOfKinds DEF Fits
  <1>4. /\ DOMAIN m2 = (DOMAIN m \ freed) \cup buffers \cup {Self(id)}
        /\ m2[Self(id)] = << object >>
        /\ \A l \in DOMAIN contents : m2[Buffer(id, l)] = contents[l]
        /\ \A b \in DOMAIN m \ freed : b[1] # id /\ m2[b] = m[b]
    <2>1. m2 = NewMemory(m, n, contents, freed, object)
      OBVIOUS
    <2> HIDE DEF m2, object
    <2>2. /\ DOMAIN m2 = (DOMAIN m \ freed)
              \cup { Buffer(n + 1, l) : l \in DOMAIN contents } \cup {Self(n + 1)}
          /\ m2[Self(n + 1)] = << object >>
          /\ \A l \in DOMAIN contents : m2[Buffer(n + 1, l)] = contents[l]
          /\ \A b \in DOMAIN m \ freed : b[1] # n + 1 /\ m2[b] = m[b]
      <3>1. n \in Nat /\ BlocksInv(m, n)
        BY DEF WellFormed
      <3> QED
        BY <1>3, <2>1, <3>1, NewMemoryIs
    <2> QED
      BY <2>2
  <1>5. /\ DOMAIN object = Fields /\ object.kind = kind /\ object.id = id
        /\ object.inline = inline /\ DOMAIN object.lists = DOMAIN contents
        /\ \A l \in DOMAIN contents : object.lists[l] = Buffer(id, l)
    BY DEF NewObject, Fields
  <1>6. << object >>[1] = object /\ DOMAIN << object >> = {1}
    BY SequenceOne
  <1> HIDE DEF id, object, buffers, m2, hs2
  \* Every object in the lists was one of a handle.
  <1>7. ASSUME NEW l \in DOMAIN contents, NEW i \in DOMAIN contents[l]
        PROVE  \E g \in freed :
                 /\ g \in hs /\ g \in DOMAIN m /\ 1 \in DOMAIN m[g]
                 /\ ObjectInv(m, n, m[g][1])
                 /\ DOMAIN contents[l][i] = Fields
                 /\ contents[l][i].kind = m[g][1].kind
                 /\ contents[l][i].id = m[g][1].id
                 /\ contents[l][i].lists = m[g][1].lists
                 /\ contents[l][i].inline = m[g][1].inline
                 /\ contents[l][i].mux = m[g][1].mux
                 /\ contents[l][i].error = m[g][1].error
                 /\ m[g][1].kind = ListKinds[kind][l]
    <2>1. PICK g \in freed : IsObjectOf(contents[l][i], m, g)
                               /\ m[g][1].kind = ListKinds[kind][l]
      BY DEF Fits
    <2>2. g \in hs
      OBVIOUS
    <2>3. g \in DOMAIN m /\ DOMAIN m[g] = {1} /\ ObjectInv(m, n, m[g][1])
      BY <2>2, HandleIs
    <2> QED
      BY <2>1, <2>2, <2>3, ObjectOfIs DEF ObjectInv
  \* The buffers of the objects there were stay.
  <1>8. ASSUME NEW b \in DOMAIN m, NEW i \in DOMAIN m[b], NEW l \in DOMAIN m[b][i].lists
        PROVE  /\ m[b][i].lists[l] \in DOMAIN m \ freed
               /\ m[b][i].lists[l] \in DOMAIN m2
               /\ m2[m[b][i].lists[l]] = m[m[b][i].lists[l]]
    <2>1. m[b][i].lists[l] \in DOMAIN m /\ m[b][i].lists[l][2] # "self"
      BY BufferOf
    <2>2. m[b][i].lists[l] \notin freed
      BY <2>1, HandleIs
    <2> QED
      BY <2>1, <2>2, <1>4
  \* What an object is does not depend on where it is.
  <1>9. ASSUME NEW b \in DOMAIN m, NEW i \in DOMAIN m[b], NEW o,
               ObjectInv(m, n, m[b][i]), DOMAIN o = Fields,
               o.kind = m[b][i].kind, o.id = m[b][i].id, o.lists = m[b][i].lists,
               o.inline = m[b][i].inline
        PROVE  ObjectInv(m2, id, o)
    <2>1. /\ o.kind \in Kinds /\ o.id \in 1 .. n /\ o.inline \subseteq 1 .. n
          /\ DOMAIN o.lists = DOMAIN ListKinds[o.kind]
      BY <1>9 DEF ObjectInv
    <2>2. o.id \in 1 .. id /\ o.inline \subseteq 1 .. id
      BY <2>1, <1>1
    <2>3. ASSUME NEW l \in DOMAIN o.lists
          PROVE  /\ o.lists[l] \in DOMAIN m2 /\ o.lists[l][1] = o.id /\ o.lists[l][2] = l
                 /\ \A j \in DOMAIN m2[o.lists[l]] :
                      m2[o.lists[l]][j].kind = ListKinds[o.kind][l]
      BY <1>8, <1>9 DEF ObjectInv
    <2> QED
      BY <2>1, <2>2, <2>3, <1>9 DEF ObjectInv

  <1>10. ASSUME NEW b \in DOMAIN m2, NEW i \in DOMAIN m2[b]
         PROVE  \/ b = Self(id) /\ i = 1 /\ m2[b][i] = object
                \/ \E l \in DOMAIN contents :
                     b = Buffer(id, l) /\ i \in DOMAIN contents[l] /\ m2[b][i] = contents[l][i]
                \/ b \in DOMAIN m \ freed /\ i \in DOMAIN m[b] /\ m2[b][i] = m[b][i]
    <2>1. CASE b = Self(id)
      BY <2>1, <1>4, <1>6
    <2>2. CASE b \in buffers
      BY <2>2, <1>4 DEF buffers
    <2>3. CASE b \in DOMAIN m \ freed
      BY <2>3, <1>4
    <2> QED
      BY <2>1, <2>2, <2>3, <1>4
  <1>11. BlocksInv(m2, id)
    <2> SUFFICES ASSUME NEW b \in DOMAIN m2
                 PROVE  /\ b = << b[1], b[2], b[3] >> /\ b[1] \in 1 .. id /\ b[3] \in Nat
                        /\ Sequence(m2[b])
      BY DEF BlocksInv
    <2>1. CASE b = Self(id)
      BY <2>1, <1>1, <1>4, SequenceOne DEF Self
    <2>2. CASE b \in buffers
      BY <2>2, <1>1, <1>3, <1>4 DEF buffers, Buffer
    <2>3. CASE b \in DOMAIN m \ freed
      <3>1. /\ b = << b[1], b[2], b[3] >> /\ b[1] \in 1 .. n /\ b[3] \in Nat
            /\ Sequence(m[b])
        BY <2>3 DEF WellFormed, BlocksInv
      <3> QED
        BY <3>1, <2>3, <1>1, <1>4
    <2> QED
      BY <2>1, <2>2, <2>3, <1>4
  <1>12. ObjectInv(m2, id, object)
    <2>1. ASSUME NEW l \in DOMAIN object.lists
          PROVE  /\ object.lists[l] \in DOMAIN m2
                 /\ object.lists[l][1] = object.id /\ object.lists[l][2] = l
                 /\ \A i \in DOMAIN m2[object.lists[l]] :
                      m2[object.lists[l]][i].kind = ListKinds[object.kind][l]
      <3>1. l \in DOMAIN contents /\ object.lists[l] = Buffer(id, l)
        BY <1>5
      <3>2. Buffer(id, l) \in DOMAIN m2 /\ m2[Buffer(id, l)] = contents[l]
        BY <3>1, <1>4 DEF buffers
      <3> QED
        BY <3>1, <3>2, <1>5, <1>7 DEF Buffer
    <2>2. id \in 1 .. id /\ inline \subseteq 1 .. id
      BY <1>1
    <2> QED
      BY <2>1, <2>2, <1>3, <1>5 DEF ObjectInv
  <1>13. ObjectsInv(m2, id)
    <2> SUFFICES ASSUME NEW b \in DOMAIN m2, NEW i \in DOMAIN m2[b]
                 PROVE  ObjectInv(m2, id, m2[b][i])
      BY DEF ObjectsInv
    <2>1. CASE m2[b][i] = object
      BY <2>1, <1>12
    <2>2. ASSUME NEW l \in DOMAIN contents, i \in DOMAIN contents[l],
                 m2[b][i] = contents[l][i]
          PROVE  ObjectInv(m2, id, m2[b][i])
      BY <2>2, <1>7, <1>9
    <2>3. CASE b \in DOMAIN m \ freed /\ i \in DOMAIN m[b] /\ m2[b][i] = m[b][i]
      <3>1. ObjectInv(m, n, m[b][i])
        BY <2>3 DEF WellFormed, ObjectsInv
      <3> QED
        BY <3>1, <2>3, <1>9 DEF ObjectInv
    <2> QED
      BY <2>1, <2>2, <2>3, <1>10
  <1>14. HandlesInv(m2, hs2)
    <2>1. ASSUME NEW b \in DOMAIN m2, b[2] = "self"
          PROVE  b \in hs2
      <3>1. CASE b \in buffers
        BY <3>1, <2>1, <1>3 DEF buffers, Buffer
      <3>2. CASE b \in DOMAIN m \ freed
        BY <3>2, <2>1 DEF WellFormed, HandlesInv, hs2
      <3> QED
        BY <3>1, <3>2, <1>4 DEF hs2
    <2>2. ASSUME NEW h \in hs2
          PROVE  h \in DOMAIN m2 /\ h = Self(h[1]) /\ Len(m2[h]) = 1 /\ m2[h][1].id = h[1]
      <3>1. CASE h = Self(id)
        BY <3>1, <1>4, <1>5, <1>6, SequenceOne DEF Self
      <3>2. CASE h \in hs \ freed
        <4>1. h \in DOMAIN m /\ h = Self(h[1]) /\ Len(m[h]) = 1 /\ m[h][1].id = h[1]
          BY <3>2 DEF WellFormed, HandlesInv
        <4> QED
          BY <4>1, <3>2, <1>4
      <3> QED
        BY <3>1, <3>2 DEF hs2
    <2> QED
      BY <2>1, <2>2 DEF HandlesInv
  \* Numbers: those of the objects there were are at most n.
  <1>15. ASSUME NEW b \in DOMAIN m, NEW i \in DOMAIN m[b]
         PROVE  m[b][i].id # id
    <2>1. m[b][i].id \in 1 .. n
      BY DEF WellFormed, ObjectsInv, ObjectInv
    <2> QED
      BY <2>1, <1>1
  <1>16. ASSUME NEW l \in DOMAIN contents, NEW i \in DOMAIN contents[l]
         PROVE  contents[l][i].id # id
    BY <1>7, <1>15
  <1>17. ASSUME NEW l \in DOMAIN contents, NEW i \in DOMAIN contents[l],
                NEW b \in DOMAIN m \ freed, NEW j \in DOMAIN m[b]
         PROVE  contents[l][i].id # m[b][j].id
    <2>1. PICK g \in freed : g \in DOMAIN m /\ 1 \in DOMAIN m[g]
                               /\ contents[l][i].id = m[g][1].id
      BY <1>7
    <2>2. g # b
      OBVIOUS
    <2>3. NumbersInv(m)
      BY DEF WellFormed
    <2> QED
      BY <2>1, <2>2, <2>3 DEF NumbersInv
  <1>18. NumbersInv(m2)
    <2> SUFFICES ASSUME NEW b \in DOMAIN m2, NEW c \in DOMAIN m2,
                        NEW i \in DOMAIN m2[b], NEW j \in DOMAIN m2[c],
                        m2[b][i].id = m2[c][j].id
                 PROVE  b = c /\ i = j
      BY DEF NumbersInv
    <2>1. CASE b = Self(id) /\ i = 1 /\ m2[b][i] = object
      <3>1. m2[c][j].id = id
        BY <2>1, <1>5
      <3>2. c = Self(id) /\ j = 1
        BY <3>1, <1>10, <1>15, <1>16
      <3> QED
        BY <2>1, <3>2
    <2>2. ASSUME NEW l \in DOMAIN contents, b = Buffer(id, l), i \in DOMAIN contents[l],
                 m2[b][i] = contents[l][i]
          PROVE  b = c /\ i = j
      <3>1. ~ (m2[c][j] = object)
        BY <2>2, <1>5, <1>16
      <3>2. ~ (c \in DOMAIN m \ freed /\ j \in DOMAIN m[c] /\ m2[c][j] = m[c][j])
        BY <2>2, <1>17
      <3>3. PICK k \in DOMAIN contents : c = Buffer(id, k) /\ j \in DOMAIN contents[k]
                                           /\ m2[c][j] = contents[k][j]
        BY <3>1, <3>2, <1>10
      <3>4. l = k /\ i = j
        BY <2>2, <3>3 DEF Fits
      <3> QED
        BY <2>2, <3>3, <3>4
    <2>3. CASE b \in DOMAIN m \ freed /\ i \in DOMAIN m[b] /\ m2[b][i] = m[b][i]
      <3>1. ~ (m2[c][j] = object)
        BY <2>3, <1>5, <1>15
      <3>2. ASSUME NEW k \in DOMAIN contents, j \in DOMAIN contents[k],
                   m2[c][j] = contents[k][j]
            PROVE  FALSE
        BY <2>3, <3>2, <1>17
      <3>3. c \in DOMAIN m \ freed /\ j \in DOMAIN m[c] /\ m2[c][j] = m[c][j]
        BY <3>1, <3>2, <1>10
      <3>4. m[b][i].id = m[c][j].id
        BY <2>3, <3>3
      <3>5. NumbersInv(m)
        BY DEF WellFormed
      <3> QED
        BY <2>3, <3>3, <3>4, <3>5 DEF NumbersInv
    <2> QED
      BY <2>1, <2>2, <2>3, <1>10

  <1>19. OwnedInv(m2)
    <2> SUFFICES ASSUME NEW b \in DOMAIN m2, b[2] # "self"
                 PROVE  \E c \in DOMAIN m2 : \E i \in DOMAIN m2[c] : b \in Blocks(m2[c][i])
      BY DEF OwnedInv
    <2>1. CASE b \in buffers
      <3>1. b \in Blocks(object)
        BY <2>1, <1>5 DEF Blocks, buffers
      <3>2. Self(id) \in DOMAIN m2 /\ 1 \in DOMAIN m2[Self(id)] /\ m2[Self(id)][1] = object
        BY <1>4, <1>6
      <3> QED
        BY <3>1, <3>2
    <2>2. CASE b \in DOMAIN m \ freed
      <3>1. PICK c \in DOMAIN m : \E i \in DOMAIN m[c] : b \in Blocks(m[c][i])
        BY <2>2 DEF WellFormed, OwnedInv
      <3>2. PICK i \in DOMAIN m[c] : b \in Blocks(m[c][i])
        BY <3>1
      <3>3. CASE c \notin freed
        BY <3>2, <3>3, <1>4
      <3>4. CASE c \in freed
        <4>1. i = 1 /\ ObjectInv(m, n, m[c][1])
          BY <3>2, <3>4, HandleIs
        <4>2. DOMAIN ListKinds[m[c][1].kind] # {}
          BY <3>2, <4>1 DEF Blocks, ObjectInv
        <4>3. PICK l \in DOMAIN contents : \E j \in DOMAIN contents[l] :
                IsObjectOf(contents[l][j], m, c)
          BY <3>4, <4>2 DEF Fits
        <4>4. PICK j \in DOMAIN contents[l] : IsObjectOf(contents[l][j], m, c)
          BY <4>3
        <4>5. contents[l][j].lists = m[c][1].lists
          BY <4>1, <4>4, ObjectOfIs DEF ObjectInv
        <4>6. b \in Blocks(contents[l][j])
          BY <3>2, <4>1, <4>5 DEF Blocks
        <4>7. Buffer(id, l) \in DOMAIN m2 /\ m2[Buffer(id, l)] = contents[l]
          BY <1>4 DEF buffers
        <4> QED
          BY <4>6, <4>7
      <3> QED
        BY <3>3, <3>4
    <2>3. CASE b = Self(id)
      BY <2>3, Zenon DEF Self
    <2> QED
      BY <2>1, <2>2, <2>3, <1>4
  \* A message that was there has the signals it had.
  <1>20. ASSUME NEW b \in DOMAIN m, NEW i \in DOMAIN m[b], NEW o, o.kind = "Message",
                o.kind = m[b][i].kind, o.lists = m[b][i].lists,
                o.mux = m[b][i].mux, o.error = m[b][i].error
         PROVE  MuxInv(m2, o)
    <2>1. DOMAIN m[b][i].lists = DOMAIN ListKinds["Message"]
      BY <1>20 DEF WellFormed, ObjectsInv, ObjectInv
    <2>2. m2[o.lists.signals] = m[o.lists.signals]
      BY <2>1, <1>8, <1>20, ListsOfMessages
    <2>3. MuxInv(m, m[b][i])
      BY <1>20 DEF WellFormed, MessagesInv
    <2> QED
      BY <2>2, <2>3, <1>20 DEF MuxInv
  <1>21. ASSUME kind = "Message"
         PROVE  MuxInv(m2, object)
    <2>1. "signals" \in DOMAIN contents
      BY <1>3, <1>21, ListsOfMessages
    <2>2. /\ object.lists.signals = Buffer(id, "signals")
          /\ m2[object.lists.signals] = contents.signals
          /\ Sequence(contents.signals)
      BY <2>1, <1>3, <1>4, <1>5
    <2>3. object.mux = MuxSignal(Buffer(id, "signals"), contents.signals)
      BY <1>21 DEF object, NewObject, id
    <2>5. object.error <=> MuxValueWithoutSwitch(contents.signals)
      <3>1. object.error = (kind = "Message" /\ MuxValueWithoutSwitch(contents.signals))
        BY DEF object, NewObject
      <3> QED
        BY <3>1, <1>21, Zenon
    <2>4. object.error <=>
            /\ { i \in DOMAIN contents.signals : contents.signals[i].indicator = "MuxSwitch" } = {}
            /\ \E i \in DOMAIN contents.signals : contents.signals[i].indicator = "MuxValue"
      BY <2>5 DEF MuxValueWithoutSwitch
    <2> QED
      BY <2>2, <2>3, <2>4, MuxComputed DEF MuxInv
  <1>22. MessagesInv(m2)
    <2> SUFFICES ASSUME NEW b \in DOMAIN m2, NEW i \in DOMAIN m2[b], m2[b][i].kind = "Message"
                 PROVE  MuxInv(m2, m2[b][i])
      BY DEF MessagesInv
    <2>1. CASE m2[b][i] = object
      BY <2>1, <1>5, <1>21
    <2>2. ASSUME NEW l \in DOMAIN contents, i \in DOMAIN contents[l],
                 m2[b][i] = contents[l][i]
          PROVE  MuxInv(m2, m2[b][i])
      BY <2>2, <1>7, <1>20
    <2>3. CASE b \in DOMAIN m \ freed /\ i \in DOMAIN m[b] /\ m2[b][i] = m[b][i]
      BY <2>3, <1>20
    <2> QED
      BY <2>1, <2>2, <2>3, <1>10
  <1>23. WellFormed(m2, hs2, id)
    BY <1>1, <1>11, <1>13, <1>14, <1>18, <1>19, <1>22 DEF WellFormed
  <1> QED
    BY <1>23 DEF m2, hs2, id, object

(* The same of the action. *)
LEMMA CreateIs ==
    ASSUME NEW kind, NEW contents, NEW freed, NEW inline, NEW indicator,
           Fits(mem, kind, contents, freed),
           Create(kind, contents, freed, freed, inline, indicator)
    PROVE  /\ kind \in Kinds
           /\ created + 1 <= MaxObjects
           /\ mem' = NewMemory(mem, created, contents, freed,
                               NewObject(created, kind, contents, inline, indicator))
           /\ handles' = (handles \ freed) \cup {Self(created + 1)}
           /\ created' = created + 1
  <1> DEFINE lists  == [ l \in DOMAIN contents |-> Buffer(created + 1, l) ]
             object == [ kind |-> kind, id |-> created + 1, lists |-> lists,
                         inline |-> inline, indicator |-> indicator,
                         mux |-> IF kind = "Message"
                                   THEN MuxSignal(lists.signals, contents.signals) ELSE Null,
                         error |-> kind = "Message" /\ MuxValueWithoutSwitch(contents.signals),
                         passed_for |-> "none" ]
             kept   == [ b \in DOMAIN mem \ freed |-> mem[b] ]
             new    == { Buffer(created + 1, l) : l \in DOMAIN contents } \cup {Self(created + 1)}
  <1>1. /\ kind \in Kinds
        /\ created + 1 <= MaxObjects
        /\ handles' = (handles \ freed) \cup {Self(created + 1)}
        /\ created' = created + 1
    BY DEF Create, Transfer
  <1>2. mem' = [ b \in DOMAIN kept \cup new |->
                   IF b = Self(created + 1) THEN << object >>
                   ELSE IF b \in new THEN contents[b[2]]
                   ELSE kept[b] ]
    BY DEF Create, Transfer
  <1>3. object = NewObject(created, kind, contents, inline, indicator)
    <2>1. kind = "Message" => lists.signals = Buffer(created + 1, "signals")
      BY ListsOfMessages DEF Fits
    <2> QED
      BY <2>1 DEF NewObject
  <1>4. mem' = [ b \in (DOMAIN mem \ freed) \cup new |->
                   IF b = Self(created + 1) THEN << object >>
                   ELSE IF b \in new THEN contents[b[2]]
                   ELSE mem[b] ]
    <2> HIDE DEF object, new
    <2> QED
      BY <1>2
  <1>5. mem' = NewMemory(mem, created, contents, freed, object)
    <2> HIDE DEF object
    <2> QED
      BY <1>4, Zenon DEF NewMemory
  <1> HIDE DEF object
  <1> QED
    BY <1>1, <1>3, <1>5

(* So does every Create of the interface that takes such parts.             *)
LEMMA CreateStep ==
    ASSUME IInv, NEW kind, NEW contents, NEW freed \in SUBSET handles,
           NEW inline \in SUBSET (1 .. created), kind \notin HasMember => inline = {},
           NEW indicator,
           Fits(mem, kind, contents, freed),
           Create(kind, contents, freed, freed, inline, indicator)
    PROVE  IInv'
  <1>1. WellFormed(mem, handles, created) /\ created \in 0 .. MaxObjects
    BY DEF IInv
  <1>2. /\ kind \in Kinds
        /\ created + 1 <= MaxObjects
        /\ mem' = NewMemory(mem, created, contents, freed,
                            NewObject(created, kind, contents, inline, indicator))
        /\ handles' = (handles \ freed) \cup {Self(created + 1)}
        /\ created' = created + 1
    BY CreateIs
  <1>3. WellFormed(mem', handles', created')
    BY <1>1, <1>2, CreateKeeps
  <1>4. created' \in 0 .. MaxObjects
    BY <1>1, <1>2, BoundsAssumption
  <1> QED
    BY <1>3, <1>4 DEF IInv

-----------------------------------------------------------------------------
(* The Create functions: what they put into the lists fits. *)
LEMMA ArrayIs ==
    ASSUME NEW kind, NEW a \in Arrays(kind)
    PROVE  /\ \E n \in Nat : DOMAIN a = 1 .. n
           /\ \A i \in DOMAIN a : a[i] \in handles /\ Object(a[i]).kind = kind
           /\ \A i, j \in DOMAIN a : a[i] = a[j] => i = j
  <1>1. PICK n \in 0 .. MaxPassed : a \in [ 1 .. n -> HandlesOf(kind) ]
    BY DEF Arrays
  <1>2. n \in Nat /\ DOMAIN a = 1 .. n
    BY <1>1
  <1>3. \A i \in DOMAIN a : a[i] \in handles /\ Object(a[i]).kind = kind
    BY <1>1 DEF HandlesOf
  <1> QED
    BY <1>2, <1>3 DEF Arrays

(* Arrays of handles of the right kinds, each passed once, are such parts.  *)
LEMMA ArraysFit ==
    ASSUME WellFormed(mem, handles, created), NEW kind \in Kind, NEW arrays,
           DOMAIN arrays = DOMAIN ListKinds[kind],
           \A l \in DOMAIN arrays : arrays[l] \in Arrays(ListKinds[kind][l]),
           PassedOnce(arrays)
    PROVE  /\ Fits(mem, kind, Taken(arrays), Entries(arrays))
           /\ Entries(arrays) \in SUBSET handles
  <1> DEFINE taken == Taken(arrays)
  <1>1. DOMAIN taken = DOMAIN arrays
    BY DEF Taken
  <1>2. ASSUME NEW l \in DOMAIN arrays
        PROVE  /\ DOMAIN taken[l] = DOMAIN arrays[l]
               /\ Sequence(taken[l])
    <2>1. PICK n \in Nat : DOMAIN arrays[l] = 1 .. n
      BY ArrayIs
    <2>2. taken[l] = [ i \in 1 .. n |-> [ Object(arrays[l][i]) EXCEPT !.passed_for = l ] ]
      BY <2>1 DEF Taken
    <2> HIDE DEF taken
    <2>3. taken[l] = [ i \in 1 .. n |-> taken[l][i] ]
      BY <2>2
    <2> QED
      BY <2>1, <2>3, SequenceMade
  <1>3. ASSUME NEW l \in DOMAIN arrays, NEW i \in DOMAIN arrays[l]
        PROVE  /\ arrays[l][i] \in Entries(arrays)
               /\ arrays[l][i] \in handles
               /\ IsObjectOf(taken[l][i], mem, arrays[l][i])
               /\ mem[arrays[l][i]][1].kind = ListKinds[kind][l]
               /\ taken[l][i].id = arrays[l][i][1]
    <2>1. arrays[l][i] \in Entries(arrays)
      BY DEF Entries
    <2>2. arrays[l][i] \in handles /\ mem[arrays[l][i]][1].kind = ListKinds[kind][l]
      BY ArrayIs DEF Object
    <2>3. taken[l][i] = [ mem[arrays[l][i]][1] EXCEPT !.passed_for = l ]
      BY DEF Taken, Object
    <2>4. IsObjectOf(taken[l][i], mem, arrays[l][i])
      BY <2>3 DEF IsObjectOf
    <2>5. mem[arrays[l][i]][1].id = arrays[l][i][1] /\ DOMAIN mem[arrays[l][i]][1] = Fields
      BY <2>2, HandleIs DEF ObjectInv
    <2> HIDE DEF taken
    <2>6. taken[l][i].id = arrays[l][i][1]
      BY <2>4, <2>5, ObjectOfIs
    <2> QED
      BY <2>1, <2>2, <2>4, <2>6
  <1> HIDE DEF taken
  <1>4. ASSUME NEW k \in DOMAIN arrays, NEW l \in DOMAIN arrays,
               NEW i \in DOMAIN arrays[k], NEW j \in DOMAIN arrays[l],
               taken[k][i].id = taken[l][j].id
        PROVE  k = l /\ i = j
    <2>1. arrays[k][i][1] = arrays[l][j][1]
      BY <1>3, <1>4
    <2>2. arrays[k][i] = Self(arrays[k][i][1])
      BY <1>3, HandleIs
    <2>3. arrays[l][j] = Self(arrays[l][j][1])
      BY <1>3, HandleIs
    <2>4. arrays[k][i] = arrays[l][j]
      BY <2>1, <2>2, <2>3
    <2>5. k = l
      BY <2>4 DEF PassedOnce
    <2> QED
      BY <2>4, <2>5, ArrayIs
  <1>5. ASSUME NEW g \in Entries(arrays)
        PROVE  \E l \in DOMAIN arrays : \E i \in DOMAIN arrays[l] : arrays[l][i] = g
    BY DEF Entries
  <1>6. Entries(arrays) \subseteq handles
    BY <1>3, <1>5
  <1>7. \A g \in Entries(arrays) :
          \E l \in DOMAIN taken : \E i \in DOMAIN taken[l] : IsObjectOf(taken[l][i], mem, g)
    BY <1>1, <1>2, <1>3, <1>5
  <1>8. Fits(mem, kind, taken, Entries(arrays))
    <2>1. \A l \in DOMAIN taken :
            /\ Sequence(taken[l])
            /\ \A i \in DOMAIN taken[l] :
                 \E g \in Entries(arrays) : /\ IsObjectOf(taken[l][i], mem, g)
                                            /\ mem[g][1].kind = ListKinds[kind][l]
      BY <1>1, <1>2, <1>3
    <2>2. \A k, l \in DOMAIN taken : \A i \in DOMAIN taken[k], j \in DOMAIN taken[l] :
            taken[k][i].id = taken[l][j].id => k = l /\ i = j
      BY <1>1, <1>2, <1>4
    <2> QED
      BY <1>1, <1>7, <2>1, <2>2 DEF Fits
  <1> QED
    BY <1>6, <1>8 DEF taken

(* Objects without lists can be taken into members held by value. *)
LEMMA FitsWithMembers ==
    ASSUME NEW m, NEW kind, NEW contents, NEW freed, Fits(m, kind, contents, freed),
           NEW members, \A g \in members : DOMAIN ListKinds[m[g][1].kind] = {}
    PROVE  Fits(m, kind, contents, freed \cup members)
  <1>1. \A l \in DOMAIN contents :
          /\ Sequence(contents[l])
          /\ \A i \in DOMAIN contents[l] :
               \E g \in freed \cup members :
                  /\ IsObjectOf(contents[l][i], m, g)
                  /\ m[g][1].kind = ListKinds[kind][l]
    BY DEF Fits
  <1>2. \A g \in freed \cup members :
          \/ \E l \in DOMAIN contents : \E i \in DOMAIN contents[l] :
               IsObjectOf(contents[l][i], m, g)
          \/ DOMAIN ListKinds[m[g][1].kind] = {}
    BY DEF Fits
  <1> QED
    BY <1>1, <1>2 DEF Fits

(* Other objects than networks have one list of a kind at most. *)
LEMMA KindsApart ==
    ASSUME NEW kind \in Kind, kind # "Network", NEW arrays,
           DOMAIN arrays = DOMAIN ListKinds[kind],
           \A l \in DOMAIN arrays : arrays[l] \in Arrays(ListKinds[kind][l])
    PROVE  PassedOnce(arrays)
  <1>1. ASSUME NEW k \in DOMAIN ListKinds[kind], NEW l \in DOMAIN ListKinds[kind],
               ListKinds[kind][k] = ListKinds[kind][l]
        PROVE  k = l
    BY <1>1 DEF Kind, ListKinds, NoLists
  <1>2. ASSUME NEW k \in DOMAIN arrays, NEW l \in DOMAIN arrays,
               NEW i \in DOMAIN arrays[k], NEW j \in DOMAIN arrays[l],
               arrays[k][i] = arrays[l][j]
        PROVE  k = l
    <2>1. Object(arrays[k][i]).kind = ListKinds[kind][k]
      BY ArrayIs
    <2>2. Object(arrays[l][j]).kind = ListKinds[kind][l]
      BY ArrayIs
    <2> QED
      BY <1>1, <1>2, <2>1, <2>2
  <1> QED
    BY <1>2 DEF PassedOnce

(* Whatever is in some lists is in the others. *)
Covers(contents, taken) ==
    \A l \in DOMAIN taken : \A i \in DOMAIN taken[l] :
        \E k \in DOMAIN contents : \E j \in DOMAIN contents[k] :
            contents[k][j] = taken[l][i]

(* The attribute values of a network go behind its defaults. *)
LEMMA NetworkFits ==
    ASSUME NEW m, NEW taken, NEW freed, Fits(m, "Network", taken, freed),
           NEW contents,
           DOMAIN contents = DOMAIN taken,
           contents.attribute_defaults
             = taken.attribute_defaults \o taken.attribute_values,
           contents.attribute_values = << >>,
           \A l \in DOMAIN taken \ {"attribute_defaults", "attribute_values"} :
              contents[l] = taken[l]
    PROVE  Fits(m, "Network", contents, freed) /\ Covers(contents, taken)
  <1> DEFINE d == "attribute_defaults"
             v == "attribute_values"
  <1>1. /\ DOMAIN taken = DOMAIN ListKinds["Network"]
        /\ d \in DOMAIN taken /\ v \in DOMAIN taken /\ d # v
        /\ ListKinds["Network"][d] = ListKinds["Network"][v]
    BY DEF Fits, ListKinds
  <1>2. /\ DOMAIN contents = DOMAIN taken
        /\ contents[d] = taken[d] \o taken[v]
        /\ contents[v] = << >>
        /\ \A l \in DOMAIN taken : l # d /\ l # v => contents[l] = taken[l]
    BY <1>1
  <1> HIDE DEF d, v
  <1>3. Sequence(taken[d]) /\ Sequence(taken[v])
    BY <1>1 DEF Fits
  <1>4. /\ Sequence(contents[d])
        /\ \A i \in DOMAIN taken[d] : contents[d][i] = taken[d][i]
        /\ \A i \in DOMAIN taken[v] : contents[d][Len(taken[d]) + i] = taken[v][i]
        /\ \A i \in DOMAIN contents[d] \ DOMAIN taken[d] :
             /\ i - Len(taken[d]) \in DOMAIN taken[v]
             /\ contents[d][i] = taken[v][i - Len(taken[d])]
        /\ DOMAIN contents[d] = 1 .. Len(taken[d]) + Len(taken[v])
    <2> DEFINE own == taken[d]
               others == taken[v]
    <2>1. contents[d] = own \o others /\ Sequence(own) /\ Sequence(others)
      BY <1>2, <1>3
    <2> HIDE DEF own, others
    <2>2. /\ Sequence(own \o others)
          /\ DOMAIN (own \o others) = 1 .. Len(own) + Len(others)
          /\ \A i \in DOMAIN own : (own \o others)[i] = own[i]
          /\ \A i \in DOMAIN others : (own \o others)[Len(own) + i] = others[i]
          /\ \A i \in DOMAIN (own \o others) \ DOMAIN own :
               /\ i - Len(own) \in DOMAIN others
               /\ (own \o others)[i] = others[i - Len(own)]
      BY <2>1, SequenceConcat, Zenon
    <2> QED
      BY <2>1, <2>2, Zenon DEF own, others
  <1>5. /\ Len(taken[d]) \in Nat /\ DOMAIN taken[d] = 1 .. Len(taken[d])
        /\ Len(taken[v]) \in Nat /\ DOMAIN taken[v] = 1 .. Len(taken[v])
    BY <1>3, SequenceDomain
  <1>6. DOMAIN contents[v] = {} /\ Sequence(contents[v])
    <2>1. << >> \in Seq({})
      OBVIOUS
    <2>2. Sequence(contents[v])
      BY <1>2, <2>1, SequenceIs
    <2> QED
      BY <1>2, <2>2
  \* Where an object of the contents was taken from.
  <1>7. ASSUME NEW l \in DOMAIN contents, NEW i \in DOMAIN contents[l]
        PROVE  \/ l # v /\ i \in DOMAIN taken[l] /\ contents[l][i] = taken[l][i]
               \/ /\ l = d /\ i \notin DOMAIN taken[d]
                  /\ i - Len(taken[d]) \in DOMAIN taken[v]
                  /\ contents[l][i] = taken[v][i - Len(taken[d])]
    BY <1>1, <1>2, <1>4, <1>6
  <1>8. ASSUME NEW l \in DOMAIN contents
        PROVE  /\ Sequence(contents[l])
               /\ \A i \in DOMAIN contents[l] :
                    \E g \in freed : /\ IsObjectOf(contents[l][i], m, g)
                                     /\ m[g][1].kind = ListKinds["Network"][l]
    <2>1. Sequence(contents[l])
      BY <1>2, <1>4, <1>6 DEF Fits
    <2>2. ASSUME NEW i \in DOMAIN contents[l]
          PROVE  \E g \in freed : /\ IsObjectOf(contents[l][i], m, g)
                                  /\ m[g][1].kind = ListKinds["Network"][l]
      <3>1. CASE i \in DOMAIN taken[l] /\ contents[l][i] = taken[l][i]
        BY <3>1, <1>2 DEF Fits
      <3>2. CASE /\ l = d /\ i - Len(taken[d]) \in DOMAIN taken[v]
                 /\ contents[l][i] = taken[v][i - Len(taken[d])]
        <4>1. PICK g \in freed : /\ IsObjectOf(taken[v][i - Len(taken[d])], m, g)
                                 /\ m[g][1].kind = ListKinds["Network"][v]
          BY <3>2, <1>1 DEF Fits
        <4> QED
          BY <4>1, <3>2, <1>1
      <3> QED
        BY <3>1, <3>2, <1>7
    <2> QED
      BY <2>1, <2>2
  <1>9. \A k, l \in DOMAIN taken : \A i \in DOMAIN taken[k], j \in DOMAIN taken[l] :
          taken[k][i].id = taken[l][j].id => k = l /\ i = j
    BY DEF Fits
  <1>10. ASSUME NEW k \in DOMAIN contents, NEW l \in DOMAIN contents,
                NEW i \in DOMAIN contents[k], NEW j \in DOMAIN contents[l],
                contents[k][i].id = contents[l][j].id
         PROVE  k = l /\ i = j
    <2>1. CASE k # v /\ i \in DOMAIN taken[k] /\ contents[k][i] = taken[k][i]
      <3>1. CASE l # v /\ j \in DOMAIN taken[l] /\ contents[l][j] = taken[l][j]
        BY <2>1, <3>1, <1>2, <1>9, <1>10
      <3>2. CASE /\ l = d /\ j - Len(taken[d]) \in DOMAIN taken[v]
                 /\ contents[l][j] = taken[v][j - Len(taken[d])]
        <4>1. taken[k][i].id = taken[v][j - Len(taken[d])].id
          BY <2>1, <3>2, <1>10
        <4> QED
          BY <4>1, <2>1, <3>2, <1>1, <1>2, <1>9
      <3> QED
        BY <3>1, <3>2, <1>7
    <2>2. CASE /\ k = d /\ i \notin DOMAIN taken[d]
               /\ i - Len(taken[d]) \in DOMAIN taken[v]
               /\ contents[k][i] = taken[v][i - Len(taken[d])]
      <3>1. CASE l # v /\ j \in DOMAIN taken[l] /\ contents[l][j] = taken[l][j]
        <4>1. taken[v][i - Len(taken[d])].id = taken[l][j].id
          BY <2>2, <3>1, <1>10
        <4> QED
          BY <4>1, <2>2, <3>1, <1>1, <1>2, <1>9
      <3>2. CASE /\ l = d /\ j - Len(taken[d]) \in DOMAIN taken[v]
                 /\ contents[l][j] = taken[v][j - Len(taken[d])]
        <4>1. taken[v][i - Len(taken[d])].id = taken[v][j - Len(taken[d])].id
          BY <2>2, <3>2, <1>10
        <4>2. i - Len(taken[d]) = j - Len(taken[d])
          BY <4>1, <2>2, <3>2, <1>1, <1>9
        <4>3. i \in Nat /\ j \in Nat
          BY <2>2, <3>2, <1>4, <1>5
        <4> QED
          BY <4>2, <4>3, <1>5, <2>2, <3>2
      <3> QED
        BY <3>1, <3>2, <1>7
    <2> QED
      BY <2>1, <2>2, <1>7
  <1>11. ASSUME NEW l \in DOMAIN taken, NEW i \in DOMAIN taken[l]
         PROVE  \E k \in DOMAIN contents : \E j \in DOMAIN contents[k] :
                   contents[k][j] = taken[l][i]
    <2>1. CASE l = v
      <3>1. Len(taken[d]) + i \in DOMAIN contents[d]
        BY <2>1, <1>4, <1>5
      <3> QED
        BY <2>1, <3>1, <1>1, <1>2, <1>4
    <2>2. CASE l = d
      <3>1. i \in DOMAIN contents[d] /\ contents[d][i] = taken[d][i]
        BY <2>2, <1>4, <1>5
      <3> QED
        BY <2>2, <3>1, <1>1, <1>2
    <2>3. CASE l # v /\ l # d
      BY <2>3, <1>2
    <2> QED
      BY <2>1, <2>2, <2>3
  <1>12. ASSUME NEW g \in freed
         PROVE  \/ \E l \in DOMAIN contents : \E i \in DOMAIN contents[l] :
                     IsObjectOf(contents[l][i], m, g)
                \/ DOMAIN ListKinds[m[g][1].kind] = {}
    <2>1. \/ \E l \in DOMAIN taken : \E i \in DOMAIN taken[l] : IsObjectOf(taken[l][i], m, g)
          \/ DOMAIN ListKinds[m[g][1].kind] = {}
      BY DEF Fits
    <2> QED
      BY <2>1, <1>11
  <1>13. Fits(m, "Network", contents, freed)
    BY <1>1, <1>2, <1>8, <1>10, <1>12 DEF Fits
  <1> QED
    BY <1>11, <1>13 DEF Covers

(* What every Create function does: the objects of freed go into the lists  *)
(* of the new one, or are its members held by value.                        *)
MemberKind(kind) == IF kind = "Network" THEN "BitTiming" ELSE "SignalType"
Takes(kind, contents, members, freed) ==
    /\ members \subseteq freed /\ freed \subseteq handles
    /\ Fits(mem, kind, contents, freed)
    /\ \A g \in freed \ members :
         \E l \in DOMAIN contents : \E i \in DOMAIN contents[l] :
            IsObjectOf(contents[l][i], mem, g)
    /\ \A g \in members : Object(g).kind = MemberKind(kind)
    /\ members # {} => kind \in HasMember
CreateTaking(kind, contents, members, freed, indicator) ==
    /\ Takes(kind, contents, members, freed)
    /\ Create(kind, contents, freed, freed, { Object(g).id : g \in members }, indicator)

(* An object without parts takes none.                                      *)
LEMMA PlainTakes ==
    ASSUME NEW kind \in Kind, DOMAIN ListKinds[kind] = {}, Plain(kind)
    PROVE  CreateTaking(kind, NoLists, {}, {}, "NoMux")
  <1>1. DOMAIN NoLists = {}
    BY DEF NoLists
  <1>2. Takes(kind, NoLists, {}, {})
    BY <1>1 DEF Takes, Fits
  <1>3. { Object(g).id : g \in {} } = {}
    OBVIOUS
  <1> QED
    BY <1>2, <1>3 DEF CreateTaking, Plain

(* One with arrays takes the handles in them and its members.               *)
LEMMA ArraysTake ==
    ASSUME WellFormed(mem, handles, created), NEW kind \in Kind, NEW arrays,
           DOMAIN arrays = DOMAIN ListKinds[kind],
           \A l \in DOMAIN arrays : arrays[l] \in Arrays(ListKinds[kind][l]),
           PassedOnce(arrays),
           NEW members \in SUBSET handles, members # {} => kind \in HasMember,
           \A g \in members : Object(g).kind = MemberKind(kind)
    PROVE  Takes(kind, Taken(arrays), members, Entries(arrays) \cup members)
  <1>1. Fits(mem, kind, Taken(arrays), Entries(arrays)) /\ Entries(arrays) \in SUBSET handles
    BY ArraysFit
  <1>2. \A g \in members : DOMAIN ListKinds[mem[g][1].kind] = {}
    BY DEF Object, MemberKind, ListKinds, NoLists
  <1>3. Fits(mem, kind, Taken(arrays), Entries(arrays) \cup members)
    BY <1>1, <1>2, FitsWithMembers
  <1>4. ASSUME NEW g \in Entries(arrays)
        PROVE  \E l \in DOMAIN Taken(arrays) : \E i \in DOMAIN Taken(arrays)[l] :
                  IsObjectOf(Taken(arrays)[l][i], mem, g)
    <2>1. PICK l \in DOMAIN arrays : \E i \in DOMAIN arrays[l] : g = arrays[l][i]
      BY DEF Entries
    <2>2. PICK i \in DOMAIN arrays[l] : g = arrays[l][i]
      BY <2>1
    <2>3. /\ l \in DOMAIN Taken(arrays) /\ i \in DOMAIN Taken(arrays)[l]
          /\ Taken(arrays)[l][i] = [ mem[g][1] EXCEPT !.passed_for = l ]
      BY <2>2 DEF Taken, Object
    <2> QED
      BY <2>3 DEF IsObjectOf
  <1> QED
    BY <1>1, <1>3, <1>4 DEF Takes

(* The functions of the kinds that take arrays only. *)
LEMMA ArraysCreate ==
    ASSUME WellFormed(mem, handles, created), NEW kind \in Kind, kind # "Network",
           NEW arrays, DOMAIN arrays = DOMAIN ListKinds[kind],
           \A l \in DOMAIN arrays : arrays[l] \in Arrays(ListKinds[kind][l]),
           NEW indicator,
           Create(kind, Taken(arrays), Entries(arrays), Entries(arrays), {}, indicator)
    PROVE  CreateTaking(kind, Taken(arrays), {}, Entries(arrays), indicator)
  <1>1. PassedOnce(arrays)
    BY KindsApart
  <1>2. {} \in SUBSET handles /\ \A g \in {} : Object(g).kind = MemberKind(kind)
    OBVIOUS
  <1>3. Takes(kind, Taken(arrays), {}, Entries(arrays) \cup {})
    BY <1>1, <1>2, ArraysTake
  <1>4. { Object(g).id : g \in {} } = {} /\ Entries(arrays) \cup {} = Entries(arrays)
    OBVIOUS
  <1> QED
    BY <1>3, <1>4 DEF CreateTaking

(* Every dbcppp_*Create is one that takes well-formed parts.                *)
LEMMA CreatesTake ==
    ASSUME WellFormed(mem, handles, created), Creates
    PROVE  \E kind \in Kind : \E contents, members, freed, indicator :
              CreateTaking(kind, contents, members, freed, indicator)
  <1> DEFINE Goal == \E kind \in Kind : \E contents, members, freed, indicator :
                        CreateTaking(kind, contents, members, freed, indicator)
  <1>1. ASSUME NEW kind \in {"Attribute", "AttributeDefinition", "BitTiming", "SignalType",
                             "ValueEncodingDescription"}, Plain(kind)
        PROVE  Goal
    <2>1. kind \in Kind /\ DOMAIN ListKinds[kind] = {}
      BY DEF Kind, ListKinds, NoLists
    <2>2. CreateTaking(kind, NoLists, {}, {}, "NoMux")
      BY <1>1, <2>1, PlainTakes
    <2> QED
      BY <2>1, <2>2
  <1>2. ASSUME NEW veds \in Arrays("ValueEncodingDescription"), NEW avs \in Arrays("Attribute"),
               EnvironmentVariableCreate(veds, avs)
        PROVE  Goal
    <2> DEFINE arrays == [ value_encoding_descriptions |-> veds, attribute_values |-> avs ]
    <2>1. /\ "EnvironmentVariable" \in Kind
          /\ DOMAIN arrays = DOMAIN ListKinds["EnvironmentVariable"]
          /\ \A l \in DOMAIN arrays :
               arrays[l] \in Arrays(ListKinds["EnvironmentVariable"][l])
      BY DEF Kind, ListKinds
    <2>2. Create("EnvironmentVariable", Taken(arrays), Entries(arrays), Entries(arrays),
                 {}, "NoMux")
      BY <1>2 DEF EnvironmentVariableCreate
    <2> HIDE DEF arrays
    <2>3. CreateTaking("EnvironmentVariable", Taken(arrays), {}, Entries(arrays), "NoMux")
      BY <2>1, <2>2, ArraysCreate
    <2> QED
      BY <2>1, <2>3
  <1>3. ASSUME NEW veds \in Arrays("ValueEncodingDescription"), NEW avs \in Arrays("Attribute"),
               NEW indicator \in Indicators, SignalCreate(indicator, avs, veds)
        PROVE  Goal
    <2> DEFINE arrays == [ attribute_values |-> avs, value_encoding_descriptions |-> veds ]
    <2>1. /\ "Signal" \in Kind
          /\ DOMAIN arrays = DOMAIN ListKinds["Signal"]
          /\ \A l \in DOMAIN arrays : arrays[l] \in Arrays(ListKinds["Signal"][l])
      BY DEF Kind, ListKinds
    <2>2. Create("Signal", Taken(arrays), Entries(arrays), Entries(arrays), {}, indicator)
      BY <1>3 DEF SignalCreate
    <2> HIDE DEF arrays
    <2>3. CreateTaking("Signal", Taken(arrays), {}, Entries(arrays), indicator)
      BY <2>1, <2>2, ArraysCreate
    <2> QED
      BY <2>1, <2>3
  <1>4. ASSUME NEW ss \in Arrays("Signal"), NEW avs \in Arrays("Attribute"),
               MessageCreate(ss, avs)
        PROVE  Goal
    <2> DEFINE arrays == [ signals |-> ss, attribute_values |-> avs ]
    <2>1. /\ "Message" \in Kind
          /\ DOMAIN arrays = DOMAIN ListKinds["Message"]
          /\ \A l \in DOMAIN arrays : arrays[l] \in Arrays(ListKinds["Message"][l])
      BY DEF Kind, ListKinds
    <2>2. Create("Message", Taken(arrays), Entries(arrays), Entries(arrays), {}, "NoMux")
      BY <1>4 DEF MessageCreate
    <2> HIDE DEF arrays
    <2>3. CreateTaking("Message", Taken(arrays), {}, Entries(arrays), "NoMux")
      BY <2>1, <2>2, ArraysCreate
    <2> QED
      BY <2>1, <2>3
  <1>5. ASSUME NEW avs \in Arrays("Attribute"), NodeCreate(avs)
        PROVE  Goal
    <2> DEFINE arrays == [ attribute_values |-> avs ]
    <2>1. /\ "Node" \in Kind
          /\ DOMAIN arrays = DOMAIN ListKinds["Node"]
          /\ \A l \in DOMAIN arrays : arrays[l] \in Arrays(ListKinds["Node"][l])
      BY DEF Kind, ListKinds
    <2>2. Create("Node", Taken(arrays), Entries(arrays), Entries(arrays), {}, "NoMux")
      BY <1>5 DEF NodeCreate
    <2> HIDE DEF arrays
    <2>3. CreateTaking("Node", Taken(arrays), {}, Entries(arrays), "NoMux")
      BY <2>1, <2>2, ArraysCreate
    <2> QED
      BY <2>1, <2>3
  <1>6. ASSUME NEW veds \in Arrays("ValueEncodingDescription"),
               NEW st \in {{}} \cup { {h} : h \in HandlesOf("SignalType") },
               ValueTableCreate(st, veds)
        PROVE  Goal
    <2> DEFINE arrays == [ value_encoding_descriptions |-> veds ]
    <2>1. /\ "ValueTable" \in Kind
          /\ DOMAIN arrays = DOMAIN ListKinds["ValueTable"]
          /\ \A l \in DOMAIN arrays : arrays[l] \in Arrays(ListKinds["ValueTable"][l])
      BY DEF Kind, ListKinds
    <2>2. Create("ValueTable", Taken(arrays), Entries(arrays) \cup st, Entries(arrays) \cup st,
                 { Object(h).id : h \in st }, "NoMux")
      BY <1>6 DEF ValueTableCreate
    <2>3. st \in SUBSET handles /\ \A g \in st : Object(g).kind = MemberKind("ValueTable")
      BY DEF HandlesOf, MemberKind
    <2>7. "ValueTable" \in HasMember
      BY DEF HasMember
    <2> HIDE DEF arrays
    <2>4. PassedOnce(arrays)
      BY <2>1, KindsApart
    <2>5. Takes("ValueTable", Taken(arrays), st, Entries(arrays) \cup st)
      BY <2>1, <2>3, <2>4, <2>7, ArraysTake
    <2>6. CreateTaking("ValueTable", Taken(arrays), st, Entries(arrays) \cup st, "NoMux")
      BY <2>2, <2>5 DEF CreateTaking
    <2> QED
      BY <2>1, <2>6
  <1>7. ASSUME NEW bt \in HandlesOf("BitTiming"), NEW arrays \in NetworkArrays,
               NetworkCreate(bt, arrays)
        PROVE  Goal
    <2> DEFINE taken    == Taken(arrays)
               contents == [ taken EXCEPT
                               !.attribute_defaults = @ \o taken.attribute_values,
                               !.attribute_values = << >> ]
               all      == Entries(arrays) \cup {bt}
    <2>1. /\ "Network" \in Kind
          /\ DOMAIN arrays = DOMAIN ListKinds["Network"]
          /\ \A l \in DOMAIN arrays : arrays[l] \in Arrays(ListKinds["Network"][l])
      BY DEF Kind, ListKinds, NetworkArrays
    <2>2. /\ PassedOnce(arrays)
          /\ Create("Network", contents, all, all, { Object(bt).id }, "NoMux")
      BY <1>7 DEF NetworkCreate
    <2>3. {bt} \in SUBSET handles /\ \A g \in {bt} : Object(g).kind = MemberKind("Network")
      BY DEF HandlesOf, MemberKind
    <2>9. "Network" \in HasMember
      BY DEF HasMember
    <2>4. Takes("Network", taken, {bt}, all)
      BY <2>1, <2>2, <2>3, <2>9, ArraysTake
    <2> HIDE DEF taken, all
    <2>8. /\ DOMAIN contents = DOMAIN taken
          /\ contents.attribute_defaults
               = taken.attribute_defaults \o taken.attribute_values
          /\ contents.attribute_values = << >>
          /\ \A l \in DOMAIN taken \ {"attribute_defaults", "attribute_values"} :
               contents[l] = taken[l]
      BY <2>4 DEF Takes, Fits, ListKinds
    <2> HIDE DEF contents
    <2>5. Takes("Network", contents, {bt}, all)
      <3>1. Fits(mem, "Network", contents, all) /\ Covers(contents, taken)
        <4>1. Fits(mem, "Network", taken, all)
          BY <2>4 DEF Takes
        <4> QED
          BY <4>1, <2>8, NetworkFits
      <3>2. ASSUME NEW g \in all \ {bt}
            PROVE  \E l \in DOMAIN contents : \E i \in DOMAIN contents[l] :
                      IsObjectOf(contents[l][i], mem, g)
        <4>1. PICK l \in DOMAIN taken : \E i \in DOMAIN taken[l] : IsObjectOf(taken[l][i], mem, g)
          BY <2>4 DEF Takes
        <4>2. PICK i \in DOMAIN taken[l] : IsObjectOf(taken[l][i], mem, g)
          BY <4>1
        <4>3. \E k \in DOMAIN contents : \E j \in DOMAIN contents[k] :
                 contents[k][j] = taken[l][i]
          BY <3>1 DEF Covers
        <4> QED
          BY <4>2, <4>3
      <3> QED
        BY <2>4, <3>1, <3>2 DEF Takes
    <2>6. { Object(g).id : g \in {bt} } = { Object(bt).id }
      OBVIOUS
    <2>7. CreateTaking("Network", contents, {bt}, all, "NoMux")
      BY <2>2, <2>5, <2>6 DEF CreateTaking, contents, taken
    <2> QED
      BY <2>1, <2>7
  <1>8. Goal
    <2> HIDE DEF Goal
    <2> QED
      BY <1>1, <1>2, <1>3, <1>4, <1>5, <1>6, <1>7
      DEF Creates, AttributeCreate, AttributeDefinitionCreate, BitTimingCreate,
          SignalTypeCreate, ValueEncodingDescriptionCreate
  <1> QED
    BY <1>8

(* So all of them keep the invariant.                                       *)
LEMMA CreatesKeepIInv ==
    ASSUME IInv, Creates
    PROVE  IInv'
  <1>1. WellFormed(mem, handles, created)
    BY DEF IInv
  <1>2. PICK kind, contents, members, freed, indicator :
          CreateTaking(kind, contents, members, freed, indicator)
    BY <1>1, CreatesTake
  <1>3. /\ freed \in SUBSET handles /\ members \subseteq handles
        /\ Fits(mem, kind, contents, freed)
        /\ Create(kind, contents, freed, freed, { Object(g).id : g \in members }, indicator)
    BY <1>2 DEF CreateTaking, Takes
  <1>4. { Object(g).id : g \in members } \in SUBSET (1 .. created)
    BY <1>1, <1>3, HandleIs DEF Object
  <1>5. kind \notin HasMember => { Object(g).id : g \in members } = {}
    BY <1>2 DEF CreateTaking, Takes
  <1> QED
    BY <1>3, <1>4, <1>5, CreateStep

-----------------------------------------------------------------------------
(* The tree at a handle: its blocks are closed under what is in them. *)
RankAtMost(m, S, k) == \A b \in S : \A i \in DOMAIN m[b] : Rank(m[b][i].kind) <= k

(* The parts of blocks are blocks in memory, none of them a handle.         *)
LEMMA PartsAre ==
    ASSUME NEW m, NEW hs, NEW n, WellFormed(m, hs, n), NEW S \in SUBSET DOMAIN m
    PROVE  /\ Parts(m, S) \subseteq DOMAIN m
           /\ Parts(m, S) \cap hs = {}
           /\ \A b \in Parts(m, S) : \E c \in S : \E i \in DOMAIN m[c] : b \in Blocks(m[c][i])
           /\ \A b \in S : \A i \in DOMAIN m[b] : Blocks(m[b][i]) \subseteq Parts(m, S)
  <1>1. ASSUME NEW b \in Parts(m, S)
        PROVE  \E c \in S : \E i \in DOMAIN m[c] : b \in Blocks(m[c][i])
    BY DEF Parts, Cells
  <1>2. ASSUME NEW b \in Parts(m, S)
        PROVE  b \in DOMAIN m /\ b \notin hs
    <2>1. PICK c \in S : \E i \in DOMAIN m[c] : b \in Blocks(m[c][i])
      BY <1>1
    <2>2. PICK i \in DOMAIN m[c] : b \in Blocks(m[c][i])
      BY <2>1
    <2>3. PICK l \in DOMAIN m[c][i].lists : b = m[c][i].lists[l]
      BY <2>2 DEF Blocks
    <2>4. b \in DOMAIN m /\ b[2] # "self"
      BY <2>3, BufferOf
    <2> QED
      BY <2>4, HandleIs
  <1>3. \A b \in S : \A i \in DOMAIN m[b] : Blocks(m[b][i]) \subseteq Parts(m, S)
    BY DEF Parts, Cells
  <1> QED
    BY <1>1, <1>2, <1>3

(* They are of a lower rank: going down ends.                               *)
LEMMA PartsRank ==
    ASSUME NEW m, NEW hs, NEW n, WellFormed(m, hs, n), NEW S \in SUBSET DOMAIN m,
           NEW k \in Nat, RankAtMost(m, S, k)
    PROVE  /\ k = 0 => Parts(m, S) = {}
           /\ k > 0 => RankAtMost(m, Parts(m, S), k - 1)
  <1>1. ASSUME NEW b \in Parts(m, S)
        PROVE  k > 0 /\ \A i \in DOMAIN m[b] : Rank(m[b][i].kind) <= k - 1
    <2>1. PICK c \in S : \E i \in DOMAIN m[c] : b \in Blocks(m[c][i])
      BY PartsAre
    <2>2. PICK i \in DOMAIN m[c] : b \in Blocks(m[c][i])
      BY <2>1
    <2>3. PICK l \in DOMAIN m[c][i].lists : b = m[c][i].lists[l]
      BY <2>2 DEF Blocks
    <2> DEFINE kind == m[c][i].kind
    <2>4. /\ kind \in Kind /\ l \in DOMAIN ListKinds[kind]
          /\ \A j \in DOMAIN m[b] : m[b][j].kind = ListKinds[kind][l]
      BY <2>3, BufferOf
    <2>5. Rank(kind) <= k
      BY <2>2 DEF RankAtMost
    <2> HIDE DEF kind
    <2>6. /\ Rank(kind) \in 1 .. 3 /\ Rank(ListKinds[kind][l]) \in Nat
          /\ Rank(ListKinds[kind][l]) < Rank(kind)
      BY <2>4, ListsOfKinds
    <2>7. k > 0 /\ Rank(ListKinds[kind][l]) <= k - 1
      BY <2>5, <2>6
    <2> QED
      BY <2>4, <2>7
  <1> QED
    BY <1>1 DEF RankAtMost

(* A set of blocks that is a tree at h. *)
IsTree(m, hs, h, R) ==
    /\ h \in R /\ R \subseteq DOMAIN m /\ R \cap hs = {h}
    /\ \A b \in R \ {h} : \E c \in R : \E i \in DOMAIN m[c] : b \in Blocks(m[c][i])
    /\ \A b \in R : \A i \in DOMAIN m[b] : Blocks(m[b][i]) \subseteq R

(* What a destructor takes along is the tree of the handle: nothing outside *)
(* points into it.                                                          *)
LEMMA ReachIsTree ==
    ASSUME NEW m, NEW hs, NEW n, WellFormed(m, hs, n), NEW h \in hs
    PROVE  IsTree(m, hs, h, Reach(m, h))
  <1> DEFINE zero  == {h}
             one   == Parts(m, zero)
             two   == Parts(m, one)
             three == Parts(m, two)
             R     == zero \cup one \cup two \cup three
  <1>1. R = Reach(m, h)
    BY DEF Reach
  <1> HIDE DEF R
  <1>2. zero \in SUBSET DOMAIN m /\ RankAtMost(m, zero, 3)
    <2>1. h \in DOMAIN m
      BY HandleIs
    <2>2. \A kind : Rank(kind) <= 3
      BY DEF Rank
    <2> QED
      BY <2>1, <2>2 DEF RankAtMost
  <1> HIDE DEF zero
  <1>3. one \in SUBSET DOMAIN m /\ RankAtMost(m, one, 2)
    BY <1>2, PartsAre, PartsRank
  <1> HIDE DEF one
  <1>4. two \in SUBSET DOMAIN m /\ RankAtMost(m, two, 1)
    BY <1>3, PartsAre, PartsRank
  <1> HIDE DEF two
  <1>5. three \in SUBSET DOMAIN m /\ RankAtMost(m, three, 0)
    BY <1>4, PartsAre, PartsRank
  <1> HIDE DEF three
  <1>6. Parts(m, three) = {}
    BY <1>5, PartsRank
  <1>7. /\ one \cap hs = {} /\ two \cap hs = {} /\ three \cap hs = {}
    BY <1>2, <1>3, <1>4, PartsAre DEF one, two, three
  <1>8. h \in R /\ R \subseteq DOMAIN m /\ R \cap hs = {h}
    BY <1>2, <1>3, <1>4, <1>5, <1>7 DEF R, zero
  <1>9. ASSUME NEW b \in R \ {h}
        PROVE  \E c \in R : \E i \in DOMAIN m[c] : b \in Blocks(m[c][i])
    <2>1. CASE b \in one
      BY <2>1, <1>2, PartsAre DEF one, R
    <2>2. CASE b \in two
      BY <2>2, <1>3, PartsAre DEF two, R
    <2>3. CASE b \in three
      BY <2>3, <1>4, PartsAre DEF three, R
    <2> QED
      BY <2>1, <2>2, <2>3 DEF R, zero
  <1>10. ASSUME NEW b \in R, NEW i \in DOMAIN m[b]
         PROVE  Blocks(m[b][i]) \subseteq R
    <2>1. CASE b \in zero
      BY <2>1, <1>2, PartsAre DEF one, R
    <2>2. CASE b \in one
      BY <2>2, <1>3, PartsAre DEF two, R
    <2>3. CASE b \in two
      BY <2>3, <1>4, PartsAre DEF three, R
    <2>4. CASE b \in three
      BY <2>4, <1>5, <1>6, PartsAre
    <2> QED
      BY <2>1, <2>2, <2>3, <2>4 DEF R
  <1>11. IsTree(m, hs, h, R)
    BY <1>8, <1>9, <1>10 DEF IsTree
  <1> QED
    BY <1>1, <1>11

(* Nothing outside a tree has a buffer in it. *)
LEMMA TreeApart ==
    ASSUME NEW m, NEW hs, NEW n, WellFormed(m, hs, n), NEW h, NEW R, IsTree(m, hs, h, R),
           NEW b \in DOMAIN m \ R, NEW i \in DOMAIN m[b]
    PROVE  Blocks(m[b][i]) \cap R = {}
  <1> SUFFICES ASSUME NEW d \in Blocks(m[b][i]), d \in R
               PROVE  FALSE
    OBVIOUS
  <1>1. PICK l \in DOMAIN m[b][i].lists : d = m[b][i].lists[l]
    BY DEF Blocks
  <1>2. d[2] # "self"
    BY <1>1, BufferOf
  <1>3. h \in hs
    BY DEF IsTree
  <1>4. d # h
    BY <1>2, <1>3, HandleIs
  <1>5. PICK c \in R : \E j \in DOMAIN m[c] : d \in Blocks(m[c][j])
    BY <1>4 DEF IsTree
  <1>6. PICK j \in DOMAIN m[c] : d \in Blocks(m[c][j])
    BY <1>5
  <1>7. c \in DOMAIN m
    BY DEF IsTree
  <1>8. b = c
    BY <1>6, <1>7, OneOwnerOf
  <1> QED
    BY <1>8

(* Without a whole tree memory is well-formed.                              *)
LEMMA FreeKeeps ==
    ASSUME NEW m, NEW hs, NEW n, WellFormed(m, hs, n), NEW h, NEW R, IsTree(m, hs, h, R)
    PROVE  WellFormed([ b \in DOMAIN m \ R |-> m[b] ], hs \ {h}, n)
  <1> DEFINE m2 == [ b \in DOMAIN m \ R |-> m[b] ]
  <1>1. /\ DOMAIN m2 = DOMAIN m \ R
        /\ \A b \in DOMAIN m \ R : m2[b] = m[b]
    OBVIOUS
  <1> HIDE DEF m2
  <1>2. ASSUME NEW b \in DOMAIN m2, NEW i \in DOMAIN m2[b], NEW l \in DOMAIN m[b][i].lists
        PROVE  /\ m[b][i].lists[l] \in DOMAIN m2
               /\ m2[m[b][i].lists[l]] = m[m[b][i].lists[l]]
    <2>1. m[b][i].lists[l] \in Blocks(m[b][i]) /\ i \in DOMAIN m[b]
      BY <1>1 DEF Blocks
    <2>2. m[b][i].lists[l] \in DOMAIN m
      BY <1>1, <2>1, BufferOf
    <2>3. m[b][i].lists[l] \notin R
      BY <1>1, <2>1, TreeApart
    <2> QED
      BY <1>1, <2>2, <2>3
  <1>3. BlocksInv(m2, n)
    BY <1>1 DEF WellFormed, BlocksInv
  <1>4. ObjectsInv(m2, n)
    <2> SUFFICES ASSUME NEW b \in DOMAIN m2, NEW i \in DOMAIN m2[b]
                 PROVE  ObjectInv(m2, n, m2[b][i])
      BY DEF ObjectsInv
    <2>1. m2[b][i] = m[b][i] /\ i \in DOMAIN m[b] /\ b \in DOMAIN m
      BY <1>1
    <2>2. ObjectInv(m, n, m[b][i])
      BY <2>1 DEF WellFormed, ObjectsInv
    <2> QED
      BY <2>1, <2>2, <1>2 DEF ObjectInv
  <1>5. HandlesInv(m2, hs \ {h})
    <2>1. ASSUME NEW b \in DOMAIN m2, b[2] = "self"
          PROVE  b \in hs \ {h}
      BY <2>1, <1>1 DEF WellFormed, HandlesInv, IsTree
    <2>2. ASSUME NEW g \in hs \ {h}
          PROVE  g \in DOMAIN m2 /\ g = Self(g[1]) /\ Len(m2[g]) = 1 /\ m2[g][1].id = g[1]
      <3>1. g \notin R
        BY DEF IsTree
      <3>2. g \in DOMAIN m /\ g = Self(g[1]) /\ Len(m[g]) = 1 /\ m[g][1].id = g[1]
        BY DEF WellFormed, HandlesInv
      <3> QED
        BY <3>1, <3>2, <1>1
    <2> QED
      BY <2>1, <2>2 DEF HandlesInv
  <1>6. NumbersInv(m2)
    <2>1. NumbersInv(m)
      BY DEF WellFormed
    <2> QED
      BY <2>1, <1>1 DEF NumbersInv
  <1>7. OwnedInv(m2)
    <2> SUFFICES ASSUME NEW b \in DOMAIN m2, b[2] # "self"
                 PROVE  \E c \in DOMAIN m2 : \E i \in DOMAIN m2[c] : b \in Blocks(m2[c][i])
      BY DEF OwnedInv
    <2>1. PICK c \in DOMAIN m : \E i \in DOMAIN m[c] : b \in Blocks(m[c][i])
      BY <1>1 DEF WellFormed, OwnedInv
    <2>2. c \notin R
      BY <2>1, <1>1, Zenon DEF IsTree
    <2> QED
      BY <2>1, <2>2, <1>1
  <1>8. MessagesInv(m2)
    <2> SUFFICES ASSUME NEW b \in DOMAIN m2, NEW i \in DOMAIN m2[b], m2[b][i].kind = "Message"
                 PROVE  MuxInv(m2, m2[b][i])
      BY DEF MessagesInv
    <2>1. m2[b][i] = m[b][i] /\ i \in DOMAIN m[b] /\ b \in DOMAIN m
      BY <1>1
    <2>2. "signals" \in DOMAIN m[b][i].lists
      <3>1. DOMAIN m[b][i].lists = DOMAIN ListKinds["Message"]
        BY <2>1 DEF WellFormed, ObjectsInv, ObjectInv
      <3> QED
        BY <3>1, ListsOfMessages
    <2>3. m2[m[b][i].lists.signals] = m[m[b][i].lists.signals]
      BY <2>2, <1>2
    <2>4. MuxInv(m, m[b][i])
      BY <2>1 DEF WellFormed, MessagesInv
    <2> QED
      BY <2>1, <2>3, <2>4 DEF MuxInv
  <1>9. WellFormed(m2, hs \ {h}, n)
    BY <1>3, <1>4, <1>5, <1>6, <1>7, <1>8 DEF WellFormed
  <1> QED
    BY <1>9 DEF m2

(* So Free keeps the invariant.                                             *)
LEMMA FreeKeepsIInv ==
    ASSUME IInv, NEW h \in handles, Free(h)
    PROVE  IInv'
  <1>1. WellFormed(mem, handles, created) /\ created \in 0 .. MaxObjects
    BY DEF IInv
  <1>2. IsTree(mem, handles, h, Reach(mem, h))
    BY <1>1, ReachIsTree
  <1>3. /\ mem' = [ b \in DOMAIN mem \ Reach(mem, h) |-> mem[b] ]
        /\ handles' = handles \ {h} /\ created' = created
    BY DEF Free
  <1>4. WellFormed(mem', handles', created')
    BY <1>1, <1>2, <1>3, FreeKeeps
  <1> QED
    BY <1>1, <1>3, <1>4 DEF IInv

-----------------------------------------------------------------------------
(* Clone: the copies have numbers of their own. *)
LEMMA FreshNumbers ==
    ASSUME NEW n \in Nat, NEW ids \in SUBSET (1 .. n), NEW fresh,
           fresh = [ i \in ids |-> n + Cardinality({ j \in ids : j <= i }) ]
    PROVE  /\ Cardinality(ids) \in Nat
           /\ \A i \in ids : fresh[i] \in (n + 1) .. (n + Cardinality(ids))
           /\ \A i, j \in ids : fresh[i] = fresh[j] => i = j
  <1> DEFINE UpTo(i) == { j \in ids : j <= i }
  <1>1. IsFiniteSet(ids) /\ Cardinality(ids) \in Nat
    <2>1. IsFiniteSet(1 .. n)
      BY FS_Interval
    <2> QED
      BY <2>1, FS_Subset, FS_CardinalityType
  <1>2. ASSUME NEW i \in ids
        PROVE  /\ IsFiniteSet(UpTo(i)) /\ Cardinality(UpTo(i)) \in Nat
               /\ Cardinality(UpTo(i)) \in 1 .. Cardinality(ids)
    <2>1. UpTo(i) \in SUBSET ids /\ i \in UpTo(i)
      OBVIOUS
    <2> HIDE DEF UpTo
    <2>2. /\ IsFiniteSet(UpTo(i)) /\ Cardinality(UpTo(i)) \in Nat
          /\ Cardinality(UpTo(i)) <= Cardinality(ids)
      BY <1>1, <2>1, FS_Subset, FS_CardinalityType
    <2>3. Cardinality(UpTo(i)) # 0
      BY <2>1, <2>2, FS_EmptySet
    <2> QED
      BY <1>1, <2>2, <2>3
  <1>3. ASSUME NEW i \in ids, NEW j \in ids, i < j
        PROVE  Cardinality(UpTo(i)) < Cardinality(UpTo(j))
    <2>1. i \in Nat /\ j \in Nat
      OBVIOUS
    <2>2. UpTo(i) \in SUBSET UpTo(j) /\ j \in UpTo(j) /\ j \notin UpTo(i)
      <3>1. \A k \in ids : k \in Nat
        OBVIOUS
      <3>2. \A k \in ids : k <= i => k <= j
        BY <1>3, <2>1, <3>1
      <3>3. j <= j /\ ~ (j <= i)
        BY <1>3, <2>1
      <3> QED
        BY <3>2, <3>3, Zenon
    <2>3. UpTo(i) # UpTo(j)
      BY <2>2
    <2> HIDE DEF UpTo
    <2>4. /\ Cardinality(UpTo(i)) <= Cardinality(UpTo(j))
          /\ Cardinality(UpTo(i)) # Cardinality(UpTo(j))
      BY <1>2, <2>2, <2>3, FS_Subset
    <2>5. Cardinality(UpTo(i)) \in Nat /\ Cardinality(UpTo(j)) \in Nat
      BY <1>2
    <2> QED
      BY <2>4, <2>5
  <1>4. \A i \in ids : fresh[i] = n + Cardinality(UpTo(i))
    OBVIOUS
  <1> HIDE DEF UpTo
  <1>5. ASSUME NEW i \in ids
        PROVE  fresh[i] \in (n + 1) .. (n + Cardinality(ids))
    BY <1>1, <1>2, <1>4
  <1>6. ASSUME NEW i \in ids, NEW j \in ids, fresh[i] = fresh[j]
        PROVE  i = j
    <2>1. Cardinality(UpTo(i)) = Cardinality(UpTo(j))
      <3>1. Cardinality(UpTo(i)) \in Nat /\ Cardinality(UpTo(j)) \in Nat
        BY <1>2
      <3>2. n + Cardinality(UpTo(i)) = n + Cardinality(UpTo(j))
        BY <1>4, <1>6
      <3> QED
        BY <3>1, <3>2
    <2>2. ~ (i < j) /\ ~ (j < i)
      BY <1>2, <1>3, <2>1
    <2>3. i \in Nat /\ j \in Nat
      OBVIOUS
    <2> QED
      BY <2>2, <2>3
  <1> QED
    BY <1>1, <1>5, <1>6

(* Numbers for copies that are neither taken nor given twice. *)
Numbers(fresh, ids, n, n2) ==
    /\ n2 \in Nat /\ n <= n2
    /\ \A i \in ids : fresh[i] \in (n + 1) .. n2
    /\ \A i, j \in ids : fresh[i] = fresh[j] => i = j

(* The copy of a tree has a block for every one of the tree. *)
IsCopy(copy, m, R, fresh) ==
    /\ DOMAIN copy = { CopyName(fresh, b) : b \in R }
    /\ \A b, c \in R : CopyName(fresh, b) = CopyName(fresh, c) => b = c
    /\ \A b \in R : copy[CopyName(fresh, b)]
                      = [ i \in DOMAIN m[b] |-> CopiedObject(m, fresh, m[b][i]) ]

(* The numbers of the objects of a tree.                                    *)
LEMMA TreeIds ==
    ASSUME NEW m, NEW hs, NEW n, WellFormed(m, hs, n), NEW h, NEW R, IsTree(m, hs, h, R)
    PROVE  /\ Ids(m, R) \in SUBSET (1 .. n)
           /\ \A b \in R : b[1] \in Ids(m, R)
           /\ \A b \in R : \A i \in DOMAIN m[b] :
                m[b][i].id \in Ids(m, R) /\ m[b][i].inline \subseteq Ids(m, R)
  <1>1. ASSUME NEW b \in R, NEW i \in DOMAIN m[b]
        PROVE  /\ m[b][i].id \in Ids(m, R) /\ m[b][i].inline \subseteq Ids(m, R)
               /\ m[b][i].id \in 1 .. n /\ m[b][i].inline \subseteq 1 .. n
    <2>1. m[b][i].id \in Ids(m, R) /\ m[b][i].inline \subseteq Ids(m, R)
      BY DEF Ids, Cells
    <2>2. ObjectInv(m, n, m[b][i])
      BY DEF WellFormed, ObjectsInv, IsTree
    <2> QED
      BY <2>1, <2>2 DEF ObjectInv
  <1>2. ASSUME NEW x \in Ids(m, R)
        PROVE  x \in 1 .. n
    <2>1. PICK b \in R : \E i \in DOMAIN m[b] : x \in {m[b][i].id} \cup m[b][i].inline
      BY DEF Ids, Cells
    <2> QED
      BY <2>1, <1>1
  <1>3. ASSUME NEW b \in R
        PROVE  b[1] \in Ids(m, R)
    <2>1. CASE b = h
      <3>1. h \in hs /\ 1 \in DOMAIN m[h] /\ m[h][1].id = h[1]
        BY HandleIs DEF IsTree
      <3> QED
        BY <2>1, <3>1, <1>1
    <2>2. CASE b # h
      <3>1. PICK c \in R : \E i \in DOMAIN m[c] : b \in Blocks(m[c][i])
        BY <2>2 DEF IsTree
      <3>2. PICK i \in DOMAIN m[c] : b \in Blocks(m[c][i])
        BY <3>1
      <3>3. PICK l \in DOMAIN m[c][i].lists : b = m[c][i].lists[l]
        BY <3>2 DEF Blocks
      <3>4. b[1] = m[c][i].id
        BY <3>3, BufferOf DEF IsTree
      <3> QED
        BY <3>4, <1>1
    <2> QED
      BY <2>1, <2>2
  <1> QED
    BY <1>1, <1>2, <1>3

(* CopyTree copies every block of a tree under fresh numbers.               *)
LEMMA CopyTreeIs ==
    ASSUME NEW m, NEW hs, NEW n, WellFormed(m, hs, n), NEW h \in hs,
           NEW fresh, NEW n2, Numbers(fresh, Ids(m, Reach(m, h)), n, n2)
    PROVE  IsCopy(CopyTree(m, h, fresh), m, Reach(m, h), fresh)
  <1> DEFINE R    == Reach(m, h)
             copy == CopyTree(m, h, fresh)
  <1>1. IsTree(m, hs, h, R)
    BY ReachIsTree
  <1>2. ASSUME NEW b \in R, NEW c \in R, CopyName(fresh, b) = CopyName(fresh, c)
        PROVE  b = c
    <2>1. fresh[b[1]] = fresh[c[1]] /\ b[2] = c[2]
      BY <1>2 DEF CopyName
    <2>2. b[1] \in Ids(m, R) /\ c[1] \in Ids(m, R)
      BY <1>1, TreeIds
    <2>3. b[1] = c[1]
      BY <2>1, <2>2 DEF Numbers
    <2>4. b \in DOMAIN m /\ c \in DOMAIN m
      BY <1>1 DEF IsTree
    <2> QED
      BY <2>1, <2>3, <2>4, BlockName
  <1> DEFINE names  == { CopyName(fresh, b) : b \in R }
             Source == [ b \in names |-> CHOOSE c \in R : CopyName(fresh, c) = b ]
  <1>3. copy = [ b \in DOMAIN Source |->
                   [ i \in DOMAIN m[Source[b]] |-> CopiedObject(m, fresh, m[Source[b]][i]) ] ]
    BY DEF CopyTree
  <1> HIDE DEF R, copy
  <1>4. DOMAIN Source = names
    OBVIOUS
  <1>5. ASSUME NEW b \in R
        PROVE  CopyName(fresh, b) \in names /\ Source[CopyName(fresh, b)] = b
    <2>1. CopyName(fresh, b) \in names
      OBVIOUS
    <2>2. Source[CopyName(fresh, b)]
            = CHOOSE c \in R : CopyName(fresh, c) = CopyName(fresh, b)
      BY <2>1
    <2>3. \E c \in R : CopyName(fresh, c) = CopyName(fresh, b)
      OBVIOUS
    <2>4. (CHOOSE c \in R : CopyName(fresh, c) = CopyName(fresh, b)) = b
      BY <2>3, <1>2
    <2> QED
      BY <2>1, <2>2, <2>4
  <1> HIDE DEF Source
  <1>6. DOMAIN copy = names
    BY <1>3, <1>4
  <1>7. ASSUME NEW b \in R
        PROVE  copy[CopyName(fresh, b)]
                 = [ i \in DOMAIN m[b] |-> CopiedObject(m, fresh, m[b][i]) ]
    BY <1>3, <1>4, <1>5
  <1>8. IsCopy(copy, m, R, fresh)
    BY <1>2, <1>6, <1>7 DEF IsCopy
  <1> QED
    BY <1>8 DEF copy, R

(* A copied object has the copies of the parts, and its own switch.         *)
LEMMA CopiedObjectIs ==
    ASSUME NEW m, NEW fresh, NEW o, DOMAIN o = Fields
    PROVE  LET c == CopiedObject(m, fresh, o)
           IN  /\ DOMAIN c = Fields
               /\ c.kind = o.kind /\ c.indicator = o.indicator
               /\ c.error = o.error /\ c.passed_for = o.passed_for
               /\ c.id = fresh[o.id] /\ c.inline = { fresh[i] : i \in o.inline }
               /\ DOMAIN c.lists = DOMAIN o.lists
               /\ \A l \in DOMAIN o.lists : c.lists[l] = CopyName(fresh, o.lists[l])
               /\ o.kind = "Message" =>
                    c.mux = MuxSignal(c.lists.signals, m[o.lists.signals])
  <1> DEFINE lists == [ l \in DOMAIN o.lists |-> CopyName(fresh, o.lists[l]) ]
             mux   == CopiedMux(o, lists,
                                IF o.kind = "Message" THEN m[o.lists.signals] ELSE << >>)
             ids   == { fresh[i] : i \in o.inline }
             c     == [ o EXCEPT !.id = fresh[@], !.inline = ids, !.lists = lists, !.mux = mux ]
  <1>1. c = CopiedObject(m, fresh, o)
    BY DEF CopiedObject
  <1>2. /\ DOMAIN lists = DOMAIN o.lists
        /\ \A l \in DOMAIN o.lists : lists[l] = CopyName(fresh, o.lists[l])
    OBVIOUS
  <1>3. o.kind = "Message" => mux = MuxSignal(lists.signals, m[o.lists.signals])
    BY DEF CopiedMux
  <1> HIDE DEF lists, mux, ids
  <1>4. /\ DOMAIN c = Fields
        /\ c.kind = o.kind /\ c.indicator = o.indicator
        /\ c.error = o.error /\ c.passed_for = o.passed_for
        /\ c.id = fresh[o.id] /\ c.inline = ids /\ c.lists = lists /\ c.mux = mux
    BY DEF Fields
  <1> HIDE DEF c
  <1>5. /\ DOMAIN c = Fields
        /\ c.kind = o.kind /\ c.indicator = o.indicator
        /\ c.error = o.error /\ c.passed_for = o.passed_for
        /\ c.id = fresh[o.id] /\ c.inline = { fresh[i] : i \in o.inline }
        /\ DOMAIN c.lists = DOMAIN o.lists
        /\ \A l \in DOMAIN o.lists : c.lists[l] = CopyName(fresh, o.lists[l])
        /\ o.kind = "Message" => c.mux = MuxSignal(c.lists.signals, m[o.lists.signals])
    BY <1>2, <1>3, <1>4 DEF ids
  <1> QED
    BY <1>1, <1>5

(* The memory with the copy. *)
WithCopy(m, copy) ==
    [ b \in DOMAIN m \cup DOMAIN copy |-> IF b \in DOMAIN copy THEN copy[b] ELSE m[b] ]

(* With a copy of a whole tree memory is well-formed.                       *)
LEMMA CloneKeeps ==
    ASSUME NEW m, NEW hs, NEW n, WellFormed(m, hs, n), NEW h, NEW R, IsTree(m, hs, h, R),
           NEW fresh, NEW n2, Numbers(fresh, Ids(m, R), n, n2),
           NEW copy, IsCopy(copy, m, R, fresh)
    PROVE  WellFormed(WithCopy(m, copy), hs \cup { Self(fresh[h[1]]) }, n2)
  <1> DEFINE m2    == WithCopy(m, copy)
             hs2   == hs \cup { Self(fresh[h[1]]) }
             To(b) == CopyName(fresh, b)
  <1>1. n \in Nat /\ n2 \in Nat /\ n <= n2
    BY DEF WellFormed, Numbers
  <1>2. /\ R \subseteq DOMAIN m /\ h \in R /\ h \in hs
        /\ \A b \in R : b[1] \in Ids(m, R)
        /\ \A b \in R : \A i \in DOMAIN m[b] :
             m[b][i].id \in Ids(m, R) /\ m[b][i].inline \subseteq Ids(m, R)
    BY TreeIds DEF IsTree
  <1>3. /\ \A i \in Ids(m, R) : fresh[i] \in (n + 1) .. n2
        /\ \A i, j \in Ids(m, R) : fresh[i] = fresh[j] => i = j
    BY DEF Numbers
  <1>4. ASSUME NEW b \in R
        PROVE  /\ To(b) = << To(b)[1], To(b)[2], To(b)[3] >>
               /\ To(b)[1] = fresh[b[1]] /\ To(b)[2] = b[2] /\ To(b)[3] = 0
               /\ To(b)[1] \in (n + 1) .. n2
               /\ To(b) \notin DOMAIN m
    <2>1. /\ To(b) = << To(b)[1], To(b)[2], To(b)[3] >>
          /\ To(b)[1] = fresh[b[1]] /\ To(b)[2] = b[2] /\ To(b)[3] = 0
      BY DEF CopyName
    <2>2. To(b)[1] \in (n + 1) .. n2
      BY <2>1, <1>2, <1>3
    <2> HIDE DEF To
    <2>3. \A d \in DOMAIN m : d[1] \in 1 .. n
      BY DEF WellFormed, BlocksInv
    <2>4. To(b) \notin DOMAIN m
      BY <2>2, <2>3, <1>1
    <2> QED
      BY <2>1, <2>2, <2>4
  <1> HIDE DEF To, hs2
  <1>5. /\ DOMAIN copy = { To(b) : b \in R }
        /\ \A b, c \in R : To(b) = To(c) => b = c
        /\ \A b \in R : copy[To(b)] = [ i \in DOMAIN m[b] |-> CopiedObject(m, fresh, m[b][i]) ]
    BY DEF IsCopy, To
  <1>6. /\ DOMAIN m2 = DOMAIN m \cup { To(b) : b \in R }
        /\ \A b \in DOMAIN m : m2[b] = m[b]
        /\ \A b \in R : m2[To(b)] = [ i \in DOMAIN m[b] |-> CopiedObject(m, fresh, m[b][i]) ]
    <2>1. DOMAIN m2 = DOMAIN m \cup { To(b) : b \in R }
      BY <1>5 DEF WithCopy
    <2>2. ASSUME NEW b \in DOMAIN m
          PROVE  m2[b] = m[b]
      BY <1>4, <1>5 DEF WithCopy
    <2>3. ASSUME NEW b \in R
          PROVE  m2[To(b)] = [ i \in DOMAIN m[b] |-> CopiedObject(m, fresh, m[b][i]) ]
      BY <1>5 DEF WithCopy
    <2> QED
      BY <2>1, <2>2, <2>3
  <1> HIDE DEF m2
  \* The copy of an object of the tree.
  <1>7. ASSUME NEW b \in R, NEW i \in DOMAIN m[b]
        PROVE  LET o == m[b][i]
                   c == m2[To(b)][i]
               IN  /\ i \in DOMAIN m2[To(b)] /\ DOMAIN c = Fields
                   /\ c.kind = o.kind /\ c.indicator = o.indicator /\ c.error = o.error
                   /\ c.id = fresh[o.id] /\ c.inline = { fresh[j] : j \in o.inline }
                   /\ DOMAIN c.lists = DOMAIN o.lists
                   /\ \A l \in DOMAIN o.lists : c.lists[l] = To(o.lists[l])
                   /\ o.kind = "Message" =>
                        c.mux = MuxSignal(c.lists.signals, m[o.lists.signals])
    <2>1. DOMAIN m[b][i] = Fields
      BY <1>2 DEF WellFormed, ObjectsInv, ObjectInv
    <2>2. i \in DOMAIN m2[To(b)] /\ m2[To(b)][i] = CopiedObject(m, fresh, m[b][i])
      BY <1>6
    <2> QED
      BY <2>1, <2>2, CopiedObjectIs DEF To
  <1>8. ASSUME NEW b \in R
        PROVE  DOMAIN m2[To(b)] = DOMAIN m[b]
    BY <1>6
  <1>9. ASSUME NEW b \in R, NEW i \in DOMAIN m[b], NEW l \in DOMAIN m[b][i].lists
        PROVE  m[b][i].lists[l] \in R
    BY DEF IsTree, Blocks
  <1>10. BlocksInv(m2, n2)
    <2> SUFFICES ASSUME NEW b \in DOMAIN m2
                 PROVE  /\ b = << b[1], b[2], b[3] >> /\ b[1] \in 1 .. n2 /\ b[3] \in Nat
                        /\ Sequence(m2[b])
      BY DEF BlocksInv
    <2>1. CASE b \in DOMAIN m
      <3>1. /\ b = << b[1], b[2], b[3] >> /\ b[1] \in 1 .. n /\ b[3] \in Nat
            /\ Sequence(m[b])
        BY <2>1 DEF WellFormed, BlocksInv
      <3>2. b[1] \in 1 .. n2
        BY <3>1, <1>1
      <3> QED
        BY <3>1, <3>2, <2>1, <1>6
    <2>2. ASSUME NEW d \in R, b = To(d)
          PROVE  /\ b = << b[1], b[2], b[3] >> /\ b[1] \in 1 .. n2 /\ b[3] \in Nat
                 /\ Sequence(m2[b])
      <3>1. b = << b[1], b[2], b[3] >> /\ b[1] \in (n + 1) .. n2 /\ b[3] = 0
        BY <2>2, <1>4
      <3>2. b[1] \in 1 .. n2
        BY <3>1, <1>1
      <3>3. Len(m[d]) \in Nat /\ DOMAIN m[d] = 1 .. Len(m[d])
        BY <1>2, SequenceDomain DEF WellFormed, BlocksInv
      <3>4. m2[b] = [ i \in 1 .. Len(m[d]) |-> CopiedObject(m, fresh, m[d][i]) ]
        BY <2>2, <3>3, <1>6
      <3>5. m2[b] = [ i \in 1 .. Len(m[d]) |-> m2[b][i] ]
        BY <3>4
      <3>6. Sequence(m2[b])
        BY <3>3, <3>5, SequenceMade
      <3> QED
        BY <3>1, <3>2, <3>6
    <2> QED
      BY <2>1, <2>2, <1>6

  <1>11. ObjectsInv(m2, n2)
    <2>1. ASSUME NEW b \in DOMAIN m, NEW i \in DOMAIN m[b]
          PROVE  ObjectInv(m2, n2, m2[b][i])
      <3>1. ObjectInv(m, n, m[b][i])
        BY DEF WellFormed, ObjectsInv
      <3>2. m[b][i].id \in 1 .. n2 /\ m[b][i].inline \subseteq 1 .. n2
        BY <3>1, <1>1 DEF ObjectInv
      <3>3. \A l \in DOMAIN m[b][i].lists : m2[m[b][i].lists[l]] = m[m[b][i].lists[l]]
        BY <3>1, <1>6 DEF ObjectInv
      <3> QED
        BY <3>1, <3>2, <3>3, <1>6 DEF ObjectInv
    <2>2. ASSUME NEW b \in R, NEW i \in DOMAIN m[b]
          PROVE  ObjectInv(m2, n2, m2[To(b)][i])
      <3> DEFINE o == m[b][i]
                 c == m2[To(b)][i]
      <3>1. ObjectInv(m, n, o)
        BY <1>2 DEF WellFormed, ObjectsInv
      <3>2. /\ DOMAIN c = Fields /\ c.kind = o.kind
            /\ c.id = fresh[o.id] /\ c.inline = { fresh[j] : j \in o.inline }
            /\ DOMAIN c.lists = DOMAIN o.lists
            /\ \A l \in DOMAIN o.lists : c.lists[l] = To(o.lists[l])
        BY <1>7
      <3>3. o.id \in Ids(m, R) /\ o.inline \subseteq Ids(m, R)
        BY <1>2
      <3>4. \A l \in DOMAIN o.lists : o.lists[l] \in R
        BY <1>9
      <3> HIDE DEF o, c
      <3>5. c.id \in 1 .. n2 /\ c.inline \subseteq 1 .. n2
        <4>1. \A x \in Ids(m, R) : fresh[x] \in 1 .. n2
          BY <1>1, <1>3
        <4> QED
          BY <4>1, <3>2, <3>3
      <3>6. ASSUME NEW l \in DOMAIN c.lists
            PROVE  /\ c.lists[l] \in DOMAIN m2 /\ c.lists[l][1] = c.id /\ c.lists[l][2] = l
                   /\ \A j \in DOMAIN m2[c.lists[l]] :
                        m2[c.lists[l]][j].kind = ListKinds[c.kind][l]
        <4> DEFINE d == o.lists[l]
        <4>1. /\ l \in DOMAIN o.lists /\ d \in R /\ c.lists[l] = To(d)
              /\ d[1] = o.id /\ d[2] = l
              /\ \A j \in DOMAIN m[d] : m[d][j].kind = ListKinds[o.kind][l]
          BY <3>1, <3>2, <3>4 DEF ObjectInv
        <4> HIDE DEF d
        <4>2. To(d)[1] = fresh[d[1]] /\ To(d)[2] = d[2] /\ To(d) \in DOMAIN m2
          BY <4>1, <1>4, <1>6
        <4>3. \A j \in DOMAIN m2[To(d)] : m2[To(d)][j].kind = m[d][j].kind
          BY <4>1, <1>7, <1>8
        <4> QED
          BY <4>1, <4>2, <4>3, <3>2, <1>8
      <3>7. c.kind \in Kinds /\ DOMAIN c.lists = DOMAIN ListKinds[c.kind]
        BY <3>1, <3>2 DEF ObjectInv
      <3>8. c.kind \notin HasMember => c.inline = {}
        BY <3>1, <3>2 DEF ObjectInv
      <3>9. ObjectInv(m2, n2, c)
        BY <3>2, <3>5, <3>6, <3>7, <3>8 DEF ObjectInv
      <3> QED
        BY <3>9 DEF c
    <2> QED
      BY <2>1, <2>2, <1>6, <1>8 DEF ObjectsInv
  <1>12. HandlesInv(m2, hs2)
    <2>1. h = Self(h[1]) /\ h[2] = "self"
      BY <1>2, HandleIs
    <2>2. To(h) = Self(fresh[h[1]])
      BY <2>1 DEF To, CopyName, Self
    <2>3. ASSUME NEW b \in DOMAIN m2, b[2] = "self"
          PROVE  b \in hs2
      <3>1. CASE b \in DOMAIN m
        BY <2>3, <3>1 DEF WellFormed, HandlesInv, hs2
      <3>2. ASSUME NEW d \in R, b = To(d)
            PROVE  b \in hs2
        <4>1. d[2] = "self"
          BY <2>3, <3>2, <1>4
        <4>2. d \in hs
          BY <4>1, <1>2 DEF WellFormed, HandlesInv
        <4>3. d = h
          BY <4>2 DEF IsTree
        <4> QED
          BY <4>3, <3>2, <2>2 DEF hs2
      <3> QED
        BY <3>1, <3>2, <1>6
    <2>4. ASSUME NEW g \in hs2
          PROVE  g \in DOMAIN m2 /\ g = Self(g[1]) /\ Len(m2[g]) = 1 /\ m2[g][1].id = g[1]
      <3>1. CASE g \in hs
        BY <3>1, <1>6 DEF WellFormed, HandlesInv
      <3>2. CASE g = To(h)
        <4>1. g \in DOMAIN m2 /\ g[1] = fresh[h[1]] /\ g = Self(g[1])
          BY <3>2, <2>2, <1>2, <1>6 DEF Self
        <4>2. DOMAIN m[h] = {1} /\ m[h][1].id = h[1]
          BY <1>2, HandleIs
        <4>3. m2[g][1].id = g[1]
          BY <4>1, <4>2, <3>2, <1>2, <1>7
        <4>4. DOMAIN m2[g] = {1} /\ Sequence(m2[g])
          BY <4>1, <4>2, <3>2, <1>2, <1>8, <1>10 DEF BlocksInv
        <4>5. Len(m2[g]) \in Nat /\ 1 .. Len(m2[g]) = {1}
          BY <4>4, SequenceDomain
        <4>6. Len(m2[g]) = 1
          BY <4>5, OneNumber
        <4> QED
          BY <4>1, <4>3, <4>6
      <3> QED
        BY <3>1, <3>2, <2>2 DEF hs2
    <2> QED
      BY <2>3, <2>4 DEF HandlesInv
  <1>13. NumbersInv(m2)
    <2>1. NumbersInv(m)
      BY DEF WellFormed
    <2>2. ASSUME NEW b \in DOMAIN m, NEW i \in DOMAIN m[b], NEW c \in R, NEW j \in DOMAIN m[c]
          PROVE  m[b][i].id # m2[To(c)][j].id
      <3>1. m[b][i].id \in 1 .. n
        BY DEF WellFormed, ObjectsInv, ObjectInv
      <3>2. m2[To(c)][j].id \in (n + 1) .. n2
        BY <1>2, <1>3, <1>7
      <3> QED
        BY <3>1, <3>2, <1>1
    <2>3. ASSUME NEW b \in R, NEW i \in DOMAIN m[b], NEW c \in R, NEW j \in DOMAIN m[c],
                 m2[To(b)][i].id = m2[To(c)][j].id
          PROVE  b = c /\ i = j
      <3>1. fresh[m[b][i].id] = fresh[m[c][j].id]
        BY <2>3, <1>7
      <3>2. m[b][i].id = m[c][j].id
        BY <3>1, <1>2, <1>3
      <3>3. b \in DOMAIN m /\ c \in DOMAIN m
        BY <1>2
      <3> QED
        BY <3>2, <3>3, <2>1 DEF NumbersInv
    <2> SUFFICES ASSUME NEW b \in DOMAIN m2, NEW c \in DOMAIN m2,
                        NEW i \in DOMAIN m2[b], NEW j \in DOMAIN m2[c],
                        m2[b][i].id = m2[c][j].id
                 PROVE  b = c /\ i = j
      BY DEF NumbersInv
    <2>4. CASE b \in DOMAIN m /\ c \in DOMAIN m
      <3>1. m[b][i].id = m[c][j].id /\ i \in DOMAIN m[b] /\ j \in DOMAIN m[c]
        BY <2>4, <1>6
      <3> QED
        BY <2>4, <3>1, <2>1 DEF NumbersInv
    <2>5. ASSUME NEW d \in R, c = To(d), b \in DOMAIN m
          PROVE  b = c /\ i = j
      BY <2>2, <2>5, <1>6, <1>8
    <2>6. ASSUME NEW d \in R, b = To(d), c \in DOMAIN m
          PROVE  b = c /\ i = j
      BY <2>2, <2>6, <1>6, <1>8
    <2>7. ASSUME NEW d \in R, NEW e \in R, b = To(d), c = To(e)
          PROVE  b = c /\ i = j
      BY <2>3, <2>7, <1>8
    <2> QED
      BY <2>4, <2>5, <2>6, <2>7, <1>6
  <1>14. OwnedInv(m2)
    <2> SUFFICES ASSUME NEW b \in DOMAIN m2, b[2] # "self"
                 PROVE  \E c \in DOMAIN m2 : \E i \in DOMAIN m2[c] : b \in Blocks(m2[c][i])
      BY DEF OwnedInv
    <2>1. CASE b \in DOMAIN m
      <3>1. PICK c \in DOMAIN m : \E i \in DOMAIN m[c] : b \in Blocks(m[c][i])
        BY <2>1 DEF WellFormed, OwnedInv
      <3> QED
        BY <3>1, <1>6
    <2>2. ASSUME NEW d \in R, b = To(d)
          PROVE  \E c \in DOMAIN m2 : \E i \in DOMAIN m2[c] : b \in Blocks(m2[c][i])
      <3>1. d # h
        <4>1. d[2] # "self"
          BY <2>2, <1>4
        <4> QED
          BY <4>1, <1>2, HandleIs
      <3>2. PICK c \in R : \E i \in DOMAIN m[c] : d \in Blocks(m[c][i])
        BY <3>1 DEF IsTree
      <3>3. PICK i \in DOMAIN m[c] : d \in Blocks(m[c][i])
        BY <3>2
      <3>4. PICK l \in DOMAIN m[c][i].lists : d = m[c][i].lists[l]
        BY <3>3 DEF Blocks
      <3>5. /\ l \in DOMAIN m2[To(c)][i].lists /\ m2[To(c)][i].lists[l] = b
            /\ i \in DOMAIN m2[To(c)]
        BY <3>4, <2>2, <1>7
      <3>6. To(c) \in DOMAIN m2 /\ b \in Blocks(m2[To(c)][i])
        BY <3>5, <1>6 DEF Blocks
      <3> QED
        BY <3>5, <3>6
    <2> QED
      BY <2>1, <2>2, <1>6
  <1>15. MessagesInv(m2)
    <2>1. ASSUME NEW b \in DOMAIN m, NEW i \in DOMAIN m[b], m[b][i].kind = "Message"
          PROVE  MuxInv(m2, m[b][i])
      <3>1. "signals" \in DOMAIN m[b][i].lists
        BY <2>1, MessageLists
      <3>2. m2[m[b][i].lists.signals] = m[m[b][i].lists.signals]
        BY <3>1, <1>6, BufferOf
      <3>3. MuxInv(m, m[b][i])
        BY <2>1 DEF WellFormed, MessagesInv
      <3> QED
        BY <3>2, <3>3 DEF MuxInv
    <2>2. ASSUME NEW b \in R, NEW i \in DOMAIN m[b], m[b][i].kind = "Message"
          PROVE  MuxInv(m2, m2[To(b)][i])
      <3> DEFINE o       == m[b][i]
                 c       == m2[To(b)][i]
                 signals == m[o.lists.signals]
                 copies  == m2[c.lists.signals]
      <3>1. "signals" \in DOMAIN o.lists
        BY <2>2, <1>2, MessageLists
      <3>2. o.lists.signals \in R
        BY <3>1, <1>9
      <3>3. c.lists.signals = To(o.lists.signals) /\ c.error = o.error
              /\ c.mux = MuxSignal(c.lists.signals, signals)
        BY <3>1, <2>2, <1>7, Zenon
      <3>4. /\ DOMAIN copies = DOMAIN signals
            /\ \A j \in DOMAIN signals : copies[j].indicator = signals[j].indicator
        <4> DEFINE d == o.lists.signals
        <4>1. copies = m2[To(d)]
          BY <3>3
        <4>2. d \in R /\ signals = m[d]
          BY <3>2
        <4> HIDE DEF d, copies, signals
        <4>3. DOMAIN m2[To(d)] = DOMAIN m[d]
          BY <4>2, <1>8
        <4>4. \A j \in DOMAIN m[d] : m2[To(d)][j].indicator = m[d][j].indicator
          BY <4>2, <1>7, Zenon
        <4> QED
          BY <4>1, <4>2, <4>3, <4>4
      <3>5. Sequence(signals)
        BY <3>2, <1>2 DEF WellFormed, BlocksInv
      <3>6. MuxInv(m, o)
        BY <2>2, <1>2 DEF WellFormed, MessagesInv
      <3> HIDE DEF o, c, signals, copies
      <3>7. { j \in DOMAIN copies : copies[j].indicator = "MuxSwitch" }
              = { j \in DOMAIN signals : signals[j].indicator = "MuxSwitch" }
        BY <3>4
      <3>8. /\ c.mux = Null <=>
                 { j \in DOMAIN signals : signals[j].indicator = "MuxSwitch" } = {}
            /\ c.mux # Null =>
                 /\ c.mux[1] = c.lists.signals
                 /\ c.mux[2] \in { j \in DOMAIN signals : signals[j].indicator = "MuxSwitch" }
                 /\ \A j \in { k \in DOMAIN signals : signals[k].indicator = "MuxSwitch" } :
                      j <= c.mux[2]
        BY <3>3, <3>5, MuxComputed
      <3>9. c.error <=>
              /\ { j \in DOMAIN signals : signals[j].indicator = "MuxSwitch" } = {}
              /\ \E j \in DOMAIN signals : signals[j].indicator = "MuxValue"
        BY <3>3, <3>6 DEF MuxInv, signals
      <3>10. MuxInv(m2, c)
        BY <3>4, <3>7, <3>8, <3>9 DEF MuxInv, copies
      <3> QED
        BY <3>10 DEF c
    <2> SUFFICES ASSUME NEW b \in DOMAIN m2, NEW i \in DOMAIN m2[b], m2[b][i].kind = "Message"
                 PROVE  MuxInv(m2, m2[b][i])
      BY DEF MessagesInv
    <2>3. CASE b \in DOMAIN m
      BY <2>1, <2>3, <1>6
    <2>4. ASSUME NEW d \in R, b = To(d)
          PROVE  MuxInv(m2, m2[b][i])
      <3>1. i \in DOMAIN m[d] /\ m[d][i].kind = "Message"
        BY <2>4, <1>7, <1>8
      <3> QED
        BY <3>1, <2>2, <2>4
    <2> QED
      BY <2>3, <2>4, <1>6, Zenon
  <1>16. WellFormed(m2, hs2, n2)
    BY <1>1, <1>10, <1>11, <1>12, <1>13, <1>14, <1>15 DEF WellFormed
  <1> QED
    BY <1>16 DEF m2, hs2

(* Clone adds such a copy.                                                  *)
LEMMA CloneIs ==
    ASSUME IInv, NEW h \in handles, Clone(h)
    PROVE  \E fresh, copy :
             /\ Numbers(fresh, Ids(mem, Reach(mem, h)), created, created')
             /\ IsCopy(copy, mem, Reach(mem, h), fresh)
             /\ created' \in 0 .. MaxObjects
             /\ mem' = WithCopy(mem, copy)
             /\ handles' = handles \cup { Self(fresh[h[1]]) }
  <1> DEFINE R     == Reach(mem, h)
             ids   == Ids(mem, R)
             fresh == [ i \in ids |-> created + Cardinality({ j \in ids : j <= i }) ]
             copy  == CopyTree(mem, h, fresh)
  <1>1. /\ created + Cardinality(ids) <= MaxObjects
        /\ mem' = WithCopy(mem, copy)
        /\ handles' = handles \cup { Self(fresh[h[1]]) }
        /\ created' = created + Cardinality(ids)
    BY DEF Clone, WithCopy
  <1>2. WellFormed(mem, handles, created) /\ created \in Nat
    BY DEF IInv
  <1>3. IsTree(mem, handles, h, R)
    BY <1>2, ReachIsTree
  <1> HIDE DEF R, copy
  <1>4. ids \in SUBSET (1 .. created)
    BY <1>2, <1>3, TreeIds
  <1> HIDE DEF ids
  <1>5. /\ Cardinality(ids) \in Nat
        /\ \A i \in ids : fresh[i] \in (created + 1) .. (created + Cardinality(ids))
        /\ \A i, j \in ids : fresh[i] = fresh[j] => i = j
    BY <1>2, <1>4, FreshNumbers
  <1> HIDE DEF fresh
  <1>6. Numbers(fresh, ids, created, created')
    BY <1>1, <1>2, <1>5 DEF Numbers
  <1>7. IsCopy(copy, mem, R, fresh)
    BY <1>2, <1>6, CopyTreeIs DEF copy, R, ids
  <1>8. created' \in 0 .. MaxObjects
    BY <1>1, <1>2, <1>5, BoundsAssumption
  <1> QED
    BY <1>1, <1>6, <1>7, <1>8 DEF R, ids

(* So it keeps the invariant.                                               *)
LEMMA CloneKeepsIInv ==
    ASSUME IInv, NEW h \in handles, Clone(h)
    PROVE  IInv'
  <1>1. WellFormed(mem, handles, created)
    BY DEF IInv
  <1>2. IsTree(mem, handles, h, Reach(mem, h))
    BY <1>1, ReachIsTree
  <1>3. PICK fresh, copy :
          /\ Numbers(fresh, Ids(mem, Reach(mem, h)), created, created')
          /\ IsCopy(copy, mem, Reach(mem, h), fresh)
          /\ created' \in 0 .. MaxObjects
          /\ mem' = WithCopy(mem, copy)
          /\ handles' = handles \cup { Self(fresh[h[1]]) }
    BY CloneIs
  <1>4. WellFormed(mem', handles', created')
    BY <1>1, <1>2, <1>3, CloneKeeps
  <1> QED
    BY <1>3, <1>4 DEF IInv

-----------------------------------------------------------------------------
(* Merge: what the lists of a network are after it. home[l] is the buffer   *)
(* of list l then.                                                          *)
NetworkLists == DOMAIN ListKinds["Network"]
Gone(m, h, other) == {other} \cup Blocks(m[other][1]) \cup Blocks(m[h][1])
IsMerged(m2, m, h, other, home) ==
    LET network == m[h][1]
        old     == m[other][1]
    IN  /\ DOMAIN m2 = (DOMAIN m \ Gone(m, h, other)) \cup { home[l] : l \in NetworkLists }
        /\ m2[h] = << [ network EXCEPT !.lists = home ] >>
        /\ \A l \in NetworkLists :
             m2[home[l]] = m[network.lists[l]] \o m[old.lists[l]]
        /\ \A b \in DOMAIN m \ Gone(m, h, other) : b # h => m2[b] = m[b]

(* Two networks that can be merged, and a place for the lists of the one. *)
CanMerge(m, hs, h, other, home) ==
    /\ h \in hs /\ other \in hs /\ h # other
    /\ m[h][1].kind = "Network" /\ m[other][1].kind = "Network"
    /\ DOMAIN home = NetworkLists
    /\ \A l \in NetworkLists :
         home[l] \in { m[h][1].lists[l], Reallocated(m[h][1].lists[l]) }

(* The two networks of a merge, and where their lists are and will be.      *)
LEMMA MergeFacts ==
    ASSUME NEW m, NEW hs, NEW n, WellFormed(m, hs, n),
           NEW h, NEW other, NEW home, CanMerge(m, hs, h, other, home)
    PROVE  LET network == m[h][1]
               old     == m[other][1]
           IN  /\ h \in DOMAIN m \ Gone(m, h, other) /\ other \in DOMAIN m
               /\ DOMAIN m[h] = {1} /\ DOMAIN m[other] = {1}
               /\ network.id = h[1] /\ h = Self(h[1])
               /\ ObjectInv(m, n, network) /\ ObjectInv(m, n, old)
               /\ DOMAIN network.lists = NetworkLists /\ DOMAIN old.lists = NetworkLists
               /\ \A l \in NetworkLists :
                    /\ l # "self"
                    /\ network.lists[l] \in DOMAIN m /\ old.lists[l] \in DOMAIN m
                    /\ Sequence(m[network.lists[l]]) /\ Sequence(m[old.lists[l]])
                    /\ home[l][1] = h[1] /\ home[l][2] = l /\ home[l][3] \in Nat
                    /\ home[l] = << home[l][1], home[l][2], home[l][3] >>
                    /\ home[l] \notin DOMAIN m \ Gone(m, h, other)
               /\ \A g \in hs \ {other} : g \in DOMAIN m \ Gone(m, h, other)
  <1> DEFINE network == m[h][1]
             old     == m[other][1]
  <1>1. /\ h \in hs /\ other \in hs /\ h # other
        /\ network.kind = "Network" /\ old.kind = "Network"
        /\ \A l \in NetworkLists :
             home[l] \in { network.lists[l], Reallocated(network.lists[l]) }
    BY DEF CanMerge
  <1>2. /\ h \in DOMAIN m /\ other \in DOMAIN m
        /\ DOMAIN m[h] = {1} /\ DOMAIN m[other] = {1}
        /\ network.id = h[1] /\ h = Self(h[1])
        /\ ObjectInv(m, n, network) /\ ObjectInv(m, n, old)
    BY <1>1, HandleIs
  <1> HIDE DEF network, old
  <1>3. DOMAIN network.lists = NetworkLists /\ DOMAIN old.lists = NetworkLists
    BY <1>1, <1>2 DEF ObjectInv, NetworkLists
  <1>4. ASSUME NEW l \in NetworkLists
        PROVE  /\ l # "self"
               /\ network.lists[l] \in DOMAIN m /\ old.lists[l] \in DOMAIN m
               /\ network.lists[l][1] = h[1] /\ network.lists[l][2] = l
               /\ old.lists[l][2] = l
    <2>1. l # "self"
      BY ListsOfKinds, ListsOfMessages DEF NetworkLists
    <2> QED
      BY <2>1, <1>2, <1>3 DEF ObjectInv
  <1>5. ASSUME NEW g \in hs \ {other}
        PROVE  g \in DOMAIN m \ Gone(m, h, other)
    <2>1. g \in DOMAIN m /\ g[2] = "self"
      BY HandleIs
    <2>2. g \notin Blocks(network) /\ g \notin Blocks(old)
      BY <2>1, <1>3, <1>4 DEF Blocks
    <2> QED
      BY <2>1, <2>2 DEF Gone, network, old
  <1>6. ASSUME NEW l \in NetworkLists
        PROVE  /\ Sequence(m[network.lists[l]]) /\ Sequence(m[old.lists[l]])
               /\ home[l][1] = h[1] /\ home[l][2] = l /\ home[l][3] \in Nat
               /\ home[l] = << home[l][1], home[l][2], home[l][3] >>
    <2> DEFINE block == network.lists[l]
    <2>1. /\ block = << block[1], block[2], block[3] >> /\ block[3] \in Nat
          /\ block[1] = h[1] /\ block[2] = l
      BY <1>4 DEF WellFormed, BlocksInv
    <2> HIDE DEF block
    <2>2. /\ Reallocated(block)[1] = h[1] /\ Reallocated(block)[2] = l
          /\ Reallocated(block)[3] \in Nat
          /\ Reallocated(block) = << Reallocated(block)[1], Reallocated(block)[2],
                                     Reallocated(block)[3] >>
      BY <2>1 DEF Reallocated
    <2>3. home[l] = block \/ home[l] = Reallocated(block)
      BY <1>1 DEF block
    <2>4. Sequence(m[network.lists[l]]) /\ Sequence(m[old.lists[l]])
      BY <1>4 DEF WellFormed, BlocksInv
    <2> QED
      BY <2>1, <2>2, <2>3, <2>4
  <1>7. ASSUME NEW l \in NetworkLists, home[l] \in DOMAIN m
        PROVE  home[l] \in Gone(m, h, other)
    <2>1. home[l] = network.lists[l]
      BY <1>4, <1>6, <1>7, BlockName
    <2>2. home[l] \in Blocks(network)
      BY <2>1, <1>3 DEF Blocks
    <2> QED
      BY <2>2 DEF Gone, network
  <1> QED
    BY <1>1, <1>2, <1>3, <1>4, <1>5, <1>6, <1>7 DEF network, old

(* Where an object of the merged memory was before, and the other way       *)
(* round; each object has one place.                                        *)
Place(m, h, other, home, c, j, b, i) ==
    /\ c = h => b = h /\ i = 1
    /\ \A l \in NetworkLists : c = m[h][1].lists[l] => b = home[l] /\ i = j
    /\ \A l \in NetworkLists :
         c = m[other][1].lists[l] => b = home[l] /\ i = Len(m[m[h][1].lists[l]]) + j
    /\ c \notin Gone(m, h, other) => b = c /\ i = j

(* Their lists are all in different blocks.                                 *)
LEMMA MergeApart ==
    ASSUME NEW m, NEW hs, NEW n, WellFormed(m, hs, n),
           NEW h, NEW other, NEW home, CanMerge(m, hs, h, other, home),
           NEW k \in NetworkLists, NEW l \in NetworkLists
    PROVE  /\ m[h][1].lists[k] # m[other][1].lists[l]
           /\ m[h][1].lists[k] = m[h][1].lists[l] => k = l
           /\ m[other][1].lists[k] = m[other][1].lists[l] => k = l
           /\ home[k] = home[l] => k = l
           /\ home[k] # h
           /\ m[h][1].lists[k] # h /\ m[other][1].lists[k] # h
  <1>1. /\ h \in DOMAIN m /\ other \in DOMAIN m /\ DOMAIN m[h] = {1} /\ DOMAIN m[other] = {1}
        /\ DOMAIN m[h][1].lists = NetworkLists /\ DOMAIN m[other][1].lists = NetworkLists
        /\ home[k][2] = k /\ home[l][2] = l
    BY MergeFacts
  <1>2. /\ m[h][1].lists[k][2] = k /\ m[h][1].lists[l][2] = l
        /\ m[other][1].lists[k][2] = k /\ m[other][1].lists[l][2] = l /\ k # "self"
    BY <1>1, BufferOf
  <1>3. h \in hs /\ h # other
    BY DEF CanMerge
  <1>4. h[2] = "self"
    BY <1>3, HandleIs
  <1>5. m[h][1].lists[k] # m[other][1].lists[l]
    <2>1. m[h][1].lists[k] \in Blocks(m[h][1]) /\ m[other][1].lists[l] \in Blocks(m[other][1])
      BY <1>1 DEF Blocks
    <2> QED
      BY <2>1, <1>1, <1>3, OneOwnerOf
  <1> QED
    BY <1>1, <1>2, <1>4, <1>5

(* Every object after a merge was one before it, other than the network     *)
(* merged.                                                                  *)
LEMMA MergeOrigin ==
    ASSUME NEW m, NEW hs, NEW n, WellFormed(m, hs, n),
           NEW h, NEW other, NEW home, CanMerge(m, hs, h, other, home),
           NEW m2, IsMerged(m2, m, h, other, home),
           NEW b \in DOMAIN m2, NEW i \in DOMAIN m2[b]
    PROVE  \E c \in DOMAIN m \ {other} : \E j \in DOMAIN m[c] :
             /\ Place(m, h, other, home, c, j, b, i)
             /\ m2[b][i] = IF c = h THEN [ m[h][1] EXCEPT !.lists = home ] ELSE m[c][j]
  <1> DEFINE own(l)    == m[h][1].lists[l]
             others(l) == m[other][1].lists[l]
             merged    == [ m[h][1] EXCEPT !.lists = home ]
             Goal      == \E c \in DOMAIN m \ {other} : \E j \in DOMAIN m[c] :
                            /\ Place(m, h, other, home, c, j, b, i)
                            /\ m2[b][i] = IF c = h THEN merged ELSE m[c][j]
  <1>1. /\ DOMAIN m2 = (DOMAIN m \ Gone(m, h, other)) \cup { home[l] : l \in NetworkLists }
        /\ m2[h] = << merged >>
        /\ \A l \in NetworkLists : m2[home[l]] = m[own(l)] \o m[others(l)]
        /\ \A d \in DOMAIN m \ Gone(m, h, other) : d # h => m2[d] = m[d]
    BY Zenon DEF IsMerged
  <1>2. /\ h \in DOMAIN m \ Gone(m, h, other) /\ other \in DOMAIN m /\ DOMAIN m[h] = {1}
        /\ DOMAIN m[h][1].lists = NetworkLists /\ DOMAIN m[other][1].lists = NetworkLists
        /\ \A l \in NetworkLists :
             /\ own(l) \in DOMAIN m /\ others(l) \in DOMAIN m
             /\ Sequence(m[own(l)]) /\ Sequence(m[others(l)])
    BY MergeFacts
  <1>3. /\ \A k, l \in NetworkLists :
             /\ own(k) # others(l) /\ own(k) # h /\ others(k) # h
             /\ own(k) = own(l) => k = l
             /\ others(k) = others(l) => k = l
    BY MergeApart
  <1>4. \A l \in NetworkLists :
          /\ own(l) \in Gone(m, h, other) /\ others(l) \in Gone(m, h, other)
          /\ own(l) # other /\ others(l) # other
    <2>1. \A l \in NetworkLists :
            own(l) \in Gone(m, h, other) /\ others(l) \in Gone(m, h, other)
      BY <1>2 DEF Gone, Blocks
    <2>2. other[2] = "self"
      BY HandleIs DEF CanMerge
    <2>3. \A l \in NetworkLists : own(l)[2] # "self" /\ others(l)[2] # "self"
      <3>1. DOMAIN m[other] = {1}
        BY MergeFacts
      <3> QED
        BY <1>2, <3>1, BufferOf
    <2> QED
      BY <2>1, <2>2, <2>3
  <1> HIDE DEF merged, own, others
  <1>5. ASSUME b = h
        PROVE  Goal
    <2>1. i = 1 /\ m2[b][i] = merged
      BY <1>1, <1>5, SequenceOne
    <2>2. Place(m, h, other, home, h, 1, b, i)
      BY <1>2, <1>3, <1>5, <2>1 DEF Place, own, others
    <2> QED
      BY <2>1, <2>2, <1>2, <1>4 DEF CanMerge
  <1>6. ASSUME b \in DOMAIN m \ Gone(m, h, other), b # h
        PROVE  Goal
    <2>1. m2[b] = m[b]
      BY <1>1, <1>6
    <2>2. Place(m, h, other, home, b, i, b, i)
      BY <1>4, <1>6 DEF Place, own, others
    <2>3. b # other
      BY <1>6 DEF Gone
    <2> QED
      BY <1>6, <2>1, <2>2, <2>3
  <1>7. ASSUME NEW l \in NetworkLists, b = home[l]
        PROVE  Goal
    <2> DEFINE s == m[own(l)]
               t == m[others(l)]
    <2>1. m2[b] = s \o t /\ Sequence(s) /\ Sequence(t)
      BY <1>1, <1>2, <1>7
    <2> HIDE DEF s, t
    <2>2. /\ \A k \in DOMAIN s : (s \o t)[k] = s[k]
          /\ \A k \in DOMAIN (s \o t) \ DOMAIN s :
               k - Len(s) \in DOMAIN t /\ (s \o t)[k] = t[k - Len(s)]
          /\ DOMAIN (s \o t) = 1 .. Len(s) + Len(t)
          /\ Len(s) \in Nat /\ Len(t) \in Nat
      BY <2>1, SequenceConcat, SequenceDomain
    <2>3. CASE i \in DOMAIN s
      <3>1. m2[b][i] = m[own(l)][i]
        BY <2>1, <2>2, <2>3 DEF s
      <3>2. Place(m, h, other, home, own(l), i, b, i)
        BY <1>3, <1>4, <1>7 DEF Place, own, others
      <3> QED
        BY <3>1, <3>2, <2>3, <1>2, <1>3, <1>4 DEF s
    <2>4. CASE i \notin DOMAIN s
      <3> DEFINE j == i - Len(s)
      <3>1. j \in DOMAIN m[others(l)] /\ m2[b][i] = m[others(l)][j]
        BY <2>1, <2>2, <2>4 DEF t
      <3>2. i = Len(s) + j
        BY <2>1, <2>2
      <3> HIDE DEF j
      <3>3. Place(m, h, other, home, others(l), j, b, i)
        BY <1>3, <1>4, <1>7, <3>2 DEF Place, own, others, s
      <3> QED
        BY <3>1, <3>3, <1>2, <1>3, <1>4
    <2> QED
      BY <2>3, <2>4
  <1>8. Goal
    <2> HIDE DEF Goal
    <2> QED
      BY <1>1, <1>5, <1>6, <1>7
  <1> QED
    BY <1>8, Zenon DEF merged

(* Every object before a merge, other than the two networks, has a place    *)
(* after it.                                                                *)
LEMMA MergePlace ==
    ASSUME NEW m, NEW hs, NEW n, WellFormed(m, hs, n),
           NEW h, NEW other, NEW home, CanMerge(m, hs, h, other, home),
           NEW m2, IsMerged(m2, m, h, other, home),
           NEW c \in DOMAIN m \ {h, other}, NEW j \in DOMAIN m[c]
    PROVE  \E b \in DOMAIN m2 : \E i \in DOMAIN m2[b] : m2[b][i] = m[c][j]
  <1> DEFINE own(l)    == m[h][1].lists[l]
             others(l) == m[other][1].lists[l]
  <1>1. /\ DOMAIN m2 = (DOMAIN m \ Gone(m, h, other)) \cup { home[l] : l \in NetworkLists }
        /\ \A l \in NetworkLists : m2[home[l]] = m[own(l)] \o m[others(l)]
        /\ \A d \in DOMAIN m \ Gone(m, h, other) : d # h => m2[d] = m[d]
    BY Zenon DEF IsMerged
  <1>2. /\ DOMAIN m[h][1].lists = NetworkLists /\ DOMAIN m[other][1].lists = NetworkLists
        /\ \A l \in NetworkLists : Sequence(m[own(l)]) /\ Sequence(m[others(l)])
    BY MergeFacts
  <1> HIDE DEF own, others
  <1>3. ASSUME NEW l \in NetworkLists
        PROVE  /\ \A k \in DOMAIN m[own(l)] :
                    k \in DOMAIN m2[home[l]] /\ m2[home[l]][k] = m[own(l)][k]
               /\ \A k \in DOMAIN m[others(l)] :
                    /\ Len(m[own(l)]) + k \in DOMAIN m2[home[l]]
                    /\ m2[home[l]][Len(m[own(l)]) + k] = m[others(l)][k]
    <2> DEFINE s == m[own(l)]
               t == m[others(l)]
    <2>1. m2[home[l]] = s \o t /\ Sequence(s) /\ Sequence(t)
      BY <1>1, <1>2
    <2> HIDE DEF s, t
    <2>2. /\ \A k \in DOMAIN s : (s \o t)[k] = s[k]
          /\ \A k \in DOMAIN t : (s \o t)[Len(s) + k] = t[k]
          /\ DOMAIN (s \o t) = 1 .. Len(s) + Len(t)
          /\ Len(s) \in Nat /\ Len(t) \in Nat
          /\ DOMAIN s = 1 .. Len(s) /\ DOMAIN t = 1 .. Len(t)
      BY <2>1, SequenceConcat, SequenceDomain
    <2>3. /\ \A k \in DOMAIN s : k \in DOMAIN (s \o t)
          /\ \A k \in DOMAIN t : Len(s) + k \in DOMAIN (s \o t)
      BY <2>2
    <2> QED
      BY <2>1, <2>2, <2>3 DEF s, t
  <1>4. CASE c \notin Gone(m, h, other)
    BY <1>1, <1>4
  <1>5. ASSUME NEW l \in NetworkLists, c = own(l) \/ c = others(l)
        PROVE  \E b \in DOMAIN m2 : \E i \in DOMAIN m2[b] : m2[b][i] = m[c][j]
    BY <1>1, <1>3, <1>5
  <1>6. c \in Gone(m, h, other) => \E l \in NetworkLists : c = own(l) \/ c = others(l)
    BY <1>2 DEF Gone, Blocks, own, others
  <1> QED
    BY <1>4, <1>5, <1>6, Zenon

(* A merge keeps memory well-formed.                                        *)
LEMMA MergeKeeps ==
    ASSUME NEW m, NEW hs, NEW n, WellFormed(m, hs, n),
           NEW h, NEW other, NEW home, CanMerge(m, hs, h, other, home),
           NEW m2, IsMerged(m2, m, h, other, home)
    PROVE  WellFormed(m2, hs \ {other}, n)
  <1> DEFINE network == m[h][1]
             merged  == [ network EXCEPT !.lists = home ]
             gone    == Gone(m, h, other)
  <1>1. /\ DOMAIN m2 = (DOMAIN m \ gone) \cup { home[l] : l \in NetworkLists }
        /\ m2[h] = << merged >>
        /\ \A l \in NetworkLists :
             m2[home[l]] = m[network.lists[l]] \o m[m[other][1].lists[l]]
        /\ \A d \in DOMAIN m \ gone : d # h => m2[d] = m[d]
    BY Zenon DEF IsMerged
  <1>2. /\ h \in DOMAIN m \ gone /\ other \in DOMAIN m
        /\ DOMAIN m[h] = {1} /\ DOMAIN m[other] = {1}
        /\ network.id = h[1] /\ h = Self(h[1]) /\ network.kind = "Network"
        /\ ObjectInv(m, n, network) /\ ObjectInv(m, n, m[other][1])
        /\ DOMAIN network.lists = NetworkLists /\ DOMAIN m[other][1].lists = NetworkLists
        /\ \A g \in hs \ {other} : g \in DOMAIN m \ gone
        /\ h \in hs /\ other \in hs /\ h # other /\ DOMAIN home = NetworkLists
        /\ m[other][1].kind = "Network"
    BY MergeFacts DEF CanMerge
  <1>3. \A l \in NetworkLists :
          /\ l # "self"
          /\ network.lists[l] \in DOMAIN m /\ m[other][1].lists[l] \in DOMAIN m
          /\ Sequence(m[network.lists[l]]) /\ Sequence(m[m[other][1].lists[l]])
          /\ home[l][1] = h[1] /\ home[l][2] = l /\ home[l][3] \in Nat
          /\ home[l] = << home[l][1], home[l][2], home[l][3] >>
          /\ home[l] \notin DOMAIN m \ gone
    BY MergeFacts
  <1>4. /\ DOMAIN merged = Fields /\ merged.kind = "Network" /\ merged.id = h[1]
        /\ merged.inline = network.inline /\ merged.lists = home
    BY <1>2 DEF ObjectInv, Fields
  <1> HIDE DEF network, merged, gone
  \* What is in a merged memory was in the old one, with the same number.
  <1>5. ASSUME NEW b \in DOMAIN m2, NEW i \in DOMAIN m2[b]
        PROVE  \E c \in DOMAIN m \ {other} : \E j \in DOMAIN m[c] :
                 /\ Place(m, h, other, home, c, j, b, i)
                 /\ m2[b][i] = IF c = h THEN merged ELSE m[c][j]
                 /\ m2[b][i].id = m[c][j].id /\ m2[b][i].kind = m[c][j].kind
    <2>1. PICK c \in DOMAIN m \ {other} : \E j \in DOMAIN m[c] :
            /\ Place(m, h, other, home, c, j, b, i)
            /\ m2[b][i] = IF c = h THEN merged ELSE m[c][j]
      BY MergeOrigin DEF merged, network
    <2>2. PICK j \in DOMAIN m[c] :
            /\ Place(m, h, other, home, c, j, b, i)
            /\ m2[b][i] = IF c = h THEN merged ELSE m[c][j]
      BY <2>1
    <2>3. c = h => m[c][j] = network
      BY <2>2, <1>2 DEF network
    <2>4. m2[b][i].id = m[c][j].id /\ m2[b][i].kind = m[c][j].kind
      BY <2>2, <2>3, <1>2, <1>4
    <2> QED
      BY <2>2, <2>4
  \* The buffers of all objects but the two networks stay.
  <1>6. ASSUME NEW c \in DOMAIN m \ {h, other}, NEW j \in DOMAIN m[c],
               NEW l \in DOMAIN m[c][j].lists
        PROVE  /\ m[c][j].lists[l] \in DOMAIN m2
               /\ m2[m[c][j].lists[l]] = m[m[c][j].lists[l]]
    <2> DEFINE d == m[c][j].lists[l]
    <2>1. d \in DOMAIN m /\ d[2] # "self" /\ d \in Blocks(m[c][j])
      BY BufferOf DEF Blocks
    <2> HIDE DEF d
    <2>2. d # h /\ d # other
      BY <2>1, <1>2, HandleIs
    <2>3. d \notin Blocks(m[h][1]) /\ d \notin Blocks(m[other][1])
      BY <2>1, <1>2, OneOwnerOf
    <2>4. d \in DOMAIN m \ gone
      BY <2>1, <2>2, <2>3 DEF gone, Gone
    <2>5. d \in DOMAIN m2 /\ m2[d] = m[d]
      BY <2>2, <2>4, <1>1
    <2> QED
      BY <2>5 DEF d
  <1>7. BlocksInv(m2, n)
    <2> SUFFICES ASSUME NEW b \in DOMAIN m2
                 PROVE  /\ b = << b[1], b[2], b[3] >> /\ b[1] \in 1 .. n /\ b[3] \in Nat
                        /\ Sequence(m2[b])
      BY DEF BlocksInv
    <2>1. CASE b \in DOMAIN m \ gone
      <3>1. /\ b = << b[1], b[2], b[3] >> /\ b[1] \in 1 .. n /\ b[3] \in Nat
            /\ Sequence(m[b])
        BY <2>1 DEF WellFormed, BlocksInv
      <3>2. Sequence(<< merged >>)
        BY SequenceOne, Zenon
      <3>3. Sequence(m2[b])
        BY <2>1, <3>1, <3>2, <1>1
      <3> QED
        BY <3>1, <3>3
    <2>2. ASSUME NEW l \in NetworkLists, b = home[l]
          PROVE  /\ b = << b[1], b[2], b[3] >> /\ b[1] \in 1 .. n /\ b[3] \in Nat
                 /\ Sequence(m2[b])
      <3>1. h[1] \in 1 .. n
        BY <1>2, HandleIs
      <3>2. Sequence(m2[b])
        <4> DEFINE s == m[network.lists[l]]
                   t == m[m[other][1].lists[l]]
        <4>1. m2[b] = s \o t /\ Sequence(s) /\ Sequence(t)
          BY <2>2, <1>1, <1>3
        <4> HIDE DEF s, t
        <4>2. Sequence(s \o t)
          BY <4>1, SequenceConcat, Zenon
        <4> QED
          BY <4>1, <4>2, Zenon, Zenon
      <3> QED
        BY <2>2, <3>1, <3>2, <1>3
    <2> QED
      BY <2>1, <2>2, <1>1
  <1>8. ObjectsInv(m2, n)
    <2>1. ASSUME NEW l \in NetworkLists, NEW i \in DOMAIN m2[home[l]]
          PROVE  m2[home[l]][i].kind = ListKinds["Network"][l]
      <3> DEFINE s == m[network.lists[l]]
                 t == m[m[other][1].lists[l]]
      <3>1. m2[home[l]] = s \o t /\ Sequence(s) /\ Sequence(t)
        BY <1>1, <1>3
      <3>2. /\ \A k \in DOMAIN s : s[k].kind = ListKinds["Network"][l]
            /\ \A k \in DOMAIN t : t[k].kind = ListKinds["Network"][l]
        BY <1>2 DEF ObjectInv
      <3> HIDE DEF s, t
      <3>3. /\ \A k \in DOMAIN s : (s \o t)[k] = s[k]
            /\ \A k \in DOMAIN (s \o t) \ DOMAIN s :
                 k - Len(s) \in DOMAIN t /\ (s \o t)[k] = t[k - Len(s)]
        <4>1. Sequence(s) /\ Sequence(t)
          BY <3>1, Zenon
        <4> QED
          BY <4>1, SequenceConcat
      <3>4. CASE i \in DOMAIN s
        BY <3>1, <3>2, <3>3, <3>4
      <3>5. CASE i \notin DOMAIN s
        BY <3>1, <3>2, <3>3, <3>5
      <3> QED
        BY Zenon, <3>4, <3>5
    <2>2. ObjectInv(m2, n, merged)
      <3>1. ASSUME NEW l \in DOMAIN merged.lists
            PROVE  /\ merged.lists[l] \in DOMAIN m2
                   /\ merged.lists[l][1] = merged.id /\ merged.lists[l][2] = l
                   /\ \A i \in DOMAIN m2[merged.lists[l]] :
                        m2[merged.lists[l]][i].kind = ListKinds[merged.kind][l]
        BY <2>1, <1>1, <1>2, <1>3, <1>4
      <3>2. /\ merged.kind \in Kinds /\ merged.id \in 1 .. n /\ merged.inline \subseteq 1 .. n
            /\ DOMAIN merged.lists = DOMAIN ListKinds[merged.kind]
        BY <1>2, <1>4 DEF ObjectInv, NetworkLists
      <3>3. merged.kind \notin HasMember => merged.inline = {}
        BY <1>2, <1>4 DEF ObjectInv
      <3> QED
        BY <3>1, <3>2, <3>3, <1>4 DEF ObjectInv
    <2> SUFFICES ASSUME NEW b \in DOMAIN m2, NEW i \in DOMAIN m2[b]
                 PROVE  ObjectInv(m2, n, m2[b][i])
      BY DEF ObjectsInv
    <2>3. PICK c \in DOMAIN m \ {other} : \E j \in DOMAIN m[c] :
            m2[b][i] = IF c = h THEN merged ELSE m[c][j]
      BY <1>5
    <2>4. PICK j \in DOMAIN m[c] : m2[b][i] = IF c = h THEN merged ELSE m[c][j]
      BY <2>3
    <2>5. CASE c = h
      BY <2>2, <2>4, <2>5
    <2>6. CASE c # h
      <3>1. ObjectInv(m, n, m[c][j])
        BY DEF WellFormed, ObjectsInv
      <3>2. \A l \in DOMAIN m[c][j].lists :
              m[c][j].lists[l] \in DOMAIN m2 /\ m2[m[c][j].lists[l]] = m[m[c][j].lists[l]]
        BY <2>6, <1>6
      <3>3. ObjectInv(m2, n, m[c][j])
        BY <3>1, <3>2 DEF ObjectInv
      <3> QED
        BY <2>4, <2>6, <3>3
    <2> QED
      BY <2>5, <2>6
  <1>9. HandlesInv(m2, hs \ {other})
    <2>1. ASSUME NEW b \in DOMAIN m2, b[2] = "self"
          PROVE  b \in hs \ {other}
      <3>1. b \in DOMAIN m \ gone
        BY <2>1, <1>1, <1>3
      <3> QED
        BY <2>1, <3>1, Zenon DEF WellFormed, HandlesInv, gone, Gone
    <2>2. ASSUME NEW g \in hs \ {other}
          PROVE  g \in DOMAIN m2 /\ g = Self(g[1]) /\ Len(m2[g]) = 1 /\ m2[g][1].id = g[1]
      <3>1. g \in DOMAIN m \ gone
        BY <1>2
      <3>2. g = Self(g[1]) /\ Len(m[g]) = 1 /\ m[g][1].id = g[1]
        BY DEF WellFormed, HandlesInv
      <3>3. Len(<< merged >>) = 1 /\ << merged >>[1] = merged
        BY SequenceOne, Zenon
      <3>4. CASE g = h
        BY <3>1, <3>2, <3>3, <3>4, <1>1, <1>4, Zenon
      <3>5. CASE g # h
        BY <3>1, <3>2, <3>5, <1>1
      <3> QED
        BY <3>4, <3>5
    <2> QED
      BY <2>1, <2>2 DEF HandlesInv
  <1>10. NumbersInv(m2)
    <2> SUFFICES ASSUME NEW b \in DOMAIN m2, NEW d \in DOMAIN m2,
                        NEW i \in DOMAIN m2[b], NEW k \in DOMAIN m2[d],
                        m2[b][i].id = m2[d][k].id
                 PROVE  b = d /\ i = k
      BY DEF NumbersInv
    <2>1. PICK c \in DOMAIN m \ {other} : \E j \in DOMAIN m[c] :
            Place(m, h, other, home, c, j, b, i) /\ m2[b][i].id = m[c][j].id
      BY <1>5
    <2>2. PICK j \in DOMAIN m[c] :
            Place(m, h, other, home, c, j, b, i) /\ m2[b][i].id = m[c][j].id
      BY <2>1
    <2>3. PICK e \in DOMAIN m \ {other} : \E x \in DOMAIN m[e] :
            Place(m, h, other, home, e, x, d, k) /\ m2[d][k].id = m[e][x].id
      BY <1>5
    <2>4. PICK x \in DOMAIN m[e] :
            Place(m, h, other, home, e, x, d, k) /\ m2[d][k].id = m[e][x].id
      BY <2>3
    <2>5. NumbersInv(m) /\ m[c][j].id = m[e][x].id
      BY <2>2, <2>4 DEF WellFormed
    <2>6. c = e /\ j = x
      BY <2>5 DEF NumbersInv
    <2>7. CASE c = h
      BY <2>2, <2>4, <2>6, <2>7 DEF Place
    <2>8. CASE c \notin gone
      BY <2>2, <2>4, <2>6, <2>8 DEF Place, gone
    <2>9. ASSUME NEW l \in NetworkLists, c = m[h][1].lists[l] \/ c = m[other][1].lists[l]
          PROVE  b = d /\ i = k
      BY <2>2, <2>4, <2>6, <2>9 DEF Place
    <2>10. c \in gone => \E l \in NetworkLists :
                            c = m[h][1].lists[l] \/ c = m[other][1].lists[l]
      BY <1>2, Zenon DEF gone, Gone, Blocks, network
    <2> QED
      BY <2>7, <2>8, <2>9, <2>10
  <1>11. OwnedInv(m2)
    <2> SUFFICES ASSUME NEW b \in DOMAIN m2, b[2] # "self"
                 PROVE  \E c \in DOMAIN m2 : \E i \in DOMAIN m2[c] : b \in Blocks(m2[c][i])
      BY DEF OwnedInv
    <2>1. ASSUME NEW l \in NetworkLists, b = home[l]
          PROVE  \E c \in DOMAIN m2 : \E i \in DOMAIN m2[c] : b \in Blocks(m2[c][i])
      <3>1. h \in DOMAIN m2 /\ 1 \in DOMAIN m2[h] /\ m2[h][1] = merged
        BY <1>1, <1>2, SequenceOne
      <3>2. b \in Blocks(merged)
        BY <2>1, <1>2, <1>4 DEF Blocks
      <3> QED
        BY <3>1, <3>2
    <2>2. CASE b \in DOMAIN m \ gone
      <3>1. PICK c \in DOMAIN m : \E j \in DOMAIN m[c] : b \in Blocks(m[c][j])
        BY <2>2 DEF WellFormed, OwnedInv
      <3>2. PICK j \in DOMAIN m[c] : b \in Blocks(m[c][j])
        BY <3>1
      <3>3. c # h /\ c # other
        BY <2>2, <3>2, <1>2 DEF gone, Gone
      <3>4. \E d \in DOMAIN m2 : \E i \in DOMAIN m2[d] : m2[d][i] = m[c][j]
        BY <3>2, <3>3, MergePlace
      <3> QED
        BY <3>2, <3>4
    <2> QED
      BY <2>1, <2>2, <1>1
  <1>12. MessagesInv(m2)
    <2> SUFFICES ASSUME NEW b \in DOMAIN m2, NEW i \in DOMAIN m2[b], m2[b][i].kind = "Message"
                 PROVE  MuxInv(m2, m2[b][i])
      BY DEF MessagesInv
    <2>1. PICK c \in DOMAIN m \ {other} : \E j \in DOMAIN m[c] :
            m2[b][i] = IF c = h THEN merged ELSE m[c][j]
      BY <1>5
    <2>2. PICK j \in DOMAIN m[c] : m2[b][i] = IF c = h THEN merged ELSE m[c][j]
      BY <2>1
    <2>3. c # h /\ m2[b][i] = m[c][j]
      BY <2>2, <1>4
    <2>4. "signals" \in DOMAIN m[c][j].lists
      BY <2>3, MessageLists
    <2>5. m2[m[c][j].lists.signals] = m[m[c][j].lists.signals]
      BY <2>3, <2>4, <1>6
    <2>6. MuxInv(m, m[c][j])
      BY <2>3 DEF WellFormed, MessagesInv
    <2> QED
      BY <2>3, <2>5, <2>6 DEF MuxInv
  <1> QED
    BY <1>7, <1>8, <1>9, <1>10, <1>11, <1>12, Zenon DEF WellFormed

(* Merge is such a step, whichever lists are reallocated.                   *)
LEMMA MergeIs ==
    ASSUME IInv, NEW h \in HandlesOf("Network"), NEW other \in HandlesOf("Network"),
           NEW grown, Merge(h, other, grown)
    PROVE  \E home :
             /\ CanMerge(mem, handles, h, other, home)
             /\ IsMerged(mem', mem, h, other, home)
             /\ handles' = handles \ {other} /\ created' = created
  <1> DEFINE network == Object(h)
             old     == Object(other)
             home    == [ l \in DOMAIN network.lists |->
                            IF l \in grown THEN Reallocated(network.lists[l])
                            ELSE network.lists[l] ]
             merged  == [ network EXCEPT !.lists = home ]
             gone    == {other} \cup Blocks(old) \cup Blocks(network)
             kept    == [ b \in DOMAIN mem \ gone |-> mem[b] ]
             Home(l) == IF l \in grown THEN Reallocated(network.lists[l])
                        ELSE network.lists[l]
             added   == [ l \in DOMAIN old.lists |-> mem[old.lists[l]] ]
             homes   == [ b \in { Home(l) : l \in DOMAIN network.lists } |->
                            mem[network.lists[b[2]]] \o added[b[2]] ]
  <1>1. WellFormed(mem, handles, created)
    BY DEF IInv
  <1>2. /\ h \in handles /\ other \in handles /\ h # other
        /\ network.kind = "Network" /\ old.kind = "Network"
        /\ handles' = handles \ {other} /\ created' = created
    BY Zenon DEF Merge, HandlesOf
  <1>3. mem' = [ b \in DOMAIN kept \cup DOMAIN homes |->
                   IF b \in DOMAIN homes THEN homes[b]
                   ELSE IF b = h THEN << merged >> ELSE kept[b] ]
    <2> DEFINE moved == Transfer(kept, added)
               Joined == [ b \in { Home(l) : l \in DOMAIN network.lists } |->
                             Appended(mem[network.lists[b[2]]], moved.contents[b[2]]) ]
    <2>1. mem' = [ b \in DOMAIN moved.memory \cup DOMAIN Joined |->
                     IF b \in DOMAIN Joined THEN Joined[b]
                     ELSE IF b = h THEN << merged >> ELSE moved.memory[b] ]
      BY Zenon DEF Merge
    <2> HIDE DEF merged, kept, added
    <2>2. moved.memory = kept /\ moved.contents = added
      BY DEF Transfer
    <2>3. Joined = homes
      BY <2>2 DEF Appended
    <2> HIDE DEF moved, Joined, homes
    <2> QED
      BY <2>1, <2>2, <2>3
  <1>4. DOMAIN network.lists = NetworkLists /\ DOMAIN old.lists = NetworkLists
    <2>1. ObjectInv(mem, created, network) /\ ObjectInv(mem, created, old)
      BY <1>1, <1>2, HandleIs DEF Object
    <2> QED
      BY <1>2, <2>1 DEF ObjectInv, NetworkLists
  <1>5. /\ DOMAIN home = NetworkLists
        /\ \A l \in NetworkLists : home[l] = Home(l)
        /\ \A l \in NetworkLists :
             home[l] \in { network.lists[l], Reallocated(network.lists[l]) }
    BY <1>4
  <1>6. CanMerge(mem, handles, h, other, home)
    BY <1>2, <1>5 DEF CanMerge, Object
  <1>7. /\ gone = Gone(mem, h, other) /\ network = mem[h][1] /\ old = mem[other][1]
    BY DEF Gone, Object
  <1> HIDE DEF home, network, old, gone, Home
  <1>8. \A l \in NetworkLists : home[l][2] = l /\ home[l] \notin DOMAIN mem \ gone
    BY <1>1, <1>6, <1>7, MergeFacts
  <1>9. /\ DOMAIN homes = { home[l] : l \in NetworkLists }
        /\ \A l \in NetworkLists :
             homes[home[l]] = mem[network.lists[l]] \o mem[old.lists[l]]
    <2>1. DOMAIN homes = { home[l] : l \in NetworkLists }
      BY <1>4, <1>5
    <2>2. \A b \in DOMAIN homes : homes[b] = mem[network.lists[b[2]]] \o added[b[2]]
      BY Zenon
    <2>3. \A l \in NetworkLists : added[l] = mem[old.lists[l]]
      BY <1>4
    <2> HIDE DEF homes, added
    <2>4. ASSUME NEW l \in NetworkLists
          PROVE  homes[home[l]] = mem[network.lists[l]] \o mem[old.lists[l]]
      <3>1. home[l] \in DOMAIN homes /\ home[l][2] = l
        BY <2>1, <1>8
      <3>2. homes[home[l]] = mem[network.lists[l]] \o added[l]
        BY <3>1, <2>2, Zenon
      <3> QED
        BY <3>2, <2>3
    <2> QED
      BY <2>1, <2>4, Zenon
  <1>10. h \in DOMAIN mem \ gone /\ h \notin DOMAIN homes
    <2>1. h \in DOMAIN mem \ gone
      BY <1>1, <1>6, <1>7, MergeFacts
    <2>2. \A l \in NetworkLists : home[l] # h
      BY <1>1, <1>6, MergeApart
    <2> QED
      BY <2>1, <2>2, <1>9, Zenon
  <1> HIDE DEF homes, merged
  <1>11. /\ DOMAIN mem' = (DOMAIN mem \ gone) \cup { home[l] : l \in NetworkLists }
         /\ mem'[h] = << merged >>
    BY <1>3, <1>9, <1>10, Zenon
  <1>12. \A l \in NetworkLists : mem'[home[l]] = mem[network.lists[l]] \o mem[old.lists[l]]
    BY <1>3, <1>9
  <1>13. \A b \in DOMAIN mem \ gone : b # h => mem'[b] = mem[b]
    BY <1>3, <1>8, <1>9
  <1>14. IsMerged(mem', mem, h, other, home)
    BY <1>7, <1>11, <1>12, <1>13, Zenon DEF IsMerged, merged
  <1> QED
    BY <1>2, <1>6, <1>14

(* So it keeps the invariant.                                               *)
LEMMA MergeKeepsIInv ==
    ASSUME IInv, NEW h \in HandlesOf("Network"), NEW other \in HandlesOf("Network"),
           NEW grown, Merge(h, other, grown)
    PROVE  IInv'
  <1>1. WellFormed(mem, handles, created) /\ created \in 0 .. MaxObjects
    BY DEF IInv
  <1>2. PICK home : /\ CanMerge(mem, handles, h, other, home)
                    /\ IsMerged(mem', mem, h, other, home)
                    /\ handles' = handles \ {other} /\ created' = created
    BY MergeIs
  <1>3. WellFormed(mem', handles', created')
    BY <1>1, <1>2, MergeKeeps
  <1> QED
    BY <1>1, <1>2, <1>3 DEF IInv

-----------------------------------------------------------------------------
(* The inductive invariant holds, and what it says of the properties. *)
LEMMA InitIInv == Init => IInv
  <1> SUFFICES ASSUME Init
               PROVE  IInv
    OBVIOUS
  <1>1. DOMAIN mem = {} /\ handles = {} /\ created = 0
    BY DEF Init
  <1>2. WellFormed(mem, handles, created)
    BY <1>1 DEF WellFormed, BlocksInv, ObjectsInv, HandlesInv, NumbersInv, OwnedInv, MessagesInv
  <1> QED
    BY <1>1, <1>2, BoundsAssumption DEF IInv

(* Every step keeps it.                                                     *)
LEMMA NextIInv == IInv /\ [Next]_vars => IInv'
  <1> SUFFICES ASSUME IInv, [Next]_vars
               PROVE  IInv'
    OBVIOUS
  <1>1. CASE Creates
    BY <1>1, CreatesKeepIInv
  <1>2. ASSUME NEW h \in handles, Free(h)
        PROVE  IInv'
    BY <1>2, FreeKeepsIInv
  <1>3. ASSUME NEW h \in handles, Clone(h)
        PROVE  IInv'
    BY <1>3, CloneKeepsIInv
  <1>4. ASSUME NEW h \in HandlesOf("Network"), NEW other \in HandlesOf("Network"),
               NEW grown \in SUBSET NonEmptyLists(other), Merge(h, other, grown)
        PROVE  IInv'
    BY <1>4, MergeKeepsIInv
  <1>5. CASE UNCHANGED vars
    BY <1>5 DEF vars, IInv
  <1> QED
    BY <1>1, <1>2, <1>3, <1>4, <1>5 DEF Next

(* Memory is well-formed all the time: every block has one owner, whatever  *)
(* the caller of the C interface creates, releases, clones and merges.      *)
THEOREM Invariance == Spec => []IInv
  BY InitIInv, NextIInv, PTL DEF Spec

(* An address is a block and an index into it.                              *)
LEMMA AddressIs ==
    ASSUME NEW a \in Addresses
    PROVE  a = << a[1], a[2] >> /\ a[1] \in DOMAIN mem /\ a[2] \in DOMAIN mem[a[1]]
  <1>1. PICK b \in DOMAIN mem : \E i \in DOMAIN mem[b] : a = << b, i >>
    BY DEF Addresses, Address
  <1>2. PICK i \in DOMAIN mem[b] : a = << b, i >>
    BY <1>1
  <1> QED
    BY <1>2

(* What is well-formed is of its type.                                      *)
LEMMA IInvTypeOK == IInv => TypeOK
  <1> SUFFICES ASSUME IInv
               PROVE  TypeOK
    OBVIOUS
  <1>1. created \in 0 .. MaxObjects /\ WellFormed(mem, handles, created)
    BY DEF IInv
  <1>2. ASSUME NEW b \in DOMAIN mem
        PROVE  /\ b[1] \in 1 .. created /\ b[3] \in Nat
               /\ \A i \in DOMAIN mem[b] :
                    LET o == mem[b][i]
                    IN  /\ o.kind \in Kinds
                        /\ DOMAIN o.lists = DOMAIN ListKinds[o.kind]
                        /\ \A l \in DOMAIN o.lists :
                             o.lists[l] \in DOMAIN mem
                               /\ \A c \in Cells(mem, o.lists[l]) : c.kind = ListKinds[o.kind][l]
    <2>1. b[1] \in 1 .. created /\ b[3] \in Nat
      BY <1>1 DEF WellFormed, BlocksInv
    <2>2. ASSUME NEW i \in DOMAIN mem[b]
          PROVE  ObjectInv(mem, created, mem[b][i])
      BY <1>1 DEF WellFormed, ObjectsInv
    <2> QED
      BY <2>1, <2>2 DEF ObjectInv, Cells
  <1>3. ASSUME NEW a \in Addresses, NEW b \in Addresses, At(a).id = At(b).id
        PROVE  a = b
    <2>1. a[1] = b[1] /\ a[2] = b[2]
      BY <1>1, <1>3, AddressIs DEF At, WellFormed, NumbersInv
    <2> QED
      BY <2>1, AddressIs
  <1>4. \A h \in handles : h[2] = "self"
    BY <1>1, HandleIs
  <1> QED
    BY <1>1, <1>2, <1>3, <1>4 DEF TypeOK

(* The kinds of the objects in memory are those of the lists they are in,   *)
(* and no two objects have one number, whatever the caller creates, frees,  *)
(* copies and merges: CApi.cpp's reinterpret_casts pick the right classes.  *)
THEOREM TypeCorrect == Spec => []TypeOK
  BY Invariance, IInvTypeOK, PTL

(* What the caller has left in his arrays are handles of objects that       *)
(* exist, for every sequence of calls of CApi.cpp: none is freed twice.     *)
THEOREM HandlesStayLive == Spec => []HandlesAreLive
  <1>1. IInv => HandlesAreLive
    BY DEF IInv, WellFormed, HandlesInv, HandlesAreLive
  <1> QED
    BY <1>1, Invariance, PTL

(* Every block has exactly one owner, a handle of the caller or one list of *)
(* one object: Create, Free, Clone and Merge leak and share nothing.        *)
THEOREM BlocksHaveOneOwner == Spec => []OneOwner
  <1>1. ASSUME IInv, NEW b \in DOMAIN mem
        PROVE  LET owners == { a \in Addresses : b \in Blocks(At(a)) }
               IN  IF b \in handles THEN owners = {} ELSE Cardinality(owners) = 1
    <2> DEFINE owners == { a \in Addresses : b \in Blocks(At(a)) }
    <2>1. WellFormed(mem, handles, created)
      BY <1>1 DEF IInv
    <2>2. CASE b \in handles
      <3>1. ASSUME NEW a \in Addresses, b \in Blocks(At(a))
            PROVE  FALSE
        <4>1. PICK l \in DOMAIN mem[a[1]][a[2]].lists : b = mem[a[1]][a[2]].lists[l]
          BY <3>1 DEF Blocks, At
        <4>2. b[2] # "self"
          BY <4>1, <2>1, AddressIs, BufferOf
        <4> QED
          BY <4>2, <2>1, <2>2, HandleIs
      <3> QED
        BY <2>2, <3>1
    <2>3. CASE b \notin handles
      <3>1. PICK c \in DOMAIN mem : \E i \in DOMAIN mem[c] :
              b[2] \in DOMAIN mem[c][i].lists /\ mem[c][i].lists[b[2]] = b
        BY <2>1, <2>3, OwnerOf
      <3>2. PICK i \in DOMAIN mem[c] : b \in Blocks(mem[c][i])
        BY <3>1 DEF Blocks
      <3> DEFINE owner == << c, i >>
      <3>3. owner \in owners
        BY <3>2 DEF Addresses, Address, At
      <3>4. ASSUME NEW a \in owners
            PROVE  a = owner
        <4>1. a \in Addresses /\ b \in Blocks(mem[a[1]][a[2]])
          BY DEF At
        <4>2. a[1] = c /\ a[2] = i
          BY <4>1, <3>2, <2>1, AddressIs, OneOwnerOf
        <4> QED
          BY <4>1, <4>2, AddressIs
      <3> HIDE DEF owner
      <3>5. owners = {owner}
        BY <3>3, <3>4
      <3>6. Cardinality({owner}) = 1
        BY FS_Singleton
      <3> QED
        BY <2>3, <3>5, <3>6
    <2> QED
      BY <2>2, <2>3
  <1>2. IInv => OneOwner
    BY <1>1 DEF OneOwner
  <1> QED
    BY <1>2, Invariance, PTL

(* MuxSignal() is the last multiplexer switch among the message's own       *)
(* signals, in its own vector, for as long as the message lives.            *)
THEOREM MuxSignalStaysOwn == Spec => []MuxSignalIsOwn
  <1>1. ASSUME IInv, NEW o \in AllCells(mem), o.kind = "Message"
        PROVE  MuxInv(mem, o)
    <2>1. PICK b \in DOMAIN mem : \E i \in DOMAIN mem[b] : o = mem[b][i]
      BY DEF AllCells, Cells
    <2>2. MessagesInv(mem)
      BY <1>1 DEF IInv, WellFormed
    <2> QED
      BY <1>1, <2>1, <2>2 DEF MessagesInv
  <1>2. IInv => MuxSignalIsOwn
    BY <1>1, Zenon DEF MuxSignalIsOwn, MuxInv
  <1> QED
    BY <1>2, Invariance, PTL

(* Which messages of a network have the signal at an address. *)
HasSignal(m, block, a) == { i \in DOMAIN m[block] : m[block][i].lists.signals = a[1] }

(* ParentMessage returns the message that has the signal, or none.          *)
LEMMA ParentIs ==
    ASSUME NEW m, NEW hs, NEW n, WellFormed(m, hs, n),
           NEW h \in hs, m[h][1].kind = "Network",
           NEW a, a = << a[1], a[2] >>, a[1] \in DOMAIN m, a[2] \in DOMAIN m[a[1]]
    PROVE  LET block  == m[h][1].lists.messages
               parent == ParentMessage(m, m[h][1], a)
           IN  /\ HasSignal(m, block, a) = {} => parent = Null
               /\ HasSignal(m, block, a) # {} =>
                    \E i \in HasSignal(m, block, a) : parent = << block, i >>
  <1> DEFINE block == m[h][1].lists.messages
             found == { i \in DOMAIN m[block] :
                          \E j \in DOMAIN m[m[block][i].lists.signals] :
                             Address(m[block][i].lists.signals, j) = a }
             Least == CHOOSE i \in found : \A j \in found : i <= j
  <1>1. found = HasSignal(m, block, a)
    <2>1. ASSUME NEW i \in DOMAIN m[block]
          PROVE  (\E j \in DOMAIN m[m[block][i].lists.signals] :
                    Address(m[block][i].lists.signals, j) = a)
                   <=> m[block][i].lists.signals = a[1]
      <3> DEFINE d == m[block][i].lists.signals
      <3>1. \A j : Address(d, j) = a <=> d = a[1] /\ j = a[2]
        BY DEF Address
      <3>2. a[2] \in DOMAIN m[a[1]]
        OBVIOUS
      <3> HIDE DEF d
      <3>3. (\E j \in DOMAIN m[d] : Address(d, j) = a) <=> d = a[1]
        BY <3>1, <3>2
      <3> QED
        BY <3>3, Zenon DEF d
    <2> QED
      BY <2>1, Zenon DEF HasSignal
  <1>2. ParentMessage(m, m[h][1], a) = IF found = {} THEN Null ELSE << block, Least >>
    BY DEF ParentMessage, Address
  <1>3. found \in SUBSET Nat
    <2>1. ObjectInv(m, n, m[h][1]) /\ "messages" \in DOMAIN m[h][1].lists
      BY HandleIs, ListsOfMessages DEF ObjectInv
    <2>2. block \in DOMAIN m
      BY <2>1 DEF ObjectInv
    <2>3. Len(m[block]) \in Nat /\ DOMAIN m[block] = 1 .. Len(m[block])
      BY Zenon, <2>2, SequenceDomain, Zenon DEF WellFormed, BlocksInv
    <2>4. found \subseteq DOMAIN m[block]
      OBVIOUS
    <2> HIDE DEF found, block
    <2> QED
      BY <2>3, <2>4
  <1> HIDE DEF found
  <1>4. found # {} => Least \in found
    BY <1>3, LeastNumber, Zenon
  <1> HIDE DEF Least
  <1> QED
    BY <1>1, <1>2, <1>4, Zenon

(* The message of a signal in a network's tree is one of the network's. *)
LEMMA SignalInTree ==
    ASSUME NEW m, NEW hs, NEW n, WellFormed(m, hs, n),
           NEW h \in hs, m[h][1].kind = "Network",
           NEW b \in Reach(m, h), NEW i \in DOMAIN m[b], m[b][i].kind = "Signal"
    PROVE  \E k \in DOMAIN m[m[h][1].lists.messages] :
              m[m[h][1].lists.messages][k].lists.signals = b
  <1> DEFINE R == Reach(m, h)
  <1>1. IsTree(m, hs, h, R)
    BY ReachIsTree, Zenon
  <1> HIDE DEF R
  <1>2. ASSUME NEW c \in R, c # h, NEW j \in DOMAIN m[c]
        PROVE  \E d \in R : \E k \in DOMAIN m[d] : \E l \in DOMAIN m[d][k].lists :
                 /\ c = m[d][k].lists[l] /\ m[d][k].kind \in Kind
                 /\ l \in DOMAIN ListKinds[m[d][k].kind]
                 /\ m[c][j].kind = ListKinds[m[d][k].kind][l]
    <2>1. PICK d \in R : \E k \in DOMAIN m[d] : c \in Blocks(m[d][k])
      BY <1>1, <1>2 DEF IsTree
    <2>2. PICK k \in DOMAIN m[d] : c \in Blocks(m[d][k])
      BY <2>1
    <2>3. PICK l \in DOMAIN m[d][k].lists : c = m[d][k].lists[l]
      BY <2>2 DEF Blocks
    <2>4. /\ m[d][k].kind \in Kind
          /\ l \in DOMAIN ListKinds[m[d][k].kind]
          /\ m[c][j].kind = ListKinds[m[d][k].kind][l]
      BY <1>1, <2>3, BufferOf DEF IsTree
    <2> QED
      BY <2>3, <2>4
  <1>3. DOMAIN m[h] = {1}
    BY HandleIs
  <1>4. b \in R /\ b # h
    BY <1>3 DEF R
  <1>5. PICK c \in R : \E k \in DOMAIN m[c] : \E l \in DOMAIN m[c][k].lists :
          /\ b = m[c][k].lists[l] /\ m[c][k].kind \in Kind
          /\ l \in DOMAIN ListKinds[m[c][k].kind]
          /\ m[b][i].kind = ListKinds[m[c][k].kind][l]
    BY <1>4, <1>2
  <1>6. PICK k \in DOMAIN m[c] : m[c][k].kind = "Message" /\ b = m[c][k].lists.signals
    BY <1>5, ListsOfKinds
  <1>7. c # h
    BY <1>3, <1>6
  <1>8. PICK d \in R : \E q \in DOMAIN m[d] : \E l \in DOMAIN m[d][q].lists :
          /\ c = m[d][q].lists[l] /\ m[d][q].kind \in Kind
          /\ l \in DOMAIN ListKinds[m[d][q].kind]
          /\ m[c][k].kind = ListKinds[m[d][q].kind][l]
    BY <1>7, <1>2, Zenon
  <1>9. PICK q \in DOMAIN m[d] : m[d][q].kind = "Network" /\ c = m[d][q].lists.messages
    BY <1>6, <1>8, ListsOfKinds, Zenon
  <1>10. d = h
    <2>1. ASSUME d # h
          PROVE  FALSE
      <3>1. PICK e \in R : \E p \in DOMAIN m[e] : \E l \in DOMAIN m[e][p].lists :
              /\ m[e][p].kind \in Kind
              /\ l \in DOMAIN ListKinds[m[e][p].kind]
              /\ m[d][q].kind = ListKinds[m[e][p].kind][l]
        BY <2>1, <1>2
      <3>2. PICK kind \in Kind : \E l \in DOMAIN ListKinds[kind] : ListKinds[kind][l] = "Network"
        BY <3>1, <1>9
      <3>3. PICK l \in DOMAIN ListKinds[kind] : ListKinds[kind][l] = "Network"
        BY <3>2
      <3>4. Rank("Network") < Rank(kind) /\ Rank(kind) \in 1 .. 3
        BY <3>3, ListsOfKinds
      <3>5. Rank("Network") = 3
        BY DEF Rank
      <3> QED
        BY <3>4, <3>5
    <2> QED
      BY <2>1
  <1>11. c = m[h][1].lists.messages
    BY <1>3, <1>9, <1>10
  <1> QED
    BY <1>6, <1>11, Zenon

(* A network names its own message for each of its signals, and none for    *)
(* the signals of other trees, copies of its own included.                  *)
THEOREM ParentMessageIsRight == Spec => []ParentMessageFinds
  <1>1. ASSUME IInv, NEW n \in Networks, NEW a \in Addresses, At(a).kind = "Signal"
        PROVE  LET parent == ParentMessage(mem, Object(n), a)
               IN  IF a[1] \in Reach(mem, n)
                     THEN /\ parent \in Addresses /\ parent[1] \in Blocks(Object(n))
                          /\ At(parent).lists.signals = a[1]
                     ELSE parent = Null
    <2> DEFINE block  == Object(n).lists.messages
               parent == ParentMessage(mem, Object(n), a)
               found  == HasSignal(mem, block, a)
    <2>1. WellFormed(mem, handles, created)
      BY <1>1 DEF IInv
    <2>2. n \in handles /\ Object(n) = mem[n][1] /\ Object(n).kind = "Network"
      BY DEF Networks, Object
    <2>3. a = << a[1], a[2] >> /\ a[1] \in DOMAIN mem /\ a[2] \in DOMAIN mem[a[1]]
      BY AddressIs
    <2>4. /\ found = {} => parent = Null
          /\ found # {} => \E i \in found : parent = << block, i >>
      <3>1. mem[n][1].kind = "Network"
        BY <2>2
      <3>2. LET b == mem[n][1].lists.messages
                p == ParentMessage(mem, mem[n][1], a)
            IN  /\ HasSignal(mem, b, a) = {} => p = Null
                /\ HasSignal(mem, b, a) # {} => \E i \in HasSignal(mem, b, a) : p = << b, i >>
        BY <2>1, <2>2, <2>3, <3>1, ParentIs, Zenon
      <3> QED
        BY <3>2, Zenon DEF Object
    <2>5. ObjectInv(mem, created, Object(n)) /\ 1 \in DOMAIN mem[n]
      BY <2>1, <2>2, HandleIs
    <2>6. "messages" \in DOMAIN Object(n).lists
      BY <2>2, <2>5, ListsOfMessages DEF ObjectInv
    <2>7. block \in DOMAIN mem /\ block \in Blocks(Object(n))
      BY <2>5, <2>6 DEF ObjectInv, Blocks
    <2> HIDE DEF parent
    <2>8. CASE a[1] \in Reach(mem, n)
      <3>1. found # {}
        BY <1>1, <2>1, <2>2, <2>3, <2>8, SignalInTree DEF HasSignal, At
      <3>2. PICK i \in found : parent = << block, i >>
        BY <3>1, <2>4
      <3>3. i \in DOMAIN mem[block] /\ mem[block][i].lists.signals = a[1]
        BY DEF HasSignal
      <3> HIDE DEF block
      <3>4. parent \in Addresses
        BY <3>2, <3>3, <2>7 DEF Addresses, Address
      <3>5. parent[1] = block /\ At(parent).lists.signals = a[1]
        BY <3>2, <3>3 DEF At
      <3> QED
        BY <2>7, <2>8, <3>4, <3>5, Zenon DEF parent
    <2>9. CASE a[1] \notin Reach(mem, n)
      <3>1. IsTree(mem, handles, n, Reach(mem, n))
        BY <2>1, <2>2, ReachIsTree
      <3>2. block \in Reach(mem, n)
        BY <3>1, <2>2, <2>5, <2>7 DEF IsTree
      <3>3. ASSUME NEW i \in found
            PROVE  FALSE
        <4>1. i \in DOMAIN mem[block] /\ mem[block][i].lists.signals = a[1]
          BY Zenon, Zenon DEF HasSignal
        <4>2. mem[block][i].kind = ListKinds["Network"].messages
          BY <2>2, <2>5, <2>6, <4>1 DEF ObjectInv
        <4>3. "signals" \in DOMAIN mem[block][i].lists
          BY <2>1, <2>7, <4>1, <4>2, ListsOfMessages, MessageLists, Zenon
        <4>4. a[1] \in Blocks(mem[block][i])
          BY <4>1, <4>3 DEF Blocks
        <4> QED
          BY <3>1, <3>2, <4>1, <4>4, <2>9 DEF IsTree
      <3>4. parent = Null
        BY <3>3, <2>4
      <3> QED
        BY <2>9, <3>4 DEF parent
    <2> QED
      BY <2>8, <2>9
  <1>2. IInv => ParentMessageFinds
    BY <1>1 DEF ParentMessageFinds
  <1> QED
    BY <1>2, Invariance, PTL

-----------------------------------------------------------------------------
(* What a step does to a block that is not a handle's and not in a          *)
(* network's own lists: nothing, or it is freed with all that is in it.     *)
NetworksOwn == UNION { Blocks(Object(n)) : n \in Networks }

(* A list that is not one of a network stays, or its block goes in a step   *)
(* that changes nothing else.                                               *)
LEMMA StepKeepsParts ==
    ASSUME IInv, [Next]_vars,
           NEW b \in DOMAIN mem, b \notin handles, b \notin NetworksOwn
    PROVE  \/ b \in DOMAIN mem' /\ mem'[b] = mem[b]
           \/ \A c \in DOMAIN mem' : c # b /\ c \in DOMAIN mem /\ mem'[c] = mem[c]
  <1>1. WellFormed(mem, handles, created) /\ created \in Nat
    BY DEF IInv, WellFormed
  <1>2. CASE Creates
    <2>1. PICK kind \in Kind : \E contents, members, freed, indicator :
            CreateTaking(kind, contents, members, freed, indicator)
      BY <1>1, <1>2, CreatesTake
    <2>2. PICK contents, members, freed, indicator :
            CreateTaking(kind, contents, members, freed, indicator)
      BY <2>1
    <2> DEFINE inline == { Object(g).id : g \in members }
               object == NewObject(created, kind, contents, inline, indicator)
    <2>3. /\ freed \subseteq handles /\ Fits(mem, kind, contents, freed)
          /\ Create(kind, contents, freed, freed, inline, indicator)
      BY <2>2 DEF CreateTaking, Takes
    <2> HIDE DEF inline
    <2>4. mem' = NewMemory(mem, created, contents, freed, object)
      BY <2>3, CreateIs
    <2> HIDE DEF object
    <2>5. \A l \in DOMAIN contents : l # "self" /\ Sequence(contents[l])
      BY <2>3, ListsOfKinds DEF Fits
    <2>6. BlocksInv(mem, created)
      BY <1>1 DEF WellFormed
    <2>7. /\ DOMAIN mem' = (DOMAIN mem \ freed)
                \cup { Buffer(created + 1, l) : l \in DOMAIN contents } \cup {Self(created + 1)}
          /\ \A c \in DOMAIN mem \ freed : c[1] # created + 1 /\ mem'[c] = mem[c]
      BY <1>1, <2>4, <2>5, <2>6, NewMemoryIs
    <2> QED
      BY <2>3, <2>7
  <1>3. ASSUME NEW h \in handles, Free(h)
        PROVE  \/ b \in DOMAIN mem' /\ mem'[b] = mem[b]
               \/ \A c \in DOMAIN mem' : c # b /\ c \in DOMAIN mem /\ mem'[c] = mem[c]
    BY <1>3 DEF Free
  <1>4. ASSUME NEW h \in handles, Clone(h)
        PROVE  b \in DOMAIN mem' /\ mem'[b] = mem[b]
    <2> DEFINE R == Reach(mem, h)
    <2>1. IsTree(mem, handles, h, R)
      BY <1>1, ReachIsTree
    <2>2. PICK fresh, copy :
            /\ Numbers(fresh, Ids(mem, R), created, created')
            /\ IsCopy(copy, mem, R, fresh)
            /\ mem' = WithCopy(mem, copy)
      BY <1>4, CloneIs
    <2> HIDE DEF R
    <2>3. ASSUME NEW c \in R
          PROVE  CopyName(fresh, c) # b
      <3>1. fresh[c[1]] \in (created + 1) .. created'
        BY <1>1, <2>1, <2>2, TreeIds DEF Numbers
      <3>2. CopyName(fresh, c)[1] = fresh[c[1]]
        BY DEF CopyName
      <3>3. b[1] \in 1 .. created
        BY <1>1 DEF WellFormed, BlocksInv
      <3>4. created' \in Nat
        BY <2>2 DEF Numbers
      <3> QED
        BY <1>1, <3>1, <3>2, <3>3, <3>4
    <2>4. b \notin DOMAIN copy
      BY Zenon, <2>2, <2>3, Zenon DEF IsCopy
    <2> QED
      BY <2>2, <2>4 DEF WithCopy
  <1>5. ASSUME NEW h \in HandlesOf("Network"), NEW other \in HandlesOf("Network"),
               NEW grown \in SUBSET NonEmptyLists(other), Merge(h, other, grown)
        PROVE  b \in DOMAIN mem' /\ mem'[b] = mem[b]
    <2>1. PICK home : /\ CanMerge(mem, handles, h, other, home)
                      /\ IsMerged(mem', mem, h, other, home)
      BY <1>5, MergeIs
    <2>2. h \in Networks /\ other \in Networks
      BY DEF HandlesOf, Networks
    <2>3. b # h /\ b \notin Gone(mem, h, other)
      BY <2>2 DEF Gone, NetworksOwn, Object, Networks
    <2> QED
      BY <2>1, <2>3, Zenon DEF IsMerged
  <1>6. CASE UNCHANGED vars
    BY <1>6 DEF vars
  <1> QED
    BY <1>2, <1>3, <1>4, <1>5, <1>6 DEF Next

(* An object that is in a list stays where it is for as long as it lives,   *)
(* whatever its owner is moved into: Create, Free, Clone and Merge move     *)
(* only handles' own objects and the direct elements of a network's lists.  *)
THEOREM PartsDoStayPut == Spec => PartsStayPut
  <1> DEFINE Stay == \A a \in Addresses :
                 a[1] \notin handles \cup UNION { Blocks(Object(n)) : n \in Networks }
                   => \A o \in AllCells(mem)' :
                        o.id = At(a).id => a \in Addresses' /\ mem'[a[1]][a[2]] = o
  <1>1. ASSUME IInv, IInv', [Next]_vars
        PROVE  Stay
    <2>1. ASSUME NEW a \in Addresses,
                 a[1] \notin handles \cup UNION { Blocks(Object(n)) : n \in Networks },
                 NEW o \in AllCells(mem'), o.id = At(a).id
          PROVE  a \in Addresses' /\ mem'[a[1]][a[2]] = o
      <3> DEFINE b == a[1]
                 i == a[2]
      <3>1. a = << b, i >> /\ b \in DOMAIN mem /\ i \in DOMAIN mem[b]
            /\ o.id = mem[b][i].id
        BY <2>1, AddressIs DEF At
      <3>2. PICK c \in DOMAIN mem' : \E j \in DOMAIN mem'[c] : o = mem'[c][j]
        BY DEF AllCells, Cells
      <3>3. PICK j \in DOMAIN mem'[c] : o = mem'[c][j]
        BY <3>2
      <3>4. b \notin handles /\ b \notin NetworksOwn
        BY <2>1 DEF NetworksOwn
      <3> HIDE DEF b, i
      <3>5. \/ b \in DOMAIN mem' /\ mem'[b] = mem[b]
            \/ \A d \in DOMAIN mem' : d # b /\ d \in DOMAIN mem /\ mem'[d] = mem[d]
        BY <1>1, <3>1, <3>4, StepKeepsParts
      <3>6. NumbersInv(mem) /\ NumbersInv(mem')
        BY <1>1 DEF IInv, WellFormed
      <3>7. CASE b \in DOMAIN mem' /\ mem'[b] = mem[b]
        <4>1. c = b /\ j = i
          BY <3>1, <3>3, <3>6, <3>7 DEF NumbersInv
        <4>2. a \in Addresses'
          BY <3>1, <3>7 DEF Addresses, Address
        <4> QED
          BY <3>3, <4>1, <4>2 DEF b, i
      <3>8. CASE \A d \in DOMAIN mem' : d # b /\ d \in DOMAIN mem /\ mem'[d] = mem[d]
        <4>1. c \in DOMAIN mem /\ c # b /\ j \in DOMAIN mem[c] /\ o = mem[c][j]
          BY <3>3, <3>8
        <4> QED
          BY <3>1, <3>6, <4>1 DEF NumbersInv
      <3> QED
        BY <3>5, <3>7, <3>8
    <2>2. AllCells(mem)' = AllCells(mem')
      BY DEF AllCells, Cells
    <2> QED
      BY <2>1, <2>2
  <1>2. IInv /\ IInv' /\ [Next]_vars => [Stay]_vars
    BY <1>1
  <1> QED
    BY <1>2, Invariance, PTL DEF Spec, PartsStayPut

-----------------------------------------------------------------------------
(* The trees the caller holds. A tree depends on its own blocks only.       *)
TreeAt(m, h)  == TreeOver(Trees3(m), m[h][1])
Forest(m, hs) == { TreeAt(m, h) : h \in hs }

Closed(m, S) ==
    S \subseteq DOMAIN m /\ \A b \in S : \A i \in DOMAIN m[b] : Blocks(m[b][i]) \subseteq S
Same(m, m2, S) == \A b \in S : b \in DOMAIN m2 /\ m2[b] = m[b]

(* A tree depends on the trees of its parts.                                *)
LEMMA TreeOverAgrees ==
    ASSUME NEW sub, NEW sub2, NEW o, \A b \in Blocks(o) : sub[b] = sub2[b]
    PROVE  TreeOver(sub, o) = TreeOver(sub2, o)
  <1>1. \A l \in DOMAIN o.lists : sub[o.lists[l]] = sub2[o.lists[l]]
    BY DEF Blocks
  <1>2. [ l \in DOMAIN o.lists |-> sub[o.lists[l]] ] = [ l \in DOMAIN o.lists |-> sub2[o.lists[l]] ]
    BY <1>1
  <1> QED
    BY <1>2 DEF TreeOver

(* Blocks that are the same have the same trees if the blocks below have.   *)
LEMMA TreesOverAgree ==
    ASSUME NEW m, NEW m2, NEW S, Closed(m, S), Same(m, m2, S),
           NEW sub, NEW sub2, \A b \in S : sub[b] = sub2[b]
    PROVE  \A b \in S : TreesOver(sub, m)[b] = TreesOver(sub2, m2)[b]
  <1> SUFFICES ASSUME NEW b \in S
               PROVE  TreesOver(sub, m)[b] = TreesOver(sub2, m2)[b]
    OBVIOUS
  <1>1. b \in DOMAIN m /\ b \in DOMAIN m2 /\ m2[b] = m[b]
    BY DEF Closed, Same
  <1>2. ASSUME NEW i \in DOMAIN m[b]
        PROVE  TreeOver(sub, m[b][i]) = TreeOver(sub2, m[b][i])
    <2>1. \A c \in Blocks(m[b][i]) : sub[c] = sub2[c]
      BY DEF Closed
    <2> QED
      BY <2>1, TreeOverAgrees
  <1>3. /\ TreesOver(sub, m)[b] = [ i \in DOMAIN m[b] |-> TreeOver(sub, m[b][i]) ]
        /\ TreesOver(sub2, m2)[b] = [ i \in DOMAIN m[b] |-> TreeOver(sub2, m[b][i]) ]
    BY <1>1 DEF TreesOver
  <1> QED
    BY <1>2, <1>3

(* What happens outside a closed set of blocks changes no tree in it.       *)
LEMMA TreesStay ==
    ASSUME NEW m, NEW m2, NEW S, Closed(m, S), Same(m, m2, S),
           NEW o, Blocks(o) \subseteq S
    PROVE  /\ TreeOver(Trees2(m2), o) = TreeOver(Trees2(m), o)
           /\ TreeOver(Trees3(m2), o) = TreeOver(Trees3(m), o)
  <1>1. \A b \in S : Trees1(m)[b] = Trees1(m2)[b]
    BY TreesOverAgree DEF Trees1
  <1>2. \A b \in S : Trees2(m)[b] = Trees2(m2)[b]
    BY <1>1, TreesOverAgree DEF Trees2
  <1>3. \A b \in S : Trees3(m)[b] = Trees3(m2)[b]
    BY <1>2, TreesOverAgree DEF Trees3
  <1> QED
    BY <1>2, <1>3, TreeOverAgrees

(* A tree with nothing changed in it is the same afterwards.                *)
LEMMA OtherTrees ==
    ASSUME NEW m, NEW hs, NEW n, WellFormed(m, hs, n),
           NEW m2, NEW S, Closed(m, S), Same(m, m2, S), NEW h \in hs, h \in S
    PROVE  TreeAt(m2, h) = TreeAt(m, h)
  <1>1. 1 \in DOMAIN m[h]
    BY HandleIs
  <1>2. m2[h] = m[h] /\ Blocks(m[h][1]) \subseteq S
    BY <1>1 DEF Closed, Same
  <1> QED
    BY <1>2, TreesStay DEF TreeAt

(* A tree has the number and the kind of its handle.                        *)
LEMMA TreeIdIs ==
    ASSUME NEW m, NEW hs, NEW n, WellFormed(m, hs, n), NEW h \in hs
    PROVE  TreeAt(m, h).id = h[1] /\ TreeAt(m, h).kind = m[h][1].kind /\ h[1] \in 1 .. n
  BY HandleIs DEF TreeAt, TreeOver

(* Handles have different trees.                                            *)
LEMMA ForestWithout ==
    ASSUME NEW m, NEW hs, NEW n, WellFormed(m, hs, n), NEW K \in SUBSET hs
    PROVE  Forest(m, hs) \ Forest(m, K) = Forest(m, hs \ K)
  <1>1. ASSUME NEW g \in hs, NEW h \in hs, TreeAt(m, g) = TreeAt(m, h)
        PROVE  g = h
    <2>1. g[1] = h[1]
      BY <1>1, TreeIdIs
    <2>2. g = Self(g[1]) /\ h = Self(h[1])
      BY HandleIs
    <2> QED
      BY <2>1, <2>2
  <1> QED
    BY <1>1 DEF Forest

(* An object lies deeper than the one whose list it is in, and a tree is    *)
(* not deeper than its object's rank.                                       *)
LEMMA RankBelow ==
    ASSUME NEW m, NEW hs, NEW n, WellFormed(m, hs, n),
           NEW b \in DOMAIN m, NEW i \in DOMAIN m[b], NEW c \in Blocks(m[b][i])
    PROVE  /\ c \in DOMAIN m
           /\ \A j \in DOMAIN m[c] : /\ Rank(m[c][j].kind) \in Nat
                                     /\ Rank(m[c][j].kind) < Rank(m[b][i].kind)
           /\ Rank(m[b][i].kind) \in 1 .. 3
  <1>1. PICK l \in DOMAIN m[b][i].lists : c = m[b][i].lists[l]
    BY DEF Blocks
  <1> DEFINE kind == m[b][i].kind
  <1>2. /\ kind \in Kind /\ l \in DOMAIN ListKinds[kind] /\ c \in DOMAIN m
        /\ \A j \in DOMAIN m[c] : m[c][j].kind = ListKinds[kind][l]
    BY <1>1, BufferOf
  <1> HIDE DEF kind
  <1>3. /\ Rank(kind) \in 1 .. 3 /\ Rank(ListKinds[kind][l]) \in Nat
        /\ Rank(ListKinds[kind][l]) < Rank(kind)
    BY <1>2, ListsOfKinds
  <1>4. \A j \in DOMAIN m[c] : /\ Rank(m[c][j].kind) \in Nat
                               /\ Rank(m[c][j].kind) < Rank(kind)
    BY <1>2, <1>3
  <1> QED
    BY <1>2, <1>3, <1>4 DEF kind

(* Two ways to look into the lists agree on objects of up to one rank, when *)
(* they do so on the blocks of those of a lower one.                        *)
AgreeBelow(m, sub, sub2, k) ==
    \A b \in DOMAIN m : (\A i \in DOMAIN m[b] : Rank(m[b][i].kind) < k) => sub[b] = sub2[b]

(* If the trees up to a rank agree, so do those one rank higher.            *)
LEMMA AgreeAbove ==
    ASSUME NEW m, NEW hs, NEW n, WellFormed(m, hs, n), NEW k \in Nat,
           NEW sub, NEW sub2, AgreeBelow(m, sub, sub2, k)
    PROVE  /\ \A b \in DOMAIN m : \A i \in DOMAIN m[b] :
                Rank(m[b][i].kind) <= k => TreeOver(sub, m[b][i]) = TreeOver(sub2, m[b][i])
           /\ AgreeBelow(m, TreesOver(sub, m), TreesOver(sub2, m), k + 1)
  <1>1. ASSUME NEW b \in DOMAIN m, NEW i \in DOMAIN m[b], Rank(m[b][i].kind) <= k
        PROVE  TreeOver(sub, m[b][i]) = TreeOver(sub2, m[b][i])
    <2>1. ASSUME NEW c \in Blocks(m[b][i])
          PROVE  sub[c] = sub2[c]
      <3>1. /\ c \in DOMAIN m /\ Rank(m[b][i].kind) \in 1 .. 3
            /\ \A j \in DOMAIN m[c] : /\ Rank(m[c][j].kind) \in Nat
                                      /\ Rank(m[c][j].kind) < Rank(m[b][i].kind)
        BY RankBelow
      <3>2. \A j \in DOMAIN m[c] : Rank(m[c][j].kind) < k
        BY <1>1, <3>1
      <3> QED
        BY <3>1, <3>2 DEF AgreeBelow
    <2> QED
      BY <2>1, TreeOverAgrees
  <1>2. ASSUME NEW b \in DOMAIN m, \A i \in DOMAIN m[b] : Rank(m[b][i].kind) < k + 1
        PROVE  TreesOver(sub, m)[b] = TreesOver(sub2, m)[b]
    <2>1. ASSUME NEW i \in DOMAIN m[b]
          PROVE  TreeOver(sub, m[b][i]) = TreeOver(sub2, m[b][i])
      <3>1. Rank(m[b][i].kind) \in Nat
        BY DEF Rank
      <3>2. Rank(m[b][i].kind) <= k
        BY <1>2, <3>1
      <3> QED
        BY <1>1, <3>2
    <2> QED
      BY <2>1 DEF TreesOver
  <1> QED
    BY <1>1, <1>2 DEF AgreeBelow

(* Following the parts of an object of low rank once more changes nothing.  *)
LEMMA ShallowTrees ==
    ASSUME NEW m, NEW hs, NEW n, WellFormed(m, hs, n),
           NEW b \in DOMAIN m, NEW i \in DOMAIN m[b], Rank(m[b][i].kind) <= 2
    PROVE  TreeOver(Trees2(m), m[b][i]) = TreeOver(Trees3(m), m[b][i])
  <1>1. ASSUME NEW c \in DOMAIN m, \A j \in DOMAIN m[c] : Rank(m[c][j].kind) < 1
        PROVE  Trees1(m)[c] = Trees2(m)[c]
    <2>1. ASSUME NEW j \in DOMAIN m[c]
          PROVE  TreeOver(<< >>, m[c][j]) = TreeOver(Trees1(m), m[c][j])
      <3>1. Rank(m[c][j].kind) < 1
        BY <1>1
      <3>2. Blocks(m[c][j]) = {}
        BY <3>1, RankBelow
      <3> QED
        BY <3>2, TreeOverAgrees
    <2> QED
      BY <2>1 DEF Trees1, Trees2, TreesOver
  <1>2. AgreeBelow(m, Trees1(m), Trees2(m), 1)
    BY <1>1 DEF AgreeBelow
  <1>3. AgreeBelow(m, Trees2(m), Trees3(m), 1 + 1)
    BY <1>2, AgreeAbove DEF Trees2, Trees3
  <1>4. AgreeBelow(m, Trees2(m), Trees3(m), 2)
    BY <1>3
  <1> QED
    BY <1>4, AgreeAbove

-----------------------------------------------------------------------------
(* Every step is one of the trees' (ObjectTrees).                           *)
LEMMA ForestIs == { Tree(h) : h \in handles } = Forest(mem, handles)
  BY DEF Tree, Object, Forest, TreeAt

(* The trees held in the next state.                                        *)
LEMMA ForestIsNext == { Tree(h) : h \in handles }' = Forest(mem', handles')
  BY DEF Tree, Object, Forest, TreeAt

(* Free: the other trees have no blocks in the one that goes. *)
LEMMA FreeReleases ==
    ASSUME IInv, NEW h \in handles, Free(h)
    PROVE  Trees!Release
  <1> DEFINE R  == Reach(mem, h)
             S  == DOMAIN mem \ R
             m2 == mem'
  <1>1. WellFormed(mem, handles, created)
    BY DEF IInv
  <1>2. IsTree(mem, handles, h, R)
    BY <1>1, ReachIsTree
  <1>3. m2 = [ b \in S |-> mem[b] ] /\ handles' = handles \ {h}
    BY DEF Free
  <1> HIDE DEF R, m2
  <1>4. Closed(mem, S)
    <2>1. ASSUME NEW b \in S, NEW i \in DOMAIN mem[b]
          PROVE  Blocks(mem[b][i]) \subseteq S
      <3>1. Blocks(mem[b][i]) \cap R = {}
        BY <1>1, <1>2, TreeApart
      <3>2. Blocks(mem[b][i]) \subseteq DOMAIN mem
        BY <1>1, BufferOf DEF Blocks
      <3> QED
        BY <3>1, <3>2
    <2> QED
      BY <2>1 DEF Closed
  <1>5. Same(mem, m2, S)
    BY <1>3 DEF Same
  <1>6. ASSUME NEW g \in handles \ {h}
        PROVE  TreeAt(m2, g) = TreeAt(mem, g)
    <2>1. g \in S
      BY <1>1, <1>2, HandleIs DEF IsTree
    <2> HIDE DEF S
    <2> QED
      BY <2>1, <1>1, <1>4, <1>5, OtherTrees
  <1>7. Forest(m2, handles \ {h}) = Forest(mem, handles \ {h})
    BY <1>6 DEF Forest
  <1>8. Forest(mem, handles) \ Forest(mem, {h}) = Forest(mem, handles \ {h})
    BY <1>1, ForestWithout
  <1>9. Forest(mem, {h}) = { TreeAt(mem, h) } /\ TreeAt(mem, h) \in Forest(mem, handles)
    BY DEF Forest
  <1>10. Forest(mem', handles') = Forest(mem, handles) \ { TreeAt(mem, h) }
    BY <1>3, <1>7, <1>8, <1>9 DEF m2
  <1> QED
    BY <1>9, <1>10, ForestIs, ForestIsNext DEF Trees!Release

(* Merge: the objects that move take their trees with them.                 *)
LEMMA SequencesEqual ==
    ASSUME NEW x, NEW y, Sequence(x), Sequence(y), Len(x) = Len(y),
           \A i \in 1 .. Len(x) : x[i] = y[i]
    PROVE  x = y
  <1> DEFINE E == { x[i] : i \in DOMAIN x }
             n == Len(x)
  <1>1. n \in Nat /\ DOMAIN x = 1 .. n /\ DOMAIN y = 1 .. n
    BY SequenceDomain
  <1>2. x \in Seq(E) /\ y \in Seq({ y[i] : i \in DOMAIN y })
    BY DEF Sequence
  <1> HIDE DEF E, n
  <1>3. x = [ i \in 1 .. n |-> x[i] ] /\ y = [ i \in 1 .. n |-> y[i] ]
    BY <1>1, <1>2
  <1>4. \A i \in 1 .. n : x[i] = y[i]
    BY DEF n
  <1> QED
    BY <1>3, <1>4

(* A sequence of the elements of u, then of v.                              *)
LEMMA ConcatIs ==
    ASSUME NEW u, NEW v, NEW w, Sequence(u), Sequence(v), Sequence(w),
           Len(w) = Len(u) + Len(v),
           \A i \in 1 .. Len(u) : w[i] = u[i],
           \A i \in 1 .. Len(v) : w[Len(u) + i] = v[i]
    PROVE  w = u \o v
  <1> DEFINE x == u \o v
  <1>1. /\ Len(u) \in Nat /\ DOMAIN u = 1 .. Len(u)
        /\ Len(v) \in Nat /\ DOMAIN v = 1 .. Len(v)
    BY SequenceDomain
  <1>2. /\ Sequence(x) /\ DOMAIN x = 1 .. Len(u) + Len(v)
        /\ \A i \in DOMAIN u : x[i] = u[i]
        /\ \A i \in DOMAIN v : x[Len(u) + i] = v[i]
    BY SequenceConcat
  <1> HIDE DEF x
  <1>3. Len(x) \in Nat /\ DOMAIN x = 1 .. Len(x)
    BY <1>2, SequenceDomain
  <1>4. Len(x) = Len(u) + Len(v)
    BY <1>1, <1>2, <1>3
  <1>5. ASSUME NEW i \in 1 .. Len(w)
        PROVE  w[i] = x[i]
    <2>1. CASE i <= Len(u)
      BY <2>1, <1>1, <1>2
    <2>2. CASE ~ (i <= Len(u))
      <3> DEFINE k == i - Len(u)
      <3>1. k \in 1 .. Len(v) /\ Len(u) + k = i
        BY <2>2, <1>1
      <3> HIDE DEF k
      <3> QED
        BY <3>1, <1>1, <1>2
    <2> QED
      BY <2>1, <2>2
  <1>6. w = x
    BY <1>2, <1>4, <1>5, SequencesEqual
  <1> QED
    BY <1>6 DEF x

(* A merge joins the two trees, list by list, and leaves the others alone.  *)
LEMMA MergedTree ==
    ASSUME NEW m, NEW hs, NEW n, WellFormed(m, hs, n),
           NEW h, NEW other, NEW home, CanMerge(m, hs, h, other, home),
           NEW m2, IsMerged(m2, m, h, other, home)
    PROVE  /\ \A g \in hs \ {h, other} : TreeAt(m2, g) = TreeAt(m, g)
           /\ TreeAt(m2, h) = Trees!Absorbed(TreeAt(m, h), TreeAt(m, other))
  <1> DEFINE network == m[h][1]
             old     == m[other][1]
             S       == DOMAIN m \ (Gone(m, h, other) \cup {h})
  <1>1. /\ DOMAIN m2 = (DOMAIN m \ Gone(m, h, other)) \cup { home[l] : l \in NetworkLists }
        /\ m2[h] = << [ network EXCEPT !.lists = home ] >>
        /\ \A l \in NetworkLists : m2[home[l]] = m[network.lists[l]] \o m[old.lists[l]]
        /\ \A b \in DOMAIN m \ Gone(m, h, other) : b # h => m2[b] = m[b]
    BY Zenon DEF IsMerged
  <1>2. /\ h \in hs /\ other \in hs /\ h # other
        /\ h \in DOMAIN m /\ other \in DOMAIN m /\ 1 \in DOMAIN m[h] /\ 1 \in DOMAIN m[other]
        /\ ObjectInv(m, n, network) /\ ObjectInv(m, n, old)
        /\ DOMAIN network.lists = NetworkLists /\ DOMAIN old.lists = NetworkLists
        /\ DOMAIN home = NetworkLists
        /\ \A l \in NetworkLists : Sequence(m[network.lists[l]]) /\ Sequence(m[old.lists[l]])
    <2>1. h \in hs /\ other \in hs /\ h # other /\ DOMAIN home = NetworkLists
      BY Zenon DEF CanMerge
    <2>2. /\ h \in DOMAIN m \ Gone(m, h, other) /\ other \in DOMAIN m
          /\ DOMAIN m[h] = {1} /\ DOMAIN m[other] = {1}
          /\ ObjectInv(m, n, network) /\ ObjectInv(m, n, old)
          /\ DOMAIN network.lists = NetworkLists /\ DOMAIN old.lists = NetworkLists
      BY MergeFacts
    <2>3. \A l \in NetworkLists : Sequence(m[network.lists[l]]) /\ Sequence(m[old.lists[l]])
      BY MergeFacts, Zenon, Zenon
    <2>4. h \in DOMAIN m /\ 1 \in DOMAIN m[h] /\ 1 \in DOMAIN m[other]
      BY <2>2
    <2> QED
      BY <2>1, <2>2, <2>3, <2>4
  <1>3. Closed(m, S)
    <2>1. ASSUME NEW b \in S, NEW i \in DOMAIN m[b], NEW c \in Blocks(m[b][i])
          PROVE  c \in S
      <3>1. c \in DOMAIN m /\ c[2] # "self"
        BY BufferOf DEF Blocks
      <3>2. c # h /\ c # other
        BY <3>1, <1>2, HandleIs
      <3>3. b # h /\ b # other
        BY DEF Gone
      <3>4. c \notin Blocks(network) /\ c \notin Blocks(old)
        BY <1>2, <3>3, OneOwnerOf
      <3> QED
        BY <3>1, <3>2, <3>4 DEF Gone
    <2> QED
      BY <2>1 DEF Closed
  <1>4. Same(m, m2, S)
    BY <1>1, Zenon DEF Same
  <1>5. ASSUME NEW g \in hs \ {h, other}
        PROVE  TreeAt(m2, g) = TreeAt(m, g)
    <2>1. g \in S
      <3>1. g \in DOMAIN m /\ g[2] = "self"
        BY HandleIs
      <3>2. \A c \in Blocks(network) \cup Blocks(old) : c[2] # "self"
        BY <1>2, BufferOf DEF Blocks
      <3> QED
        BY <3>1, <3>2 DEF Gone
    <2> HIDE DEF S
    <2> QED
      BY <2>1, <1>3, <1>4, OtherTrees
  <1> HIDE DEF S
  \* The elements of the lists.
  <1>6. ASSUME NEW c \in {h, other}, NEW l \in DOMAIN m[c][1].lists,
               NEW i \in DOMAIN m[m[c][1].lists[l]]
        PROVE  TreeOver(Trees2(m2), m[m[c][1].lists[l]][i])
                 = TreeOver(Trees2(m), m[m[c][1].lists[l]][i])
    <2> DEFINE d == m[c][1].lists[l]
    <2>1. c \in DOMAIN m /\ 1 \in DOMAIN m[c] /\ d \in DOMAIN m /\ d[2] # "self"
      BY <1>2, BufferOf
    <2>2. d \in Blocks(m[c][1])
      BY DEF Blocks
    <2> HIDE DEF d
    <2>3. ASSUME NEW e \in Blocks(m[d][i])
          PROVE  e \in S
      <3>1. e \in DOMAIN m /\ e[2] # "self"
        BY <2>1, BufferOf DEF Blocks, d
      <3>2. e # h /\ e # other
        BY <3>1, <1>2, HandleIs
      <3>3. d # h /\ d # other
        BY <2>1, <1>2, HandleIs
      <3>4. e \notin Blocks(network) /\ e \notin Blocks(old)
        BY <1>2, <2>1, <3>3, OneOwnerOf DEF d
      <3> QED
        BY <3>1, <3>2, <3>4 DEF Gone, S
    <2>4. Blocks(m[d][i]) \subseteq S
      BY <2>3, Zenon
    <2> QED
      BY <2>4, <1>3, <1>4, TreesStay DEF d
  <1>7. ASSUME NEW l \in NetworkLists
        PROVE  Trees3(m2)[home[l]] = Trees3(m)[network.lists[l]] \o Trees3(m)[old.lists[l]]
    <2> DEFINE s == m[network.lists[l]]
               t == m[old.lists[l]]
               u == Trees3(m)[network.lists[l]]
               v == Trees3(m)[old.lists[l]]
               w == Trees3(m2)[home[l]]
    <2>1. network.lists[l] \in DOMAIN m /\ old.lists[l] \in DOMAIN m
      BY <1>2 DEF ObjectInv
    <2>2. home[l] \in DOMAIN m2 /\ m2[home[l]] = s \o t /\ Sequence(s) /\ Sequence(t)
      BY <1>1, <1>2, Zenon
    <2>3. /\ u = [ i \in DOMAIN s |-> TreeOver(Trees2(m), s[i]) ]
          /\ v = [ i \in DOMAIN t |-> TreeOver(Trees2(m), t[i]) ]
          /\ w = [ i \in DOMAIN (s \o t) |-> TreeOver(Trees2(m2), (s \o t)[i]) ]
      BY <2>1, <2>2, Zenon DEF Trees3, TreesOver
    <2>4. /\ \A i \in DOMAIN s : TreeOver(Trees2(m2), s[i]) = TreeOver(Trees2(m), s[i])
          /\ \A i \in DOMAIN t : TreeOver(Trees2(m2), t[i]) = TreeOver(Trees2(m), t[i])
      BY <1>2, <1>6
    <2> HIDE DEF s, t, u, v, w
    <2>5. /\ \A i \in DOMAIN s : (s \o t)[i] = s[i]
          /\ \A i \in DOMAIN t : (s \o t)[Len(s) + i] = t[i]
          /\ DOMAIN (s \o t) = 1 .. Len(s) + Len(t)
          /\ Len(s) \in Nat /\ Len(t) \in Nat
          /\ DOMAIN s = 1 .. Len(s) /\ DOMAIN t = 1 .. Len(t)
      BY <2>2, SequenceConcat, SequenceDomain
    <2> DEFINE st == s \o t
    <2>10. w = [ i \in 1 .. Len(s) + Len(t) |-> TreeOver(Trees2(m2), st[i]) ]
      BY <2>3, <2>5
    <2>11. /\ \A i \in 1 .. Len(s) : st[i] = s[i]
           /\ \A i \in 1 .. Len(t) : st[Len(s) + i] = t[i]
      BY <2>5
    <2> HIDE DEF st
    <2>6. /\ Sequence(u) /\ Len(u) = Len(s) /\ Sequence(v) /\ Len(v) = Len(t)
          /\ Sequence(w) /\ Len(w) = Len(s) + Len(t)
      <3>1. u = [ i \in 1 .. Len(s) |-> u[i] ]
        BY <2>3, <2>5
      <3>2. v = [ i \in 1 .. Len(t) |-> v[i] ]
        BY <2>3, <2>5
      <3>3. w = [ i \in 1 .. Len(s) + Len(t) |-> w[i] ]
        BY <2>10
      <3>4. Len(s) + Len(t) \in Nat
        BY <2>5
      <3> QED
        BY <3>1, <3>2, <3>3, <3>4, <2>5, SequenceMade
    <2>7. ASSUME NEW i \in 1 .. Len(s)
          PROVE  w[i] = u[i]
      <3>1. i \in 1 .. Len(s) + Len(t) /\ i \in DOMAIN s
        BY <2>5
      <3>2. w[i] = TreeOver(Trees2(m2), s[i])
        BY <3>1, <2>10, <2>11
      <3> QED
        BY <3>1, <3>2, <2>3, <2>4
    <2>8. ASSUME NEW i \in 1 .. Len(t)
          PROVE  w[Len(s) + i] = v[i]
      <3>1. Len(s) + i \in 1 .. Len(s) + Len(t) /\ i \in DOMAIN t
        BY <2>5
      <3>2. w[Len(s) + i] = TreeOver(Trees2(m2), t[i])
        BY <3>1, <2>10, <2>11
      <3> QED
        BY <3>1, <3>2, <2>3, <2>4
    <2>9. w = u \o v
      <3>1. /\ Len(w) = Len(u) + Len(v)
            /\ \A i \in 1 .. Len(u) : w[i] = u[i]
            /\ \A i \in 1 .. Len(v) : w[Len(u) + i] = v[i]
        BY <2>6, <2>7, <2>8
      <3>2. Sequence(u) /\ Sequence(v) /\ Sequence(w)
        BY <2>6
      <3> QED
        BY <3>1, <3>2, ConcatIs
    <2> QED
      BY <2>9, Zenon DEF u, v, w
  <1>8. TreeAt(m2, h) = Trees!Absorbed(TreeAt(m, h), TreeAt(m, other))
    <2> DEFINE merged == [ network EXCEPT !.lists = home ]
               new    == [ l \in NetworkLists |->
                            Trees3(m)[network.lists[l]] \o Trees3(m)[old.lists[l]] ]
    <2> HIDE DEF merged
    <2>1. m2[h][1] = merged
      <3>1. m2[h] = << merged >>
        BY <1>1, Zenon DEF merged
      <3> QED
        BY <3>1, SequenceOne
    <2> USE DEF merged
    <2>2. /\ merged.kind = network.kind /\ merged.id = network.id
          /\ merged.inline = network.inline /\ merged.lists = home
      BY <1>2 DEF ObjectInv, Fields
    <2> DEFINE lists == [ l \in NetworkLists |-> Trees3(m)[network.lists[l]] ]
               added == [ l \in NetworkLists |-> Trees3(m)[old.lists[l]] ]
               t     == TreeAt(m, h)
    <2> HIDE DEF merged
    <2>3. /\ TreeAt(m2, h).kind = network.kind
          /\ TreeAt(m2, h) =
               [ kind |-> network.kind, id |-> network.id,
                 inline |-> { InlineTree(network.kind, i) : i \in network.inline },
                 lists |-> [ l \in NetworkLists |-> Trees3(m2)[home[l]] ] ]
      BY <2>1, <2>2, <1>2, Zenon DEF TreeAt, TreeOver
    <2>4. [ l \in NetworkLists |-> Trees3(m2)[home[l]] ] = new
      BY <1>7, Zenon
    <2>5. /\ t = [ kind |-> network.kind, id |-> network.id,
                   inline |-> { InlineTree(network.kind, i) : i \in network.inline },
                   lists |-> lists ]
          /\ TreeAt(m, other).lists = added
      BY <1>2, Zenon DEF TreeAt, TreeOver
    <2>6. new = [ l \in NetworkLists |-> lists[l] \o added[l] ]
      BY Zenon
    <2>7. DOMAIN lists = NetworkLists
      OBVIOUS
    <2>9. Trees!Absorbed(t, TreeAt(m, other))
            = [ t EXCEPT !.lists = [ l \in DOMAIN @ |-> @[l] \o added[l] ] ]
      BY <2>5 DEF Trees!Absorbed
    <2> HIDE DEF new, lists, added, t
    <2>8. [ t EXCEPT !.lists = [ l \in DOMAIN @ |-> @[l] \o added[l] ] ]
            = [ kind |-> network.kind, id |-> network.id,
                inline |-> { InlineTree(network.kind, i) : i \in network.inline },
                lists |-> [ l \in NetworkLists |-> lists[l] \o added[l] ] ]
      <3> DEFINE all == [ l \in NetworkLists |-> lists[l] \o added[l] ]
      <3>1. t.lists = lists
        BY <2>5
      <3>2. [ l \in DOMAIN t.lists |-> t.lists[l] \o added[l] ] = all
        BY <3>1, <2>7
      <3>3. [ t EXCEPT !.lists = [ l \in DOMAIN @ |-> @[l] \o added[l] ] ]
              = [ t EXCEPT !.lists = all ]
        BY <3>2, Zenon
      <3> HIDE DEF all
      <3>4. [ t EXCEPT !.lists = all ]
              = [ kind |-> network.kind, id |-> network.id,
                  inline |-> { InlineTree(network.kind, i) : i \in network.inline },
                  lists |-> all ]
        BY <2>5
      <3> QED
        BY <3>3, <3>4 DEF all
    <2> QED
      BY <2>3, <2>4, <2>6, <2>8, <2>9, Zenon DEF t
  <1> QED
    BY <1>5, <1>8, Zenon

(* Merge is the step Absorb of the trees.                                   *)
LEMMA MergeAbsorbs ==
    ASSUME IInv, NEW h \in HandlesOf("Network"), NEW other \in HandlesOf("Network"),
           NEW grown, Merge(h, other, grown)
    PROVE  Trees!Absorb
  <1>1. WellFormed(mem, handles, created)
    BY DEF IInv
  <1>2. PICK home : /\ CanMerge(mem, handles, h, other, home)
                    /\ IsMerged(mem', mem, h, other, home)
                    /\ handles' = handles \ {other}
    BY MergeIs
  <1> DEFINE m2 == mem'
             t  == TreeAt(mem, h)
             u  == TreeAt(mem, other)
             new == Trees!Absorbed(t, u)
  <1>3. /\ \A g \in handles \ {h, other} : TreeAt(m2, g) = TreeAt(mem, g)
        /\ TreeAt(m2, h) = new
    BY <1>1, <1>2, MergedTree
  <1>4. /\ h \in handles /\ other \in handles /\ h # other
        /\ mem[h][1].kind = "Network" /\ mem[other][1].kind = "Network"
    BY <1>2 DEF CanMerge
  <1>5. t \in Forest(mem, handles) /\ u \in Forest(mem, handles)
    BY <1>4 DEF Forest
  <1>6. t.kind = "Network" /\ u.kind = "Network" /\ t # u
    <2>1. t.id = h[1] /\ u.id = other[1] /\ t.kind = "Network" /\ u.kind = "Network"
      BY <1>1, <1>4, TreeIdIs
    <2>2. h = Self(h[1]) /\ other = Self(other[1])
      BY <1>1, <1>4, HandleIs
    <2>3. h[1] # other[1]
      BY <2>2, <1>4
    <2> HIDE DEF t, u
    <2> QED
      BY <2>1, <2>3
  <1> HIDE DEF m2, new, t, u
  <1>7. Forest(m2, handles \ {other}) = Forest(mem, handles \ {h, other}) \cup {new}
    <2>1. handles \ {other} = (handles \ {h, other}) \cup {h}
      BY <1>4
    <2> QED
      BY <1>3, <2>1 DEF Forest
  <1>8. Forest(mem, handles \ {h, other}) = Forest(mem, handles) \ {t, u}
    <2>1. {h, other} \in SUBSET handles
      BY <1>4
    <2>2. Forest(mem, {h, other}) = {t, u}
      BY DEF Forest, t, u
    <2> QED
      BY <1>1, <2>1, <2>2, ForestWithout
  <1>9. Forest(mem', handles') = (Forest(mem, handles) \ {t, u}) \cup {new}
    BY <1>2, <1>7, <1>8 DEF m2
  <1> QED
    BY <1>5, <1>6, <1>9, ForestIs, ForestIsNext DEF Trees!Absorb, new

(* Clone: level by level, the copy is like the original. *)
IsLevel(t, u, o, sub, sub2, fresh, R) ==
    /\ t.kind = u.kind
    /\ DOMAIN t.lists = DOMAIN u.lists
    /\ { x.kind : x \in t.inline } = { x.kind : x \in u.inline }
    /\ DOMAIN t.lists = DOMAIN o.lists
    /\ \A l \in DOMAIN o.lists : /\ o.lists[l] \in R
                                 /\ t.lists[l] = sub[o.lists[l]]
                                 /\ u.lists[l] = sub2[CopyName(fresh, o.lists[l])]

(* An object and its copy are alike as far as themselves and their next     *)
(* parts.                                                                   *)
LEMMA CopyLevel ==
    ASSUME NEW m, NEW hs, NEW n, WellFormed(m, hs, n), NEW h, NEW R, IsTree(m, hs, h, R),
           NEW fresh, NEW n2, Numbers(fresh, Ids(m, R), n, n2),
           NEW copy, IsCopy(copy, m, R, fresh),
           NEW m2, m2 = WithCopy(m, copy), NEW sub, NEW sub2,
           NEW b \in R, NEW i \in DOMAIN m[b]
    PROVE  IsLevel(TreeOver(sub, m[b][i]), TreeOver(sub2, m2[CopyName(fresh, b)][i]),
                   m[b][i], sub, sub2, fresh, R)
  <1> DEFINE o == m[b][i]
             c == m2[CopyName(fresh, b)][i]
             t == TreeOver(sub, o)
             u == TreeOver(sub2, c)
  <1>1. b \in DOMAIN m /\ DOMAIN o = Fields
    BY DEF WellFormed, ObjectsInv, ObjectInv, IsTree
  <1>2. c = CopiedObject(m, fresh, o)
    BY DEF IsCopy, WithCopy
  <1> HIDE DEF c
  <1>3. /\ c.kind = o.kind /\ c.inline = { fresh[j] : j \in o.inline }
        /\ DOMAIN c.lists = DOMAIN o.lists
        /\ \A l \in DOMAIN o.lists : c.lists[l] = CopyName(fresh, o.lists[l])
    BY <1>1, <1>2, CopiedObjectIs
  <1>4. \A l \in DOMAIN o.lists : o.lists[l] \in R
    BY DEF IsTree, Blocks
  <1> HIDE DEF o
  <1>5. /\ t.kind = o.kind /\ u.kind = c.kind
        /\ t.lists = [ l \in DOMAIN o.lists |-> sub[o.lists[l]] ]
        /\ u.lists = [ l \in DOMAIN c.lists |-> sub2[c.lists[l]] ]
        /\ t.inline = { InlineTree(o.kind, j) : j \in o.inline }
        /\ u.inline = { InlineTree(c.kind, j) : j \in c.inline }
    BY DEF TreeOver
  <1> HIDE DEF t, u
  <1>6. { x.kind : x \in t.inline } = { x.kind : x \in u.inline }
    <2>1. \A x \in t.inline \cup u.inline : x.kind = InlineTree(o.kind, 0).kind
      BY <1>3, <1>5 DEF InlineTree
    <2>2. CASE o.inline = {}
      BY <2>2, <1>3, <1>5
    <2>3. ASSUME NEW j \in o.inline
          PROVE  /\ InlineTree(o.kind, j) \in t.inline
                 /\ InlineTree(c.kind, fresh[j]) \in u.inline
      BY <1>3, <1>5
    <2>4. CASE o.inline # {}
      <3>1. t.inline # {} /\ u.inline # {}
        BY <2>3, <2>4
      <3> QED
        BY <2>1, <3>1
    <2> QED
      BY <2>2, <2>4
  <1>7. /\ t.kind = u.kind
        /\ DOMAIN t.lists = DOMAIN o.lists /\ DOMAIN u.lists = DOMAIN o.lists
        /\ \A l \in DOMAIN o.lists :
             /\ t.lists[l] = sub[o.lists[l]]
             /\ u.lists[l] = sub2[CopyName(fresh, o.lists[l])]
    BY <1>3, <1>5
  <1> QED
    BY <1>4, <1>6, <1>7 DEF o, t, u, c, IsLevel

(* The trees of a list are the trees of its elements.                       *)
LEMMA CopyRows ==
    ASSUME NEW m, NEW hs, NEW n, WellFormed(m, hs, n), NEW h, NEW R, IsTree(m, hs, h, R),
           NEW fresh, NEW copy, IsCopy(copy, m, R, fresh),
           NEW m2, m2 = WithCopy(m, copy), NEW sub, NEW sub2, NEW b \in R
    PROVE  /\ TreesOver(sub, m)[b] = [ i \in DOMAIN m[b] |-> TreeOver(sub, m[b][i]) ]
           /\ TreesOver(sub2, m2)[CopyName(fresh, b)]
                = [ i \in DOMAIN m[b] |-> TreeOver(sub2, m2[CopyName(fresh, b)][i]) ]
  <1> DEFINE c == CopyName(fresh, b)
  <1>1. b \in DOMAIN m
    BY DEF IsTree
  <1>2. c \in DOMAIN m2 /\ DOMAIN m2[c] = DOMAIN m[b]
    BY DEF IsCopy, WithCopy
  <1> QED
    BY <1>1, <1>2 DEF TreesOver

(* The elements of the lists of an object and those of its copy's.          *)
AreRows(r, r2, m, m2, fresh, d, sub, sub2) ==
    /\ r = [ j \in DOMAIN m[d] |-> TreeOver(sub, m[d][j]) ]
    /\ r2 = [ j \in DOMAIN m[d] |-> TreeOver(sub2, m2[CopyName(fresh, d)][j]) ]

AreLike(t, u, m, m2, fresh, R, sub, sub2) ==
    /\ Trees!Alike0(t, u)
    /\ { x.kind : x \in t.inline } = { x.kind : x \in u.inline }
    /\ \A l \in DOMAIN t.lists : \E d \in R :
         AreRows(t.lists[l], u.lists[l], m, m2, fresh, d, sub, sub2)

(* The elements of a list and of its copy are alike.                        *)
LEMMA CopyElements ==
    ASSUME NEW m, NEW hs, NEW n, WellFormed(m, hs, n), NEW h, NEW R, IsTree(m, hs, h, R),
           NEW fresh, NEW n2, Numbers(fresh, Ids(m, R), n, n2),
           NEW copy, IsCopy(copy, m, R, fresh),
           NEW m2, m2 = WithCopy(m, copy), NEW sub, NEW sub2,
           NEW b \in R, NEW i \in DOMAIN m[b],
           NEW t, t = TreeOver(TreesOver(sub, m), m[b][i]),
           NEW u, u = TreeOver(TreesOver(sub2, m2), m2[CopyName(fresh, b)][i])
    PROVE  AreLike(t, u, m, m2, fresh, R, sub, sub2)
  <1> DEFINE o == m[b][i]
  <1>1. IsLevel(t, u, o, TreesOver(sub, m), TreesOver(sub2, m2), fresh, R)
    BY CopyLevel
  <1> HIDE DEF o
  <1>2. ASSUME NEW l \in DOMAIN t.lists
        PROVE  \E d \in R : AreRows(t.lists[l], u.lists[l], m, m2, fresh, d, sub, sub2)
    <2> DEFINE d == o.lists[l]
    <2>1. /\ d \in R /\ t.lists[l] = TreesOver(sub, m)[d]
          /\ u.lists[l] = TreesOver(sub2, m2)[CopyName(fresh, d)]
      BY <1>1 DEF IsLevel
    <2> HIDE DEF d
    <2>2. AreRows(t.lists[l], u.lists[l], m, m2, fresh, d, sub, sub2)
      <3>1. /\ TreesOver(sub, m)[d] = [ j \in DOMAIN m[d] |-> TreeOver(sub, m[d][j]) ]
            /\ TreesOver(sub2, m2)[CopyName(fresh, d)]
                 = [ j \in DOMAIN m[d] |-> TreeOver(sub2, m2[CopyName(fresh, d)][j]) ]
        BY <2>1, CopyRows
      <3> QED
        BY <2>1, <3>1, Zenon DEF AreRows
    <2> QED
      BY <2>1, <2>2
  <1>3. Trees!Alike0(t, u) /\ { x.kind : x \in t.inline } = { x.kind : x \in u.inline }
    BY <1>1 DEF IsLevel, Trees!Alike0
  <1> QED
    BY <1>2, <1>3 DEF AreLike

(* The tree of a copy is the one copied, under fresh numbers.               *)
LEMMA CopyIsAlike ==
    ASSUME NEW m, NEW hs, NEW n, WellFormed(m, hs, n), NEW h, NEW R, IsTree(m, hs, h, R),
           NEW fresh, NEW n2, Numbers(fresh, Ids(m, R), n, n2),
           NEW copy, IsCopy(copy, m, R, fresh),
           NEW m2, m2 = WithCopy(m, copy)
    PROVE  Trees!Alike3(TreeAt(m, h), TreeAt(m2, CopyName(fresh, h)))
  <1> DEFINE To(b) == CopyName(fresh, b)
  <1>1. ASSUME NEW b \in R, NEW i \in DOMAIN m[b]
        PROVE  Trees!Alike0(TreeOver(<< >>, m[b][i]), TreeOver(<< >>, m2[To(b)][i]))
    <2>1. IsLevel(TreeOver(<< >>, m[b][i]), TreeOver(<< >>, m2[To(b)][i]),
                  m[b][i], << >>, << >>, fresh, R)
      BY CopyLevel
    <2> QED
      BY <2>1 DEF Trees!Alike0, IsLevel
  <1>2. ASSUME NEW b \in R, NEW i \in DOMAIN m[b]
        PROVE  Trees!Alike1(TreeOver(Trees1(m), m[b][i]),
                             TreeOver(Trees1(m2), m2[To(b)][i]))
    <2> DEFINE t == TreeOver(Trees1(m), m[b][i])
               u == TreeOver(Trees1(m2), m2[To(b)][i])
    <2>1. /\ t = TreeOver(TreesOver(<< >>, m), m[b][i])
          /\ u = TreeOver(TreesOver(<< >>, m2), m2[CopyName(fresh, b)][i])
      BY DEF Trees1
    <2> HIDE DEF t, u
    <2>2. AreLike(t, u, m, m2, fresh, R, << >>, << >>)
      BY <2>1, CopyElements
    <2>3. ASSUME NEW l \in DOMAIN t.lists
          PROVE  /\ DOMAIN t.lists[l] = DOMAIN u.lists[l]
                 /\ \A j \in DOMAIN t.lists[l] :
                      Trees!Alike0(t.lists[l][j], u.lists[l][j])
      <3>1. PICK d \in R : AreRows(t.lists[l], u.lists[l], m, m2, fresh, d, << >>, << >>)
        BY <2>2 DEF AreLike
      <3> QED
        BY <3>1, <1>1 DEF AreRows
    <2>4. Trees!Alike1(t, u)
      BY <2>2, <2>3 DEF AreLike, Trees!Alike1, Trees!AlikeBy
    <2> QED
      BY <2>4 DEF t, u
  <1>3. ASSUME NEW b \in R, NEW i \in DOMAIN m[b]
        PROVE  Trees!Alike2(TreeOver(Trees2(m), m[b][i]),
                             TreeOver(Trees2(m2), m2[To(b)][i]))
    <2> DEFINE t == TreeOver(Trees2(m), m[b][i])
               u == TreeOver(Trees2(m2), m2[To(b)][i])
    <2>1. /\ t = TreeOver(TreesOver(Trees1(m), m), m[b][i])
          /\ u = TreeOver(TreesOver(Trees1(m2), m2), m2[CopyName(fresh, b)][i])
      BY DEF Trees2
    <2> HIDE DEF t, u
    <2>2. AreLike(t, u, m, m2, fresh, R, Trees1(m), Trees1(m2))
      BY <2>1, CopyElements
    <2>3. ASSUME NEW l \in DOMAIN t.lists
          PROVE  /\ DOMAIN t.lists[l] = DOMAIN u.lists[l]
                 /\ \A j \in DOMAIN t.lists[l] :
                      Trees!Alike1(t.lists[l][j], u.lists[l][j])
      <3>1. PICK d \in R : AreRows(t.lists[l], u.lists[l], m, m2, fresh, d, Trees1(m), Trees1(m2))
        BY <2>2 DEF AreLike
      <3> QED
        BY <3>1, <1>2 DEF AreRows
    <2>4. Trees!Alike2(t, u)
      BY <2>2, <2>3 DEF AreLike, Trees!Alike2, Trees!AlikeBy
    <2> QED
      BY <2>4 DEF t, u
  <1>4. ASSUME NEW b \in R, NEW i \in DOMAIN m[b]
        PROVE  Trees!Alike3(TreeOver(Trees3(m), m[b][i]),
                             TreeOver(Trees3(m2), m2[To(b)][i]))
    <2> DEFINE t == TreeOver(Trees3(m), m[b][i])
               u == TreeOver(Trees3(m2), m2[To(b)][i])
    <2>1. /\ t = TreeOver(TreesOver(Trees2(m), m), m[b][i])
          /\ u = TreeOver(TreesOver(Trees2(m2), m2), m2[CopyName(fresh, b)][i])
      BY DEF Trees3
    <2> HIDE DEF t, u
    <2>2. AreLike(t, u, m, m2, fresh, R, Trees2(m), Trees2(m2))
      BY <2>1, CopyElements
    <2>3. ASSUME NEW l \in DOMAIN t.lists
          PROVE  /\ DOMAIN t.lists[l] = DOMAIN u.lists[l]
                 /\ \A j \in DOMAIN t.lists[l] :
                      Trees!Alike2(t.lists[l][j], u.lists[l][j])
      <3>1. PICK d \in R : AreRows(t.lists[l], u.lists[l], m, m2, fresh, d, Trees2(m), Trees2(m2))
        BY <2>2 DEF AreLike
      <3> QED
        BY <3>1, <1>3 DEF AreRows
    <2>4. Trees!Alike3(t, u)
      BY <2>2, <2>3 DEF AreLike, Trees!Alike3, Trees!AlikeBy
    <2> QED
      BY <2>4 DEF t, u
  <1>5. h \in R /\ 1 \in DOMAIN m[h]
    BY HandleIs DEF IsTree
  <1> QED
    BY <1>4, <1>5 DEF TreeAt

(* Clone is the step Duplicate of the trees.                                *)
LEMMA CloneDuplicates ==
    ASSUME IInv, NEW h \in handles, Clone(h)
    PROVE  Trees!Duplicate
  <1> DEFINE R == Reach(mem, h)
  <1>1. WellFormed(mem, handles, created) /\ created \in Nat
    BY DEF IInv, WellFormed
  <1>2. IsTree(mem, handles, h, R)
    BY <1>1, ReachIsTree
  <1>3. PICK fresh, copy :
          /\ Numbers(fresh, Ids(mem, R), created, created')
          /\ IsCopy(copy, mem, R, fresh)
          /\ mem' = WithCopy(mem, copy)
          /\ handles' = handles \cup { Self(fresh[h[1]]) }
    BY CloneIs
  <1> HIDE DEF R
  <1> DEFINE m2   == mem'
             mine == CopyName(fresh, h)
             t    == TreeAt(mem, h)
             u    == TreeAt(m2, mine)
  <1>4. mine = Self(fresh[h[1]])
    BY <1>1, HandleIs DEF CopyName, Self
  <1>5. Trees!Alike3(t, u)
    BY <1>1, <1>2, <1>3, CopyIsAlike
  \* The other trees stay as they are.
  <1>6. Closed(mem, DOMAIN mem)
    BY <1>1, BufferOf DEF Closed, Blocks
  <1>7. ASSUME NEW b \in R
        PROVE  CopyName(fresh, b) \notin DOMAIN mem
    <2>1. fresh[b[1]] \in (created + 1) .. created'
      BY <1>1, <1>2, <1>3, TreeIds DEF Numbers
    <2>2. CopyName(fresh, b)[1] = fresh[b[1]] /\ created' \in Nat
      BY <1>3 DEF CopyName, Numbers
    <2>3. \A c \in DOMAIN mem : c[1] \in 1 .. created
      BY <1>1 DEF WellFormed, BlocksInv
    <2> QED
      BY <1>1, <2>1, <2>2, <2>3
  <1>8. Same(mem, m2, DOMAIN mem)
    BY <1>3, <1>7 DEF Same, WithCopy, IsCopy
  <1>9. ASSUME NEW g \in handles
        PROVE  TreeAt(m2, g) = TreeAt(mem, g)
    BY <1>1, <1>6, <1>8, HandleIs, OtherTrees
  <1>10. Forest(m2, handles') = Forest(mem, handles) \cup {u}
    <2>1. handles' = handles \cup {mine}
      BY <1>3, <1>4
    <2> HIDE DEF mine, m2
    <2> QED
      BY <2>1, <1>9 DEF Forest
  <1>11. u \notin Forest(mem, handles)
    <2>1. mine \in handles' /\ mine[1] = fresh[h[1]]
      BY <1>3, <1>4 DEF Self
    <2>2. WellFormed(m2, handles', created')
      BY <1>1, <1>2, <1>3, CloneKeeps
    <2>3. u.id = fresh[h[1]]
      BY <2>1, <2>2, TreeIdIs
    <2>4. fresh[h[1]] \in (created + 1) .. created' /\ created' \in Nat
      BY <1>1, <1>2, <1>3, TreeIds DEF Numbers, IsTree
    <2>5. \A g \in handles : TreeAt(mem, g).id \in 1 .. created
      BY <1>1, TreeIdIs
    <2> HIDE DEF u, mine, m2
    <2> QED
      BY <1>1, <2>3, <2>4, <2>5 DEF Forest
  <1>12. t \in Forest(mem, handles)
    BY DEF Forest
  <1> HIDE DEF t, u
  <1>13. Forest(mem', handles') = Forest(mem, handles) \cup {u}
    BY <1>10
  <1> QED
    BY <1>5, <1>11, <1>12, <1>13, ForestIs, ForestIsNext DEF Trees!Duplicate

(* Create: the new tree is made of those of the objects taken.              *)
LEMMA TakenTree ==
    ASSUME NEW m, NEW hs, NEW n, WellFormed(m, hs, n), NEW m2,
           NEW S, Closed(m, S), Same(m, m2, S),
           NEW g \in hs, Blocks(m[g][1]) \subseteq S, Rank(m[g][1].kind) <= 2,
           NEW o, IsObjectOf(o, m, g)
    PROVE  TreeOver(Trees2(m2), o) = TreeAt(m, g)
  <1>1. g \in DOMAIN m /\ 1 \in DOMAIN m[g] /\ DOMAIN m[g][1] = Fields
    BY HandleIs DEF ObjectInv
  <1>2. /\ o.kind = m[g][1].kind /\ o.id = m[g][1].id /\ o.lists = m[g][1].lists
        /\ o.inline = m[g][1].inline
    BY <1>1, ObjectOfIs
  <1>3. TreeOver(Trees2(m2), o) = TreeOver(Trees2(m2), m[g][1])
    BY <1>2 DEF TreeOver
  <1>4. TreeOver(Trees2(m2), m[g][1]) = TreeOver(Trees2(m), m[g][1])
    BY TreesStay
  <1>5. TreeOver(Trees2(m), m[g][1]) = TreeOver(Trees3(m), m[g][1])
    BY <1>1, ShallowTrees
  <1> QED
    BY <1>3, <1>4, <1>5 DEF TreeAt

(* An object stored as a member of another has no parts.                    *)
LEMMA MemberTree ==
    ASSUME NEW m, NEW hs, NEW n, WellFormed(m, hs, n), NEW kind \in HasMember,
           NEW g \in hs, m[g][1].kind = MemberKind(kind)
    PROVE  TreeAt(m, g) = InlineTree(kind, m[g][1].id)
  <1> DEFINE o == m[g][1]
  <1>1. ObjectInv(m, n, o)
    BY HandleIs
  <1>2. MemberKind(kind) \notin HasMember /\ DOMAIN ListKinds[MemberKind(kind)] = {}
    BY DEF MemberKind, HasMember, ListKinds, NoLists
  <1>3. o.inline = {} /\ DOMAIN o.lists = {} /\ o.kind = MemberKind(kind)
    BY <1>1, <1>2 DEF ObjectInv
  <1> HIDE DEF o
  <1>4. [ l \in DOMAIN o.lists |-> Trees3(m)[o.lists[l]] ] = NoLists
    BY <1>3 DEF NoLists
  <1>5. { InlineTree(o.kind, i) : i \in o.inline } = {}
    BY <1>3
  <1> QED
    BY <1>3, <1>4, <1>5 DEF TreeAt, TreeOver, InlineTree, MemberKind, o

(* Every Create is the step Make of the trees.                              *)
LEMMA CreateMakes ==
    ASSUME IInv, IInv', Creates
    PROVE  Trees!Make
  <1>1. WellFormed(mem, handles, created) /\ created \in Nat /\ WellFormed(mem', handles', created')
    BY DEF IInv, WellFormed
  <1>2. PICK kind \in Kind : \E contents, members, freed, indicator :
          CreateTaking(kind, contents, members, freed, indicator)
    BY <1>1, CreatesTake
  <1>3. PICK contents, members, freed, indicator :
          CreateTaking(kind, contents, members, freed, indicator)
    BY <1>2
  <1> DEFINE inline == { Object(g).id : g \in members }
             object == NewObject(created, kind, contents, inline, indicator)
             new    == Self(created + 1)
             m2     == mem'
             S      == DOMAIN mem \ freed
             t      == TreeAt(m2, new)
  <1>4. /\ members \subseteq freed /\ freed \subseteq handles
        /\ Fits(mem, kind, contents, freed)
        /\ \A g \in freed \ members :
             \E l \in DOMAIN contents : \E i \in DOMAIN contents[l] :
                IsObjectOf(contents[l][i], mem, g)
        /\ \A g \in members : Object(g).kind = MemberKind(kind)
        /\ members # {} => kind \in HasMember
        /\ Create(kind, contents, freed, freed, inline, indicator)
    BY <1>3 DEF CreateTaking, Takes
  <1> HIDE DEF inline
  <1>5. /\ m2 = NewMemory(mem, created, contents, freed, object)
        /\ handles' = (handles \ freed) \cup {new} /\ created' = created + 1
    BY <1>4, CreateIs
  <1>6. /\ object.kind = kind /\ object.id = created + 1 /\ object.inline = inline
        /\ object.lists = [ l \in DOMAIN contents |-> Buffer(created + 1, l) ]
    BY DEF NewObject
  <1> HIDE DEF object, m2
  <1>7. \A l \in DOMAIN contents :
          l \in DOMAIN ListKinds[kind] /\ l # "self" /\ Sequence(contents[l])
    BY <1>4, ListsOfKinds DEF Fits
  <1>8. /\ DOMAIN m2 = S \cup { Buffer(created + 1, l) : l \in DOMAIN contents } \cup {new}
        /\ m2[new] = << object >>
        /\ \A l \in DOMAIN contents : m2[Buffer(created + 1, l)] = contents[l]
        /\ \A b \in S : b[1] # created + 1 /\ m2[b] = mem[b]
    <2>1. BlocksInv(mem, created)
      BY <1>1 DEF WellFormed
    <2>2. \A l \in DOMAIN contents : l # "self" /\ Sequence(contents[l])
      BY <1>7
    <2> QED
      BY <1>1, <1>5, <2>1, <2>2, NewMemoryIs
  <1>9. Closed(mem, S)
    <2>1. ASSUME NEW b \in DOMAIN mem, NEW i \in DOMAIN mem[b], NEW c \in Blocks(mem[b][i])
          PROVE  c \in S
      <3>1. c \in DOMAIN mem /\ c[2] # "self"
        BY <1>1, BufferOf DEF Blocks
      <3> QED
        BY <3>1, <1>1, <1>4, HandleIs
    <2> QED
      BY <2>1 DEF Closed
  <1>10. Same(mem, m2, S)
    BY <1>8 DEF Same
  <1>11. ASSUME NEW g \in freed
         PROVE  g \in handles /\ Blocks(mem[g][1]) \subseteq S
    <2>1. g \in handles /\ g \in DOMAIN mem /\ 1 \in DOMAIN mem[g]
      BY <1>1, <1>4, HandleIs
    <2>2. ASSUME NEW c \in Blocks(mem[g][1])
          PROVE  c \in S
      <3>1. c \in DOMAIN mem /\ c[2] # "self"
        BY <1>1, <2>1, BufferOf DEF Blocks
      <3> QED
        BY <3>1, <1>1, <1>4, HandleIs
    <2> QED
      BY <2>1, <2>2
  <1>12. ASSUME NEW g \in handles \ freed
         PROVE  TreeAt(m2, g) = TreeAt(mem, g)
    <2>1. g \in S
      BY <1>1, HandleIs
    <2> HIDE DEF S
    <2> QED
      BY <2>1, <1>1, <1>9, <1>10, OtherTrees
  <1> HIDE DEF S
  \* What the lists hold are the trees of the objects they took.
  <1>13. ASSUME NEW l \in DOMAIN contents, NEW i \in DOMAIN contents[l],
                NEW g \in freed, IsObjectOf(contents[l][i], mem, g)
         PROVE  TreeOver(Trees2(m2), contents[l][i]) = TreeAt(mem, g)
    <2>1. PICK f \in freed : /\ IsObjectOf(contents[l][i], mem, f)
                             /\ mem[f][1].kind = ListKinds[kind][l]
      BY <1>4 DEF Fits
    <2>2. \A e \in freed : DOMAIN mem[e][1] = Fields
      BY <1>1, <1>11, HandleIs DEF ObjectInv
    <2>3. mem[g][1].kind = ListKinds[kind][l]
      BY <1>13, <2>1, <2>2, ObjectOfIs
    <2>4. /\ Rank(kind) \in 1 .. 3 /\ Rank(ListKinds[kind][l]) \in Nat
          /\ Rank(ListKinds[kind][l]) < Rank(kind)
      BY <1>7, ListsOfKinds
    <2>5. Rank(mem[g][1].kind) <= 2
      BY <2>3, <2>4
    <2> QED
      BY <1>1, <1>9, <1>10, <1>11, <1>13, <2>5, TakenTree
  <1>14. /\ t.kind = kind /\ t.id = created + 1
         /\ t.inline = { InlineTree(kind, i) : i \in inline }
         /\ DOMAIN t.lists = DOMAIN contents
         /\ \A l \in DOMAIN contents :
              t.lists[l] = [ i \in DOMAIN contents[l] |-> TreeOver(Trees2(m2), contents[l][i]) ]
    <2>1. m2[new][1] = object
      BY <1>8
    <2>2. ASSUME NEW l \in DOMAIN contents
          PROVE  Trees3(m2)[Buffer(created + 1, l)]
                   = [ i \in DOMAIN contents[l] |-> TreeOver(Trees2(m2), contents[l][i]) ]
      <3>1. Buffer(created + 1, l) \in DOMAIN m2 /\ m2[Buffer(created + 1, l)] = contents[l]
        BY <1>8
      <3> QED
        BY <3>1 DEF Trees3, TreesOver
    <2>3. /\ t.kind = object.kind /\ t.id = object.id
          /\ t.inline = { InlineTree(object.kind, i) : i \in object.inline }
          /\ t.lists = [ l \in DOMAIN object.lists |-> Trees3(m2)[object.lists[l]] ]
      BY <2>1 DEF TreeAt, TreeOver
    <2> HIDE DEF t
    <2>4. /\ DOMAIN t.lists = DOMAIN contents
          /\ \A l \in DOMAIN contents : t.lists[l] = Trees3(m2)[Buffer(created + 1, l)]
      BY <2>3, <1>6
    <2> QED
      BY <2>2, <2>3, <2>4, <1>6
  <1> HIDE DEF t, new
  <1>15. Trees!Members(t) \subseteq Forest(mem, freed)
    <2>1. ASSUME NEW x \in Trees!Children(t)
          PROVE  x \in Forest(mem, freed)
      <3>1. PICK l \in DOMAIN contents : \E i \in DOMAIN t.lists[l] : x = t.lists[l][i]
        BY <1>14 DEF Trees!Children, Trees!SeqRange
      <3>2. PICK i \in DOMAIN contents[l] : x = TreeOver(Trees2(m2), contents[l][i])
        BY <3>1, <1>14
      <3>3. PICK g \in freed : IsObjectOf(contents[l][i], mem, g)
        BY <1>4 DEF Fits
      <3> QED
        BY <3>2, <3>3, <1>13 DEF Forest
    <2>2. ASSUME NEW x \in t.inline
          PROVE  x \in Forest(mem, freed)
      <3>1. PICK g \in members : x = InlineTree(kind, mem[g][1].id)
        BY <1>14 DEF inline, Object
      <3>2. kind \in HasMember /\ g \in freed /\ g \in handles /\ mem[g][1].kind = MemberKind(kind)
        BY <1>4 DEF Object
      <3> QED
        BY <3>1, <3>2, <1>1, MemberTree DEF Forest
    <2> QED
      BY <2>1, <2>2 DEF Trees!Members
  <1>16. Forest(mem, freed) \subseteq Trees!Members(t)
    <2>1. ASSUME NEW g \in freed
          PROVE  TreeAt(mem, g) \in Trees!Members(t)
      <3>1. CASE g \in members
        <4>1. kind \in HasMember /\ g \in handles /\ mem[g][1].kind = MemberKind(kind)
          BY <3>1, <1>4 DEF Object
        <4>2. TreeAt(mem, g) = InlineTree(kind, mem[g][1].id)
          BY <4>1, <1>1, MemberTree
        <4>3. mem[g][1].id \in inline
          BY <3>1 DEF inline, Object
        <4> QED
          BY <4>2, <4>3, <1>14 DEF Trees!Members
      <3>2. CASE g \notin members
        <4>1. PICK l \in DOMAIN contents : \E i \in DOMAIN contents[l] :
                IsObjectOf(contents[l][i], mem, g)
          BY <3>2, <1>4
        <4>2. PICK i \in DOMAIN contents[l] : IsObjectOf(contents[l][i], mem, g)
          BY <4>1
        <4>3. i \in DOMAIN t.lists[l] /\ t.lists[l][i] = TreeAt(mem, g)
          <5>1. TreeOver(Trees2(m2), contents[l][i]) = TreeAt(mem, g)
            BY <4>2, <1>13
          <5>2. t.lists[l] = [ j \in DOMAIN contents[l] |-> TreeOver(Trees2(m2), contents[l][j]) ]
            BY <1>14
          <5> QED
            BY <5>1, <5>2
        <4> QED
          BY <4>3, <1>14 DEF Trees!Members, Trees!Children, Trees!SeqRange
      <3> QED
        BY <3>1, <3>2
    <2> QED
      BY <2>1 DEF Forest
  <1>17. Trees!Members(t) = Forest(mem, freed)
    BY <1>15, <1>16
  <1>18. Forest(mem, freed) \subseteq Forest(mem, handles)
    BY <1>4 DEF Forest
  <1>19. Forest(m2, handles') = (Forest(mem, handles) \ Trees!Members(t)) \cup {t}
    <2>1. Forest(mem, handles) \ Forest(mem, freed) = Forest(mem, handles \ freed)
      BY <1>1, <1>4, ForestWithout
    <2>2. Forest(m2, handles') = Forest(mem, handles \ freed) \cup {t}
      BY <1>5, <1>12 DEF Forest, t
    <2> QED
      BY <2>1, <2>2, <1>17
  <1>20. t \notin Forest(mem, handles)
    <2>1. \A g \in handles : TreeAt(mem, g).id \in 1 .. created
      BY <1>1, TreeIdIs
    <2> QED
      BY <1>1, <2>1, <1>14 DEF Forest
  <1>21. Forest(mem', handles') = (Forest(mem, handles) \ Trees!Members(t)) \cup {t}
    BY <1>19 DEF m2
  <1>22. t \in Forest(mem', handles') \ Forest(mem, handles)
    BY <1>20, <1>21
  <1> QED
    BY <1>17, <1>18, <1>21, <1>22, ForestIs, ForestIsNext DEF Trees!Make

(* Every step is one of the trees.                                          *)
LEMMA StepIsTrees ==
    ASSUME IInv, IInv', [Next]_vars
    PROVE  [Trees!Next]_{ Tree(h) : h \in handles }
  <1>1. CASE Creates
    BY <1>1, CreateMakes DEF Trees!Next
  <1>2. ASSUME NEW h \in handles, Free(h)
        PROVE  Trees!Next
    BY <1>2, FreeReleases DEF Trees!Next
  <1>3. ASSUME NEW h \in handles, Clone(h)
        PROVE  Trees!Next
    BY <1>3, CloneDuplicates DEF Trees!Next
  <1>4. ASSUME NEW h \in HandlesOf("Network"), NEW other \in HandlesOf("Network"),
               NEW grown \in SUBSET NonEmptyLists(other), Merge(h, other, grown)
        PROVE  Trees!Next
    BY <1>4, MergeAbsorbs DEF Trees!Next
  <1>5. CASE UNCHANGED vars
    <2>1. mem' = mem /\ handles' = handles
      BY <1>5 DEF vars
    <2>2. { Tree(h) : h \in handles }' = { Tree(h) : h \in handles }
      BY <2>1, ForestIs, ForestIsNext
    <2> QED
      BY <2>2
  <1> QED
    BY <1>1, <1>2, <1>3, <1>4, <1>5 DEF Next

(* From any well formed memory, as a caller has who loaded his networks     *)
(* from files: Create, Free, Clone and Merge do with his trees only what    *)
(* ObjectTrees lets them, for every kind and number of objects.             *)
THEOREM StepsKeepTrees == IInv /\ [][Next]_vars => KeepsTrees
  <1>1. IInv /\ [Next]_vars => IInv'
    BY NextIInv
  <1>2. IInv /\ IInv' /\ [Next]_vars => [Trees!Next]_{ Tree(h) : h \in handles }
    BY StepIsTrees
  <1> QED
    BY <1>1, <1>2, PTL DEF KeepsTrees, Trees!Steps

(* The C interface implements the abstract trees of its caller: blocks,     *)
(* moves, reallocations and buffers never show in what a handle holds.      *)
THEOREM MemoryImplementsTrees == Spec => ImplementsTrees
  <1>1. Init => Trees!Init
    BY DEF Init, Trees!Init
  <1>2. Init => IInv
    BY InitIInv
  <1>3. IInv /\ [][Next]_vars => Trees!Steps
    BY StepsKeepTrees DEF KeepsTrees
  <1> QED
    BY <1>1, <1>2, <1>3, PTL DEF Spec, ImplementsTrees, Trees!Spec
=============================================================================

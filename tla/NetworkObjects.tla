--------------------------- MODULE NetworkObjects ---------------------------
(***************************************************************************)
(* The objects of a network and who owns them: the Create, Free and _Get   *)
(* functions of the C interface, and Clone and Merge, which only C++ has.  *)
(*                                                                         *)
(* A caller keeps the handles it is given in arrays that end with a null   *)
(* pointer. A Create function takes objects out of such arrays and nulls   *)
(* the entries it has taken; for the two handles passed by value, and for  *)
(* dbcppp_ValueTableCreate, which leaves its array as it is, the caller    *)
(* does so. In C++ the handles are unique_ptrs, and the same holds of      *)
(* them. The model's caller is careful: it passes each handle once, and    *)
(* none that it has freed.                                                 *)
(***************************************************************************)
EXTENDS ObjectHeap

CONSTANTS
    Kinds,       \* the kinds of objects the caller creates
    Indicators,  \* the multiplexer indicators of the signals
    MaxObjects,  \* bound on the objects ever created
    MaxPassed    \* bound on the handles passed in one array

ASSUME KindsAssumption      == Kinds \subseteq Kind
ASSUME IndicatorsAssumption == Indicators \subseteq {"NoMux", "MuxSwitch", "MuxValue"}
ASSUME BoundsAssumption     == MaxObjects \in Nat /\ MaxPassed \in Nat

VARIABLES
    mem,      \* the allocated blocks: each a sequence of objects
    handles,  \* the blocks the caller's arrays and variables point to
    created   \* how many objects there ever were; numbers the next one

vars == << mem, handles, created >>

Init == mem = << >> /\ handles = {} /\ created = 0

Object(h)       == mem[h][1]
HandlesOf(kind) == { h \in handles \cap DOMAIN mem : Object(h).kind = kind }

(* The arrays a caller can pass for a parameter. *)
Arrays(kind) ==
    { a \in UNION { [1 .. n -> HandlesOf(kind)] : n \in 0 .. MaxPassed } :
        \A i, j \in DOMAIN a : a[i] = a[j] => i = j }

(* The entries of the arrays of a call, and the objects behind them. Each   *)
(* object remembers the parameter it was passed for, for the properties.    *)
Entries(arrays) ==
    UNION { { arrays[l][i] : i \in DOMAIN arrays[l] } : l \in DOMAIN arrays }
Taken(arrays) ==
    [ l \in DOMAIN arrays |->
        [ i \in DOMAIN arrays[l] |-> [ Object(arrays[l][i]) EXCEPT !.passed_for = l ] ] ]
PassedOnce(arrays) ==
    \A k, l \in DOMAIN arrays : \A i \in DOMAIN arrays[k], j \in DOMAIN arrays[l] :
        arrays[k][i] = arrays[l][j] => k = l

-----------------------------------------------------------------------------
(* A Create function: the objects are moved into the lists of a new one,    *)
(* contents, their own blocks are freed, and the caller gets the new        *)
(* object's handle. nulled are the handles it does not keep.                *)
Create(kind, contents, freed, nulled, inline, indicator) ==
    LET id     == created + 1
        moved  == Transfer([ b \in DOMAIN mem \ freed |-> mem[b] ], contents)
        lists  == [ l \in DOMAIN contents |-> Buffer(id, l) ]
        object ==
            [ kind |-> kind, id |-> id, lists |-> lists, inline |-> inline,
              indicator |-> indicator,
              mux |-> IF kind = "Message"
                        THEN MuxSignal(lists.signals, moved.contents.signals) ELSE Null,
              error |-> kind = "Message" /\ MuxValueWithoutSwitch(moved.contents.signals),
              passed_for |-> "none" ]
        new    == { Buffer(id, l) : l \in DOMAIN contents } \cup {Self(id)}
    IN  /\ kind \in Kinds
        /\ id <= MaxObjects
        /\ mem' = [ b \in DOMAIN moved.memory \cup new |->
                      IF b = Self(id) THEN << object >>
                      ELSE IF b \in new THEN moved.contents[b[2]]
                      ELSE moved.memory[b] ]
        /\ handles' = (handles \ nulled) \cup {Self(id)}
        /\ created' = id

Plain(kind) == Create(kind, NoLists, {}, {}, {}, "NoMux")

AttributeCreate                == Plain("Attribute")
AttributeDefinitionCreate      == Plain("AttributeDefinition")
BitTimingCreate                == Plain("BitTiming")
SignalTypeCreate               == Plain("SignalType")
ValueEncodingDescriptionCreate == Plain("ValueEncodingDescription")

(* Mutant: each loop reads the other array; reinterpret_cast lets it.       *)
EnvironmentVariableCreate_Swapped(value_encoding_descriptions, attribute_values) ==
    LET arrays == [ value_encoding_descriptions |-> attribute_values,
                    attribute_values |-> value_encoding_descriptions ]
    IN  Create("EnvironmentVariable", Taken(arrays), Entries(arrays), Entries(arrays),
               {}, "NoMux")

EnvironmentVariableCreate(value_encoding_descriptions, attribute_values) ==
    LET arrays == [ value_encoding_descriptions |-> value_encoding_descriptions,
                    attribute_values |-> attribute_values ]
    IN  Create("EnvironmentVariable", Taken(arrays), Entries(arrays), Entries(arrays),
               {}, "NoMux")

MessageCreate(signals, attribute_values) ==
    LET arrays == [ signals |-> signals, attribute_values |-> attribute_values ]
    IN  Create("Message", Taken(arrays), Entries(arrays), Entries(arrays), {}, "NoMux")

NodeCreate(attributes) ==
    LET arrays == [ attribute_values |-> attributes ]
    IN  Create("Node", Taken(arrays), Entries(arrays), Entries(arrays), {}, "NoMux")

(* Mutant: one array is read, but its entries are left in it. *)
SignalCreate_KeepsEntries(indicator, attribute_values, descriptions) ==
    LET arrays == [ attribute_values |-> attribute_values,
                    value_encoding_descriptions |-> descriptions ]
        nulled == { attribute_values[i] : i \in DOMAIN attribute_values }
    IN  Create("Signal", Taken(arrays), Entries(arrays), nulled, {}, indicator)

SignalCreate(indicator, attribute_values, descriptions) ==
    LET arrays == [ attribute_values |-> attribute_values,
                    value_encoding_descriptions |-> descriptions ]
    IN  Create("Signal", Taken(arrays), Entries(arrays), Entries(arrays), {}, indicator)

(* signal_type is at most one handle. The function nulls neither it nor the *)
(* entries of the array: here the caller does.                              *)
ValueTableCreate(signal_type, value_encoding_descriptions) ==
    LET arrays == [ value_encoding_descriptions |-> value_encoding_descriptions ]
        all    == Entries(arrays) \cup signal_type
    IN  Create("ValueTable", Taken(arrays), all, all,
               { Object(h).id : h \in signal_type }, "NoMux")

(* Mutant: the environment variables are taken, but go nowhere. *)
NetworkCreate_LosesVariables(bit_timing, arrays) ==
    LET taken    == Taken(arrays)
        contents == [ taken EXCEPT
                        !.attribute_defaults = @ \o taken.attribute_values,
                        !.attribute_values = << >>,
                        !.environment_variables = << >> ]
        all      == Entries(arrays) \cup {bit_timing}
    IN  /\ PassedOnce(arrays)
        /\ Create("Network", contents, all, all, { Object(bit_timing).id }, "NoMux")

(* The loop over attribute_values pushes into `ad', behind the defaults,    *)
(* and `av' stays empty. bit_timing must not be null: it is dereferenced.   *)
NetworkCreate(bit_timing, arrays) ==
    LET taken    == Taken(arrays)
        contents == [ taken EXCEPT
                        !.attribute_defaults = @ \o taken.attribute_values,
                        !.attribute_values = << >> ]
        all      == Entries(arrays) \cup {bit_timing}
    IN  /\ PassedOnce(arrays)
        /\ Create("Network", contents, all, all, { Object(bit_timing).id }, "NoMux")

-----------------------------------------------------------------------------
(* Mutant: the objects in the lists are not released with their owner.      *)
Free_OnlyItself(h) ==
    /\ h \in handles
    /\ mem' = [ b \in DOMAIN mem \ {h} |-> mem[b] ]
    /\ handles' = handles \ {h}
    /\ UNCHANGED created

(* There is no Free function for a signal or a signal type of its own; C++  *)
(* deletes those too.                                                       *)
Free(h) ==
    /\ h \in handles
    /\ mem' = [ b \in DOMAIN mem \ Reach(mem, h) |-> mem[b] ]
    /\ handles' = handles \ {h}
    /\ UNCHANGED created

(* Clone: the copy constructor of the object's class. The copies are        *)
(* numbered in the order of the originals.                                  *)
Clone(h) ==
    LET ids      == Ids(mem, Reach(mem, h))
        fresh    == [ i \in ids |-> created + Cardinality({ j \in ids : j <= i }) ]
        copy     == CopyTree(mem, h, fresh)
    IN  /\ h \in handles
        /\ created + Cardinality(ids) <= MaxObjects
        /\ mem' = [ b \in DOMAIN mem \cup DOMAIN copy |->
                      IF b \in DOMAIN copy THEN copy[b] ELSE mem[b] ]
        /\ handles' = handles \cup { Self(fresh[h[1]]) }
        /\ created' = created + Cardinality(ids)

NonEmptyLists(h) == { l \in DOMAIN Object(h).lists : mem[Object(h).lists[l]] # << >> }

(* Mutant: the other network's elements come first. *)
Appended_InFront(own, others) == others \o own

(* The push_backs of one of the loops of Merge. *)
Appended(own, others) == own \o others

(* INetwork::Merge: the elements of the other network's lists are moved     *)
(* behind those of this one's, whose vectors may have to be reallocated for *)
(* that; then the other network is destroyed, and with it its bit timing.   *)
Merge(h, other, grown) ==
    LET network  == Object(h)
        old      == Object(other)
        Home(l)  == IF l \in grown THEN Reallocated(network.lists[l]) ELSE network.lists[l]
        gone     == {other} \cup Blocks(old) \cup Blocks(network)
        moved    == Transfer([ b \in DOMAIN mem \ gone |-> mem[b] ],
                             [ l \in DOMAIN old.lists |-> mem[old.lists[l]] ])
        homes    == [ b \in { Home(l) : l \in DOMAIN network.lists } |->
                        Appended(mem[network.lists[b[2]]], moved.contents[b[2]]) ]
        merged   == [ network EXCEPT !.lists = [ l \in DOMAIN @ |-> Home(l) ] ]
    IN  /\ h # other
        /\ mem' = [ b \in DOMAIN moved.memory \cup DOMAIN homes |->
                      IF b \in DOMAIN homes THEN homes[b]
                      ELSE IF b = h THEN << merged >> ELSE moved.memory[b] ]
        /\ handles' = handles \ {other}
        /\ UNCHANGED created

NetworkArrays ==
    [ nodes                 : Arrays("Node"),
      value_tables          : Arrays("ValueTable"),
      messages              : Arrays("Message"),
      environment_variables : Arrays("EnvironmentVariable"),
      attribute_definitions : Arrays("AttributeDefinition"),
      attribute_defaults    : Arrays("Attribute"),
      attribute_values      : Arrays("Attribute") ]

Creates ==
    \/ AttributeCreate
    \/ AttributeDefinitionCreate
    \/ BitTimingCreate
    \/ SignalTypeCreate
    \/ ValueEncodingDescriptionCreate
    \/ \E veds \in Arrays("ValueEncodingDescription"), avs \in Arrays("Attribute") :
          \/ EnvironmentVariableCreate(veds, avs)
          \/ \E m \in Indicators : SignalCreate(m, avs, veds)
    \/ \E ss \in Arrays("Signal"), avs \in Arrays("Attribute") : MessageCreate(ss, avs)
    \/ \E avs \in Arrays("Attribute") : NodeCreate(avs)
    \/ \E veds \in Arrays("ValueEncodingDescription"),
          st \in {{}} \cup { {h} : h \in HandlesOf("SignalType") } :
          ValueTableCreate(st, veds)
    \/ \E bt \in HandlesOf("BitTiming"), arrays \in NetworkArrays :
          NetworkCreate(bt, arrays)

Next ==
    \/ Creates
    \/ \E h \in handles : Free(h) \/ Clone(h)
    \/ \E h, other \in HandlesOf("Network") :
          \E grown \in SUBSET NonEmptyLists(other) : Merge(h, other, grown)

Spec == Init /\ [][Next]_vars

-----------------------------------------------------------------------------
(* The objects in memory and their addresses. *)
Addresses == UNION { { Address(b, i) : i \in DOMAIN mem[b] } : b \in DOMAIN mem }
At(a)     == mem[a[1]][a[2]]
Networks  == { h \in handles : Object(h).kind = "Network" }

(* Every block holds objects of the kind its list or its handle is for, and *)
(* no two of them have one number.                                          *)
TypeOK ==
    /\ created \in 0 .. MaxObjects
    /\ \A b \in DOMAIN mem :
         /\ b[1] \in 1 .. created /\ b[3] \in Nat
         /\ \A i \in DOMAIN mem[b] :
              LET o == mem[b][i]
              IN  /\ o.kind \in Kinds
                  /\ DOMAIN o.lists = DOMAIN ListKinds[o.kind]
                  /\ \A l \in DOMAIN o.lists :
                       o.lists[l] \in DOMAIN mem
                         /\ \A c \in Cells(mem, o.lists[l]) : c.kind = ListKinds[o.kind][l]
    /\ \A a, b \in Addresses : At(a).id = At(b).id => a = b
    /\ \A h \in handles : h[2] = "self"

(* CApi.cpp: after any sequence of calls what is left in the caller's       *)
(* arrays are handles of objects that exist, so none is freed twice or used *)
(* after it was taken.                                                      *)
HandlesAreLive == \A h \in handles : h \in DOMAIN mem /\ Len(mem[h]) = 1

(* CApi.cpp, the Create functions, Clone and Merge: every block has exactly *)
(* one owner, a handle of the caller or a list of one object. Nothing       *)
(* leaks, nothing is shared, and releasing a tree releases only that tree.  *)
OneOwner ==
    \A b \in DOMAIN mem :
        LET owners == { a \in Addresses : b \in Blocks(At(a)) }
        IN  IF b \in handles THEN owners = {} ELSE Cardinality(owners) = 1

(* MessageImpl.cpp: MuxSignal() is the last multiplexer switch among the    *)
(* message's own signals, in its own vector, or null if there is none, also *)
(* after the message was moved into a network, merged or copied; and the    *)
(* error says that there is a multiplexed signal without one.               *)
MuxSignalIsOwn ==
    \A o \in AllCells(mem) : o.kind = "Message" =>
        LET signals  == mem[o.lists.signals]
            switches == { i \in DOMAIN signals : signals[i].indicator = "MuxSwitch" }
        IN  /\ o.mux = Null <=> switches = {}
            /\ o.mux # Null =>
                 /\ o.mux[1] = o.lists.signals
                 /\ o.mux[2] \in switches /\ \A i \in switches : i <= o.mux[2]
            /\ o.error <=> /\ switches = {}
                           /\ \E i \in DOMAIN signals : signals[i].indicator = "MuxValue"

(* NetworkImpl.cpp, ParentMessage: asked about any signal in memory, a      *)
(* network names its message that holds the signal, if it has it, and is    *)
(* null for the signals of messages that are not, or no longer, its own,    *)
(* those of its copies included.                                            *)
ParentMessageFinds ==
    \A n \in Networks : \A a \in Addresses : At(a).kind = "Signal" =>
        LET parent == ParentMessage(mem, Object(n), a)
        IN  IF a[1] \in Reach(mem, n)
              THEN /\ parent \in Addresses /\ parent[1] \in Blocks(Object(n))
                   /\ At(parent).lists.signals = a[1]
              ELSE parent = Null

(* Merge, NetworkCreate, MessageCreate and the vectors' growth: once in a   *)
(* list, an object stays where it is for as long as it lives, whatever its  *)
(* owner is moved into; only the direct elements of a network's own lists   *)
(* are moved, by Merge. So a signal's address stays good across Merge,      *)
(* where a message's does not.                                              *)
PartsStayPut ==
    [][ \A a \in Addresses :
          a[1] \notin handles \cup UNION { Blocks(Object(n)) : n \in Networks }
            => \A o \in AllCells(mem)' :
                 o.id = At(a).id => a \in Addresses' /\ mem'[a[1]][a[2]] = o ]_vars

(* CApi.h, the parameters of the Create functions: an object is in the list *)
(* that it was passed for.                                                  *)
PartsWherePassed ==
    \A o \in AllCells(mem) : \A l \in DOMAIN o.lists :
        \A part \in Cells(mem, o.lists[l]) : part.passed_for = l

(* All functions: the memory, with its moves and reallocations, implements  *)
(* the caller's trees (ObjectTrees): what a tree holds changes by Merge     *)
(* alone, which loses nothing of the lists and keeps their order.           *)
InlineTree(kind, id) ==
    [ kind |-> IF kind = "Network" THEN "BitTiming" ELSE "SignalType",
      id |-> id, inline |-> {}, lists |-> NoLists ]
(* sub[b] are the trees of the objects in block b, as deep as they are      *)
(* needed: a network is four levels deep.                                   *)
TreeOver(sub, o) ==
    [ kind |-> o.kind, id |-> o.id,
      inline |-> { InlineTree(o.kind, i) : i \in o.inline },
      lists |-> [ l \in DOMAIN o.lists |-> sub[o.lists[l]] ] ]
TreesOver(sub, m) == [ b \in DOMAIN m |-> [ i \in DOMAIN m[b] |-> TreeOver(sub, m[b][i]) ] ]
Trees1(m) == TreesOver(<< >>, m)
Trees2(m) == TreesOver(Trees1(m), m)
Trees3(m) == TreesOver(Trees2(m), m)
Tree(h)   == TreeOver(Trees3(mem), Object(h))
Trees == INSTANCE ObjectTrees WITH trees <- { Tree(h) : h \in handles }
ImplementsTrees == Trees!Spec

(* The same of a caller who has loaded networks already: copying, merging   *)
(* and releasing them loses, doubles and reorders nothing.                  *)
KeepsTrees == Trees!Steps
=============================================================================

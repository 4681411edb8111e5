----------------------------- MODULE ObjectHeap -----------------------------
(***************************************************************************)
(* The memory the objects of a network live in. An object handed out by a  *)
(* Create function is a block of one cell; the objects in a list of        *)
(* another one are the cells of that list's buffer, one std::vector of     *)
(* values. A block is named by the object it was allocated for, what it    *)
(* holds, and how often that vector was reallocated, so that no name comes *)
(* back and an address of freed memory can never look valid again. (The    *)
(* buffer of an empty vector is an empty block, which C++ does not         *)
(* allocate.)                                                              *)
(***************************************************************************)
EXTENDS Integers, Sequences, FiniteSets

(* The lists of each kind of object, and the kind of their elements. Names  *)
(* and other strings are left out, and so are the lists no C function       *)
(* fills (signal groups, multiplexer values).                               *)
NoLists == << >>
ListKinds ==
    [ Attribute                |-> NoLists,
      AttributeDefinition      |-> NoLists,
      BitTiming                |-> NoLists,
      SignalType               |-> NoLists,
      ValueEncodingDescription |-> NoLists,
      Node                     |-> [ attribute_values |-> "Attribute" ],
      Signal                   |->
          [ attribute_values            |-> "Attribute",
            value_encoding_descriptions |-> "ValueEncodingDescription" ],
      EnvironmentVariable      |->
          [ value_encoding_descriptions |-> "ValueEncodingDescription",
            attribute_values            |-> "Attribute" ],
      ValueTable               |->
          [ value_encoding_descriptions |-> "ValueEncodingDescription" ],
      Message                  |->
          [ signals          |-> "Signal",
            attribute_values |-> "Attribute" ],
      Network                  |->
          [ nodes                 |-> "Node",
            value_tables          |-> "ValueTable",
            messages              |-> "Message",
            environment_variables |-> "EnvironmentVariable",
            attribute_definitions |-> "AttributeDefinition",
            attribute_defaults    |-> "Attribute",
            attribute_values      |-> "Attribute" ] ]
Kind == DOMAIN ListKinds

(* The block of an object of its own, and the buffer of a list. *)
Self(id)           == << id, "self", 0 >>
Buffer(id, list)   == << id, list, 0 >>
Reallocated(block) == << block[1], block[2], block[3] + 1 >>

(* The address of a cell; the null pointer. *)
Address(block, i) == << block, i >>
Null == << >>

Blocks(object)  == { object.lists[l] : l \in DOMAIN object.lists }
Cells(m, block) == { m[block][i] : i \in DOMAIN m[block] }
AllCells(m)     == UNION { Cells(m, block) : block \in DOMAIN m }

(* The buffers of all objects in some blocks. *)
Parts(m, blocks) == UNION { Blocks(c) : c \in UNION { Cells(m, b) : b \in blocks } }

(* The blocks of an object and of all that is in it: a network is four      *)
(* levels deep (network, message, signal, attribute).                       *)
Reach(m, block) ==
    LET one   == Parts(m, {block})
        two   == Parts(m, one)
        three == Parts(m, two)
    IN  {block} \cup one \cup two \cup three

(* Every object in a tree has a number; so have the members held by value. *)
Ids(m, blocks) ==
    UNION { { c.id } \cup c.inline : c \in UNION { Cells(m, b) : b \in blocks } }

-----------------------------------------------------------------------------
(* The members of MessageImpl that are computed from its signals. *)

(* Mutant: a message with two switches keeps the first. *)
MuxSignal_First(block, signals) ==
    LET switches == { i \in DOMAIN signals : signals[i].indicator = "MuxSwitch" }
    IN  IF switches = {} THEN Null
        ELSE Address(block, CHOOSE i \in switches : \A j \in switches : i <= j)

(* The signal _mux_signal points to: the last multiplexer switch. *)
MuxSignal(block, signals) ==
    LET switches == { i \in DOMAIN signals : signals[i].indicator = "MuxSwitch" }
    IN  IF switches = {} THEN Null
        ELSE Address(block, CHOOSE i \in switches : \A j \in switches : j <= i)

MuxValueWithoutSwitch(signals) ==
    /\ \E i \in DOMAIN signals : signals[i].indicator = "MuxValue"
    /\ \A i \in DOMAIN signals : signals[i].indicator # "MuxSwitch"

-----------------------------------------------------------------------------
(* Objects move into vectors and are copied. contents[l] is what list l is  *)
(* to hold, as the objects were before.                                     *)

(* Mutant: the objects are copied into the vectors, buffers and all, as     *)
(* they would be if a move constructor were not noexcept.                   *)
Transfer_Copies(m, contents) ==
    LET old == UNION { UNION { Blocks(contents[l][i]) : i \in DOMAIN contents[l] }
                         : l \in DOMAIN contents }
        new == [ b \in { Reallocated(c) : c \in old } |-> m[<< b[1], b[2], b[3] - 1 >>] ]
        Copy(o) == [ o EXCEPT !.lists = [ l \in DOMAIN @ |-> Reallocated(@[l]) ],
                              !.mux = IF @ = Null THEN Null
                                      ELSE Address(Reallocated(@[1]), @[2]) ]
    IN  [ memory   |-> [ b \in (DOMAIN m \ old) \cup DOMAIN new |->
                           IF b \in DOMAIN new THEN new[b] ELSE m[b] ],
          contents |-> [ l \in DOMAIN contents |->
                           [ i \in DOMAIN contents[l] |-> Copy(contents[l][i]) ] ] ]

(* The move constructors are the defaulted ones: they hand the buffers of   *)
(* the vectors over, and _mux_signal as it is. Vectors grow by them too.    *)
Transfer(m, contents) == [ memory |-> m, contents |-> contents ]

(* Mutant: the pointer is copied like the other members. *)
CopiedMux_SamePointer(object, lists, signals) == object.mux

(* The copy constructor and the assignment look the signal up in the copied *)
(* vector.                                                                  *)
CopiedMux(object, lists, signals) ==
    IF object.kind = "Message" THEN MuxSignal(lists.signals, signals) ELSE Null

(* A copied vector has a buffer of its own; fresh gives the copies their    *)
(* numbers.                                                                 *)
CopyName(fresh, b) == << fresh[b[1]], b[2], 0 >>

(* The copy of an object: its members are copied one by one. *)
CopiedObject(m, fresh, o) ==
    LET lists == [ l \in DOMAIN o.lists |-> CopyName(fresh, o.lists[l]) ]
    IN  [ o EXCEPT !.id = fresh[@],
                   !.inline = { fresh[i] : i \in @ },
                   !.lists = lists,
                   !.mux = CopiedMux(o, lists,
                              IF o.kind = "Message" THEN m[o.lists.signals] ELSE << >>) ]

(* The copy of the tree at a block. *)
CopyTree(m, block, fresh) ==
    LET tree   == Reach(m, block)
        Source == [ b \in { CopyName(fresh, c) : c \in tree } |->
                      CHOOSE c \in tree : CopyName(fresh, c) = b ]
    IN  [ b \in DOMAIN Source |->
            [ i \in DOMAIN m[Source[b]] |-> CopiedObject(m, fresh, m[Source[b]][i]) ] ]

(* Mutant: signals are compared with ==, not by address. *)
ParentMessage_ByValue(m, network, signal) ==
    LET block == network.lists.messages
        found == { i \in DOMAIN m[block] :
                     \E j \in DOMAIN m[m[block][i].lists.signals] :
                        m[m[block][i].lists.signals][j].indicator
                          = m[signal[1]][signal[2]].indicator }
    IN  IF found = {} THEN Null
        ELSE Address(block, CHOOSE i \in found : \A j \in found : i <= j)

(* INetwork::ParentMessage: the message of a network that has the signal at *)
(* an address in its vector.                                                *)
ParentMessage(m, network, signal) ==
    LET block == network.lists.messages
        found == { i \in DOMAIN m[block] :
                     \E j \in DOMAIN m[m[block][i].lists.signals] :
                        Address(m[block][i].lists.signals, j) = signal }
    IN  IF found = {} THEN Null
        ELSE Address(block, CHOOSE i \in found : \A j \in found : i <= j)
=============================================================================

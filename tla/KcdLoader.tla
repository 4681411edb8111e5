------------------------------ MODULE KcdLoader ------------------------------
(***************************************************************************)
(* class KCD: one pass over the tree of a KCD file. The nodes come first,  *)
(* then bus after bus, each becoming a network with copies of all nodes.   *)
(* libxmlmm, which finds and converts the parts of the tree, is external:  *)
(* a document is what it finds, in document order.                         *)
(***************************************************************************)
EXTENDS Integers, FiniteSetsExt, SequencesExt

(* A number the document may leave out is Absent, an optional element a     *)
(* sequence of at most one.                                                 *)
Absent == -1

CONSTANTS
    Names,           \* the names of nodes, any texts; "" for a node without one
    BusNames,        \* the names of buses, numbers in the order of their names
    MessageElements, \* the messages of the documents
    Docs             \* the documents

(* What a document says of the nodes. A message's producers and a signal's  *)
(* consumers refer to them by their ids.                                    *)
NodeElement == [ id : Int, name : Names ]
BusElement  == [ name : BusNames, baudrate : Nat \cup {Absent},
                 messages : Seq(MessageElements) ]
Document    == [ root_is_definition : BOOLEAN,
                 nodes              : Seq(NodeElement),
                 buses              : Seq(BusElement) ]

ASSUME DocsAssumption ==
    /\ BusNames \subseteq Nat
    /\ Docs \subseteq Document
    /\ \A m \in MessageElements : m.producers \in Seq(Int)

(* find_elements gives a sequence; the offset and the length of a signal    *)
(* are read as uint64_t (and too small for their sum to overflow).          *)
Found(elements) == elements \in Seq({ elements[i] : i \in DOMAIN elements })
FoundSignals(signals) ==
    /\ Found(signals)
    /\ \A i \in DOMAIN signals :
         signals[i].offset \in Nat /\ signals[i].length \in Nat \cup {Absent}
ASSUME SignalsAssumption ==
    \A m \in MessageElements :
        /\ FoundSignals(m.signals)
        /\ Found(m.multiplexes)
        /\ \A x \in ToSet(m.multiplexes) :
             Found(x.groups) /\ \A g \in ToSet(x.groups) : FoundSignals(g.signals)

VARIABLES
    doc,         \* the document
    phase,       \* what is being parsed, or how that ended
    node_names,  \* _node_id_to_node_name
    nodes,       \* the nodes made so far
    bus,         \* the bus parseNetwork is called for next or running for
    messages,    \* the messages of that bus made so far
    networks     \* the networks made so far, by the names of their buses

vars == << doc, phase, node_names, nodes, bus, messages, networks >>

Empty == [ x \in {} |-> x ]
Blank == [ root_is_definition |-> TRUE, nodes |-> << >>, buses |-> << >> ]

(* Nothing was loaded, which is like an empty document. *)
Init ==
    /\ doc = Blank
    /\ phase = "done"
    /\ node_names = Empty
    /\ nodes = << >>
    /\ bus = 1
    /\ messages = << >>
    /\ networks = Empty

-----------------------------------------------------------------------------
(* What is computed for a message.                                          *)

(* bit_size, which is also what getMessageSize assumes. *)
Length(signal) == IF signal.length = Absent THEN 1 ELSE signal.length

(* Mutant: a signal without a length counts no bit. *)
getMessageSize_AbsentIsZero(m) ==
    LET ends == { m.signals[i].offset + (IF m.signals[i].length = Absent THEN 0
                                         ELSE m.signals[i].length) : i \in DOMAIN m.signals }
    IN  (Max(ends \cup {0}) + 7) \div 8

(* The signals below the multiplexor and its groups are not looked at. *)
getMessageSize(m) ==
    LET ends == { m.signals[i].offset + Length(m.signals[i]) : i \in DOMAIN m.signals }
    IN  (Max(ends \cup {0}) + 7) \div 8
MessageSize(m) == IF m.length = Absent THEN getMessageSize(m) ELSE m.length

(* The elements parseSignals makes signals from, in its order; a second     *)
(* multiplexor is not found.                                                *)
Element(signal, multiplexer, switch_value) ==
    [ signal |-> signal, multiplexer |-> multiplexer, switch_value |-> switch_value ]
MultiplexElements(x) ==
    LET OfGroup(g) == [ i \in DOMAIN g.signals |->
                          Element(g.signals[i], "MuxValue", g.count) ]
    IN  << Element(x.switch, "MuxSwitch", 0) >>
        \o FlattenSeq([ i \in DOMAIN x.groups |-> OfGroup(x.groups[i]) ])
SignalElements(m) ==
    (IF m.multiplexes = << >> THEN << >> ELSE MultiplexElements(Head(m.multiplexes)))
    \o [ i \in DOMAIN m.signals |-> Element(m.signals[i], "NoMux", 0) ]

(* parseValue, of which the factor and the offset are left out.             *)
(* The attribute max overwrites the minimum; the maximum stays 1.           *)
parseValue(v) ==
    [ unit          |-> v.unit,
      value_type    |-> IF v.type = "signed" THEN "Signed" ELSE "Unsigned",
      extended_type |-> IF v.type = "single" THEN "Float"
                        ELSE IF v.type = "double" THEN "Double" ELSE "Integer",
      minimum       |-> IF v.max # Absent THEN v.max
                        ELSE IF v.min # Absent THEN v.min ELSE 0,
      maximum       |-> 1 ]
NoValue == [ type |-> "", min |-> Absent, max |-> Absent, unit |-> "" ]

Referred(ids) == [ i \in DOMAIN ids |-> node_names[ids[i]] ]

parseSignal(e) ==
    LET s == e.signal
        v == parseValue(IF s.value = << >> THEN NoValue ELSE Head(s.value))
    IN  [ name          |-> s.name,
          multiplexer   |-> e.multiplexer,
          switch_value  |-> e.switch_value,
          head          |-> [ start_bit  |-> s.offset,
                              bit_size   |-> Length(s),
                              byte_order |-> IF s.big THEN "BigEndian" ELSE "LittleEndian",
                              value_type |-> v.value_type,
                              minimum    |-> v.minimum,
                              maximum    |-> v.maximum ],
          unit          |-> v.unit,
          receivers     |-> Referred(s.consumers),
          attributes    |-> << >>,
          descriptions  |-> s.labels,
          comment       |-> s.notes,
          extended_type |-> v.extended_type,
          multiplexer_values |-> << >> ]

(* parseMessage: the first producer is the sender, all are transmitters.    *)
(* The comment is the text of the element; its Notes are parsed, and lost.  *)
Message(m) ==
    LET elements == SignalElements(m)
    IN  [ id            |-> m.id,
          name          |-> m.name,
          transmitter   |-> node_names[m.producers[1]],
          size          |-> MessageSize(m),
          signals       |-> [ i \in DOMAIN elements |-> parseSignal(elements[i]) ],
          transmitters  |-> Referred(m.producers),
          attributes    |-> << >>,
          comment       |-> m.text,
          signal_groups |-> << >> ]

Known(ids)       == \A i \in DOMAIN ids : ids[i] \in DOMAIN node_names
KnownSender(m)   == m.producers # << >> /\ m.producers[1] \in DOMAIN node_names
KnownConsumers(m) ==
    LET elements == SignalElements(m)
    IN  \A i \in DOMAIN elements : Known(elements[i].signal.consumers)

-----------------------------------------------------------------------------
(* The steps.                                                               *)

(* A KCD object is constructed for a document, whether or not loading the   *)
(* last one threw an exception.                                             *)
LoadKCDFromIs(d) ==
    /\ phase \in {"done", "thrown"}
    /\ doc' = d
    /\ phase' = "root"
    /\ node_names' = Empty
    /\ nodes' = << >>
    /\ bus' = 1
    /\ messages' = << >>
    /\ networks' = Empty

parseNetworkDefinition ==
    /\ phase = "root"
    /\ phase' = IF doc.root_is_definition THEN "nodes" ELSE "thrown"
    /\ UNCHANGED << doc, node_names, nodes, bus, messages, networks >>

(* Mutant: a node without an id is taken without one.                       *)
parseNode_IdOptional ==
    LET node == doc.nodes[Len(nodes) + 1]
    IN  /\ phase = "nodes"
        /\ Len(nodes) < Len(doc.nodes)
        /\ node_names' = [ id \in DOMAIN node_names \cup {node.id} |->
                             IF id = node.id THEN node.name ELSE node_names[id] ]
        /\ nodes' = Append(nodes, [ name |-> node.name, comment |-> "",
                                    attributes |-> << >> ])
        /\ UNCHANGED << phase, doc, bus, messages, networks >>

(* parseNode: a second node of an id replaces the first as its name.        *)
parseNode ==
    LET node == doc.nodes[Len(nodes) + 1]
    IN  /\ phase = "nodes"
        /\ Len(nodes) < Len(doc.nodes)
        /\ IF node.id = Absent
             THEN phase' = "thrown" /\ UNCHANGED << node_names, nodes >>
             ELSE /\ node_names' = [ id \in DOMAIN node_names \cup {node.id} |->
                                       IF id = node.id THEN node.name
                                       ELSE node_names[id] ]
                  /\ nodes' = Append(nodes, [ name |-> node.name, comment |-> "",
                                              attributes |-> << >> ])
                  /\ UNCHANGED phase
        /\ UNCHANGED << doc, bus, messages, networks >>

NodesParsed ==
    /\ phase = "nodes"
    /\ Len(nodes) = Len(doc.nodes)
    /\ phase' = "networks"
    /\ UNCHANGED << doc, node_names, nodes, bus, messages, networks >>

(* The first producer is dereferenced and looked up without a test, then    *)
(* each of them with one, then the consumers of the signals without: to     *)
(* read through a null pointer or end() is undefined.                       *)
parseMessage ==
    LET m == doc.buses[bus].messages[Len(messages) + 1]
    IN  /\ phase = "networks"
        /\ bus <= Len(doc.buses)
        /\ Len(messages) < Len(doc.buses[bus].messages)
        /\ \/ /\ ~ KnownSender(m)
              /\ phase' = "undefined" /\ UNCHANGED messages
           \/ /\ KnownSender(m) /\ ~ Known(m.producers)
              /\ phase' = "thrown" /\ UNCHANGED messages
           \/ /\ KnownSender(m) /\ Known(m.producers) /\ ~ KnownConsumers(m)
              /\ phase' = "undefined" /\ UNCHANGED messages
           \/ /\ KnownSender(m) /\ Known(m.producers) /\ KnownConsumers(m)
              /\ messages' = Append(messages, Message(m)) /\ UNCHANGED phase
        /\ UNCHANGED << doc, node_names, nodes, bus, networks >>

Baudrate(b) == IF b.baudrate = Absent THEN 500000 ELSE b.baudrate
Network ==
    [ version |-> "", new_symbols |-> << >>,
      bit_timing   |-> << Baudrate(doc.buses[bus]), 0, 0 >>,
      nodes        |-> nodes,
      value_tables |-> << >>,
      messages     |-> messages,
      environment_variables |-> << >>,
      attribute_definitions |-> << >>,
      attribute_defaults    |-> << >>,
      attribute_values      |-> << >>,
      comment |-> "" ]

(* Mutants: the nodes are moved into the first network; the last bus of a   *)
(* name replaces the others; the loop does not go on to the next bus.       *)
parseNetwork_MovesNodes ==
    /\ phase = "networks"
    /\ bus <= Len(doc.buses)
    /\ Len(messages) = Len(doc.buses[bus].messages)
    /\ networks' = [ n \in DOMAIN networks \cup {doc.buses[bus].name} |->
                       IF n \in DOMAIN networks THEN networks[n] ELSE Network ]
    /\ bus' = bus + 1
    /\ messages' = << >>
    /\ nodes' = << >>
    /\ UNCHANGED << doc, phase, node_names >>
parseNetwork_LastWins ==
    /\ phase = "networks"
    /\ bus <= Len(doc.buses)
    /\ Len(messages) = Len(doc.buses[bus].messages)
    /\ networks' = [ n \in DOMAIN networks \cup {doc.buses[bus].name} |->
                       IF n = doc.buses[bus].name THEN Network ELSE networks[n] ]
    /\ bus' = bus + 1
    /\ messages' = << >>
    /\ UNCHANGED << doc, phase, node_names, nodes >>
parseNetwork_SameBus ==
    /\ phase = "networks"
    /\ bus <= Len(doc.buses)
    /\ Len(messages) = Len(doc.buses[bus].messages)
    /\ networks' = [ n \in DOMAIN networks \cup {doc.buses[bus].name} |->
                       IF n \in DOMAIN networks THEN networks[n] ELSE Network ]
    /\ messages' = << >>
    /\ UNCHANGED << bus, doc, phase, node_names, nodes >>

(* The end of parseNetwork, and map::insert: the first network of a name    *)
(* stays.                                                                   *)
parseNetwork ==
    /\ phase = "networks"
    /\ bus <= Len(doc.buses)
    /\ Len(messages) = Len(doc.buses[bus].messages)
    /\ networks' = [ n \in DOMAIN networks \cup {doc.buses[bus].name} |->
                       IF n \in DOMAIN networks THEN networks[n] ELSE Network ]
    /\ bus' = bus + 1
    /\ messages' = << >>
    /\ UNCHANGED << doc, phase, node_names, nodes >>

(* The constructor, and with it LoadKCDFromIs, returns. *)
NetworksParsed ==
    /\ phase = "networks"
    /\ bus > Len(doc.buses)
    /\ phase' = "done"
    /\ UNCHANGED << doc, node_names, nodes, bus, messages, networks >>

Parse ==
    \/ parseNetworkDefinition
    \/ parseNode
    \/ NodesParsed
    \/ parseMessage
    \/ parseNetwork
    \/ NetworksParsed
Next == (\E d \in Docs : LoadKCDFromIs(d)) \/ Parse

Spec == Init /\ [][Next]_vars

-----------------------------------------------------------------------------
(* The nodes a message names: its sender, the transmitters, the receivers. *)
References(m) ==
    {m.transmitter} \cup ToSet(m.transmitters)
                    \cup UNION { ToSet(m.signals[i].receivers) : i \in DOMAIN m.signals }

(* KCD: whatever a network names as the sender, a transmitter or a receiver *)
(* is a node of that network, although ids are resolved through one map for *)
(* the whole file, ids may be given twice, and each network has nodes of    *)
(* its own.                                                                 *)
ReferencesDeclared ==
    \A b \in DOMAIN networks : \A i \in DOMAIN networks[b].messages :
        References(networks[b].messages[i])
            \subseteq { networks[b].nodes[k].name : k \in DOMAIN networks[b].nodes }

Ids(d) == { d.nodes[i].id : i \in DOMAIN d.nodes }
ResolvableMessage(d, m) ==
    LET elements == SignalElements(m)
    IN  /\ m.producers # << >>
        /\ ToSet(m.producers) \subseteq Ids(d)
        /\ \A i \in DOMAIN elements : ToSet(elements[i].signal.consumers) \subseteq Ids(d)
Resolvable(d) ==
    /\ d.root_is_definition
    /\ Absent \notin Ids(d)
    /\ \A b \in DOMAIN d.buses : \A i \in DOMAIN d.buses[b].messages :
          ResolvableMessage(d, d.buses[b].messages[i])

(* LoadKCDFromIs returns networks for exactly the documents in which every  *)
(* message has a producer and every reference the id of a node: one fault   *)
(* anywhere, in a bus that is dropped for its name too, and the whole file  *)
(* is lost in an exception or in undefined behaviour.                       *)
LoadsIffResolvable ==
    /\ phase = "done" => Resolvable(doc)
    /\ phase \in {"thrown", "undefined"} => ~ Resolvable(doc)

FirstBus(name) ==
    LET of_name == { b \in DOMAIN doc.buses : doc.buses[b].name = name }
    IN  doc.buses[Min(of_name)]

(* parseNetworks: a network is the first bus of its name, with its baudrate *)
(* and its messages in order, and with all nodes of the file; no name is    *)
(* missing in the end.                                                      *)
NetworksAreBuses ==
    /\ \A n \in DOMAIN networks :
          LET b == FirstBus(n)
          IN  /\ networks[n].bit_timing = << Baudrate(b), 0, 0 >>
              /\ Len(networks[n].messages) = Len(b.messages)
              /\ \A i \in DOMAIN b.messages :
                    networks[n].messages[i].id = b.messages[i].id
              /\ Len(networks[n].nodes) = Len(doc.nodes)
              /\ \A i \in DOMAIN doc.nodes :
                    networks[n].nodes[i].name = doc.nodes[i].name
    /\ phase = "done" =>
          DOMAIN networks = { doc.buses[b].name : b \in DOMAIN doc.buses }

(* getMessageSize: a message of automatic length holds the signals it was   *)
(* computed from, and no byte more. The big endian ones, whose offset is    *)
(* not their lowest bit, and those of a multiplexor may still exceed it.    *)
AutoSizeHoldsSignals ==
    \A n \in DOMAIN networks : \A i \in DOMAIN networks[n].messages :
        FirstBus(n).messages[i].length = Absent =>
            LET m      == networks[n].messages[i]
                Direct == { k \in DOMAIN m.signals : m.signals[k].multiplexer = "NoMux" }
                End(k) == m.signals[k].head.start_bit + m.signals[k].head.bit_size
            IN  /\ \A k \in Direct : End(k) <= 8 * m.size
                /\ m.size > 0 => \E k \in Direct : End(k) > 8 * (m.size - 1)
=============================================================================

---------------------------- MODULE NetworkImpl ----------------------------
(***************************************************************************)
(* Operations on a network as a value: Clone, Merge and operator==. A      *)
(* network is the record DbcFile's Load returns.                           *)
(***************************************************************************)
EXTENDS Sequences

(* MessageImpl's copy constructor: _signal_groups is not copied. *)
CopyMessage(m) == [ m EXCEPT !.signal_groups = << >> ]

(* Copying a network copies its messages. *)
Clone(net) ==
    [ net EXCEPT !.messages = [ i \in DOMAIN net.messages |->
                                   CopyMessage(net.messages[i]) ] ]

(* Mutant: the messages of the other network come first. *)
Merge_OtherFirst(self, other) ==
    [ self EXCEPT
        !.new_symbols           = @ \o other.new_symbols,
        !.nodes                 = @ \o other.nodes,
        !.value_tables          = @ \o other.value_tables,
        !.messages              = other.messages \o @,
        !.environment_variables = @ \o other.environment_variables,
        !.attribute_definitions = @ \o other.attribute_definitions,
        !.attribute_defaults    = @ \o other.attribute_defaults,
        !.attribute_values      = @ \o other.attribute_values ]

(* The lists are appended; version, bit timing and comment are those of     *)
(* the network merged into. Nothing is compared or dropped.                 *)
Merge(self, other) ==
    [ self EXCEPT
        !.new_symbols           = @ \o other.new_symbols,
        !.nodes                 = @ \o other.nodes,
        !.value_tables          = @ \o other.value_tables,
        !.messages              = @ \o other.messages,
        !.environment_variables = @ \o other.environment_variables,
        !.attribute_definitions = @ \o other.attribute_definitions,
        !.attribute_defaults    = @ \o other.attribute_defaults,
        !.attribute_values      = @ \o other.attribute_values ]

-----------------------------------------------------------------------------
(* The loop `for (x : rhs.Xs()) equal &= find(_xs, x) != end': what rhs     *)
(* holds must be found here, not the other way round.                       *)
Finds(xs, rhs, Same(_, _)) ==
    \A j \in DOMAIN rhs : \E i \in DOMAIN xs : Same(xs[i], rhs[j])
Equal(x, y) == x = y

SignalMultiplexerValueEquals(v, rhs) ==
    v.switch = rhs.switch /\ Finds(v.ranges, rhs.ranges, Equal)
SignalGroupEquals(g, rhs) ==
    g.name = rhs.name /\ Finds(g.signals, rhs.signals, Equal)
NodeEquals(n, rhs) ==
    /\ n.name = rhs.name /\ n.comment = rhs.comment
    /\ Finds(n.attributes, rhs.attributes, Equal)
(* Two optionals; of a signal type, the byte order is not compared. *)
SignalTypeEquals(types, rhs) ==
    /\ Len(types) = Len(rhs)
    /\ \A i \in DOMAIN types : types[i].head = rhs[i].head
ValueTableEquals(vt, rhs) ==
    /\ vt.name = rhs.name /\ SignalTypeEquals(vt.signal_type, rhs.signal_type)
    /\ Finds(vt.descriptions, rhs.descriptions, Equal)

SignalEquals(s, rhs) ==
    /\ s.name = rhs.name /\ s.head = rhs.head /\ s.unit = rhs.unit
    /\ s.comment = rhs.comment
    /\ s.multiplexer = rhs.multiplexer /\ s.switch_value = rhs.switch_value
    /\ s.extended_type = rhs.extended_type
    /\ Finds(s.receivers, rhs.receivers, Equal)
    /\ Finds(s.attributes, rhs.attributes, Equal)
    /\ Finds(s.descriptions, rhs.descriptions, Equal)
    /\ Finds(s.multiplexer_values, rhs.multiplexer_values,
             SignalMultiplexerValueEquals)

(* _message_size is not compared. *)
MessageEquals(m, rhs) ==
    /\ m.id = rhs.id /\ m.name = rhs.name /\ m.transmitter = rhs.transmitter
    /\ m.comment = rhs.comment
    /\ Finds(m.transmitters, rhs.transmitters, Equal)
    /\ Finds(m.signals, rhs.signals, SignalEquals)
    /\ Finds(m.attributes, rhs.attributes, Equal)
    /\ Finds(m.signal_groups, rhs.signal_groups, SignalGroupEquals)

(* _maximum is not compared. *)
EnvVarEquals(ev, rhs) ==
    /\ ev.name = rhs.name /\ ev.head = rhs.head /\ ev.unit = rhs.unit
    /\ ev.comment = rhs.comment
    /\ ev.var_type = rhs.var_type /\ ev.data_size = rhs.data_size
    /\ ev.access_type = rhs.access_type
    /\ Finds(ev.access_nodes, rhs.access_nodes, Equal)
    /\ Finds(ev.descriptions, rhs.descriptions, Equal)
    /\ Finds(ev.attributes, rhs.attributes, Equal)

(* The texts of an enumeration are searched for in the other direction.     *)
AttributeDefinitionEquals(ad, rhs) ==
    /\ ad.head = rhs.head /\ ad.name = rhs.name
    /\ Finds(rhs.enum, ad.enum, Equal)

(* The loop over _new_symbols searches _new_symbols itself: it finds all.   *)
NetworkEquals(net, rhs) ==
    /\ net.version = rhs.version /\ net.comment = rhs.comment
    /\ net.bit_timing = rhs.bit_timing
    /\ Finds(net.nodes, rhs.nodes, NodeEquals)
    /\ Finds(net.value_tables, rhs.value_tables, ValueTableEquals)
    /\ Finds(net.messages, rhs.messages, MessageEquals)
    /\ Finds(net.environment_variables, rhs.environment_variables, EnvVarEquals)
    /\ Finds(net.attribute_definitions, rhs.attribute_definitions,
             AttributeDefinitionEquals)
    /\ Finds(net.attribute_defaults, rhs.attribute_defaults, Equal)
    /\ Finds(net.attribute_values, rhs.attribute_values, Equal)
=============================================================================

---------------------------- MODULE DbcRoundTrip ----------------------------
(***************************************************************************)
(* What a network must be for the file written for it to be read back, and *)
(* what is read back then.                                                 *)
(***************************************************************************)
EXTENDS DbcWriter

All(list, Good(_)) == \A i \in DOMAIN list : Good(list[i])

(* The texts of a network that are written between quotation marks. *)
AllTexts(net) ==
    LET OfList(xs, Texts(_)) == UNION { Texts(xs[i]) : i \in DOMAIN xs }
        OfAttribute(a)  == { a.name, a.value }
        OfObject(x)     == OfList(x.attributes, OfAttribute) \cup {x.comment}
        OfSignal(s)     == OfObject(s) \cup ToSet(s.descriptions) \cup {s.unit}
        OfDefinition(d) == {d.name} \cup ToSet(d.enum)
    IN  OfList(net.nodes, OfObject)
        \cup OfList(net.value_tables, LAMBDA vt : ToSet(vt.descriptions))
        \cup OfList(net.messages,
                    LAMBDA m : OfObject(m) \cup OfList(m.signals, OfSignal))
        \cup OfList(net.environment_variables, OfSignal)
        \cup OfList(net.attribute_definitions, OfDefinition)
        \cup OfList(net.attribute_defaults, OfAttribute)
        \cup OfList(net.attribute_values, OfAttribute)
        \cup { net.version, net.comment }

(* A name that is read back as one name, which need not be itself. *)
OneName(name)    == Name(name) # Unreadable
OneNameEach(names) == All(names, OneName)

(* No value table with a description has a signal type (unless there is     *)
(* nothing between the tables and where they are written again); every      *)
(* signal has a receiver and every variable an access node; a message and   *)
(* its nodes have names of one word, the other nodes of any number; a node  *)
(* something is said of has an identifier; a variable's type was set; every *)
(* text ends where it should.                                               *)
Writable(net) ==
    /\ \/ All(net.value_tables, LAMBDA vt : vt.signal_type = << >> \/ vt.descriptions = << >>)
       \/ net.messages = << >> /\ net.environment_variables = << >>
    /\ All(net.nodes, LAMBDA n :
            /\ AllEnd(Words(n.name))
            /\ n.comment # "" \/ n.attributes # << >> => Identifier(n.name))
    /\ All(net.messages, LAMBDA m :
            /\ OneName(m.name) /\ OneName(m.transmitter) /\ OneNameEach(m.transmitters)
            /\ All(m.signals, LAMBDA s : s.receivers # << >> /\ OneNameEach(s.receivers)))
    /\ All(net.environment_variables, LAMBDA ev :
            /\ ev.access_nodes # << >> /\ OneNameEach(ev.access_nodes)
            /\ ev.var_type # NoVarType)
    /\ AllTexts(net) \cap QuotedTexts = {}

(* All names are identifiers, as those of a DBC file are. *)
Named(net) ==
    /\ All(net.nodes, LAMBDA n : Identifier(n.name))
    /\ All(net.messages, LAMBDA m :
            /\ Identifier(m.name) /\ Identifier(m.transmitter)
            /\ Identifiers(m.transmitters)
            /\ All(m.signals, LAMBDA s : Identifiers(s.receivers)))
    /\ All(net.environment_variables, LAMBDA ev : Identifiers(ev.access_nodes))

(* No text is read back as another one. *)
ReadAsWritten(net) == AllTexts(net) \cap DOMAIN Misread = {}

(* A bit timing with a zero in it and an empty value table are not written. *)
Representable(net) ==
    /\ Writable(net) /\ Named(net) /\ ReadAsWritten(net)
    /\ net.bit_timing = << 0, 0, 0 >> \/ \A i \in 1 .. 3 : net.bit_timing[i] # 0
    /\ All(net.value_tables, LAMBDA vt : vt.signal_type = << >> /\ vt.descriptions # << >>)

Distinct(list, Key(_)) ==
    \A i, j \in DOMAIN list : Key(list[i]) = Key(list[j]) => i = j
UniqueNames(net) ==
    LET NameOf(x) == x.name
    IN  /\ Distinct(net.nodes, NameOf)
        /\ Distinct(net.value_tables, NameOf)
        /\ Distinct(net.messages, LAMBDA m : m.id)
        /\ All(net.messages, LAMBDA m : Distinct(m.signals, NameOf))
        /\ Distinct(net.environment_variables, NameOf)

-----------------------------------------------------------------------------
(* A file says what it says of an object by its name: objects of one name   *)
(* get each what was written for all of them. With unique names Pooled is   *)
(* the identity.                                                            *)

Some(twins, Field(_), none) ==
    Each(twins, LAMBDA x : Optional(Field(x) # none, Field(x)))
FirstOf(twins, Field(_), none) == FirstOr(Some(twins, Field, none), none)
LastOf(twins, Field(_), none)  == LastOr(Some(twins, Field, none), none)

PooledAttributes(twins) == Each(twins, LAMBDA x : x.attributes)
PooledComment(twins)    == LastOf(twins, LAMBDA x : x.comment, "")
PooledDescriptions(twins) == LastOf(twins, LAMBDA x : x.descriptions, << >>)

PooledNode(net, n) ==
    LET twins == Each(net.nodes, LAMBDA x : Optional(x.name = n.name, x))
    IN  [ n EXCEPT !.attributes = PooledAttributes(twins),
                   !.comment    = PooledComment(twins) ]

(* The signals of the messages of one id, with the name s has in them. *)
PooledSignal(twin_messages, s) ==
    LET twins == Each(twin_messages, LAMBDA m :
                    Each(m.signals, LAMBDA x : Optional(x.name = s.name, x)))
    IN  [ s EXCEPT !.attributes    = PooledAttributes(twins),
                   !.comment       = PooledComment(twins),
                   !.descriptions  = PooledDescriptions(twins),
                   !.extended_type = FirstOf(twins, LAMBDA x : x.extended_type, "Integer"),
                   !.multiplexer_values = Each(twins, LAMBDA x : x.multiplexer_values) ]

PooledMessage(net, m) ==
    LET twins == Each(net.messages, LAMBDA x : Optional(x.id = m.id, x))
    IN  [ m EXCEPT !.attributes    = PooledAttributes(twins),
                   !.comment       = PooledComment(twins),
                   !.transmitters  = FirstOf(twins, LAMBDA x : x.transmitters, << >>),
                   !.signal_groups = Each(twins, LAMBDA x : x.signal_groups),
                   !.signals       = [ i \in DOMAIN m.signals |->
                                         PooledSignal(twins, m.signals[i]) ] ]

PooledEnvVar(net, ev) ==
    LET twins == Each(net.environment_variables, LAMBDA x : Optional(x.name = ev.name, x))
        data  == Each(twins, LAMBDA x : Optional(x.var_type = "Data", x.data_size))
    IN  [ ev EXCEPT !.attributes   = PooledAttributes(twins),
                    !.comment      = PooledComment(twins),
                    !.descriptions = PooledDescriptions(twins),
                    !.var_type     = IF data = << >> THEN @ ELSE "Data",
                    !.data_size    = FirstOr(data, 0) ]

Pooled(net) ==
    LET each(list, P(_, _)) == [ i \in DOMAIN list |-> P(net, list[i]) ]
    IN  [ net EXCEPT
            !.nodes    = each(@, PooledNode),
            !.messages = each(@, PooledMessage),
            !.environment_variables = each(@, PooledEnvVar) ]
=============================================================================

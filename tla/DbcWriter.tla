----------------------------- MODULE DbcWriter -----------------------------
(***************************************************************************)
(* Network2DBC: the loops of operator<<(std::ostream&, const INetwork&),   *)
(* in their order, over the networks of DbcFile.                           *)
(***************************************************************************)
EXTENDS DbcFile

(* What is read back of a text between quotation marks: those inside it are *)
(* not escaped, and what looks like an escape is taken for one.             *)
Quoted(text) ==
    IF text \in QuotedTexts THEN Unreadable
    ELSE IF text \in DOMAIN Misread THEN Misread[text]
    ELSE text
QuotedAll(texts) == [ i \in DOMAIN texts |-> Quoted(texts[i]) ]

(* The name and the value of an attribute. *)
AttributeText(a) == QuotedAll(<< a.name, a.value >>)

(* The names read back of a name, and the one name where one is wanted.     *)
Words(name) == IF name \in DOMAIN FreeNames THEN FreeNames[name] ELSE << name >>
Name(name)  == IF Len(Words(name)) = 1 THEN Head(Words(name)) ELSE Unreadable
NameEach(names) == [ i \in DOMAIN names |-> Name(names[i]) ]

(* operator<<(na_t): the attribute's object type selects the list of        *)
(* objects that is searched for the one holding it. When it is in none of   *)
(* them the id -1 or no name is written (and a signal is dereferenced that  *)
(* was not found); no loader builds such an attribute.                      *)
AttributeOwner(holder, attr) ==
    IF attr.type = ObjectType(holder) THEN holder
    ELSE IF attr.type = "network" THEN << "network" >>
    ELSE IF attr.type = "message" THEN << "message", -1 >>
    ELSE Nobody
AttributeLine(command, holder, attr) ==
    St(command, AttributeOwner(holder, attr), AttributeText(attr))
AttributeLines(holder, attributes) ==
    Each(attributes, LAMBDA attr : << AttributeLine("BA_", holder, attr) >>)

CommentLine(o, text) == Optional(text # "", St("CM_", o, Quoted(text)))
DescriptionLine(o, texts) == Optional(texts # << >>, St("VAL_", o, QuotedAll(texts)))

(* operator<<(IBitTiming) *)
BitTimingLine(timing) ==
    St("BS_", << >>, IF \A i \in 1 .. 3 : timing[i] # 0 THEN timing ELSE << >>)

(* operator<<(IValueTable) *)
ValueTableLine(vt) ==
    Optional(vt.descriptions # << >>,
             St("VAL_TABLE_", << "table", vt.name >>, QuotedAll(vt.descriptions)))

(* operator<<(ISignal) *)
SignalText(s) ==
    [ name        |-> s.name,
      multiplexer |-> IF s.multiplexer = "MuxSwitch" THEN << "M" >>
                      ELSE IF s.multiplexer = "MuxValue" THEN << "m", s.switch_value >>
                      ELSE << >>,
      head        |-> s.head,
      unit        |-> Quoted(s.unit),
      receivers   |-> NameEach(s.receivers) ]

(* operator<<(IMessage) *)
MessageLine(m) ==
    St("BO_", << "message", m.id >>,
       [ name        |-> Name(m.name),
         transmitter |-> Name(m.transmitter),
         size        |-> m.size,
         signals     |-> [ i \in DOMAIN m.signals |-> SignalText(m.signals[i]) ] ])

(* Mutant: the line is written for a message without transmitters, too.     *)
TransmitterLine_Always(m) ==
    << St("BO_TX_BU_", << "message", m.id >>, NameEach(m.transmitters)) >>

TransmitterLine(m) ==
    Optional(m.transmitters # << >>,
             St("BO_TX_BU_", << "message", m.id >>, NameEach(m.transmitters)))

(* operator<<(IEnvironmentVariable): Data is written as an integer, and     *)
(* nothing for what is no enumerator.                                       *)
VarTypeCode(type) ==
    IF type = "Data" THEN 0
    ELSE IF type = NoVarType THEN NoNumber
    ELSE (CHOOSE i \in DOMAIN VarTypes : VarTypes[i] = type) - 1
EnvVarLine(ev) ==
    St("EV_", << "env", ev.name >>,
       [ head         |-> ev.head,
         maximum      |-> ev.maximum,
         unit         |-> Quoted(ev.unit),
         var_type     |-> VarTypeCode(ev.var_type),
         access_type  |-> CHOOSE token \in DOMAIN AccessTypes :
                             AccessTypes[token] = ev.access_type,
         access_nodes |-> NameEach(ev.access_nodes) ])

(* operator<<(IAttributeDefinition) *)
DefinitionLine(d) ==
    St("BA_DEF_", << >>,
       [ head |-> d.head, name |-> Quoted(d.name), enum |-> QuotedAll(d.enum) ])

(* The type of SIG_VALTYPE_, none for an integer. *)
ExtendedTypeLine(o, type) ==
    Optional(type # "Integer", St("SIG_VALTYPE_", o, IF type = "Float" THEN 1 ELSE 2))

(* Every signal of every message, with its name in the file. *)
EachSignal(messages, Lines(_, _)) ==
    Each(messages, LAMBDA m :
        Each(m.signals, LAMBDA s : Lines(<< "signal", m.id, s.name >>, s)))

(* Mutant: the attributes of a signal are written with their message.       *)
AttributeSection_SignalsAsMessages(net) ==
       AttributeLines(<< "network" >>, net.attribute_values)
    \o Each(net.nodes, LAMBDA n : AttributeLines(<< "node", n.name >>, n.attributes))
    \o Each(net.messages, LAMBDA m : AttributeLines(<< "message", m.id >>, m.attributes))
    \o EachSignal(net.messages, LAMBDA o, s :
            Each(s.attributes, LAMBDA a :
                << St("BA_", << "message", o[2] >>, AttributeText(a)) >>))
    \o Each(net.environment_variables,
            LAMBDA ev : AttributeLines(<< "env", ev.name >>, ev.attributes))

AttributeSection(net) ==
       AttributeLines(<< "network" >>, net.attribute_values)
    \o Each(net.nodes, LAMBDA n : AttributeLines(<< "node", n.name >>, n.attributes))
    \o Each(net.messages, LAMBDA m : AttributeLines(<< "message", m.id >>, m.attributes))
    \o EachSignal(net.messages, LAMBDA o, s : AttributeLines(o, s.attributes))
    \o Each(net.environment_variables,
            LAMBDA ev : AttributeLines(<< "env", ev.name >>, ev.attributes))

CommentSection(net) ==
       CommentLine(<< "network" >>, net.comment)
    \o Each(net.nodes, LAMBDA n : CommentLine(<< "node", n.name >>, n.comment))
    \o Each(net.messages, LAMBDA m : CommentLine(<< "message", m.id >>, m.comment))
    \o EachSignal(net.messages, LAMBDA o, s : CommentLine(o, s.comment))
    \o Each(net.environment_variables,
            LAMBDA ev : CommentLine(<< "env", ev.name >>, ev.comment))

(* The signal types: the loop writes the value table of the signal type,    *)
(* where the grammar expects SGTYPE_. No SGTYPE_ line is ever written.      *)
SignalTypeSection(net) ==
    Each(net.value_tables,
         LAMBDA vt : IF vt.signal_type # << >> THEN ValueTableLine(vt) ELSE << >>)

DescriptionSection(net) ==
       EachSignal(net.messages, LAMBDA o, s : DescriptionLine(o, s.descriptions))
    \o Each(net.environment_variables,
            LAMBDA ev : DescriptionLine(<< "env", ev.name >>, ev.descriptions))

(* The names of the nodes, separated by blanks: an empty one is not seen,   *)
(* one with blanks is seen as several.                                      *)
NodesLine(nodes) == St("BU_", << >>, Each(nodes, LAMBDA n : Words(n.name)))

(* The sections of the file, those of SectionOrder. *)
Sections(net) ==
    << << St("VERSION", << >>, Quoted(net.version)) >>,
       << St("NS_", << >>, net.new_symbols) >>,
       << BitTimingLine(net.bit_timing) >>,
       << NodesLine(net.nodes) >>,
       Each(net.value_tables, ValueTableLine),
       Each(net.messages, LAMBDA m : << MessageLine(m) >>),
       Each(net.messages, TransmitterLine),
       Each(net.environment_variables, LAMBDA ev : << EnvVarLine(ev) >>),
       Each(net.environment_variables, LAMBDA ev :
            Optional(ev.var_type = "Data",
                     St("ENVVAR_DATA_", << "env", ev.name >>, ev.data_size))),
       SignalTypeSection(net),
       CommentSection(net),
       Each(net.attribute_definitions, LAMBDA d : << DefinitionLine(d) >>),
       Each(net.attribute_defaults,
            LAMBDA d : << AttributeLine("BA_DEF_DEF_", << "network" >>, d) >>),
       AttributeSection(net),
       DescriptionSection(net),
       Each(net.messages, LAMBDA m :
            Each(m.signal_groups,
                 LAMBDA g : << St("SIG_GROUP_", << "message", m.id >>, g) >>)),
       EachSignal(net.messages, LAMBDA o, s : ExtendedTypeLine(o, s.extended_type)),
       EachSignal(net.messages, LAMBDA o, s :
            Each(s.multiplexer_values, LAMBDA v : << St("SG_MUL_VAL_", o, v) >>)) >>
Write(net) == FlattenSeq(Sections(net))
=============================================================================

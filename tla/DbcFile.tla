------------------------------ MODULE DbcFile ------------------------------
(***************************************************************************)
(* The three conversions of a DBC file, as operators:                      *)
(*   Accepts(file)    DBCX3::ParseFromMemory finds the file grammatical;   *)
(*   Load(file, left) the network DBCAST2Network builds from it;           *)
(*   Write(net)       what Network2DBC's operator<< writes for a network.  *)
(*                                                                         *)
(* A file is the sequence of its statements, each with its keyword, the    *)
(* object it is about (see DbcAst; <<"table", name>> for a value table)    *)
(* and its value. What the conversions copy without looking into it, such  *)
(* as the geometry of a signal or the limits of a variable, is one `head'. *)
(***************************************************************************)
EXTENDS DbcAst, SequencesExt

(* The parser reads the texts of a file with their escapes, and takes for a *)
(* name a C identifier, with any blanks before it. What is written is       *)
(* neither escaped nor made an identifier, so that another text or name, or *)
(* none, is read back from it.                                              *)
CONSTANTS
    QuotedTexts, \* texts that do not end at the quotation mark written after them:
                 \* they have one in them, or a backslash at their end
    Misread,     \* of each other text with an escape in it, what is read instead
    FreeNames    \* of each name that is no C identifier, the names read instead

(* What stands in a file for a text that does not end, or a name that is    *)
(* followed by what no name has; the owner of a line that names none (it    *)
(* has ""); a number that is missing.                                       *)
Unreadable == "unreadable"
Nobody     == << "no name" >>
NoNumber   == -1

(* The words of a free name are identifiers, or it cannot be read; the      *)
(* empty name has none. Texts that pass for the rest of their line, as the  *)
(* description (x" 2 "y) does, and names with a // are left out.            *)
ASSUME QuotedTextsAssumption == "" \notin QuotedTexts
ASSUME MisreadAssumption ==
    /\ DOMAIN Misread \cap (QuotedTexts \cup {"", Unreadable}) = {}
    /\ \A text \in DOMAIN Misread : Misread[text] # Unreadable
ASSUME FreeNamesAssumption ==
    /\ "" \in DOMAIN FreeNames /\ FreeNames[""] = << >>
    /\ Unreadable \notin DOMAIN FreeNames
    /\ \A name \in DOMAIN FreeNames :
          /\ FreeNames[name] \in Seq(ToSet(FreeNames[name]))
          /\ ToSet(FreeNames[name]) \cap DOMAIN FreeNames = {}

St(kind, owner, value) == << kind, owner, value >>
Kind(st)  == st[1]
Owner(st) == st[2]
Value(st) == st[3]

-----------------------------------------------------------------------------
(* The grammar.                                                             *)

SectionOrder ==
    << "VERSION", "NS_", "BS_", "BU_", "VAL_TABLE_", "BO_", "BO_TX_BU_", "EV_",
       "ENVVAR_DATA_", "SGTYPE_", "CM_", "BA_DEF_", "BA_DEF_DEF_", "BA_",
       "VAL_", "SIG_GROUP_", "SIG_VALTYPE_", "SG_MUL_VAL_" >>
Section(st) == CHOOSE i \in DOMAIN SectionOrder : SectionOrder[i] = Kind(st)

CountOf(file, kind) == Cardinality({ i \in DOMAIN file : Kind(file[i]) = kind })

Identifier(name) == name \notin DOMAIN FreeNames \cup {Unreadable}
Identifiers(names) == \A i \in DOMAIN names : Identifier(names[i])
NameList(names) == names # << >> /\ Identifiers(names)
Ends(text)   == text # Unreadable
AllEnd(texts) == Unreadable \notin ToSet(texts)

(* The lists the grammar wants an element of (`% ,') have one, a name or a  *)
(* number is written where it wants one, and a string ends where it should. *)
WellFormed(st) ==
    /\ Kind(st) = "BU_" => Identifiers(Value(st))
    /\ Kind(st) = "BO_" =>
          /\ Identifier(Value(st).name) /\ Identifier(Value(st).transmitter)
          /\ \A i \in DOMAIN Value(st).signals :
                /\ NameList(Value(st).signals[i].receivers)
                /\ Ends(Value(st).signals[i].unit)
    /\ Kind(st) = "BO_TX_BU_"   => NameList(Value(st))
    /\ Kind(st) = "EV_" =>
          /\ NameList(Value(st).access_nodes) /\ Value(st).var_type # NoNumber
          /\ Ends(Value(st).unit)
    /\ Kind(st) = "SG_MUL_VAL_" => Value(st).ranges # << >>
    /\ Kind(st) = "BA_DEF_" => Ends(Value(st).name) /\ AllEnd(Value(st).enum)
    /\ Kind(st) = "BA_DEF_DEF_" => ObjectType(Owner(st)) = "network"
    /\ Kind(st) = "BA_"         => Owner(st) # Nobody
    /\ Kind(st) \in {"CM_", "BA_"} =>
          (ObjectType(Owner(st)) = "node" => Identifier(Owner(st)[2]))
    /\ Kind(st) \in {"VERSION", "CM_"} => Ends(Value(st))
    /\ Kind(st) \in {"BA_", "BA_DEF_DEF_", "VAL_", "VAL_TABLE_"} => AllEnd(Value(st))

(* network_def: every section in its place, those not starred or optional   *)
(* exactly once, and nothing after the last.                                *)
Accepts(file) ==
    /\ \A i, j \in DOMAIN file : i < j => Section(file[i]) <= Section(file[j])
    /\ \A kind \in {"VERSION", "BS_", "BU_"} : CountOf(file, kind) = 1
    /\ CountOf(file, "NS_") <= 1
    /\ \A i \in DOMAIN file : WellFormed(file[i])

(* The attributes the parser gives the statements, as far as the loader     *)
(* relies on them: lists, the names of nodes, a bit timing of three numbers *)
(* if any; BO_ and EV_ declare a message and a variable.                    *)
List(s) == s \in Seq(ToSet(s))
Parsed(st) ==
    /\ Kind(st) = "BS_" => Value(st) = << >> \/ Value(st) \in [1 .. 3 -> Nat]
    /\ Kind(st) \in {"BU_", "BO_TX_BU_", "VAL_", "VAL_TABLE_"} => List(Value(st))
    /\ Kind(st) = "BO_" =>
          /\ ObjectType(Owner(st)) = "message" /\ List(Value(st).signals)
          /\ \A i \in DOMAIN Value(st).signals : List(Value(st).signals[i].receivers)
    /\ Kind(st) = "EV_" => ObjectType(Owner(st)) = "env" /\ List(Value(st).access_nodes)
    /\ Kind(st) = "BA_DEF_" =>
          /\ Value(st) = [ head |-> Value(st).head, name |-> Value(st).name,
                           enum |-> Value(st).enum ]
          /\ List(Value(st).enum)
    /\ Kind(st) \in {"BA_", "BA_DEF_DEF_"} => List(Value(st)) /\ Len(Value(st)) = 2
ParsedFile(file) == List(file) /\ \A i \in DOMAIN file : Parsed(file[i])

-----------------------------------------------------------------------------
(* Loading.                                                                 *)

(* One loop: what is made of each element, one after the other. *)
Each(list, Make(_)) == FlattenSeq([ i \in DOMAIN list |-> Make(list[i]) ])
Optional(condition, x) == IF condition THEN << x >> ELSE << >>

(* The statements of a section, and their values; those about one object. *)
Of(file, kind)     == Each(file, LAMBDA st : Optional(Kind(st) = kind, st))
Values(file, kind) == Each(file, LAMBDA st : Optional(Kind(st) = kind, Value(st)))
About(file, kind, o) ==
    Each(file, LAMBDA st : Optional(Kind(st) = kind /\ Owner(st) = o, Value(st)))
FirstOr(values, default) == IF values = << >> THEN default ELSE Head(values)
LastOr(values, default)  == IF values = << >> THEN default ELSE Last(values)

(* An attribute is written as its name and its value. *)
AttributeOf(type, v) == [ type |-> type, name |-> v[1], value |-> v[2] ]

(* What the caches hold for an object (see DbcLoader). *)
Attributes(file, o) ==
    LET values == About(file, "BA_", o)
    IN  [ i \in DOMAIN values |-> AttributeOf(ObjectType(o), values[i]) ]
Descriptions(file, o) == LastOr(About(file, "VAL_", o), << >>)
Comment(file, o)      == LastOr(About(file, "CM_", o), "")

(* Mutant: the codes of the two floating point types are swapped.           *)
getSignalExtendedValueType_Swapped(file, o) ==
    LET code == FirstOr(About(file, "SIG_VALTYPE_", o), 0)
    IN  IF code = 2 THEN "Float" ELSE IF code = 1 THEN "Double" ELSE "Integer"

getSignalExtendedValueType(file, o) ==
    LET code == FirstOr(About(file, "SIG_VALTYPE_", o), 0)
    IN  IF code = 1 THEN "Float" ELSE IF code = 2 THEN "Double" ELSE "Integer"

(* The multiplexer indicator is << >>, <<"M">>, <<"m", value>> or, for an   *)
(* extended multiplexor, <<"m", value, "M">>, of which atoi reads the value.*)
MultiplexerIndicator(token) ==
    IF token = << >> THEN "NoMux"
    ELSE IF Head(token) = "M" THEN "MuxSwitch" ELSE "MuxValue"
MultiplexerSwitchValue(token) ==
    IF MultiplexerIndicator(token) = "MuxValue" THEN token[2] ELSE 0

LoadSignal(file, id, s) ==
    LET o == << "signal", id, s.name >>
    IN  [ name              |-> s.name,
          multiplexer       |-> MultiplexerIndicator(s.multiplexer),
          switch_value      |-> MultiplexerSwitchValue(s.multiplexer),
          head              |-> s.head,
          unit              |-> s.unit,
          receivers         |-> s.receivers,
          attributes        |-> Attributes(file, o),
          descriptions      |-> Descriptions(file, o),
          comment           |-> Comment(file, o),
          extended_type     |-> getSignalExtendedValueType(file, o),
          multiplexer_values |-> About(file, "SG_MUL_VAL_", o) ]

LoadMessage(file, st) ==
    [ id            |-> Owner(st)[2],
      name          |-> Value(st).name,
      transmitter   |-> Value(st).transmitter,
      size          |-> Value(st).size,
      signals       |-> [ i \in DOMAIN Value(st).signals |->
                            LoadSignal(file, Owner(st)[2], Value(st).signals[i]) ],
      transmitters  |-> FirstOr(About(file, "BO_TX_BU_", Owner(st)), << >>),
      attributes    |-> Attributes(file, Owner(st)),
      comment       |-> Comment(file, Owner(st)),
      signal_groups |-> About(file, "SIG_GROUP_", Owner(st)) ]

AccessTypes ==
    [ DUMMY_NODE_VECTOR0    |-> "Unrestricted",
      DUMMY_NODE_VECTOR1    |-> "Read",
      DUMMY_NODE_VECTOR2    |-> "Write",
      DUMMY_NODE_VECTOR3    |-> "ReadWrite",
      DUMMY_NODE_VECTOR8000 |-> "Unrestricted_",
      DUMMY_NODE_VECTOR8001 |-> "Read_",
      DUMMY_NODE_VECTOR8002 |-> "Write_",
      DUMMY_NODE_VECTOR8003 |-> "ReadWrite_" ]
VarTypes == << "Integer", "Float", "String" >>     \* of 0, 1 and 2

(* Above 2 var_type is not assigned: it is what was left on the stack, one  *)
(* of the enumerators or, as `left' has it then, a number that is none.     *)
NoVarType    == "none"
LeftOnStack  == ToSet(VarTypes) \cup {"Data", NoVarType}

LoadEnvVar(file, left, st) ==
    LET data == About(file, "ENVVAR_DATA_", Owner(st))
    IN  [ name         |-> Owner(st)[2],
          head         |-> Value(st).head,
          maximum      |-> Value(st).maximum,
          unit         |-> Value(st).unit,
          var_type     |-> IF data # << >> THEN "Data"
                           ELSE IF Value(st).var_type + 1 \in DOMAIN VarTypes
                             THEN VarTypes[Value(st).var_type + 1]
                             ELSE left,
          data_size    |-> FirstOr(data, 0),
          access_type  |-> IF Value(st).access_type \in DOMAIN AccessTypes
                             THEN AccessTypes[Value(st).access_type]
                             ELSE "Unrestricted",
          access_nodes |-> Value(st).access_nodes,
          descriptions |-> Descriptions(file, Owner(st)),
          attributes   |-> Attributes(file, Owner(st)),
          comment      |-> Comment(file, Owner(st)) ]

(* The signal type of a value table is a list of at most one element. *)
LoadValueTable(file, st) ==
    LET types == About(file, "SGTYPE_", Owner(st))
    IN  [ name         |-> Owner(st)[2],
          descriptions |-> Value(st),
          signal_type  |-> IF types = << >> THEN << >> ELSE << Head(types) >> ]

LoadNode(file, name) ==
    [ name       |-> name,
      comment    |-> Comment(file, << "node", name >>),
      attributes |-> Attributes(file, << "node", name >>) ]

getBitTiming(file) ==
    LET timing == Head(Values(file, "BS_"))
    IN  IF timing = << >> THEN << 0, 0, 0 >> ELSE timing

Load(file, left) ==
    LET names     == Head(Values(file, "BU_"))
        tables    == Of(file, "VAL_TABLE_")
        messages  == Of(file, "BO_")
        variables == Of(file, "EV_")
        defaults  == Values(file, "BA_DEF_DEF_")
    IN  [ version       |-> Head(Values(file, "VERSION")),
          new_symbols   |-> FirstOr(Values(file, "NS_"), << >>),
          bit_timing    |-> getBitTiming(file),
          nodes         |-> [ i \in DOMAIN names |-> LoadNode(file, names[i]) ],
          value_tables  |-> [ i \in DOMAIN tables |-> LoadValueTable(file, tables[i]) ],
          messages      |-> [ i \in DOMAIN messages |-> LoadMessage(file, messages[i]) ],
          environment_variables
                        |-> [ i \in DOMAIN variables |-> LoadEnvVar(file, left, variables[i]) ],
          attribute_definitions |-> Values(file, "BA_DEF_"),
          attribute_defaults    |-> [ i \in DOMAIN defaults |->
                                        AttributeOf("network", defaults[i]) ],
          attribute_values      |-> Attributes(file, << "network" >>),
          comment               |-> Comment(file, << "network" >>) ]
=============================================================================

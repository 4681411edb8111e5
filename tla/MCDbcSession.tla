---------------------------- MODULE MCDbcSession ----------------------------
(***************************************************************************)
(* Two files, each of one node and one message with a multiplexed signal,  *)
(* extended by statements of every section: second values and second       *)
(* comments for the same owner, a message with an id already taken, owners *)
(* nobody declares; quotation marks in units, a comment, a description,    *)
(* the name of an attribute and the name and a value of an attribute       *)
(* definition; backslashes in the value of an attribute.                   *)
(***************************************************************************)
EXTENDS DbcSession

CONSTANTS s1, s2

Plain == "text"
McQuotedTexts == { "say \"hello\"" }
WithQuote == CHOOSE t \in McQuotedTexts : TRUE
WithBackslashes == "a\\\\b"
McMisread   == WithBackslashes :> "a\\b"
McFreeNames == "" :> << >> @@ "k l" :> << "k", "l" >>

Signal(name, multiplexer, unit) ==
    [ name |-> name, multiplexer |-> multiplexer, head |-> "1|8@1+ (1,0)",
      unit |-> unit, receivers |-> << "n", "k" >> ]
MessageSt(id, signals) ==
    St("BO_", << "message", id >>,
       [ name |-> "m", transmitter |-> "n", size |-> 8, signals |-> signals ])

Header(timing, node, id) ==
    << St("VERSION", << >>, "1"),
       St("BS_", << >>, timing),
       St("BU_", << >>, << node >>),
       MessageSt(id, << Signal("a", << "M" >>, ""), Signal("b", << "m", 3 >>, "km") >>) >>

(* Files that share no name, files of the same node and message; one file,  *)
(* with a bit timing that is not written, without any, or without a message. *)
First == Header(<< >>, "n", 1)
McInitialFiles ==
    { (s1 :> First @@ s2 :> Header(<< 5, 1, 2 >>, "k", 2)),
      (s1 :> First @@ s2 :> First),
      (s1 :> First @@ s2 :> None),
      (s1 :> SubSeq(First, 1, 3) @@ s2 :> None),
      (s1 :> Header(<< 5, 0, 2 >>, "n", 1) @@ s2 :> None) }

T == << "table", "t" >>
N == << "node", "n" >>
M == << "message", 1 >>
A == << "signal", 1, "a" >>
B == << "signal", 1, "b" >>
E == << "env", "e" >>
Undeclared == << "message", 9 >>

EnvVar(access, type, unit) ==
    St("EV_", E, [ head |-> "0", maximum |-> 1, unit |-> unit, var_type |-> type,
                   access_type |-> access, access_nodes |-> << "n" >> ])
Definition(name, text) == [ head |-> "BO_ ENUM", name |-> name, enum |-> << "on", text >> ]

McStatements ==
    { St("NS_", << >>, << "CM_", "BA_" >>),
      St("VAL_TABLE_", T, << Plain >>), St("VAL_TABLE_", T, << >>),
      MessageSt(3, << Signal("a", << "m", 1, "M" >>, WithQuote) >>), MessageSt(1, << >>),
      St("BO_TX_BU_", M, << "n" >>), St("BO_TX_BU_", M, << "k", "n" >>),
      EnvVar("DUMMY_NODE_VECTOR8002", 1, WithQuote), EnvVar("unknown", 3, ""),
      St("ENVVAR_DATA_", E, 4),
      St("SGTYPE_", T, [ head |-> "8+", byte_order |-> 1 ]),
      St("CM_", << "network" >>, Plain), St("CM_", << "network" >>, ""),
      St("CM_", A, Plain), St("CM_", N, WithQuote),
      St("BA_DEF_", << >>, Definition("x", "off")),
      St("BA_DEF_", << >>, Definition("x", WithQuote)),
      St("BA_DEF_", << >>, Definition(WithQuote, "off")),
      St("BA_DEF_DEF_", << "network" >>, << "x", Plain >>),
      St("BA_", << "network" >>, << "x", Plain >>), St("BA_", M, << WithQuote, Plain >>),
      St("BA_", N, << "x", Plain >>),
      St("BA_", A, << "x", Plain >>), St("BA_", A, << "x", "other" >>),
      St("BA_", E, << "x", WithBackslashes >>), St("BA_", Undeclared, << "x", Plain >>),
      St("VAL_", B, << Plain, "other" >>), St("VAL_", B, << >>),
      St("VAL_", E, << WithQuote >>),
      St("SIG_GROUP_", M, [ name |-> "g", signals |-> << "a", "b" >> ]),
      St("SIG_VALTYPE_", A, 1), St("SIG_VALTYPE_", A, 2), St("SIG_VALTYPE_", B, 3),
      St("SG_MUL_VAL_", B, [ switch |-> "a", ranges |-> << << 1, 3 >> >> ]) }
=============================================================================

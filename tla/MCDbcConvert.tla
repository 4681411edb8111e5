---------------------------- MODULE MCDbcConvert ----------------------------
(***************************************************************************)
(* Command lines of up to two files. The KCD files have two buses or two   *)
(* of one name, nodes of one id, without an id, without a name and with a  *)
(* name that is no identifier, messages with none, two and undeclared      *)
(* producers, and signals of every kind, directly in the message and below *)
(* one or two multiplexors.                                                *)
(***************************************************************************)
EXTENDS DbcConvert

(* Of the names that are no identifier one has a blank in it, one before    *)
(* it, and one a character that no identifier has.                          *)
McFreeNames == "" :> << >> @@ "k l" :> << "k", "l" >> @@ " k" :> << "k" >>
               @@ "k-1" :> << Unreadable >>
McNames == { "n", "k" } \cup DOMAIN McFreeNames
McQuotedTexts == { "say \"hello\"" }
McMisread == "a\\\\b" :> "a\\b"
WithQuote == CHOOSE t \in McQuotedTexts : TRUE
NotGiven == -1

Node(id, name) == [ id |-> id, name |-> name ]
Bus(name, ms) == [ name |-> name, baudrate |-> IF name = 1 THEN NotGiven ELSE 250000,
                   messages |-> ms ]
Signal(name, offset, length, big, consumers) ==
    [ name |-> name, offset |-> offset, length |-> length, big |-> big,
      value |-> << >>, consumers |-> consumers, labels |-> << >>, notes |-> "" ]
Msg(id, length, producers, multiplexes, signals) ==
    [ id |-> id, name |-> "m", length |-> length, text |-> "", producers |-> producers,
      multiplexes |-> multiplexes, signals |-> signals ]
Value_(type, min, max, unit) == [ type |-> type, min |-> min, max |-> max, unit |-> unit ]

A == Signal("a", 3, NotGiven, FALSE, << 1 >>)
B == [ Signal("b", 4, 12, TRUE, << 2, 1 >>) EXCEPT
         !.value = << Value_("single", 0, 9, "km") >>,
         !.labels = << "on", "off" >>, !.notes = "text" ]
C == [ Signal("c", 40, 8, FALSE, << 1 >>) EXCEPT
         !.value = << Value_("signed", 2, NotGiven, "") >> ]
D == Signal("d", 8, NotGiven, FALSE, << 1 >>)
Mux == [ switch |-> D, groups |-> << [ count |-> 0, signals |-> << C >> ],
                                     [ count |-> 7, signals |-> << A, C >> ] >> ]
Unconsumed == Signal("u", 0, 8, FALSE, << >>)
Misreferred    == Signal("v", 0, 8, FALSE, << 5 >>)
Plain      == Signal("w", 0, 8, FALSE, << 1 >>)
Labelled   == [ Plain EXCEPT !.labels = << WithQuote >> ]
Measured   == [ Plain EXCEPT !.value = << Value_("", NotGiven, NotGiven, WithQuote) >> ]
Escaped    == [ Plain EXCEPT !.labels = << "a\\\\b" >> ]

M1 == Msg(1, NotGiven, << 1 >>, << >>, << A, B >>)
M2 == [ Msg(2, NotGiven, << 2, 1 >>, << Mux >>, << D >>) EXCEPT !.text = "text" ]
M3 == Msg(3, 2, << 1 >>, << [ Mux EXCEPT !.groups = << >> ], Mux >>, << >>)
NoSignals     == Msg(4, NotGiven, << 1 >>, << >>, << >>)
NoProducer    == Msg(5, 1, << >>, << >>, << >>)
WrongFirst    == Msg(6, 1, << 5, 1 >>, << >>, << >>)
WrongSecond   == Msg(7, 1, << 1, 5 >>, << >>, << Misreferred >>)
WrongConsumer == Msg(8, 1, << 1 >>, << [ switch |-> A, groups |->
                    << [ count |-> 1, signals |-> << Misreferred >> ] >> ] >>, << >>)
NotWritable   == Msg(9, 1, << 1 >>, << >>, << Unconsumed >>)
Quoting       == Msg(10, 1, << 1 >>, << >>, << Labelled >>)
QuotingUnit   == Msg(11, 1, << 1 >>, << >>, << Measured >>)
Escaping      == Msg(12, 1, << 1 >>, << >>, << Escaped >>)
Blanks        == [ NoSignals EXCEPT !.name = "k l" ]

McMessageElements == { M1, M2, M3, NoSignals, NoProducer, WrongFirst, WrongSecond,
                       WrongConsumer, NotWritable, Quoting, QuotingUnit, Escaping,
                       Blanks }
McBusNames == {1, 2}

Kcd_(ns, bs) == [ root_is_definition |-> TRUE, nodes |-> ns, buses |-> bs ]
Both == << Node(1, "n"), Node(2, "k") >>
McDocs ==
    { Kcd_(Both, << Bus(2, << M1, M2 >>), Bus(1, << M3 >>) >>),
      Kcd_(Both, << Bus(1, << M1 >>), Bus(1, << M2 >>), Bus(2, << NoSignals >>) >>),
      Kcd_(<< Node(1, "k"), Node(1, "n"), Node(2, "n") >>, << Bus(1, << M1, M1 >>) >>),
      Kcd_(<< Node(1, "n"), Node(2, "") >>, << Bus(1, << M2 >>) >>),
      Kcd_(<< Node(1, "n"), Node(2, "") >>, << Bus(1, << M3 >>) >>),
      Kcd_(<< Node(1, "n"), Node(NotGiven, "k") >>, << Bus(1, << M3 >>) >>),
      Kcd_(Both, << >>),
      [ Kcd_(Both, << >>) EXCEPT !.root_is_definition = FALSE ] }
    \cup { Kcd_(<< Node(1, "n"), Node(2, name) >>, << Bus(1, << m >>) >>) :
             name \in { "k l", " k", "k-1" }, m \in { M1, M2, NoSignals } }
    \cup { Kcd_(Both, << Bus(1, << M1, m >>) >>) :
             m \in { NoProducer, WrongFirst, WrongSecond, WrongConsumer,
                     NotWritable, Quoting, QuotingUnit, Escaping, Blanks } }

Dbc(timing, node, attributes) ==
    << St("VERSION", << >>, "1"), St("BS_", << >>, timing),
       St("BU_", << >>, << node >>),
       St("BO_", << "message", 1 >>,
          [ name |-> "m", transmitter |-> node, size |-> 8,
            signals |-> << [ name |-> "a", multiplexer |-> << >>,
                             head |-> [ start_bit |-> 0 ], unit |-> "km",
                             receivers |-> << node >> ] >> ]) >> \o attributes
McDbcFiles ==
    { Dbc(<< 1, 2, 3 >>, "n", << St("BA_", << "signal", 1, "a" >>, << "x", "text" >>) >>),
      Dbc(<< >>, "k", << St("VAL_", << "signal", 1, "a" >>, << "on" >>),
                         St("SIG_VALTYPE_", << "signal", 1, "a" >>, 1) >>),
      << St("BU_", << >>, << "n" >>) >> }     \* not grammatical

McFiles == { << "kcd", d >> : d \in McDocs } \cup { << "dbc", f >> : f \in McDbcFiles }
           \cup { << "unopened", << >> >>, << "other", << >> >> }
McCommands == { << f >> : f \in McFiles } \cup { << f, g >> : f, g \in McFiles }
=============================================================================

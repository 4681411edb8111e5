---------------------------- MODULE MCDecodeTool ----------------------------
(***************************************************************************)
(* Two buses with three options between them, messages with a multiplexer, *)
(* with switches nested two deep, with a range, with a cycle of switches,  *)
(* frames that are too short, and ids no network has.                      *)
(***************************************************************************)
EXTENDS DecodeTool

McBytes == 0 .. 2
Sig(name, multiplexer, value, byte, entries) ==
    [ name |-> name, multiplexer |-> multiplexer, switch_value |-> value,
      byte |-> byte, multiplexer_values |-> entries ]
Entry(switch, from, to) == [ switch |-> switch, ranges |-> << << from, to >> >> ]
Message(id, signals) == [ id |-> id, signals |-> signals ]

Simple == Message(1, << Sig("plain", "NoMux", 0, 0, << >>), Sig("s", "MuxSwitch", 0, 1, << >>),
                        Sig("m1", "MuxValue", 1, 0, << >>), Sig("m2", "MuxValue", 2, 0, << >>) >>)
Nested == Message(2, << Sig("s", "MuxSwitch", 0, 0, << >>),
                        Sig("t", "MuxValue", 1, 1, << Entry("s", 1, 1) >>),
                        Sig("u", "MuxValue", 2, 0, << Entry("t", 2, 2) >>),
                        Sig("w", "MuxValue", 2, 0, << Entry("nobody", 2, 2) >>),
                        Sig("v", "MuxValue", 0, 0, << Entry("u", 1, 1) >>) >>)
Ranged == Message(2, << Sig("s", "MuxSwitch", 0, 0, << >>),
                        Sig("t", "MuxValue", 0, 1, << Entry("s", 0, 2), Entry("s", 2, 2) >>),
                        Sig("u", "MuxValue", 0, 1,
                            << Entry("t", 1, 1), [ switch |-> "s", ranges |-> << <<0, 0>>, <<1, 1>> >> ] >>) >>)
Cyclic == Message(3, << Sig("x", "MuxValue", 0, 0, << Entry("y", 1, 1) >>),
                        Sig("y", "MuxValue", 0, 1, << Entry("x", 1, 1) >>),
                        Sig("z", "MuxValue", 0, 1, << >>) >>)

Option(bus, net) == [ bus |-> bus, net |-> net ]
McCommandLines ==
    { << Option("can0", << Simple, Nested, Message(1, << >>) >>), Option("can1", None) >>,
      << Option("can0", << Simple, Nested, Cyclic >>), Option("can1", << Ranged >>),
         Option("can0", << Message(1, << >>), Ranged >>) >> }
Line(bus, id, size, bytes) == [ bus |-> bus, id |-> id, size |-> size, bytes |-> bytes ]
McLines ==
    { Line("can0", id, 2, bytes) : id \in 1 .. 3, bytes \in [1 .. 2 -> McBytes] }
    \cup { Line("can1", 2, 2, bytes) : bytes \in [1 .. 2 -> McBytes] }
    \cup { Line("can0", 1, 2, << 1 >>), Line("can0", 2, 1, << 1 >>),
           Line("can0", 9, 2, << >>), Line("can9", 1, 0, << >>) }
=============================================================================

--------------------------- MODULE MCNetwork2Human ---------------------------
(***************************************************************************)
(* Messages of up to three bytes: signals that end in a row above the one  *)
(* they start in, several starts in a row, overlaps, sizes 0 and beyond    *)
(* the message, one and two switches, values without a switch, the value   *)
(* with all bits set, and big endian signals; and each two signals with    *)
(* these starts and sizes, in both orders. WordSize is 2^16.               *)
(***************************************************************************)
EXTENDS Network2Human

McWordSize == 65536

Sig(start, size) ==
    [ multiplexer |-> "NoMux", switch_value |-> 0, start_bit |-> start,
      bit_size |-> size, byte_order |-> "LittleEndian" ]
Switch(start, size)   == [ Sig(start, size) EXCEPT !.multiplexer = "MuxSwitch" ]
Of(value, start, size) ==
    [ Sig(start, size) EXCEPT !.multiplexer = "MuxValue", !.switch_value = value ]
Big(start, size)      == [ Sig(start, size) EXCEPT !.byte_order = "BigEndian" ]
Msg(size, signals)    == [ size |-> size, signals |-> signals ]

Empty     == Msg(0, << Sig(0, 4) >>)
Row       == Msg(1, << Sig(0, 1), Sig(4, 2), Sig(1, 3), Sig(7, 1) >>)
Long      == Msg(3, << Sig(12, 9), Sig(3, 9), Sig(21, 8), Sig(0, 2) >>)
Overlap   == Msg(2, << Sig(3, 2), Sig(0, 8), Sig(6, 4), Sig(9, 0) >>)
Mux       == Msg(2, << Of(2, 4, 8), Switch(0, 3), Of(1, 3, 5), Of(1, 8, 2), Sig(12, 4) >>)
TwoMux    == Msg(1, << Switch(0, 2), Switch(2, 2), Of(0, 4, 4) >>)
OnesMux   == Msg(1, << Switch(0, 1), Of(1, 1, 2), Of(65535, 3, 2) >>)
NoSwitch  == Msg(1, << Sig(0, 2), Of(1, 4, 4) >>)
BigFirst  == Msg(3, << Big(7, 12), Sig(8, 2), Big(23, 20) >>)

Pairs == { Msg(2, << Sig(a, n), Sig(b, k) >>) :
             a, b \in {0, 3, 7, 8, 12}, n, k \in {1, 4, 9, 12} }

McNetworks ==
    { << p >> : p \in Pairs } \cup
    { << >>, << Row, Long >>, << Overlap, Empty >>, << Mux, TwoMux >>,
      << Row, NoSwitch, Long >>, << OnesMux, BigFirst >> }
McBigEndian == { << Msg(2, << Big(7, 12) >>) >> }
=============================================================================

---------------------------- MODULE MCSignalFrame ----------------------------
(***************************************************************************)
(* Two signals of one 9-byte message, encoded and received in any order: *)
(* geometries that overlap, that touch, that span nine bytes, of both      *)
(* orders and signs, and one whose constructor reports an error.           *)
(***************************************************************************)
EXTENDS SignalFrame

CONSTANTS s1, s2, absent

G(start, size, order, sign) ==
    [ start_bit |-> start, bit_size |-> size, byte_order |-> order,
      value_type |-> sign, extended_value_type |-> "Integer" ]

McGeometries ==
    { G(4, 64, "LittleEndian", "Signed"),       \* nine bytes, intel
      G(2, 62, "BigEndian", "Signed"),          \* nine bytes, motorola
      G(0, 4, "LittleEndian", "Unsigned"),      \* the 4 bits below the first
      G(14, 10, "BigEndian", "Signed"),         \* inside both long ones
      G(66, 5, "BigEndian", "Unsigned") }       \* leaves the frame: an error

Odd == { b \in BitIndex : b % 2 = 1 }
McRawValues == { Odd, BitIndex \ Odd }
McFrames == { 0 .. 71 }
McSurroundings == { {}, 72 .. 130 }
=============================================================================

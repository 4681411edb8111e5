-------------------------- MODULE MCSignalGeometry --------------------------
(***************************************************************************)
(* One signal, every start bit of a 13-byte CAN FD message, boundary       *)
(* sizes, both byte orders, all value types. The probe frames identify     *)
(* every buffer bit by its address in binary, so a result bit taken from a *)
(* wrong address differs in one of them.                                   *)
(***************************************************************************)
EXTENDS Network2C

CONSTANTS s1, absent

AllBits == 0 .. 8 * 13 - 1
StartBits == 0 .. 8 * 13 + 7
BitSizes == {1, 2, 7, 8, 9, 31, 32, 33, 56, 57, 58, 60, 63, 64}

McGeometries ==
    { g \in [ start_bit : StartBits, bit_size : BitSizes,
              byte_order : {"BigEndian", "LittleEndian"},
              value_type : {"Signed", "Unsigned"},
              extended_value_type : {"Integer", "Float", "Double"} ] :
        /\ g.extended_value_type = "Float"  => g.bit_size \in 31 .. 33
        /\ g.extended_value_type = "Double" => g.bit_size \in 63 .. 64
        /\ g.extended_value_type # "Integer" => g.value_type = "Signed" }

PowerOf2 == [k \in 0 .. 6 |-> 2 ^ k]
Probe(k) == { a \in AllBits : (a \div PowerOf2[k]) % 2 = 1 }
McFrames == { Probe(k) : k \in 0 .. 6 } \cup {AllBits}
McSurroundings == { {}, 104 .. 200 }
=============================================================================

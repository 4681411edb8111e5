----------------------------- MODULE Network2C -----------------------------
(***************************************************************************)
(* Network2C: what the function dbcppp_decode_<message>_<id>_<signal> that *)
(* is generated for a signal computes, compared with the decoder the       *)
(* library uses for it. The generator reads the members of the SignalImpl  *)
(* object, but decides by conditions of its own.                           *)
(***************************************************************************)
EXTENDS SignalFrame

(* The macros of the generated file, compiled with                          *)
(* DBCPPP_BYTE_ORDER_LITTLE_ENDIAN == 1.                                    *)
Swap16(v) == Shl(v \cap LowOnes(8), 8) \cup Shr(v, 8)
Swap32(v) == Shl(Swap16(v \cap LowOnes(16)), 16)
               \cup Swap16(Shr(v, 16) \cap LowOnes(16))
Swap64(v) == Shl(Swap32(v \cap LowOnes(32)), 32)
               \cup Swap32(Shr(v, 32) \cap LowOnes(32))

dbcppp_native(s, data) ==
    IF s.geometry.byte_order = "BigEndian" THEN Swap64(data) ELSE data

(* _byte_pos, which is the byte of the start bit where the library's own    *)
(* decoder reads from byte 0.                                               *)
MemberBytePos(s) ==
    IF s.alignment = "first_64_bit" THEN s.geometry.start_bit \div 8 ELSE s.byte_pos

InFirstWord(s) == MemberBytePos(s) + NBytes(s.geometry) <= 8
InOneWord(s)   == InFirstWord(s) \/ NBytes(s.geometry) <= 8

(* Mutant: the sign is not extended in the one-word function.               *)
GeneratedWord_Unsigned(s, mem) ==
    LET data == dbcppp_native(s, Load64(mem, IF InFirstWord(s) THEN 0 ELSE MemberBytePos(s)))
        low  == Shr(data, s.fixed_start_bit_0)
    IN  IF s.geometry.extended_value_type = "Double" THEN data
        ELSE IF s.geometry.extended_value_type = "Float" THEN low
        ELSE low \cap s.mask

(* One word: nothing is cut off a Float. *)
GeneratedWord(s, mem) ==
    LET data == dbcppp_native(s, Load64(mem, IF InFirstWord(s) THEN 0 ELSE MemberBytePos(s)))
        low  == Shr(data, s.fixed_start_bit_0)
    IN  IF s.geometry.extended_value_type = "Double" THEN data
        ELSE IF s.geometry.extended_value_type = "Float" THEN low
        ELSE SignExtend(s, low \cap s.mask)

(* Nine bytes. *)
GeneratedSplit(s, mem) ==
    LET data  == dbcppp_native(s, Load64(mem, MemberBytePos(s)))
        data1 == Load8(mem, MemberBytePos(s) + 8)
    IN  SignExtend(s,
          IF s.geometry.byte_order = "BigEndian"
            THEN Shl(data \cap s.mask, s.fixed_start_bit_0) \cup Shr(data1, s.fixed_start_bit_1)
            ELSE Shr(data, s.fixed_start_bit_0) \cup Shl(data1 \cap s.mask, s.fixed_start_bit_1))

(* The text of the nine-byte little endian function has a parenthesis too   *)
(* many, "data |= data1;)".                                                 *)
Compiles(s) == InOneWord(s) \/ s.geometry.byte_order = "BigEndian"

GeneratedDecode(s, mem) == IF InOneWord(s) THEN GeneratedWord(s, mem)
                                           ELSE GeneratedSplit(s, mem)

-----------------------------------------------------------------------------
(* Network2C.cpp and SignalImpl.cpp: the generated function for an integer  *)
(* or a double returns what the library's decoder returns, for every usable *)
(* signal and every buffer; for a float it has the decoder's bits in its    *)
(* low ones and what follows the signal above them. (Of the functions that  *)
(* do not compile it says what they are meant to compute.)                  *)
GeneratedDecodesAlike ==
    \A s \in Signals : Usable(s) =>
        \A mem \in Memory :
            LET raw == GeneratedDecode(sig[s], mem)
            IN  IF Geo(s).extended_value_type = "Float"
                  THEN raw \cap (0 .. 31) = Decode(sig[s], mem)
                  ELSE raw = Decode(sig[s], mem)

(* README.md, the use of dbc2: the output is C source. It is not, if a      *)
(* function in it does not compile.                                         *)
GeneratedCompiles == \A s \in Signals : Usable(s) => Compiles(sig[s])
=============================================================================

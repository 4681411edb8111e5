----------------------------- MODULE SignalImpl -----------------------------
(***************************************************************************)
(* dbcppp::SignalImpl: what the constructor derives from a signal's        *)
(* geometry, the decoder it selects, and one iteration of the encoder.     *)
(* Nothing here is a state machine: SignalFrame uses these operators as    *)
(* the bodies of its actions.                                              *)
(***************************************************************************)
EXTENDS BitWords

(* What a DBC file says of a signal. The sizes are the ones the code is     *)
(* defined for: 0 and more than 64 bits make `1ull << (_bit_size - 1)' an   *)
(* undefined shift.                                                         *)
Geometry ==
    [ start_bit           : Nat,
      bit_size            : 1 .. 64,
      byte_order          : {"BigEndian", "LittleEndian"},
      value_type          : {"Signed", "Unsigned"},
      extended_value_type : {"Integer", "Float", "Double"} ]

-----------------------------------------------------------------------------
(* The constructor.                                                         *)

(* A message shorter than 8 bytes is decoded from an 8-byte buffer. *)
FrameBytes(message_size) == IF message_size < 8 THEN 8 ELSE message_size

(* Mutant: the last byte of a big-endian signal is computed from its size   *)
(* alone, without the offset of the start bit in its byte.                  *)
ExceedsMessageSize_NoBitOffset(g, message_size) ==
    IF g.byte_order = "LittleEndian"
      THEN g.start_bit + g.bit_size > FrameBytes(message_size) * 8
      ELSE g.start_bit - (g.start_bit % 8) + 8 * ((g.bit_size - 1) \div 8)
             >= FrameBytes(message_size) * 8

ExceedsMessageSize(g, message_size) ==
    LET fsize  == g.bit_size + (7 - (g.start_bit % 8))
        fstart == g.start_bit - (g.start_bit % 8)
    IN  IF g.byte_order = "LittleEndian"
          THEN g.start_bit + g.bit_size > FrameBytes(message_size) * 8
          ELSE fstart + ((fsize - 1) \div 8) * 8 >= FrameBytes(message_size) * 8

(* The flags SetError accumulates; the host's float and double are IEC 559. *)
Errors(g, message_size) ==
    { e \in {"SignalExceedsMessageSize", "WrongBitSizeForExtendedDataType"} :
        \/ /\ e = "SignalExceedsMessageSize"
           /\ ExceedsMessageSize(g, message_size)
        \/ /\ e = "WrongBitSizeForExtendedDataType"
           /\ \/ g.extended_value_type = "Float"  /\ g.bit_size # 32
              \/ g.extended_value_type = "Double" /\ g.bit_size # 64 }

(* The number of bytes the signal touches. *)
NBytes(g) ==
    IF g.byte_order = "LittleEndian"
      THEN ((g.start_bit % 8) + g.bit_size + 7) \div 8
      ELSE (g.bit_size + (7 - (g.start_bit % 8)) + 7) \div 8

(* Mutant: the 8-byte window is chosen from the size in bits alone. *)
Alignment_IgnoresOffset(g) ==
    LET byte_pos == g.start_bit \div 8
        nbytes   == (g.bit_size + 7) \div 8
    IN  CASE byte_pos + nbytes <= 8       -> "first_64_bit"
          [] byte_pos + nbytes > 8 /\ (byte_pos % 8) + nbytes <= 8
                                          -> "aligned_64_bit"
          [] OTHER -> IF nbytes <= 8 THEN "unaligned_64_bit" ELSE "does_not_fit"

(* The four cases of the if-chain. The middle two select the same decoder   *)
(* (Alignment::signal_exceeds_64_bit_size_but_signal_fits_into_64_bit) and  *)
(* differ in the byte position they store.                                  *)
Alignment(g) ==
    LET byte_pos == g.start_bit \div 8
    IN  IF byte_pos + NBytes(g) <= 8 THEN "first_64_bit"
        ELSE IF (byte_pos % 8) + NBytes(g) <= 8 THEN "aligned_64_bit"
        ELSE IF NBytes(g) <= 8 THEN "unaligned_64_bit"
        ELSE "does_not_fit"

(* Where the decoder starts to read: _byte_pos, except in the first case,   *)
(* whose decoder loads from byte 0 and ignores the member.                  *)
BytePos(g) ==
    LET byte_pos == g.start_bit \div 8
    IN  IF Alignment(g) = "first_64_bit" THEN 0
        ELSE IF Alignment(g) = "aligned_64_bit" THEN byte_pos - (byte_pos % 8)
        ELSE byte_pos

(* _fixed_start_bit_0: how far the loaded word is shifted, right to bring   *)
(* the signal down to bit 0, or, big endian and split over nine bytes, left *)
(* to make room for the bits of the ninth.                                  *)
FixedStartBit0(g) ==
    LET in_window == g.start_bit - 8 * BytePos(g)
    IN  IF g.byte_order = "LittleEndian" THEN in_window
        ELSE IF Alignment(g) = "does_not_fit"
          THEN 7 - (g.start_bit % 8) + g.bit_size - 64
          ELSE 8 * (7 - (in_window \div 8)) + (in_window % 8) - (g.bit_size - 1)

(* _fixed_start_bit_1: the shift of the ninth byte. In the other alignments *)
(* the constructor leaves the member unset, and no decoder reads it.        *)
FixedStartBit1(g) ==
    IF g.byte_order = "LittleEndian"
      THEN 64 - (g.start_bit % 8)
      ELSE 8 - (7 - (g.start_bit % 8) + g.bit_size - 64)

(* _mask, and the shift its computation makes. *)
MaskShift(g) ==
    IF Alignment(g) = "does_not_fit"
      THEN IF g.byte_order = "LittleEndian"
             THEN g.bit_size + (g.start_bit % 8) - 64
             ELSE (g.start_bit % 8) + 57
      ELSE g.bit_size - 1
Mask(g) ==
    IF Alignment(g) = "does_not_fit" THEN LowOnes(MaskShift(g))
                                     ELSE LowOnes(MaskShift(g) + 1)

(* Mutant: the mask of the sign starts one bit too high. *)
MaskSigned_AboveSign(g) == BitIndex \ LowOnes(g.bit_size)

MaskSigned(g) == BitIndex \ LowOnes(g.bit_size - 1)

(* The object ISignal::Create returns. *)
Create(message_size, g) ==
    [ geometry          |-> g,
      error             |-> Errors(g, message_size),
      alignment         |-> Alignment(g),
      byte_pos          |-> BytePos(g),
      fixed_start_bit_0 |-> FixedStartBit0(g),
      fixed_start_bit_1 |-> FixedStartBit1(g),
      mask              |-> Mask(g),
      mask_signed       |-> MaskSigned(g) ]

-----------------------------------------------------------------------------
(* template_decode<alignment, byte order, value type, extended value type>. *)

(* Bit extending, which Float and Double never reach. *)
SignExtend(s, data) ==
    IF /\ s.geometry.extended_value_type = "Integer"
       /\ s.geometry.value_type = "Signed"
       /\ data \cap s.mask_signed # {}
      THEN data \cup s.mask_signed
      ELSE data

(* The 8 bytes at _byte_pos after native_to_big / native_to_little on a     *)
(* little-endian host.                                                      *)
NativeWord(s, mem) ==
    IF s.geometry.byte_order = "BigEndian"
      THEN bswap_64(Load64(mem, s.byte_pos))
      ELSE Load64(mem, s.byte_pos)

DecodeSplit(s, mem) ==
    LET data1 == Load8(mem, s.byte_pos + 8)
    IN  IF s.geometry.byte_order = "BigEndian"
          THEN Shl(NativeWord(s, mem) \cap s.mask, s.fixed_start_bit_0)
                 \cup Shr(data1, s.fixed_start_bit_1)
          ELSE Shr(NativeWord(s, mem), s.fixed_start_bit_0)
                 \cup Shl(data1 \cap s.mask, s.fixed_start_bit_1)

DecodeWord(s, mem) ==
    IF s.geometry.extended_value_type = "Double"
      THEN NativeWord(s, mem)
      ELSE Shr(NativeWord(s, mem), s.fixed_start_bit_0) \cap s.mask

(* Mutant: the split decoder returns before the bit extending. *)
Decode_SplitUnsigned(s, mem) ==
    IF s.alignment = "does_not_fit" THEN DecodeSplit(s, mem)
                                    ELSE SignExtend(s, DecodeWord(s, mem))

Decode(s, mem) ==
    SignExtend(s, IF s.alignment = "does_not_fit" THEN DecodeSplit(s, mem)
                                                  ELSE DecodeWord(s, mem))

-----------------------------------------------------------------------------
(* encode(): the walk over the signal's bits.                               *)

(* The walk starts at the start bit, which is the signal's most significant *)
(* bit in big endian and its least significant one in little endian.        *)
WalkStart(g) ==
    [ src |-> g.start_bit,
      dst |-> IF g.byte_order = "BigEndian" THEN g.bit_size - 1 ELSE 0 ]

(* Mutant: from the low end of a byte on to the next bit, not the next byte. *)
WalkNext_NoSawtooth(g, w) ==
    IF g.byte_order = "BigEndian"
      THEN [ src |-> IF w.src % 8 = 0 THEN w.src + 8 ELSE w.src - 1,
             dst |-> w.dst - 1 ]
      ELSE [ src |-> w.src + 1, dst |-> w.dst + 1 ]

(* The end of an iteration: big endian goes down a byte and then to the top *)
(* of the next one. dst would wrap to 2^64 - 1 after the last iteration,    *)
(* where nothing reads it: it is -1 here.                                   *)
WalkNext(g, w) ==
    IF g.byte_order = "BigEndian"
      THEN [ src |-> IF w.src % 8 = 0 THEN w.src + 15 ELSE w.src - 1,
             dst |-> w.dst - 1 ]
      ELSE [ src |-> w.src + 1, dst |-> w.dst + 1 ]

(* Mutant: bits are only ever set, as in a buffer known to be zeroed. *)
PutBit_OnlySets(mem, src, raw, dst) ==
    IF dst \in raw THEN mem \cup {src} ELSE mem

(* The body of an iteration: b[src / 8] gets bit dst of raw. *)
PutBit(mem, src, raw, dst) ==
    IF dst \in raw THEN mem \cup {src} ELSE mem \ {src}

-----------------------------------------------------------------------------
(* The reference: which buffer bit holds bit b of the raw value. Big endian *)
(* counts bits from the top of each byte, so the k-th bit of the signal is  *)
(* the k-th after the start bit in that order.                              *)

FromTop(a)      == 8 * (a \div 8) + (7 - (a % 8))
SawtoothBit(s, k) == FromTop(FromTop(s) + k)

BitAddress(g, b) ==
    IF g.byte_order = "BigEndian"
      THEN SawtoothBit(g.start_bit, g.bit_size - 1 - b)
      ELSE g.start_bit + b

SignalBits(g)    == { BitAddress(g, b) : b \in 0 .. g.bit_size - 1 }
RawBits(g, mem)  == { b \in 0 .. g.bit_size - 1 : BitAddress(g, b) \in mem }

(* A raw value of the signal's width as the signed or unsigned 64-bit value *)
(* it stands for: two's complement repeats the top bit.                     *)
Extended(g, raw) ==
    IF /\ g.extended_value_type = "Integer"
       /\ g.value_type = "Signed"
       /\ g.bit_size - 1 \in raw
      THEN raw \cup (g.bit_size .. 63)
      ELSE raw

(* What the decoder test computes bit by bit (easy_decode). *)
EasyDecode(g, mem) == Extended(g, RawBits(g, mem))
=============================================================================

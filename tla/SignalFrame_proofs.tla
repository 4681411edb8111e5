------------------------- MODULE SignalFrame_proofs -------------------------
(***************************************************************************)
(* First the arithmetic of SignalImpl: the optimised decoder equals the    *)
(* bit walk, for every geometry and every memory content; the size check   *)
(* is exact; the encoder's walk visits the layout's addresses. Then the    *)
(* invariants of SignalFrame, for every set of signals and geometries,     *)
(* message size and buffer content. The inductive invariant IInv says of a *)
(* running encode() where it is, which bits it has written and that it has *)
(* touched no others, and of a finished one that its bits are still there. *)
(* Last the decoder that Network2C generates for a signal, and that        *)
(* encode() returns.                                                       *)
(***************************************************************************)
EXTENDS Network2C, TLAPS

(* Division by 8, as the provers need it. *)
LEMMA DivMod8 ==
    ASSUME NEW x \in Nat
    PROVE  /\ x \div 8 \in Nat
           /\ x % 8 \in 0 .. 7
           /\ x = 8 * (x \div 8) + (x % 8)
OBVIOUS

(* FromTop counts bits from the top of each byte; it is its own inverse. *)
LEMMA FromTopInvolution ==
    ASSUME NEW x \in Nat
    PROVE  FromTop(x) \in Nat /\ FromTop(FromTop(x)) = x
BY DEF FromTop

(* Swapping the bytes of a word at byte p turns position x into the address *)
(* that is the mirror image of x in the from-top numbering.                 *)
LEMMA SwapIsFromTop ==
    ASSUME NEW x \in Nat, NEW l \in Nat, NEW p \in Nat, x + l = 63 + 8 * p
    PROVE  8 * p + (8 * (7 - (x \div 8)) + (x % 8)) = FromTop(l)
BY DEF FromTop

(* A signal covers one to nine bytes, and no byte of them in vain.          *)
LEMMA ByteCount ==
    ASSUME NEW g \in Geometry
    PROVE  /\ NBytes(g) \in 1 .. 9
           /\ g.byte_order = "LittleEndian" =>
                /\ 8 * NBytes(g) >= (g.start_bit % 8) + g.bit_size
                /\ 8 * NBytes(g) <= (g.start_bit % 8) + g.bit_size + 7
           /\ g.byte_order = "BigEndian" =>
                /\ 8 * NBytes(g) >= g.bit_size + 7 - (g.start_bit % 8)
                /\ 8 * NBytes(g) <= g.bit_size + 14 - (g.start_bit % 8)
BY DEF Geometry, NBytes

(* The 8-byte window of the single-word decoders contains the signal. *)
LEMMA WindowLE ==
    ASSUME NEW g \in Geometry, g.byte_order = "LittleEndian",
           Alignment(g) # "does_not_fit"
    PROVE  /\ BytePos(g) \in Nat
           /\ FixedStartBit0(g) = g.start_bit - 8 * BytePos(g)
           /\ FixedStartBit0(g) \in Nat
           /\ FixedStartBit0(g) + g.bit_size <= 64
<1>1. g.start_bit \in Nat /\ g.bit_size \in 1 .. 64
  BY DEF Geometry
<1>2. 8 * NBytes(g) >= (g.start_bit % 8) + g.bit_size /\ NBytes(g) \in 1 .. 9
  BY ByteCount
<1>3. FixedStartBit0(g) = g.start_bit - 8 * BytePos(g)
  BY DEF FixedStartBit0
<1>4. CASE Alignment(g) = "first_64_bit"
  BY <1>1, <1>2, <1>3, <1>4 DEF Alignment, BytePos
<1>5. CASE Alignment(g) = "aligned_64_bit"
  <2>1. BytePos(g) = (g.start_bit \div 8) - ((g.start_bit \div 8) % 8)
    BY <1>5 DEF BytePos
  <2>2. ((g.start_bit \div 8) % 8) + NBytes(g) <= 8
    BY <1>5 DEF Alignment
  <2>3. QED
    BY <1>1, <1>2, <1>3, <2>1, <2>2
<1>6. CASE Alignment(g) = "unaligned_64_bit"
  <2>1. BytePos(g) = g.start_bit \div 8
    BY <1>6 DEF BytePos
  <2>2. NBytes(g) <= 8
    BY <1>6 DEF Alignment
  <2>3. QED
    BY <1>1, <1>2, <1>3, <2>1, <2>2
<1>7. QED
  BY <1>4, <1>5, <1>6 DEF Alignment

(* A big endian signal of up to eight bytes is in the word loaded,          *)
(* FixedStartBit0 above its lowest bit.                                     *)
LEMMA WindowBE ==
    ASSUME NEW g \in Geometry, g.byte_order = "BigEndian",
           Alignment(g) # "does_not_fit"
    PROVE  /\ BytePos(g) \in Nat
           /\ FixedStartBit0(g) + g.bit_size - 1 + FromTop(g.start_bit)
                = 63 + 8 * BytePos(g)
           /\ FixedStartBit0(g) \in Nat
           /\ FixedStartBit0(g) + g.bit_size <= 64
<1>1. g.start_bit \in Nat /\ g.bit_size \in 1 .. 64
  BY DEF Geometry
<1>2. /\ 8 * NBytes(g) >= g.bit_size + 7 - (g.start_bit % 8)
      /\ NBytes(g) \in 1 .. 9
  BY ByteCount
<1>3. ASSUME BytePos(g) \in Nat, BytePos(g) <= g.start_bit \div 8
      PROVE  FixedStartBit0(g)
               = 8 * (7 - (g.start_bit \div 8) + BytePos(g))
                   + (g.start_bit % 8) - (g.bit_size - 1)
  <2>1. FixedStartBit0(g)
          = 8 * (7 - ((g.start_bit - 8 * BytePos(g)) \div 8))
              + ((g.start_bit - 8 * BytePos(g)) % 8) - (g.bit_size - 1)
    BY DEF FixedStartBit0
  <2>2. /\ (g.start_bit - 8 * BytePos(g)) \div 8
             = (g.start_bit \div 8) - BytePos(g)
        /\ (g.start_bit - 8 * BytePos(g)) % 8 = g.start_bit % 8
    BY <1>1, <1>3
  <2>3. QED
    BY <1>1, <1>3, <2>1, <2>2
<1>4. CASE Alignment(g) = "first_64_bit"
  <2>1. BytePos(g) = 0
    BY <1>4 DEF BytePos
  <2>2. (g.start_bit \div 8) + NBytes(g) <= 8
    BY <1>4 DEF Alignment
  <2>3. QED
    BY <1>1, <1>2, <1>3, <2>1, <2>2 DEF FromTop
<1>5. CASE Alignment(g) = "aligned_64_bit"
  <2>1. BytePos(g) = (g.start_bit \div 8) - ((g.start_bit \div 8) % 8)
    BY <1>5 DEF BytePos
  <2>2. ((g.start_bit \div 8) % 8) + NBytes(g) <= 8
    BY <1>5 DEF Alignment
  <2>3. QED
    BY <1>1, <1>2, <1>3, <2>1, <2>2 DEF FromTop
<1>6. CASE Alignment(g) = "unaligned_64_bit"
  <2>1. BytePos(g) = g.start_bit \div 8
    BY <1>6 DEF BytePos
  <2>2. NBytes(g) <= 8
    BY <1>6 DEF Alignment
  <2>3. QED
    BY <1>1, <1>2, <1>3, <2>1, <2>2 DEF FromTop
<1>7. QED
  BY <1>4, <1>5, <1>6 DEF Alignment

-----------------------------------------------------------------------------
(* Decoding from one word.                                                  *)

(* The raw value a geometry denotes, as bits of a word. *)
LEMMA RawBitsAreBits ==
    ASSUME NEW g \in Geometry, NEW mem \in SUBSET Nat
    PROVE  RawBits(g, mem)
             = { b \in BitIndex : b < g.bit_size /\ BitAddress(g, b) \in mem }
BY DEF Geometry, RawBits, BitIndex

(* Shifted and masked the word is the signal, in little endian.             *)
LEMMA OneWordLE ==
    ASSUME NEW g \in Geometry, g.byte_order = "LittleEndian",
           Alignment(g) # "does_not_fit", NEW n \in Nat, NEW mem \in SUBSET Nat
    PROVE  Shr(NativeWord(Create(n, g), mem), FixedStartBit0(g)) \cap Mask(g)
             = RawBits(g, mem)
<1>1. g.start_bit \in Nat /\ g.bit_size \in 1 .. 64
  BY DEF Geometry
<1>2. NativeWord(Create(n, g), mem) = Load64(mem, BytePos(g))
  BY DEF NativeWord, Create
<1>3. Mask(g) = { b \in BitIndex : b < g.bit_size }
  BY <1>1 DEF Mask, MaskShift, LowOnes
<1>4. \A b \in BitIndex : b < g.bit_size =>
        (b \in Shr(Load64(mem, BytePos(g)), FixedStartBit0(g))
           <=> BitAddress(g, b) \in mem)
  BY <1>1, WindowLE DEF Shr, Load64, BitIndex, BitAddress
<1>5. QED
  BY <1>2, <1>3, <1>4, RawBitsAreBits DEF Shr

(* The same in big endian, where the bytes were swapped.                    *)
LEMMA OneWordBE ==
    ASSUME NEW g \in Geometry, g.byte_order = "BigEndian",
           Alignment(g) # "does_not_fit", NEW n \in Nat, NEW mem \in SUBSET Nat
    PROVE  Shr(NativeWord(Create(n, g), mem), FixedStartBit0(g)) \cap Mask(g)
             = RawBits(g, mem)
<1> DEFINE p == BytePos(g)
           f == FixedStartBit0(g)
<1>1. g.start_bit \in Nat /\ g.bit_size \in 1 .. 64
  BY DEF Geometry
<1>2. NativeWord(Create(n, g), mem) = bswap_64(Load64(mem, p))
  BY DEF NativeWord, Create
<1>3. Mask(g) = { b \in BitIndex : b < g.bit_size }
  BY <1>1 DEF Mask, MaskShift, LowOnes
<1>4. ASSUME NEW b \in BitIndex, b < g.bit_size
      PROVE  b \in Shr(bswap_64(Load64(mem, p)), f) <=> BitAddress(g, b) \in mem
  <2> DEFINE x == b + f
             l == FromTop(g.start_bit) + (g.bit_size - 1 - b)
  <2>1. x \in BitIndex /\ x \in Nat
    BY <1>1, <1>4, WindowBE DEF BitIndex
  <2>2. l \in Nat /\ p \in Nat /\ x + l = 63 + 8 * p
    <3> DEFINE top == FromTop(g.start_bit)
    <3>1. top \in Nat
      BY <1>1, FromTopInvolution
    <3>2. p \in Nat /\ f \in Nat /\ f + g.bit_size - 1 + top = 63 + 8 * p
      BY WindowBE
    <3>3. b \in Nat
      BY DEF BitIndex
    <3> HIDE DEF top, p, f
    <3>4. top + (g.bit_size - 1 - b) \in Nat /\ b + f + (top + (g.bit_size - 1 - b)) = 63 + 8 * p
      BY <1>1, <1>4, <3>1, <3>2, <3>3
    <3> QED
      BY <3>2, <3>4 DEF top
  <2>3. 8 * p + (8 * (7 - (x \div 8)) + (x % 8)) = FromTop(l)
    <3> HIDE DEF x, l, p
    <3> QED
      BY <2>1, <2>2, SwapIsFromTop, Zenon
  <2>4. BitAddress(g, b) = FromTop(l)
    BY DEF BitAddress, SawtoothBit
  <2>5. 8 * (7 - (x \div 8)) + (x % 8) \in BitIndex
    BY <2>1 DEF BitIndex
  <2> HIDE DEF x, l, p
  <2>6. x \in bswap_64(Load64(mem, p)) <=> FromTop(l) \in mem
    BY <2>1, <2>3, <2>5 DEF bswap_64, Load64
  <2>7. QED
    BY <2>4, <2>6, <1>4 DEF Shr, x
<1>5. QED
  BY <1>2, <1>3, <1>4, RawBitsAreBits DEF Shr

(* A 64-bit signal in one word is the whole word: the decoder of Double,    *)
(* which returns before shifting, drops nothing.                            *)
LEMMA OneWordDouble ==
    ASSUME NEW g \in Geometry, g.bit_size = 64,
           Alignment(g) # "does_not_fit", NEW n \in Nat, NEW mem \in SUBSET Nat
    PROVE  NativeWord(Create(n, g), mem)
             = Shr(NativeWord(Create(n, g), mem), FixedStartBit0(g)) \cap Mask(g)
<1>1. FixedStartBit0(g) = 0
  BY WindowLE, WindowBE DEF Geometry
<1>2. Mask(g) = BitIndex
  BY DEF Mask, MaskShift, LowOnes, BitIndex
<1>3. NativeWord(Create(n, g), mem) \subseteq BitIndex
  BY DEF NativeWord, bswap_64, Load64
<1>4. Shr(NativeWord(Create(n, g), mem), 0) = NativeWord(Create(n, g), mem)
  BY <1>3 DEF Shr, BitIndex
<1>5. QED
  BY <1>1, <1>2, <1>3, <1>4

-----------------------------------------------------------------------------
(* Decoding from nine bytes.                                                *)

(* A signal that does not fit a word covers nine bytes and starts within    *)
(* the first.                                                               *)
LEMMA SplitShape ==
    ASSUME NEW g \in Geometry, Alignment(g) = "does_not_fit"
    PROVE  /\ BytePos(g) = g.start_bit \div 8
           /\ NBytes(g) = 9
           /\ g.byte_order = "LittleEndian" =>
                /\ (g.start_bit % 8) + g.bit_size \in 65 .. 71
                /\ g.start_bit % 8 \in 1 .. 7
           /\ g.byte_order = "BigEndian" =>
                /\ g.bit_size + 7 - (g.start_bit % 8) \in 65 .. 71
                /\ g.start_bit % 8 \in 0 .. 6
<1>1. g.start_bit \in Nat /\ g.bit_size \in 1 .. 64
  BY DEF Geometry
<1>2. ~ (NBytes(g) <= 8)
  BY DEF Alignment
<1>3. BytePos(g) = g.start_bit \div 8
  BY DEF BytePos
<1>4. NBytes(g) = 9
  BY <1>2, ByteCount
<1>5. g.byte_order = "LittleEndian" =>
        /\ (g.start_bit % 8) + g.bit_size \in 65 .. 71
        /\ g.start_bit % 8 \in 1 .. 7
  BY <1>1, <1>4 DEF NBytes
<1>6. g.byte_order = "BigEndian" =>
        /\ g.bit_size + 7 - (g.start_bit % 8) \in 65 .. 71
        /\ g.start_bit % 8 \in 0 .. 6
  BY <1>1, <1>4 DEF NBytes
<1>7. QED
  BY <1>3, <1>4, <1>5, <1>6

(* The two words of a nine-byte signal, joined, are the signal in little    *)
(* endian.                                                                  *)
LEMMA SplitLE ==
    ASSUME NEW g \in Geometry, g.byte_order = "LittleEndian",
           Alignment(g) = "does_not_fit", NEW n \in Nat, NEW mem \in SUBSET Nat
    PROVE  DecodeSplit(Create(n, g), mem) = RawBits(g, mem)
<1> DEFINE p == BytePos(g)
           r == g.start_bit % 8
<1>1. /\ g.start_bit \in Nat /\ g.bit_size \in 1 .. 64
      /\ p \in Nat /\ r \in 1 .. 7 /\ g.start_bit = 8 * p + r
      /\ r + g.bit_size \in 65 .. 71
  BY SplitShape DEF Geometry
<1>2. /\ FixedStartBit0(g) = r /\ FixedStartBit1(g) = 64 - r
      /\ Mask(g) = { b \in BitIndex : b < g.bit_size + r - 64 }
  BY <1>1 DEF FixedStartBit0, FixedStartBit1, Mask, MaskShift, LowOnes
<1>3. DecodeSplit(Create(n, g), mem)
        = Shr(Load64(mem, p), r) \cup Shl(Load8(mem, p + 8) \cap Mask(g), 64 - r)
  BY <1>2 DEF DecodeSplit, NativeWord, Create
<1>4. ASSUME NEW b \in BitIndex
      PROVE  (\/ b \in Shr(Load64(mem, p), r)
              \/ b \in Shl(Load8(mem, p + 8) \cap Mask(g), 64 - r))
               <=> b < g.bit_size /\ BitAddress(g, b) \in mem
  <2> HIDE DEF p, r
  <2>1. BitAddress(g, b) = 8 * p + (b + r)
    BY <1>1, <1>4 DEF BitAddress, BitIndex
  <2>2. CASE b + r <= 63
    <3>1. b \in Shr(Load64(mem, p), r) <=> 8 * p + (b + r) \in mem
      BY <1>1, <1>4, <2>2 DEF Shr, Load64, BitIndex
    <3>2. ~ (b \in Shl(Load8(mem, p + 8) \cap Mask(g), 64 - r))
      BY <1>1, <1>4, <2>2 DEF Shl, Load8, BitIndex
    <3>3. b < g.bit_size
      BY <1>1, <1>4, <2>2 DEF BitIndex
    <3>4. QED
      BY <2>1, <3>1, <3>2, <3>3
  <2>3. CASE b + r >= 64
    <3>1. ~ (b \in Shr(Load64(mem, p), r))
      BY <1>1, <1>4, <2>3 DEF Shr, Load64, BitIndex
    <3>2. b - (64 - r) \in 0 .. 7 /\ b - (64 - r) \in BitIndex
      BY <1>1, <1>4, <2>3 DEF BitIndex
    <3>3. 8 * (p + 8) + (b - (64 - r)) = 8 * p + (b + r)
      BY <1>1, <1>4 DEF BitIndex
    <3>4. b - (64 - r) \in Load8(mem, p + 8) <=> 8 * p + (b + r) \in mem
      BY <3>2, <3>3 DEF Load8
    <3>5. b - (64 - r) \in Mask(g) <=> b < g.bit_size
      BY <1>1, <1>2, <1>4, <3>2 DEF BitIndex
    <3>6. QED
      BY <1>4, <2>1, <3>1, <3>4, <3>5 DEF Shl
  <2>4. QED
    BY <1>1, <1>4, <2>2, <2>3 DEF BitIndex
<1>5. QED
  BY <1>3, <1>4, RawBitsAreBits DEF Shr, Shl

(* The same in big endian.                                                  *)
LEMMA SplitBE ==
    ASSUME NEW g \in Geometry, g.byte_order = "BigEndian",
           Alignment(g) = "does_not_fit", NEW n \in Nat, NEW mem \in SUBSET Nat
    PROVE  DecodeSplit(Create(n, g), mem) = RawBits(g, mem)
<1> DEFINE p == BytePos(g)
           r == g.start_bit % 8
           k == g.bit_size + 7 - r - 64
<1>1. /\ g.start_bit \in Nat /\ g.bit_size \in 1 .. 64
      /\ p \in Nat /\ r \in 0 .. 6 /\ g.start_bit = 8 * p + r
      /\ k \in 1 .. 7 /\ g.bit_size = 57 + k + r
  BY SplitShape DEF Geometry
<1>2. /\ FixedStartBit0(g) = k /\ FixedStartBit1(g) = 8 - k
      /\ Mask(g) = { b \in BitIndex : b < r + 57 }
  <2>1. FixedStartBit0(g) = k
    BY <1>1 DEF FixedStartBit0
  <2>2. FixedStartBit1(g) = 8 - k
    BY <1>1 DEF FixedStartBit1
  <2>3. Mask(g) = { b \in BitIndex : b < r + 57 }
    BY DEF Mask, MaskShift, LowOnes
  <2>4. QED
    BY <2>1, <2>2, <2>3
<1>3. DecodeSplit(Create(n, g), mem)
        = Shl(bswap_64(Load64(mem, p)) \cap Mask(g), k)
            \cup Shr(Load8(mem, p + 8), 8 - k)
  BY <1>2 DEF DecodeSplit, NativeWord, Create
<1>4. FromTop(g.start_bit) = 8 * p + 7 - r
  BY <1>1 DEF FromTop
<1>5. ASSUME NEW b \in BitIndex
      PROVE  (\/ b \in Shl(bswap_64(Load64(mem, p)) \cap Mask(g), k)
              \/ b \in Shr(Load8(mem, p + 8), 8 - k))
               <=> b < g.bit_size /\ BitAddress(g, b) \in mem
  <2>1. BitAddress(g, b) = FromTop(8 * p + 7 - r + (g.bit_size - 1 - b))
    BY <1>4 DEF BitAddress, SawtoothBit
  <2> HIDE DEF p, r, k
  <2>2. CASE b >= k /\ b < g.bit_size
    <3> DEFINE x == b - k
               l == 8 * p + 7 - r + (g.bit_size - 1 - b)
    <3>1. x \in BitIndex /\ x \in Nat /\ x < r + 57
      BY <1>1, <1>5, <2>2 DEF BitIndex
    <3>2. l \in Nat /\ x + l = 63 + 8 * p
      BY <1>1, <1>5, <2>2 DEF BitIndex
    <3> HIDE DEF x, l
    <3>3. 8 * p + (8 * (7 - (x \div 8)) + (x % 8)) = FromTop(l)
      <4>1. p \in Nat /\ x \in Nat /\ l \in Nat /\ x + l = 63 + 8 * p
        BY <1>1, <3>1, <3>2
      <4> QED
        BY <4>1, SwapIsFromTop, Zenon
    <3>4. 8 * (7 - (x \div 8)) + (x % 8) \in BitIndex
      BY <3>1 DEF BitIndex
    <3>5. x \in bswap_64(Load64(mem, p)) <=> FromTop(l) \in mem
      BY <3>1, <3>3, <3>4 DEF bswap_64, Load64
    <3>6. x \in Mask(g)
      BY <1>2, <3>1
    <3>7. b \in Shl(bswap_64(Load64(mem, p)) \cap Mask(g), k) <=> FromTop(l) \in mem
      BY <1>5, <3>5, <3>6 DEF Shl, x
    <3>8. ~ (b \in Shr(Load8(mem, p + 8), 8 - k))
      BY <1>1, <1>5, <2>2 DEF Shr, Load8, BitIndex
    <3>9. QED
      BY <2>1, <2>2, <3>7, <3>8 DEF l
  <2>3. CASE b < k
    <3> DEFINE x == b + (8 - k)
               l == 8 * p + 7 - r + (g.bit_size - 1 - b)
    <3>1. x \in 0 .. 7 /\ b < g.bit_size
      BY <1>1, <1>5, <2>3 DEF BitIndex
    <3>2. l = 8 * (p + 8) + (7 - x)
      BY <1>1, <1>5 DEF BitIndex
    <3>3. FromTop(l) = 8 * (p + 8) + x
      BY <1>1, <3>1, <3>2 DEF FromTop
    <3> HIDE DEF x, l
    <3>4. x \in Load8(mem, p + 8) <=> FromTop(l) \in mem
      BY <3>1, <3>3 DEF Load8
    <3>5. ~ (b \in Shl(bswap_64(Load64(mem, p)) \cap Mask(g), k))
      BY <1>1, <1>5, <2>3 DEF Shl, bswap_64, BitIndex
    <3>6. QED
      BY <1>5, <2>1, <3>1, <3>4, <3>5 DEF Shr, x, l
  <2>4. CASE b >= g.bit_size
    <3>1. ~ (b - k \in Mask(g))
      BY <1>1, <1>2, <1>5, <2>4 DEF BitIndex
    <3>2. ~ (b + (8 - k) \in Load8(mem, p + 8))
      BY <1>1, <1>5, <2>4 DEF Load8, BitIndex
    <3>3. QED
      BY <1>1, <1>5, <2>4, <3>1, <3>2 DEF Shl, Shr, BitIndex
  <2>5. QED
    BY <1>1, <1>5, <2>2, <2>3, <2>4 DEF BitIndex
<1>6. QED
  BY <1>3, <1>5, RawBitsAreBits DEF Shr, Shl

-----------------------------------------------------------------------------
(* The decoder as a whole.                                                  *)

(* The sign extension of the code is that of the reference decoder.         *)
LEMMA SignExtendIsExtended ==
    ASSUME NEW g \in Geometry, NEW n \in Nat, NEW mem \in SUBSET Nat
    PROVE  SignExtend(Create(n, g), RawBits(g, mem)) = EasyDecode(g, mem)
<1> DEFINE raw == RawBits(g, mem)
<1>1. g.bit_size \in 1 .. 64
  BY DEF Geometry
<1>2. \A b : b \in MaskSigned(g) <=> b \in BitIndex /\ b >= g.bit_size - 1
  BY <1>1 DEF MaskSigned, LowOnes, BitIndex
<1>3. \A b \in raw : b \in BitIndex /\ b <= g.bit_size - 1
  BY <1>1 DEF RawBits, BitIndex
<1> HIDE DEF raw
<1>4. raw \cap MaskSigned(g) # {} <=> g.bit_size - 1 \in raw
  <2>1. \A b \in raw : b \in MaskSigned(g) <=> b = g.bit_size - 1
    BY <1>1, <1>2, <1>3 DEF BitIndex
  <2>2. QED
    BY <2>1
<1>5. ASSUME g.bit_size - 1 \in raw
      PROVE  raw \cup MaskSigned(g) = raw \cup (g.bit_size .. 63)
  <2>1. \A b : b \in MaskSigned(g)
                 <=> b = g.bit_size - 1 \/ b \in g.bit_size .. 63
    BY <1>1, <1>2 DEF BitIndex
  <2>2. QED
    BY <1>5, <2>1
<1>6. QED
  BY <1>4, <1>5 DEF SignExtend, EasyDecode, Extended, Create, raw

(* The optimised decoder of a signal without an error returns what the      *)
(* bit-by-bit decoder returns, for every geometry, message size and memory  *)
(* content.                                                                 *)
THEOREM DecodeCorrect ==
    ASSUME NEW g \in Geometry, NEW n \in Nat, NEW mem \in SUBSET Nat,
           Create(n, g).error = {}
    PROVE  Decode(Create(n, g), mem) = EasyDecode(g, mem)
<1> DEFINE s == Create(n, g)
<1>1. g.byte_order \in {"BigEndian", "LittleEndian"}
  BY DEF Geometry
<1>2. g.extended_value_type = "Double" => g.bit_size = 64
  BY DEF Create, Errors
<1>3. CASE Alignment(g) = "does_not_fit"
  <2>1. DecodeSplit(s, mem) = RawBits(g, mem)
    BY <1>1, <1>3, SplitLE, SplitBE
  <2>2. Decode(s, mem) = SignExtend(s, RawBits(g, mem))
    BY <1>3, <2>1 DEF Decode, Create
  <2>3. QED
    BY <2>2, SignExtendIsExtended
<1>4. CASE Alignment(g) # "does_not_fit"
  <2>1. Shr(NativeWord(s, mem), FixedStartBit0(g)) \cap Mask(g) = RawBits(g, mem)
    BY <1>1, <1>4, OneWordLE, OneWordBE
  <2>2. g.extended_value_type = "Double" => NativeWord(s, mem) = RawBits(g, mem)
    BY <1>2, <1>4, <2>1, OneWordDouble
  <2>3. DecodeWord(s, mem) = RawBits(g, mem)
    BY <2>1, <2>2 DEF DecodeWord, Create
  <2>4. Decode(s, mem) = SignExtend(s, RawBits(g, mem))
    BY <1>4, <2>3 DEF Decode, Create
  <2>5. QED
    BY <2>4, SignExtendIsExtended
<1>5. QED
  BY <1>3, <1>4

-----------------------------------------------------------------------------
(* Where the bits of a signal are.                                          *)

(* The bits of a signal have addresses.                                     *)
LEMMA BitAddressInNat ==
    ASSUME NEW g \in Geometry, NEW b \in 0 .. g.bit_size - 1
    PROVE  BitAddress(g, b) \in Nat
BY DEF Geometry, BitAddress, SawtoothBit, FromTop

(* No two bits of a signal have the same address.                           *)
LEMMA BitAddressInjective ==
    ASSUME NEW g \in Geometry,
           NEW b \in 0 .. g.bit_size - 1, NEW c \in 0 .. g.bit_size - 1,
           BitAddress(g, b) = BitAddress(g, c)
    PROVE  b = c
<1>1. /\ g.start_bit \in Nat /\ g.bit_size \in 1 .. 64
      /\ g.byte_order \in {"BigEndian", "LittleEndian"}
  BY DEF Geometry
<1>2. CASE g.byte_order = "LittleEndian"
  BY <1>1, <1>2 DEF BitAddress
<1>3. CASE g.byte_order = "BigEndian"
  <2> DEFINE l(d) == FromTop(g.start_bit) + (g.bit_size - 1 - d)
  <2>1. l(b) \in Nat /\ l(c) \in Nat
    BY <1>1, FromTopInvolution
  <2>2. BitAddress(g, b) = FromTop(l(b)) /\ BitAddress(g, c) = FromTop(l(c))
    BY <1>3 DEF BitAddress, SawtoothBit
  <2>3. FromTop(FromTop(l(b))) = l(b) /\ FromTop(FromTop(l(c))) = l(c)
    BY <2>1, FromTopInvolution
  <2>4. l(b) = l(c)
    BY <2>2, <2>3
  <2>5. QED
    BY <1>1, <2>4, FromTopInvolution
<1>4. QED
  BY <1>1, <1>2, <1>3

(* The constructor's size check flags exactly the signals that leave the    *)
(* message's bytes.                                                         *)
THEOREM ErrorExact ==
    ASSUME NEW g \in Geometry, NEW n \in Nat
    PROVE  ExceedsMessageSize(g, n)
             <=> ~ (SignalBits(g) \subseteq 0 .. 8 * FrameBytes(n) - 1)
<1> DEFINE top == 8 * FrameBytes(n)
<1>1. /\ g.start_bit \in Nat /\ g.bit_size \in 1 .. 64
      /\ g.byte_order \in {"BigEndian", "LittleEndian"}
      /\ top \in Nat /\ FrameBytes(n) \in Nat
  BY DEF Geometry, FrameBytes
<1>2. SignalBits(g) \subseteq 0 .. top - 1
        <=> \A b \in 0 .. g.bit_size - 1 : BitAddress(g, b) < top
  BY <1>1, BitAddressInNat DEF SignalBits
<1>3. CASE g.byte_order = "LittleEndian"
  <2>1. \A b \in 0 .. g.bit_size - 1 : BitAddress(g, b) = g.start_bit + b
    BY <1>3 DEF BitAddress
  <2>2. ExceedsMessageSize(g, n) <=> g.start_bit + g.bit_size > top
    BY <1>1, <1>3 DEF ExceedsMessageSize
  <2>3. g.start_bit + g.bit_size > top
          => ~ (BitAddress(g, g.bit_size - 1) < top)
    BY <1>1, <2>1
  <2>4. ~ (g.start_bit + g.bit_size > top)
          => \A b \in 0 .. g.bit_size - 1 : BitAddress(g, b) < top
    BY <1>1, <2>1
  <2>5. g.bit_size - 1 \in 0 .. g.bit_size - 1
    BY <1>1
  <2>6. QED
    BY <1>2, <2>2, <2>3, <2>4, <2>5
<1>4. CASE g.byte_order = "BigEndian"
  <2> DEFINE l == FromTop(g.start_bit) + g.bit_size - 1
             q == g.start_bit \div 8
             r == g.start_bit % 8
  <2>1. g.start_bit = 8 * q + r /\ q \in Nat /\ r \in 0 .. 7
    BY <1>1
  <2>2. l = 8 * q + (7 - r) + g.bit_size - 1
    BY <1>1 DEF FromTop
  <2>a. ExceedsMessageSize(g, n)
          <=> (g.start_bit - r) + ((g.bit_size + (7 - r) - 1) \div 8) * 8 >= top
    <3>1. FrameBytes(n) * 8 = top
      BY <1>1
    <3>2. g.byte_order # "LittleEndian"
      BY <1>4
    <3>3. ExceedsMessageSize(g, n)
            <=> (g.start_bit - (g.start_bit % 8))
                  + (((g.bit_size + (7 - (g.start_bit % 8))) - 1) \div 8) * 8
                  >= FrameBytes(n) * 8
      BY <3>2, Zenon DEF ExceedsMessageSize
    <3>4. QED
      BY <1>1, <3>1, <3>3
  <2> HIDE DEF l, q, r
  <2>3. ExceedsMessageSize(g, n) <=> l \div 8 >= FrameBytes(n)
    <3> DEFINE m == (g.bit_size + (7 - r) - 1) \div 8
    <3>1. l \div 8 = q + m /\ m \in Nat
      BY <1>1, <2>1, <2>2
    <3> HIDE DEF m
    <3>2. (g.start_bit - r) + m * 8 >= top <=> q + m >= FrameBytes(n)
      BY <1>1, <2>1, <3>1
    <3>3. QED
      BY <2>a, <3>1, <3>2 DEF m
  <2>b. FromTop(g.start_bit) \in Nat
    BY <1>1, FromTopInvolution
  <2>4. ASSUME NEW b \in 0 .. g.bit_size - 1
        PROVE  /\ BitAddress(g, b) \div 8 = (l - b) \div 8
               /\ l - b \in Nat /\ BitAddress(g, b) \in Nat
    <3>1. BitAddress(g, b) = FromTop(FromTop(g.start_bit) + (g.bit_size - 1 - b))
      BY <1>4 DEF BitAddress, SawtoothBit
    <3>2. FromTop(g.start_bit) + (g.bit_size - 1 - b) = l - b
      BY <1>1, <2>b DEF l
    <3>3. l - b \in Nat
      BY <1>1, <2>1, <2>2
    <3>4. FromTop(l - b) \div 8 = (l - b) \div 8 /\ FromTop(l - b) \in Nat
      BY <3>3 DEF FromTop
    <3>5. QED
      BY <3>1, <3>2, <3>3, <3>4
  <2>5. l \in Nat /\ 0 \in 0 .. g.bit_size - 1
    BY <1>1, <2>1, <2>2
  <2>6. l \div 8 >= FrameBytes(n) => ~ (BitAddress(g, 0) < top)
    <3>1. BitAddress(g, 0) \div 8 = l \div 8 /\ BitAddress(g, 0) \in Nat
      BY <2>4, <2>5
    <3>2. QED
      BY <1>1, <2>5, <3>1
  <2>7. ~ (l \div 8 >= FrameBytes(n))
          => \A b \in 0 .. g.bit_size - 1 : BitAddress(g, b) < top
    <3> SUFFICES ASSUME ~ (l \div 8 >= FrameBytes(n)),
                        NEW b \in 0 .. g.bit_size - 1
                 PROVE  BitAddress(g, b) < top
      OBVIOUS
    <3>1. (l - b) \div 8 <= l \div 8
      BY <1>1, <2>4, <2>5
    <3>2. QED
      BY <1>1, <2>4, <2>5, <3>1
  <2>8. QED
    BY <1>2, <2>3, <2>5, <2>6, <2>7
<1>5. QED
  BY <1>1, <1>3, <1>4

-----------------------------------------------------------------------------
(* The walk of encode().                                                    *)

(* The bit of the raw value that iteration i handles. *)
WalkDst(g, i) == IF g.byte_order = "BigEndian" THEN g.bit_size - 1 - i ELSE i

(* The loop of the encoder starts at the address of its first bit.          *)
LEMMA WalkStartAddress ==
    ASSUME NEW g \in Geometry
    PROVE  /\ WalkStart(g).dst = WalkDst(g, 0)
           /\ WalkStart(g).src = BitAddress(g, WalkDst(g, 0))
BY FromTopInvolution
   DEF Geometry, WalkStart, WalkDst, BitAddress, SawtoothBit

(* Going down a byte and on to the top of the next one is one step in the   *)
(* from-top numbering.                                                      *)
LEMMA SawtoothStep ==
    ASSUME NEW l \in Nat
    PROVE  IF FromTop(l) % 8 = 0 THEN FromTop(l) + 15 = FromTop(l + 1)
                                 ELSE FromTop(l) - 1 = FromTop(l + 1)
BY DEF FromTop

(* An iteration goes from the address of a bit to that of the next.         *)
LEMMA WalkNextAddress ==
    ASSUME NEW g \in Geometry, NEW i \in 0 .. g.bit_size - 1, NEW w,
           w.dst = WalkDst(g, i), w.src = BitAddress(g, WalkDst(g, i))
    PROVE  /\ WalkNext(g, w).dst = WalkDst(g, i + 1)
           /\ WalkNext(g, w).src \in Nat
           /\ i + 1 < g.bit_size =>
                WalkNext(g, w).src = BitAddress(g, WalkDst(g, i + 1))
<1>1. /\ g.start_bit \in Nat /\ g.bit_size \in 1 .. 64
      /\ g.byte_order \in {"BigEndian", "LittleEndian"}
  BY DEF Geometry
<1>2. CASE g.byte_order = "LittleEndian"
  BY <1>1, <1>2 DEF WalkNext, WalkDst, BitAddress
<1>3. CASE g.byte_order = "BigEndian"
  <2> DEFINE l == FromTop(g.start_bit) + i
  <2>1. l \in Nat
    BY <1>1, FromTopInvolution
  <2>2. w.src = FromTop(l)
    <3>1. g.bit_size - 1 - (g.bit_size - 1 - i) = i
      BY <1>1
    <3>2. QED
      BY <1>3, <3>1 DEF WalkDst, BitAddress, SawtoothBit
  <2>3. BitAddress(g, WalkDst(g, i + 1)) = FromTop(l + 1)
    <3>1. FromTop(g.start_bit) + (g.bit_size - 1 - (g.bit_size - 1 - (i + 1))) = l + 1
      BY <1>1, FromTopInvolution
    <3>2. QED
      BY <1>3, <3>1 DEF WalkDst, BitAddress, SawtoothBit
  <2>4. WalkNext(g, w).src = FromTop(l + 1)
    <3>1. WalkNext(g, w).src = IF w.src % 8 = 0 THEN w.src + 15 ELSE w.src - 1
      BY <1>3 DEF WalkNext
    <3> HIDE DEF l
    <3>2. QED
      BY <2>1, <2>2, <3>1, SawtoothStep
  <2>5. WalkNext(g, w).dst = WalkDst(g, i + 1)
    BY <1>1, <1>3 DEF WalkNext, WalkDst
  <2>6. FromTop(l + 1) \in Nat
    BY <2>1, FromTopInvolution
  <2>7. QED
    BY <2>3, <2>4, <2>5, <2>6
<1>4. QED
  BY <1>1, <1>2, <1>3

(* Every bit of the raw value is the one of exactly one iteration. *)
LEMMA WalkDstInRange ==
    ASSUME NEW g \in Geometry, NEW i \in 0 .. g.bit_size - 1
    PROVE  WalkDst(g, i) \in 0 .. g.bit_size - 1
BY DEF Geometry, WalkDst

-----------------------------------------------------------------------------
(* No shift is undefined and no unsigned subtraction wraps.                 *)
LEMMA ShiftsInRange ==
    ASSUME NEW g \in Geometry
    PROVE  /\ MaskShift(g) \in BitIndex
           /\ FixedStartBit0(g) \in BitIndex
           /\ Alignment(g) = "does_not_fit" =>
                IF g.byte_order = "BigEndian" THEN FixedStartBit1(g) \in 0 .. 8
                                              ELSE FixedStartBit1(g) \in BitIndex
<1>1. /\ g.start_bit \in Nat /\ g.bit_size \in 1 .. 64
      /\ g.byte_order \in {"BigEndian", "LittleEndian"}
  BY DEF Geometry
<1>2. CASE Alignment(g) = "does_not_fit"
  <2> DEFINE r == g.start_bit % 8
  <2>1. /\ r \in 0 .. 7
        /\ g.byte_order = "LittleEndian" => r + g.bit_size \in 65 .. 71 /\ r \in 1 .. 7
        /\ g.byte_order = "BigEndian" => g.bit_size + 7 - r \in 65 .. 71 /\ r \in 0 .. 6
    BY <1>1, <1>2, SplitShape
  <2>2. /\ MaskShift(g) = IF g.byte_order = "LittleEndian" THEN g.bit_size + r - 64
                                                           ELSE r + 57
        /\ FixedStartBit0(g) = IF g.byte_order = "LittleEndian"
             THEN g.start_bit - 8 * (g.start_bit \div 8) ELSE 7 - r + g.bit_size - 64
        /\ FixedStartBit1(g) = IF g.byte_order = "LittleEndian" THEN 64 - r
                                ELSE 8 - (7 - r + g.bit_size - 64)
    BY <1>2, SplitShape DEF MaskShift, FixedStartBit0, FixedStartBit1
  <2>3. g.start_bit - 8 * (g.start_bit \div 8) = r
    BY <1>1
  <2> HIDE DEF r
  <2>4. CASE g.byte_order = "LittleEndian"
    BY <1>1, <2>1, <2>2, <2>3, <2>4 DEF BitIndex
  <2>5. CASE g.byte_order = "BigEndian"
    <3>1. /\ MaskShift(g) = r + 57
          /\ FixedStartBit0(g) = 7 - r + g.bit_size - 64
          /\ FixedStartBit1(g) = 8 - (7 - r + g.bit_size - 64)
      BY <2>2, <2>5
    <3>2. g.bit_size + 7 - r \in 65 .. 71 /\ r \in 0 .. 6
      BY <2>1, <2>5
    <3>3. QED
      BY <1>1, <2>5, <3>1, <3>2 DEF BitIndex
  <2>6. QED
    BY <1>1, <2>4, <2>5
<1>3. CASE Alignment(g) # "does_not_fit"
  <2>1. MaskShift(g) \in BitIndex
    BY <1>1, <1>3 DEF MaskShift, BitIndex
  <2>2. FixedStartBit0(g) \in Nat /\ FixedStartBit0(g) + g.bit_size <= 64
    BY <1>1, <1>3, WindowLE, WindowBE
  <2>3. FixedStartBit0(g) \in BitIndex
    BY <1>1, <2>2 DEF BitIndex
  <2>4. QED
    BY <1>3, <2>1, <2>3
<1>4. QED
  BY <1>2, <1>3

-----------------------------------------------------------------------------
(* The frame as a state machine: the inductive invariant and its parts.     *)

(* Bit b of the raw value has been handled before iteration i. *)
Handled(g, i, b) ==
    IF g.byte_order = "BigEndian" THEN b > g.bit_size - 1 - i ELSE b < i

(* The locals of a running encode(), in terms of the iteration it is at. *)
WalkInv ==
    enc.active =>
      LET g == Geo(enc.sig)
      IN  /\ Usable(enc.sig)
          /\ enc.raw \in RawValues
          /\ enc.i \in 0 .. g.bit_size
          /\ enc.dst = WalkDst(g, enc.i)
          /\ enc.i < g.bit_size => enc.src = BitAddress(g, enc.dst)

(* What the running encode() has done to the buffer so far. *)
BufferInv ==
    enc.active =>
      LET g == Geo(enc.sig)
      IN  \A b \in 0 .. g.bit_size - 1 : Handled(g, enc.i, b) =>
             (BitAddress(g, b) \in frame <=> b \in enc.raw)

(* Nothing is promised of the signals the running encode() may disturb. *)
PendingInv ==
    enc.active => \A t \in Signals :
      t = enc.sig \/ Overlap(enc.sig, t) => written[t] = {}

(* A signal written and not disturbed since holds the bits it was given. *)
WrittenInv ==
    \A s \in Signals : \A raw \in written[s] :
      /\ Usable(s)
      /\ \A b \in 0 .. Geo(s).bit_size - 1 :
           BitAddress(Geo(s), b) \in frame <=> b \in raw
      /\ written[s] = {raw}

IInv == TypeOK /\ WalkInv /\ BufferInv /\ PendingInv /\ WrittenInv

-----------------------------------------------------------------------------
(* A created object is what the constructor returns for its geometry. *)
LEMMA CreatedObject ==
    ASSUME TypeOK, NEW s \in Signals, Created(s)
    PROVE  /\ Geo(s) \in Geometry
           /\ Geo(s) \in Geometries
           /\ sig[s] = Create(MessageSize, Geo(s))
<1>1. PICK g \in Geometries : sig[s] = Create(MessageSize, g)
  BY DEF TypeOK, Created
<1>2. Geo(s) = g
  BY <1>1 DEF Geo, Create
<1>3. QED
  BY <1>1, <1>2, GeometriesAssumption

(* A signal without an error lies in the buffer. *)
LEMMA UsableInBuffer ==
    ASSUME TypeOK, NEW s \in Signals, Usable(s)
    PROVE  SignalBits(Geo(s)) \subseteq BufferBits
<1>1. /\ Geo(s) \in Geometry /\ sig[s] = Create(MessageSize, Geo(s))
      /\ sig[s].error = {}
  BY CreatedObject DEF Usable
<1>2. ~ ExceedsMessageSize(Geo(s), MessageSize)
  BY <1>1 DEF Create, Errors
<1>3. QED
  BY <1>1, <1>2, ErrorExact, MessageSizeAssumption DEF BufferBits

(* Two signals that share no bit have different addresses. *)
LEMMA ApartAddresses ==
    ASSUME NEW s \in Signals, NEW t \in Signals, Created(s), Created(t),
           ~ Overlap(s, t),
           NEW b \in 0 .. Geo(s).bit_size - 1, NEW c \in 0 .. Geo(t).bit_size - 1
    PROVE  BitAddress(Geo(s), b) # BitAddress(Geo(t), c)
BY DEF Overlap, SignalBits

-----------------------------------------------------------------------------
(* Before the first call nothing was written.                               *)
LEMMA InitIInv == Init => IInv
<1> SUFFICES ASSUME Init PROVE IInv
  OBVIOUS
<1>1. \A s \in Signals : Returned(s) \in Locals /\ ~ Returned(s).active
  BY DEF Returned, Locals, Word, BitIndex
<1>2. enc \in Locals /\ ~ enc.active
  BY <1>1 DEF Init
<1>3. TypeOK
  BY <1>2 DEF Init, TypeOK
<1>4. WrittenInv
  BY DEF Init, WrittenInv
<1>5. QED
  BY <1>2, <1>3, <1>4 DEF IInv, WalkInv, BufferInv, PendingInv

(* A signal created has not been written.                                   *)
LEMMA CreateKeepsIInv ==
    ASSUME IInv, NEW s \in Signals, NEW g \in Geometries, CreateSignal(s, g)
    PROVE  IInv'
<1>1. ~ enc.active /\ enc' = enc /\ frame' = frame /\ written' = written
  BY DEF CreateSignal
<1>2. TypeOK'
  BY DEF IInv, TypeOK, CreateSignal
<1>3. WrittenInv'
  <2> SUFFICES ASSUME NEW t \in Signals, NEW raw \in written[t]
               PROVE  /\ Usable(t)'
                      /\ \A b \in 0 .. Geo(t)'.bit_size - 1 :
                           BitAddress(Geo(t)', b) \in frame <=> b \in raw
                      /\ written[t] = {raw}
    BY <1>1 DEF WrittenInv
  <2>1. Usable(t)
    BY DEF IInv, WrittenInv
  <2>2. sig'[t] = sig[t]
    BY <2>1 DEF CreateSignal, Usable, IInv, TypeOK
  <2>3. Usable(t)' /\ Geo(t)' = Geo(t)
    BY <2>1, <2>2 DEF Usable, Created, Geo
  <2>4. QED
    BY <2>3 DEF IInv, WrittenInv
<1>4. QED
  BY <1>1, <1>2, <1>3 DEF IInv, WalkInv, BufferInv, PendingInv

(* A frame received replaces what was written.                              *)
LEMMA ReceiveKeepsIInv ==
    ASSUME IInv, NEW f \in Frames, ReceiveFrame(f)
    PROVE  IInv'
<1>1. /\ ~ enc.active /\ enc' = enc /\ sig' = sig
      /\ frame' = f /\ written' = [s \in Signals |-> {}]
  BY DEF ReceiveFrame
<1>2. TypeOK'
  BY <1>1, FramesAssumption DEF IInv, TypeOK
<1>3. WrittenInv'
  BY <1>1 DEF WrittenInv
<1>4. QED
  BY <1>1, <1>2, <1>3 DEF IInv, WalkInv, BufferInv, PendingInv

(* A call of the encoder has passed no bit yet.                             *)
LEMMA EncodeCallKeepsIInv ==
    ASSUME IInv, NEW s \in Signals, NEW raw \in RawValues, EncodeCall(s, raw)
    PROVE  IInv'
<1> DEFINE g == Geo(s)
           w == WalkStart(g)
<1>1. /\ ~ enc.active /\ Usable(s) /\ sig' = sig /\ frame' = frame
      /\ enc' = [ active |-> TRUE, sig |-> s, raw |-> raw, i |-> 0,
                  src |-> w.src, dst |-> w.dst, before |-> frame ]
      /\ written' = [t \in Signals |-> IF t = s \/ Overlap(s, t) THEN {}
                                       ELSE written[t]]
  BY DEF EncodeCall
<1>2. TypeOK /\ g \in Geometry
  BY <1>1, CreatedObject DEF IInv, Usable
<1>3. g.bit_size \in 1 .. 64 /\ g.byte_order \in {"BigEndian", "LittleEndian"}
  BY <1>2 DEF Geometry
<1>4. /\ w.dst = WalkDst(g, 0) /\ w.src = BitAddress(g, WalkDst(g, 0))
      /\ w.src \in Nat /\ w.dst \in Int
  <2>1. WalkDst(g, 0) \in 0 .. g.bit_size - 1
    BY <1>2, <1>3, WalkDstInRange
  <2>2. QED
    BY <1>2, <1>3, <2>1, WalkStartAddress, BitAddressInNat
<1> HIDE DEF w
<1>5. /\ Usable(s)' /\ Geo(s)' = g
      /\ \A t \in Signals : Overlap(s, t)' = Overlap(s, t)
  BY <1>1 DEF Usable, Created, Geo, Overlap
<1>6. TypeOK'
  <2>1. enc' \in Locals
    BY <1>1, <1>2, <1>4, RawValuesAssumption DEF Locals, TypeOK
  <2>2. written' \in [Signals -> SUBSET RawValues]
    BY <1>1, <1>2 DEF TypeOK
  <2>3. QED
    BY <1>1, <1>2, <2>1, <2>2 DEF TypeOK
<1>7. WalkInv'
  <2>1. enc'.sig = s /\ enc'.i = 0 /\ enc'.dst = w.dst /\ enc'.src = w.src /\ enc'.raw = raw
    BY <1>1
  <2>2. Geo(enc.sig)' = g /\ Usable(enc.sig)'
    BY <1>5, <2>1 DEF Geo, Usable, Created
  <2>3. QED
    BY <1>3, <1>4, <2>1, <2>2 DEF WalkInv
<1>8. BufferInv'
  <2>1. \A b \in 0 .. g.bit_size - 1 : ~ Handled(g, 0, b)
    BY <1>3 DEF Handled
  <2>2. Geo(enc.sig)' = g /\ enc'.i = 0
    BY <1>1, <1>5 DEF Geo
  <2>3. QED
    BY <2>1, <2>2 DEF BufferInv
<1>9. PendingInv'
  BY <1>1, <1>5 DEF PendingInv, Overlap, Created, Geo
<1>10. WrittenInv'
  <2> SUFFICES ASSUME NEW t \in Signals, NEW v \in written'[t]
               PROVE  /\ Usable(t)'
                      /\ \A b \in 0 .. Geo(t)'.bit_size - 1 :
                           BitAddress(Geo(t)', b) \in frame' <=> b \in v
                      /\ written'[t] = {v}
    BY DEF WrittenInv
  <2>1. written'[t] = written[t]
    BY <1>1
  <2>2. Usable(t)' = Usable(t) /\ Geo(t)' = Geo(t)
    BY <1>1 DEF Usable, Created, Geo
  <2>3. QED
    BY <1>1, <2>1, <2>2 DEF IInv, WrittenInv
<1>11. QED
  BY <1>6, <1>7, <1>8, <1>9, <1>10 DEF IInv

(* An iteration writes the bit it passes and no other.                      *)
LEMMA EncodeBitKeepsIInv ==
    ASSUME IInv, EncodeBit
    PROVE  IInv'
<1> DEFINE s == enc.sig
           g == Geo(enc.sig)
           d == WalkDst(g, enc.i)
           a == BitAddress(g, d)
           w == WalkNext(g, [src |-> enc.src, dst |-> enc.dst])
<1>1. /\ enc.active /\ enc.i < g.bit_size /\ sig' = sig /\ written' = written
      /\ frame' = PutBit(frame, enc.src, enc.raw, enc.dst)
      /\ enc' = [enc EXCEPT !.i = @ + 1, !.src = w.src, !.dst = w.dst]
  BY DEF EncodeBit
<1>2. /\ TypeOK /\ WalkInv /\ BufferInv /\ PendingInv /\ WrittenInv
      /\ s \in Signals /\ Usable(s) /\ Created(s) /\ enc \in Locals
      /\ enc.i \in 0 .. g.bit_size - 1 /\ enc.dst = d /\ enc.src = a
  <2>1. TypeOK /\ WalkInv /\ BufferInv /\ PendingInv /\ WrittenInv
    BY DEF IInv
  <2>2. enc \in Locals
    BY <2>1 DEF TypeOK
  <2>3. s \in Signals /\ enc.i \in 0 .. 64
    BY <2>2 DEF Locals
  <2>4. Usable(s) /\ enc.dst = d /\ enc.src = a
    BY <1>1, <2>1 DEF WalkInv
  <2>5. Created(s) /\ g \in Geometry
    BY <2>1, <2>3, <2>4, CreatedObject DEF Usable
  <2>6. enc.i \in 0 .. g.bit_size - 1
    BY <1>1, <2>3, <2>5 DEF Geometry
  <2>7. QED
    BY <2>1, <2>2, <2>3, <2>4, <2>5, <2>6
<1>3. /\ g \in Geometry /\ g.bit_size \in 1 .. 64
      /\ g.byte_order \in {"BigEndian", "LittleEndian"}
      /\ d \in 0 .. g.bit_size - 1 /\ d \in BitIndex
      /\ a \in BufferBits
  <2>1. g \in Geometry
    BY <1>2, CreatedObject
  <2>2. g.bit_size \in 1 .. 64 /\ g.byte_order \in {"BigEndian", "LittleEndian"}
    BY <2>1 DEF Geometry
  <2>3. d \in 0 .. g.bit_size - 1
    BY <1>2, <2>1, WalkDstInRange
  <2>4. a \in BufferBits
    BY <1>2, <2>3, UsableInBuffer DEF SignalBits
  <2>5. QED
    BY <2>1, <2>2, <2>3, <2>4 DEF BitIndex
<1>4. /\ w.dst = WalkDst(g, enc.i + 1) /\ w.src \in Nat
      /\ enc.i + 1 < g.bit_size => w.src = BitAddress(g, WalkDst(g, enc.i + 1))
  BY <1>2, <1>3, WalkNextAddress
<1>5. /\ enc'.active /\ enc'.sig = s /\ enc'.raw = enc.raw /\ enc'.i = enc.i + 1
      /\ enc'.src = w.src /\ enc'.dst = w.dst /\ enc'.before = enc.before
  BY <1>1, <1>2 DEF Locals
<1>6. /\ \A x : x # a => (x \in frame' <=> x \in frame)
      /\ a \in frame' <=> d \in enc.raw
      /\ frame' \in SUBSET BufferBits
  BY <1>1, <1>2, <1>3 DEF PutBit, TypeOK
<1>7. /\ Geo(enc.sig)' = g
      /\ \A t \in Signals : Usable(t)' = Usable(t) /\ Geo(t)' = Geo(t)
      /\ \A t, u \in Signals : Overlap(t, u)' = Overlap(t, u)
  BY <1>1, <1>5 DEF Usable, Created, Geo, Overlap
<1> HIDE DEF w
<1>8. TypeOK'
  <2>1. enc'.i \in 0 .. 64 /\ enc'.src \in Nat /\ enc'.dst \in Int
    BY <1>2, <1>3, <1>4, <1>5 DEF WalkDst
  <2>2. enc' \in Locals
    BY <1>1, <1>2, <1>5, <2>1 DEF Locals
  <2>3. QED
    BY <1>1, <1>2, <1>6, <2>2 DEF TypeOK
<1>9. WalkInv'
  <2>1. enc'.i \in 0 .. g.bit_size
    BY <1>2, <1>3, <1>5
  <2>2. enc.raw \in RawValues
    BY <1>1, <1>2 DEF WalkInv
  <2>3. Usable(enc.sig)'
    BY <1>2, <1>5, <1>7 DEF Usable, Created
  <2>4. QED
    BY <1>4, <1>5, <1>7, <2>1, <2>2, <2>3 DEF WalkInv
<1>10. BufferInv'
  <2> SUFFICES ASSUME NEW b \in 0 .. g.bit_size - 1, Handled(g, enc.i + 1, b)
               PROVE  BitAddress(g, b) \in frame' <=> b \in enc.raw
    BY <1>5, <1>7 DEF BufferInv
  <2>1. b = d \/ Handled(g, enc.i, b)
    BY <1>2, <1>3 DEF Handled, WalkDst
  <2>2. CASE b = d
    BY <1>6, <2>2
  <2>3. CASE b # d
    <3>1. Handled(g, enc.i, b)
      BY <2>1, <2>3
    <3>2. BitAddress(g, b) \in frame <=> b \in enc.raw
      BY <1>1, <1>2, <3>1 DEF BufferInv
    <3>3. BitAddress(g, b) # a
      BY <1>3, <2>3, BitAddressInjective
    <3>4. QED
      BY <1>6, <3>2, <3>3
  <2>4. QED
    BY <2>2, <2>3
<1>11. PendingInv'
  BY <1>1, <1>2, <1>5, <1>7 DEF PendingInv
<1>12. WrittenInv'
  <2> SUFFICES ASSUME NEW t \in Signals, NEW v \in written[t]
               PROVE  /\ Usable(t)
                      /\ \A b \in 0 .. Geo(t).bit_size - 1 :
                           BitAddress(Geo(t), b) \in frame' <=> b \in v
                      /\ written[t] = {v}
    BY <1>1, <1>7 DEF WrittenInv
  <2>1. /\ Usable(t) /\ Created(t) /\ written[t] = {v}
        /\ \A b \in 0 .. Geo(t).bit_size - 1 :
             BitAddress(Geo(t), b) \in frame <=> b \in v
    BY <1>2 DEF WrittenInv, Usable
  <2>2. ~ Overlap(s, t)
    BY <1>1, <1>2 DEF PendingInv
  <2>3. \A b \in 0 .. Geo(t).bit_size - 1 : BitAddress(Geo(t), b) # a
    BY <1>2, <1>3, <2>1, <2>2, ApartAddresses
  <2>4. QED
    BY <1>6, <2>1, <2>3
<1>13. QED
  BY <1>8, <1>9, <1>10, <1>11, <1>12 DEF IInv

(* When it returns the value is in the frame, and signals that share no bit *)
(* with it are as before.                                                   *)
LEMMA EncodeReturnKeepsIInv ==
    ASSUME IInv, EncodeReturn
    PROVE  IInv'
<1> DEFINE s == enc.sig
           g == Geo(enc.sig)
<1>1. /\ enc.active /\ enc.i = g.bit_size /\ sig' = sig /\ frame' = frame
      /\ enc' = Returned(s)
      /\ written' = [written EXCEPT ![s] = {enc.raw}]
  BY DEF EncodeReturn
<1>2. /\ TypeOK /\ WalkInv /\ BufferInv /\ WrittenInv
      /\ s \in Signals /\ Usable(s) /\ enc.raw \in RawValues
  BY <1>1 DEF IInv, TypeOK, WalkInv, Locals
<1>3. /\ g.bit_size \in 1 .. 64 /\ g.byte_order \in {"BigEndian", "LittleEndian"}
  BY <1>2, CreatedObject DEF Usable, Geometry
<1>4. ~ enc'.active /\ enc' \in Locals
  BY <1>1, <1>2 DEF Returned, Locals, Word, BitIndex
<1>5. \A t \in Signals : Usable(t)' = Usable(t) /\ Geo(t)' = Geo(t)
  BY <1>1 DEF Usable, Created, Geo
<1>6. TypeOK'
  <2>1. written' \in [Signals -> SUBSET RawValues]
    BY <1>1, <1>2 DEF TypeOK
  <2>2. QED
    BY <1>1, <1>2, <1>4, <2>1 DEF TypeOK
<1>7. WrittenInv'
  <2> SUFFICES ASSUME NEW t \in Signals, NEW v \in written'[t]
               PROVE  /\ Usable(t)
                      /\ \A b \in 0 .. Geo(t).bit_size - 1 :
                           BitAddress(Geo(t), b) \in frame <=> b \in v
                      /\ written'[t] = {v}
    BY <1>1, <1>5 DEF WrittenInv
  <2>1. CASE t = s
    <3>1. written'[t] = {enc.raw} /\ v = enc.raw
      BY <1>1, <1>2, <2>1 DEF TypeOK
    <3>2. \A b \in 0 .. g.bit_size - 1 : Handled(g, g.bit_size, b)
      BY <1>3 DEF Handled
    <3>3. QED
      BY <1>1, <1>2, <2>1, <3>1, <3>2 DEF BufferInv
  <2>2. CASE t # s
    <3>1. written'[t] = written[t]
      BY <1>1, <1>2, <2>2 DEF TypeOK
    <3>2. QED
      BY <1>2, <3>1 DEF WrittenInv
  <2>3. QED
    BY <2>1, <2>2
<1>8. QED
  BY <1>4, <1>6, <1>7 DEF IInv, WalkInv, BufferInv, PendingInv

(* A step that changes nothing.                                             *)
LEMMA StutterKeepsIInv ==
    ASSUME IInv, UNCHANGED vars
    PROVE  IInv'
BY DEF vars, IInv, TypeOK, WalkInv, BufferInv, PendingInv, WrittenInv,
       Usable, Created, Geo, Overlap

(* The inductive invariant. *)
THEOREM Invariance == Spec => []IInv
<1>1. IInv /\ [Next]_vars => IInv'
  <2> SUFFICES ASSUME IInv, [Next]_vars PROVE IInv'
    OBVIOUS
  <2>1. CASE \E s \in Signals, g \in Geometries : CreateSignal(s, g)
    BY <2>1, CreateKeepsIInv
  <2>2. CASE \E f \in Frames : ReceiveFrame(f)
    BY <2>2, ReceiveKeepsIInv
  <2>3. CASE \E s \in Signals, raw \in RawValues : EncodeCall(s, raw)
    BY <2>3, EncodeCallKeepsIInv
  <2>4. CASE EncodeBit
    BY <2>4, EncodeBitKeepsIInv
  <2>5. CASE EncodeReturn
    BY <2>5, EncodeReturnKeepsIInv
  <2>6. CASE UNCHANGED vars
    BY <2>6, StutterKeepsIInv
  <2>7. QED
    BY <2>1, <2>2, <2>3, <2>4, <2>5, <2>6 DEF Next
<1>2. QED
  BY <1>1, InitIInv, PTL DEF Spec

-----------------------------------------------------------------------------
(* The properties that TLC checks on small instances.                       *)

(* Type correctness. *)
THEOREM TypeCorrect == Spec => []TypeOK
BY Invariance, PTL DEF IInv

(* Memory behind the buffer does not change what a signal in it reads as.   *)
LEMMA SurroundingsDoNotMatter ==
    ASSUME TypeOK, NEW s \in Signals, Usable(s), NEW m \in Surroundings
    PROVE  /\ Decode(sig[s], frame \cup m) = EasyDecode(Geo(s), frame)
           /\ frame \cup m \in SUBSET Nat
<1>1. /\ Geo(s) \in Geometry /\ sig[s] = Create(MessageSize, Geo(s))
      /\ sig[s].error = {}
  BY CreatedObject DEF Usable
<1>2. FrameBytes(MessageSize) \in Nat
  BY MessageSizeAssumption DEF FrameBytes
<1>3. frame \cup m \in SUBSET Nat
  <2>1. BufferBits \subseteq Nat
    BY <1>2 DEF BufferBits
  <2>2. frame \subseteq BufferBits
    BY DEF TypeOK
  <2>3. m \subseteq Nat
    BY SurroundingsAssumption
  <2>4. QED
    BY <2>1, <2>2, <2>3
<1>4. \A b \in 0 .. Geo(s).bit_size - 1 : BitAddress(Geo(s), b) \in BufferBits
  BY UsableInBuffer DEF SignalBits
<1>5. RawBits(Geo(s), frame \cup m) = RawBits(Geo(s), frame)
  BY <1>4, SurroundingsAssumption DEF RawBits
<1>6. QED
  BY <1>1, <1>3, <1>5, DecodeCorrect, MessageSizeAssumption DEF EasyDecode

(* The optimised decoder of every usable signal returns what the bit walk   *)
(* returns, in every reachable state, whatever is behind the buffer.        *)
THEOREM DecodeIsBitWalkAlways == Spec => []DecodeIsBitWalk
<1>1. TypeOK => DecodeIsBitWalk
  BY SurroundingsDoNotMatter DEF DecodeIsBitWalk, Memory
<1>2. QED
  BY <1>1, TypeCorrect, PTL

(* An error is reported for exactly the signals outside the message.        *)
THEOREM ErrorIffOutsideFrameAlways == Spec => []ErrorIffOutsideFrame
<1>1. ASSUME TypeOK, NEW s \in Signals, Created(s)
      PROVE  "SignalExceedsMessageSize" \in sig[s].error
               <=> ~ (SignalBits(Geo(s)) \subseteq BufferBits)
  <2>1. Geo(s) \in Geometry /\ sig[s] = Create(MessageSize, Geo(s))
    BY <1>1, CreatedObject
  <2>2. "SignalExceedsMessageSize" \in sig[s].error
          <=> ExceedsMessageSize(Geo(s), MessageSize)
    BY <2>1 DEF Create, Errors
  <2>3. QED
    BY <2>1, <2>2, ErrorExact, MessageSizeAssumption DEF BufferBits
<1>2. TypeOK => ErrorIffOutsideFrame
  BY <1>1 DEF ErrorIffOutsideFrame
<1>3. QED
  BY <1>2, TypeCorrect, PTL

(* No shift of the constructor or of a decoder is undefined.                *)
THEOREM ShiftsDefinedAlways == Spec => []ShiftsDefined
<1>1. ASSUME TypeOK, NEW s \in Signals, Usable(s)
      PROVE  /\ MaskShift(Geo(s)) \in BitIndex
             /\ sig[s].fixed_start_bit_0 \in BitIndex
             /\ sig[s].alignment = "does_not_fit" =>
                  IF Geo(s).byte_order = "BigEndian"
                    THEN sig[s].fixed_start_bit_1 \in 0 .. 8
                    ELSE sig[s].fixed_start_bit_1 \in BitIndex
  <2>1. Geo(s) \in Geometry /\ sig[s] = Create(MessageSize, Geo(s))
    BY <1>1, CreatedObject DEF Usable
  <2>2. /\ sig[s].fixed_start_bit_0 = FixedStartBit0(Geo(s))
        /\ sig[s].fixed_start_bit_1 = FixedStartBit1(Geo(s))
        /\ sig[s].alignment = Alignment(Geo(s))
    BY <2>1 DEF Create
  <2>3. QED
    BY <2>1, <2>2, ShiftsInRange
<1>2. TypeOK => ShiftsDefined
  BY <1>1 DEF ShiftsDefined
<1>3. QED
  BY <1>2, TypeCorrect, PTL

(* encode() writes inside the buffer, at the addresses of the layout.       *)
THEOREM EncodeInBoundsAlways == Spec => []EncodeInBounds
<1>1. IInv => EncodeInBounds
  <2> SUFFICES ASSUME IInv, enc.active, enc.i < Geo(enc.sig).bit_size
               PROVE  /\ enc.src \in BufferBits
                      /\ enc.dst \in BitIndex
                      /\ enc.src = BitAddress(Geo(enc.sig), enc.dst)
    BY DEF EncodeInBounds
  <2>1. /\ TypeOK /\ enc.sig \in Signals /\ Usable(enc.sig) /\ enc.i \in 0 .. 64
        /\ enc.dst = WalkDst(Geo(enc.sig), enc.i)
        /\ enc.src = BitAddress(Geo(enc.sig), enc.dst)
    BY DEF IInv, TypeOK, WalkInv, Locals
  <2>2. Geo(enc.sig) \in Geometry /\ Geo(enc.sig).bit_size \in 1 .. 64
    BY <2>1, CreatedObject DEF Usable, Geometry
  <2>3. enc.dst \in 0 .. Geo(enc.sig).bit_size - 1
    <3>1. enc.i \in 0 .. Geo(enc.sig).bit_size - 1
      BY <2>1, <2>2
    <3>2. QED
      BY <2>1, <2>2, <3>1, WalkDstInRange
  <2>4. enc.src \in BufferBits
    BY <2>1, <2>3, UsableInBuffer DEF SignalBits
  <2>5. QED
    BY <2>1, <2>2, <2>3, <2>4 DEF BitIndex
<1>2. QED
  BY <1>1, Invariance, PTL

(* What was encoded into a signal decodes to its value, until something     *)
(* overwrites one of its bits.                                              *)
THEOREM EncodedValueReadsBackAlways == Spec => []EncodedValueReadsBack
<1>1. ASSUME IInv, NEW s \in Signals, NEW raw \in written[s]
      PROVE  /\ RawBits(Geo(s), frame) = raw \cap (0 .. Geo(s).bit_size - 1)
             /\ Usable(s)
  BY <1>1 DEF IInv, WrittenInv, RawBits
<1>2. IInv => EncodedValueReadsBack
  BY <1>1, SurroundingsDoNotMatter
     DEF EncodedValueReadsBack, Memory, EasyDecode, IInv
<1>3. QED
  BY <1>2, Invariance, PTL

(* encode() changes no bit outside the signal it writes.                    *)
THEOREM EncodeKeepsOtherBitsAlways == Spec => EncodeKeepsOtherBits
<1>1. ASSUME IInv, EncodeBit,
             NEW a \in BufferBits \ SignalBits(Geo(enc.sig))
      PROVE  a \in frame' <=> a \in frame
  <2>1. /\ enc.active /\ enc.i < Geo(enc.sig).bit_size
        /\ frame' = PutBit(frame, enc.src, enc.raw, enc.dst)
    BY <1>1 DEF EncodeBit
  <2>2. /\ TypeOK /\ enc.sig \in Signals /\ Usable(enc.sig) /\ enc.i \in 0 .. 64
        /\ enc.dst = WalkDst(Geo(enc.sig), enc.i)
        /\ enc.src = BitAddress(Geo(enc.sig), enc.dst)
    BY <1>1, <2>1 DEF IInv, TypeOK, WalkInv, Locals
  <2>3. enc.src \in SignalBits(Geo(enc.sig))
    <3>1. Geo(enc.sig) \in Geometry /\ Geo(enc.sig).bit_size \in 1 .. 64
      BY <2>2, CreatedObject DEF Usable, Geometry
    <3>2. enc.i \in 0 .. Geo(enc.sig).bit_size - 1
      BY <2>1, <2>2, <3>1
    <3>3. QED
      BY <2>2, <3>1, <3>2, WalkDstInRange DEF SignalBits
  <2>4. QED
    BY <2>1, <2>3 DEF PutBit
<1>2. IInv /\ [Next]_vars =>
        [EncodeBit => \A a \in BufferBits \ SignalBits(Geo(enc.sig)) :
                         a \in frame' <=> a \in frame]_vars
  BY <1>1
<1>3. QED
  BY <1>2, Invariance, PTL DEF Spec, EncodeKeepsOtherBits

-----------------------------------------------------------------------------
(* The message implements MessageRegisters.                                 *)

(* What the registers show: the value read back, where it is known. *)
ReadsInv ==
    \A s \in Signals : \A raw \in written[s] :
        Decode(sig[s], frame)
          = Extended(Geo(s), raw \cap (0 .. Geo(s).bit_size - 1))

(* Every signal written reads back as it was written.                       *)
LEMMA ReadsInvHolds == IInv => ReadsInv
<1> SUFFICES ASSUME IInv, NEW s \in Signals, NEW raw \in written[s]
             PROVE  Decode(sig[s], frame)
                      = Extended(Geo(s), raw \cap (0 .. Geo(s).bit_size - 1))
  BY DEF ReadsInv
<1>1. Usable(s) /\ TypeOK
  BY DEF IInv, WrittenInv
<1>2. /\ Geo(s) \in Geometry /\ sig[s] = Create(MessageSize, Geo(s))
      /\ sig[s].error = {}
  BY <1>1, CreatedObject DEF Usable
<1>3. frame \in SUBSET Nat
  <2>1. FrameBytes(MessageSize) \in Nat
    BY MessageSizeAssumption DEF FrameBytes
  <2>2. BufferBits \subseteq Nat
    BY <2>1 DEF BufferBits
  <2>3. QED
    BY <1>1, <2>2 DEF TypeOK
<1>4. Decode(sig[s], frame) = EasyDecode(Geo(s), frame)
  BY <1>2, <1>3, DecodeCorrect, MessageSizeAssumption
<1>5. RawBits(Geo(s), frame) = raw \cap (0 .. Geo(s).bit_size - 1)
  BY DEF IInv, WrittenInv, RawBits
<1>6. QED
  BY <1>4, <1>5 DEF EasyDecode

(* The values of the abstract variables. *)
AGeometry == [s \in Signals |-> IF Usable(s) THEN Geo(s) ELSE NoSignal]
AStoring  == IF enc.active THEN { << enc.sig, enc.raw >> } ELSE {}
AReads    == [s \in Signals |->
                IF written[s] = {} THEN {} ELSE { Decode(sig[s], frame) }]

(* A register exists if its signal was created and lies in the frame.       *)
LEMMA ExistsIsUsable ==
    ASSUME TypeOK, NEW s \in Signals
    PROVE  Registers!Exists(s) <=> Usable(s)
<1>1. Usable(s) => Geo(s) \in Geometries
  BY CreatedObject DEF Usable
<1>2. QED
  BY <1>1, NoSignalAssumption DEF Registers!Exists

(* Registers share storage if their signals have a common bit.              *)
LEMMA SharesIsOverlap ==
    ASSUME TypeOK, NEW s \in Signals, NEW t \in Signals, Usable(s), Usable(t)
    PROVE  Registers!Shares(s, t) <=> Overlap(s, t)
<1>1. \A g : Registers!SignalBits(g) = SignalBits(g)
  BY DEF Registers!SignalBits, Registers!BitAddress, Registers!SawtoothBit,
         Registers!FromTop, SignalBits, BitAddress, SawtoothBit, FromTop
<1>2. Registers!Exists(s) /\ Registers!Exists(t) /\ Created(s) /\ Created(t)
  BY ExistsIsUsable DEF Usable
<1>3. QED
  BY <1>1, <1>2 DEF Registers!Shares, Overlap

(* Every step of the message is a step of the registers or changes none of  *)
(* their variables.                                                         *)
LEMMA StepRefines ==
    ASSUME IInv, IInv', ReadsInv, ReadsInv', [Next]_vars
    PROVE  [Registers!Next]_<< AGeometry, AStoring, AReads >>
<1> USE DEF AGeometry, AStoring, AReads
<1>1. ASSUME NEW s \in Signals, NEW g \in Geometries, CreateSignal(s, g)
      PROVE  Registers!Add(s, g) \/ UNCHANGED << AGeometry, AStoring, AReads >>
  <2>1. /\ ~ enc.active /\ ~ Created(s) /\ enc' = enc /\ frame' = frame
        /\ written' = written
        /\ sig' = [sig EXCEPT ![s] = Create(MessageSize, g)]
    BY <1>1 DEF CreateSignal
  <2>2. TypeOK /\ \A t \in Signals : t # s => sig'[t] = sig[t]
    BY <2>1 DEF IInv, TypeOK
  <2>3. sig'[s] = Create(MessageSize, g) /\ Create(MessageSize, g).geometry = g
    BY <2>1, <2>2 DEF TypeOK, Create
  <2>4. AStoring = {} /\ AStoring' = {}
    BY <2>1
  <2>5. written[s] = {}
    BY <2>1 DEF IInv, WrittenInv, Usable
  <2>6. AReads' = AReads
    BY <2>1, <2>2, <2>5
  <2>7. \A t \in Signals : t # s => AGeometry'[t] = AGeometry[t]
    BY <2>2 DEF Usable, Created, Geo
  <2>8. AGeometry[s] = NoSignal
    BY <2>1 DEF Usable
  <2>9. AGeometry'[s] = IF Create(MessageSize, g).error = {} THEN g ELSE NoSignal
    BY <2>3, NoSignalAssumption DEF Usable, Created, Geo
  <2>10. CASE Create(MessageSize, g).error = {}
    <3>1. AGeometry' = [AGeometry EXCEPT ![s] = g]
      BY <2>7, <2>9, <2>10
    <3>2. ~ Registers!Exists(s)
      BY <2>8 DEF Registers!Exists
    <3>3. QED
      BY <2>4, <2>6, <3>1, <3>2 DEF Registers!Add
  <2>11. CASE Create(MessageSize, g).error # {}
    <3>1. AGeometry' = AGeometry
      BY <2>7, <2>8, <2>9, <2>11
    <3>2. QED
      BY <2>4, <2>6, <3>1
  <2>12. QED
    BY <2>10, <2>11
<1>2. ASSUME NEW f \in Frames, ReceiveFrame(f)
      PROVE  Registers!Receive
  BY <1>2 DEF ReceiveFrame, Registers!Receive, Usable, Created, Geo
<1>3. ASSUME NEW s \in Signals, NEW raw \in RawValues, EncodeCall(s, raw)
      PROVE  Registers!BeginStore(s, raw)
  <2>1. /\ ~ enc.active /\ Usable(s) /\ sig' = sig /\ frame' = frame
        /\ enc'.active /\ enc'.sig = s /\ enc'.raw = raw
        /\ written' = [t \in Signals |-> IF t = s \/ Overlap(s, t) THEN {}
                                         ELSE written[t]]
    BY <1>3 DEF EncodeCall
  <2>2. AGeometry' = AGeometry
    BY <2>1 DEF Usable, Created, Geo
  <2>3. Registers!Exists(s)
    BY <2>1, ExistsIsUsable DEF IInv
  <2>4. AReads' = [t \in Signals |-> IF t = s \/ Registers!Shares(s, t) THEN {}
                                     ELSE AReads[t]]
    <3>1. ASSUME NEW t \in Signals
          PROVE  AReads'[t] = IF t = s \/ Registers!Shares(s, t) THEN {}
                              ELSE AReads[t]
      <4>1. CASE written[t] = {}
        BY <2>1, <4>1
      <4>2. CASE written[t] # {}
        <5>1. Usable(t)
          BY <4>2 DEF IInv, WrittenInv
        <5>2. Registers!Shares(s, t) <=> Overlap(s, t)
          BY <2>1, <5>1, SharesIsOverlap DEF IInv
        <5>3. QED
          BY <2>1, <5>2
      <4>3. QED
        BY <4>1, <4>2
    <3>2. QED
      BY <3>1
  <2>5. QED
    BY <2>1, <2>2, <2>3, <2>4 DEF Registers!BeginStore
<1>4. ASSUME EncodeBit
      PROVE  UNCHANGED << AGeometry, AStoring, AReads >>
  <2>1. /\ sig' = sig /\ written' = written
        /\ enc'.active = enc.active /\ enc'.sig = enc.sig /\ enc'.raw = enc.raw
    BY <1>4 DEF EncodeBit, IInv, TypeOK, Locals
  <2>2. AGeometry' = AGeometry /\ AStoring' = AStoring
    BY <2>1 DEF Usable, Created, Geo
  <2>3. ASSUME NEW s \in Signals, NEW raw \in written[s]
        PROVE  Decode(sig[s], frame') = Decode(sig[s], frame)
    BY <2>1 DEF ReadsInv, Geo
  <2>4. AReads' = AReads
    BY <2>1, <2>3
  <2>5. QED
    BY <2>2, <2>4
<1>5. ASSUME NEW s \in Signals, NEW raw \in RawValues,
             EncodeReturn, s = enc.sig, raw = enc.raw
      PROVE  Registers!EndStore(s, raw)
  <2> DEFINE cut == raw \cap (0 .. Geo(s).bit_size - 1)
  <2>1. /\ enc.active /\ ~ enc'.active /\ sig' = sig /\ frame' = frame
        /\ written' = [written EXCEPT ![s] = {raw}]
    BY <1>5 DEF EncodeReturn, Returned
  <2>2. Usable(s) /\ enc.sig = s /\ enc.raw = raw
    BY <1>5, <2>1 DEF IInv, WalkInv
  <2>3. AGeometry' = AGeometry
    BY <2>1 DEF Usable, Created, Geo
  <2>4. raw \in written'[s] /\ written'[s] # {}
    BY <2>1, <2>2 DEF IInv, TypeOK
  <2>5. Decode(sig[s], frame) = Extended(Geo(s), cut)
    BY <2>1, <2>2, <2>4 DEF ReadsInv, Geo
  <2>6. AGeometry[s] = Geo(s)
    BY <2>2
  <2>7. AReads' = [AReads EXCEPT ![s] =
          { Extended(AGeometry[s], raw \cap (0 .. AGeometry[s].bit_size - 1)) }]
    <3>1. ASSUME NEW t \in Signals, t # s PROVE AReads'[t] = AReads[t]
      <4>1. written'[t] = written[t]
        BY <2>1, <3>1 DEF IInv, TypeOK
      <4>2. QED
        BY <2>1, <4>1
    <3>2. AReads'[s] = { Extended(Geo(s), cut) }
      BY <2>1, <2>2, <2>4, <2>5
    <3>3. QED
      BY <2>6, <3>1, <3>2
  <2>8. \A g, v : Registers!Extended(g, v) = Extended(g, v)
    BY DEF Registers!Extended, Extended
  <2>9. QED
    BY <2>1, <2>2, <2>3, <2>7, <2>8 DEF Registers!EndStore
<1>6. ASSUME UNCHANGED vars
      PROVE  UNCHANGED << AGeometry, AStoring, AReads >>
  BY <1>6 DEF vars, Usable, Created, Geo
<1> USE DEF Registers!Next
<1> HIDE DEF AGeometry, AStoring, AReads
<1>7. CASE \E s \in Signals, g \in Geometries : CreateSignal(s, g)
  BY <1>1, <1>7
<1>8. CASE \E f \in Frames : ReceiveFrame(f)
  <2>1. Registers!Receive
    BY <1>2, <1>8
  <2>2. QED
    BY <2>1
<1>9. CASE \E s \in Signals, raw \in RawValues : EncodeCall(s, raw)
  BY <1>3, <1>9
<1>10. CASE EncodeBit
  BY <1>4, <1>10
<1>11. CASE EncodeReturn
  <2>1. enc.sig \in Signals /\ enc.raw \in RawValues
    BY <1>11 DEF EncodeReturn, IInv, TypeOK, Locals, WalkInv
  <2>2. PICK s \in Signals, raw \in RawValues : s = enc.sig /\ raw = enc.raw
    BY <2>1
  <2>3. Registers!EndStore(s, raw)
    BY <1>5, <1>11, <2>2
  <2>4. QED
    BY <2>3
<1>12. CASE UNCHANGED vars
  BY <1>6, <1>12
<1>13. QED
  BY <1>7, <1>8, <1>9, <1>10, <1>11, <1>12 DEF Next

(* The message is a set of registers: a loop of single-bit writes followed  *)
(* by word-wide decoding behaves as atomic stores and reads.                *)
THEOREM RegistersImplemented == Spec => ImplementsRegisters
<1>1. Init => Registers!Init
  <2> SUFFICES ASSUME Init PROVE Registers!Init
    OBVIOUS
  <2>1. ~ enc.active
    BY DEF Init, Returned
  <2>2. QED
    BY <2>1 DEF Init, Registers!Init, Usable, Created
<1>2. [](IInv => ReadsInv)
  BY ReadsInvHolds, PTL
<1>3. IInv /\ IInv' /\ ReadsInv /\ ReadsInv' /\ [Next]_vars
        => [Registers!Next]_(Registers!rvars)
  BY StepRefines DEF AGeometry, AStoring, AReads, Registers!rvars
<1>4. QED
  BY <1>1, <1>2, <1>3, Invariance, PTL
     DEF Spec, ImplementsRegisters, Registers!Spec

-----------------------------------------------------------------------------
(* The generated decoder is the library's, for every geometry, every        *)
(* message size and every buffer. The generator's conditions select the     *)
(* word the constructor's alignment selects, and the three nested byte      *)
(* swaps of the generated macros are one reversal of the eight bytes; what  *)
(* remains are the same masks and shifts.                                   *)

(* The macro bswap_16 swaps bytes below bit 16; bits above it do not count. *)
LEMMA Swap16Bits ==
    ASSUME NEW v \in Word, v \subseteq LowOnes(16), NEW b \in BitIndex
    PROVE  b \in Swap16(v) <=> IF b < 8 THEN b + 8 \in v ELSE b - 8 \in v /\ b < 16
BY DEF Swap16, Word, LowOnes, Shl, Shr, BitIndex

(* The nested macros for 32 bits reverse four bytes.                        *)
LEMMA Swap32Bits ==
    ASSUME NEW v \in Word, v \subseteq LowOnes(32), NEW b \in BitIndex
    PROVE  b \in Swap32(v) <=>
             /\ b < 32
             /\ IF b < 8 THEN b + 24 \in v
                ELSE IF b < 16 THEN b + 8 \in v
                ELSE IF b < 24 THEN b - 8 \in v
                ELSE b - 24 \in v
<1> DEFINE low  == v \cap LowOnes(16)
           high == Shr(v, 16) \cap LowOnes(16)
<1>1. /\ low \in Word /\ low \subseteq LowOnes(16)
      /\ high \in Word /\ high \subseteq LowOnes(16)
  BY DEF Word, LowOnes
<1>2. /\ \A c \in BitIndex : c \in low <=> c < 16 /\ c \in v
      /\ \A c \in BitIndex : c \in high <=> c < 16 /\ c + 16 \in v
  BY DEF LowOnes, Shr
<1>3. \A c \in BitIndex :
        /\ c \in Swap16(low) <=>
             IF c < 8 THEN c + 8 \in low ELSE c - 8 \in low /\ c < 16
        /\ c \in Swap16(high) <=>
             IF c < 8 THEN c + 8 \in high ELSE c - 8 \in high /\ c < 16
  BY <1>1, Swap16Bits
<1>4. Swap16(low) \subseteq BitIndex
  BY DEF Swap16, Shl, Shr
<1>5. b \in Swap32(v) <=> b - 16 \in Swap16(low) \/ b \in Swap16(high)
  BY DEF Swap32, Shl
<1> HIDE DEF low, high
<1>6. CASE b < 16
  <2>1. b - 16 \notin Swap16(low)
    BY <1>4, <1>6 DEF BitIndex
  <2>2. QED
    BY <1>2, <1>3, <1>5, <1>6, <2>1 DEF BitIndex
<1>7. CASE b >= 16
  <2>1. b \notin Swap16(high)
    BY <1>3, <1>7 DEF BitIndex
  <2>2. b - 16 \in Swap16(low) <=>
          /\ b < 32
          /\ IF b < 24 THEN b - 8 \in v ELSE b - 24 \in v
    <3>1. CASE b < 32
      BY <1>2, <1>3, <1>7, <3>1 DEF BitIndex
    <3>2. CASE b >= 32
      <4>1. b - 16 \in BitIndex /\ ~ (b - 16 < 8) /\ ~ (b - 16 < 16)
        BY <3>2 DEF BitIndex
      <4>2. QED
        BY <1>3, <3>2, <4>1 DEF BitIndex
    <3>3. QED
      BY <3>1, <3>2 DEF BitIndex
  <2>3. QED
    BY <1>5, <1>7, <2>1, <2>2 DEF BitIndex
<1>8. QED
  BY <1>6, <1>7 DEF BitIndex

(* The macro bswap_64 of the generated file is the library's byte reversal. *)
LEMMA Swap64IsReversal ==
    ASSUME NEW w \in Word
    PROVE  Swap64(w) = bswap_64(w)
<1> DEFINE low  == w \cap LowOnes(32)
           high == Shr(w, 32) \cap LowOnes(32)
<1>1. /\ low \in Word /\ low \subseteq LowOnes(32)
      /\ high \in Word /\ high \subseteq LowOnes(32)
  BY DEF Word, LowOnes
<1>2. /\ \A c \in BitIndex : c \in low <=> c < 32 /\ c \in w
      /\ \A c \in BitIndex : c \in high <=> c < 32 /\ c + 32 \in w
  BY DEF LowOnes, Shr
<1>3. /\ \A c \in BitIndex : c \in Swap32(low) <=>
             /\ c < 32
             /\ IF c < 8 THEN c + 24 \in low
                ELSE IF c < 16 THEN c + 8 \in low
                ELSE IF c < 24 THEN c - 8 \in low
                ELSE c - 24 \in low
      /\ \A c \in BitIndex : c \in Swap32(high) <=>
             /\ c < 32
             /\ IF c < 8 THEN c + 24 \in high
                ELSE IF c < 16 THEN c + 8 \in high
                ELSE IF c < 24 THEN c - 8 \in high
                ELSE c - 24 \in high
  BY <1>1, Swap32Bits
<1>4. /\ Swap32(low) \subseteq BitIndex /\ Swap32(high) \subseteq BitIndex
  BY DEF Swap32, Swap16, Shl, Shr
<1>5. \A b \in BitIndex :
        b \in Swap64(w) <=> b - 32 \in Swap32(low) \/ b \in Swap32(high)
  BY DEF Swap64, Shl
<1>6. Swap64(w) \subseteq BitIndex /\ bswap_64(w) \subseteq BitIndex
  BY <1>4 DEF Swap64, Shl, bswap_64
<1> HIDE DEF low, high
<1>7. ASSUME NEW b \in BitIndex
      PROVE  b \in Swap64(w) <=> 8 * (7 - (b \div 8)) + (b % 8) \in w
  <2>1. CASE b < 32
    <3>1. b - 32 \notin Swap32(low)
      BY <1>4, <2>1 DEF BitIndex
    <3>2. b \in Swap32(high) <=>
            IF b < 8 THEN b + 56 \in w
            ELSE IF b < 16 THEN b + 40 \in w
            ELSE IF b < 24 THEN b + 24 \in w
            ELSE b + 8 \in w
      BY <1>2, <1>3, <2>1 DEF BitIndex
    <3>3. 8 * (7 - (b \div 8)) + (b % 8)
            = IF b < 8 THEN b + 56 ELSE IF b < 16 THEN b + 40
              ELSE IF b < 24 THEN b + 24 ELSE b + 8
      BY <2>1 DEF BitIndex
    <3>4. QED
      BY <1>5, <3>1, <3>2, <3>3
  <2>2. CASE b >= 32
    <3>1. b \notin Swap32(high)
      BY <1>3, <2>2 DEF BitIndex
    <3>2. b - 32 \in Swap32(low) <=>
            IF b < 40 THEN b - 8 \in w
            ELSE IF b < 48 THEN b - 24 \in w
            ELSE IF b < 56 THEN b - 40 \in w
            ELSE b - 56 \in w
      BY <1>2, <1>3, <2>2 DEF BitIndex
    <3>3. 8 * (7 - (b \div 8)) + (b % 8)
            = IF b < 40 THEN b - 8 ELSE IF b < 48 THEN b - 24
              ELSE IF b < 56 THEN b - 40 ELSE b - 56
      BY <2>2 DEF BitIndex
    <3>4. QED
      BY <1>5, <3>1, <3>2, <3>3
  <2>3. QED
    BY <2>1, <2>2 DEF BitIndex
<1>8. \A b \in BitIndex : b \in Swap64(w) <=> b \in bswap_64(w)
  BY <1>7 DEF bswap_64
<1>9. QED
  BY <1>6, <1>8

-----------------------------------------------------------------------------
(* The generator's conditions are the constructor's. *)
LEMMA GeneratorSelectsAlignment ==
    ASSUME NEW g \in Geometry, NEW n \in Nat
    PROVE  /\ InFirstWord(Create(n, g)) <=> Alignment(g) = "first_64_bit"
           /\ InOneWord(Create(n, g)) <=> Alignment(g) # "does_not_fit"
           /\ Alignment(g) # "first_64_bit" => MemberBytePos(Create(n, g)) = BytePos(g)
           /\ Alignment(g) = "first_64_bit" => BytePos(g) = 0
<1> DEFINE q == g.start_bit \div 8
<1>1. g.start_bit \in Nat /\ NBytes(g) \in 1 .. 9
  BY ByteCount DEF Geometry
<1>2. q \in Nat /\ q % 8 \in 0 .. 7 /\ q - (q % 8) \in Nat /\ (q < 8 => q % 8 = q)
  BY <1>1
<1>3. MemberBytePos(Create(n, g))
        = IF Alignment(g) = "first_64_bit" THEN q ELSE BytePos(g)
  BY DEF MemberBytePos, Create
<1>4. BytePos(g) = IF Alignment(g) = "first_64_bit" THEN 0
                   ELSE IF Alignment(g) = "aligned_64_bit" THEN q - (q % 8)
                   ELSE q
  BY DEF BytePos
<1>5. Alignment(g) = IF q + NBytes(g) <= 8 THEN "first_64_bit"
                     ELSE IF (q % 8) + NBytes(g) <= 8 THEN "aligned_64_bit"
                     ELSE IF NBytes(g) <= 8 THEN "unaligned_64_bit"
                     ELSE "does_not_fit"
  BY DEF Alignment
<1>6. /\ InFirstWord(Create(n, g)) <=> MemberBytePos(Create(n, g)) + NBytes(g) <= 8
      /\ InOneWord(Create(n, g)) <=> \/ MemberBytePos(Create(n, g)) + NBytes(g) <= 8
                                     \/ NBytes(g) <= 8
  BY DEF InFirstWord, InOneWord, Create
<1>7. (q % 8) + NBytes(g) <= 8 /\ q + NBytes(g) > 8 => q - (q % 8) >= 8
  BY <1>1, <1>2
<1> HIDE DEF q
<1>8. QED
  BY <1>1, <1>2, <1>3, <1>4, <1>5, <1>6, <1>7

(* The word a generated function shifts and masks is the decoder's. *)
LEMMA GeneratedNative ==
    ASSUME NEW g \in Geometry, NEW n \in Nat, NEW mem
    PROVE  dbcppp_native(Create(n, g), Load64(mem, BytePos(g)))
             = NativeWord(Create(n, g), mem)
<1>1. Load64(mem, BytePos(g)) \in Word
  BY DEF Load64, Word
<1>2. QED
  BY <1>1, Swap64IsReversal DEF dbcppp_native, NativeWord, Create

(* One signal: what GeneratedDecodesAlike says of it. *)
LEMMA GeneratedDecodeIsDecode ==
    ASSUME NEW g \in Geometry, NEW n \in Nat, NEW mem,
           Create(n, g).error = {}
    PROVE  IF g.extended_value_type = "Float"
             THEN GeneratedDecode(Create(n, g), mem) \cap (0 .. 31)
                    = Decode(Create(n, g), mem)
             ELSE GeneratedDecode(Create(n, g), mem) = Decode(Create(n, g), mem)
<1> DEFINE s == Create(n, g)
           t == g.extended_value_type
           w == NativeWord(s, mem)
<1>1. /\ s.geometry = g /\ s.alignment = Alignment(g) /\ s.byte_pos = BytePos(g)
      /\ s.mask = Mask(g)
  BY DEF Create
<1>2. t = "Float" => g.bit_size = 32
  BY DEF Create, Errors
<1>3. CASE Alignment(g) # "does_not_fit"
  <2>1. (IF InFirstWord(s) THEN 0 ELSE MemberBytePos(s)) = BytePos(g)
    BY GeneratorSelectsAlignment
  <2>2. dbcppp_native(s, Load64(mem, IF InFirstWord(s) THEN 0 ELSE MemberBytePos(s))) = w
    BY <2>1, GeneratedNative
  <2>3. GeneratedDecode(s, mem)
          = IF t = "Double" THEN w
            ELSE IF t = "Float" THEN Shr(w, s.fixed_start_bit_0)
            ELSE SignExtend(s, Shr(w, s.fixed_start_bit_0) \cap s.mask)
    BY <1>1, <1>3, <2>2, GeneratorSelectsAlignment DEF GeneratedDecode, GeneratedWord
  <2>4. Decode(s, mem)
          = SignExtend(s, IF t = "Double" THEN w
                          ELSE Shr(w, s.fixed_start_bit_0) \cap s.mask)
    BY <1>1, <1>3 DEF Decode, DecodeWord
  <2>5. t # "Integer" => \A v : SignExtend(s, v) = v
    BY <1>1 DEF SignExtend
  <2>6. ASSUME t = "Float"
        PROVE  Shr(w, s.fixed_start_bit_0) \cap (0 .. 31)
                 = Shr(w, s.fixed_start_bit_0) \cap s.mask
    <3>1. s.mask = { b \in BitIndex : b < 32 }
      BY <1>1, <1>2, <1>3, <2>6 DEF Mask, MaskShift, LowOnes
    <3>2. s.mask = 0 .. 31
      BY <3>1 DEF BitIndex
    <3>3. QED
      BY <3>2
  <2> HIDE DEF s, w, t
  <2>7. t \in {"Integer", "Float", "Double"}
    BY DEF Geometry, t
  <2>8. QED
    BY <2>3, <2>4, <2>5, <2>6, <2>7 DEF s, t
<1>4. CASE Alignment(g) = "does_not_fit"
  <2>1. t # "Float"
    <3>1. NBytes(g) = 9
      BY <1>4, SplitShape
    <3>2. 8 * NBytes(g) <= g.bit_size + 14
      BY ByteCount DEF Geometry
    <3>3. g.bit_size # 32
      BY <3>1, <3>2
    <3>4. QED
      BY <1>2, <3>3
  <2>2. MemberBytePos(s) = BytePos(g) /\ ~ InOneWord(s)
    BY <1>4, GeneratorSelectsAlignment
  <2>3. GeneratedDecode(s, mem) = SignExtend(s, DecodeSplit(s, mem))
    BY <1>1, <2>2, GeneratedNative
       DEF GeneratedDecode, GeneratedSplit, DecodeSplit
  <2>4. Decode(s, mem) = SignExtend(s, DecodeSplit(s, mem))
    BY <1>1, <1>4 DEF Decode
  <2>5. QED
    BY <2>1, <2>3, <2>4
<1>5. QED
  BY <1>3, <1>4

(* Network2C.cpp: every generated function returns what the library's       *)
(* decoder returns, above the bits of a float excepted.                     *)
THEOREM GeneratedDecodesAlikeAlways == Spec => []GeneratedDecodesAlike
<1>1. TypeOK => GeneratedDecodesAlike
  <2> SUFFICES ASSUME TypeOK, NEW s \in Signals, Usable(s), NEW mem \in Memory
               PROVE  IF Geo(s).extended_value_type = "Float"
                        THEN GeneratedDecode(sig[s], mem) \cap (0 .. 31)
                               = Decode(sig[s], mem)
                        ELSE GeneratedDecode(sig[s], mem) = Decode(sig[s], mem)
    BY DEF GeneratedDecodesAlike
  <2>1. /\ Geo(s) \in Geometry /\ sig[s] = Create(MessageSize, Geo(s))
        /\ sig[s].error = {}
    BY CreatedObject DEF Usable
  <2>2. QED
    BY <2>1, MessageSizeAssumption, GeneratedDecodeIsDecode
<1>2. QED
  BY <1>1, TypeCorrect, PTL

-----------------------------------------------------------------------------
(* What the generated function returns for a float.                         *)

(* The bits of the loaded word, and those of the signal if it went on past  *)
(* its last bit to the end of the word.                                     *)
Window(g)         == 8 * BytePos(g) .. 8 * BytePos(g) + 63
Prolonged(g, mem) == { b \in BitIndex : BitAddress(g, b) \in Window(g) \cap mem }

(* Counting from the top of each byte leaves a bit in its word.             *)
LEMMA FromTopInWindow ==
    ASSUME NEW y \in Int, NEW q \in Nat
    PROVE  FromTop(y) \in 8 * q .. 8 * q + 63 <=> y \in 8 * q .. 8 * q + 63
BY DEF FromTop

(* The shifted word is the signal and what follows it, in little endian.    *)
LEMMA ShiftedLE ==
    ASSUME NEW g \in Geometry, g.byte_order = "LittleEndian",
           Alignment(g) # "does_not_fit", NEW n \in Nat, NEW mem
    PROVE  Shr(NativeWord(Create(n, g), mem), FixedStartBit0(g)) = Prolonged(g, mem)
<1> DEFINE p == BytePos(g)
           f == FixedStartBit0(g)
<1>1. NativeWord(Create(n, g), mem) = Load64(mem, p)
  BY DEF NativeWord, Create
<1>2. p \in Nat /\ f \in Nat /\ f = g.start_bit - 8 * p /\ g.start_bit \in Nat
  BY WindowLE DEF Geometry
<1> HIDE DEF p, f
<1>3. ASSUME NEW b \in BitIndex
      PROVE  b \in Shr(Load64(mem, p), f)
               <=> g.start_bit + b \in (8 * p .. 8 * p + 63) \cap mem
  BY <1>2 DEF Shr, Load64, BitIndex
<1>4. \A b : BitAddress(g, b) = g.start_bit + b
  BY DEF BitAddress
<1>5. Shr(Load64(mem, p), f) \subseteq BitIndex
  BY DEF Shr
<1>6. QED
  BY <1>1, <1>3, <1>4, <1>5 DEF Prolonged, Window, p, f

(* The same in big endian, where what follows it is above it in the frame.  *)
LEMMA ShiftedBE ==
    ASSUME NEW g \in Geometry, g.byte_order = "BigEndian",
           Alignment(g) # "does_not_fit", NEW n \in Nat, NEW mem
    PROVE  Shr(NativeWord(Create(n, g), mem), FixedStartBit0(g)) = Prolonged(g, mem)
<1> DEFINE p   == BytePos(g)
           f   == FixedStartBit0(g)
           top == FromTop(g.start_bit)
           l(b) == top + (g.bit_size - 1 - b)
<1>1. NativeWord(Create(n, g), mem) = bswap_64(Load64(mem, p))
  BY DEF NativeWord, Create
<1>2. p \in Nat /\ f \in Nat /\ f + g.bit_size - 1 + top = 63 + 8 * p
  BY WindowBE
<1>3. top \in Nat /\ g.bit_size \in Nat
  BY FromTopInvolution DEF Geometry
<1>4. \A b : BitAddress(g, b) = FromTop(l(b))
  BY DEF BitAddress, SawtoothBit
<1> HIDE DEF p, f, top
<1>5. ASSUME NEW b \in BitIndex
      PROVE  b \in Shr(bswap_64(Load64(mem, p)), f)
               <=> FromTop(l(b)) \in (8 * p .. 8 * p + 63) \cap mem
  <2>1. b \in Nat /\ l(b) \in Int /\ b + f + l(b) = 63 + 8 * p
    BY <1>2, <1>3 DEF BitIndex
  <2> DEFINE x == b + f
             y == l(b)
  <2>2. x \in Nat /\ y \in Int /\ x + y = 63 + 8 * p
    BY <1>2, <2>1
  <2> HIDE DEF x, y
  <2>3. x \in BitIndex <=> y \in 8 * p .. 8 * p + 63
    BY <1>2, <2>2 DEF BitIndex
  <2>4. x \in BitIndex <=> FromTop(y) \in 8 * p .. 8 * p + 63
    BY <1>2, <2>2, <2>3, FromTopInWindow
  <2>5. ASSUME x \in BitIndex
        PROVE  x \in bswap_64(Load64(mem, p)) <=> FromTop(y) \in mem
    <3>1. y \in Nat
      BY <1>2, <2>2, <2>3, <2>5
    <3>2. 8 * p + (8 * (7 - (x \div 8)) + (x % 8)) = FromTop(y)
      BY <1>2, <2>2, <3>1, SwapIsFromTop, Zenon
    <3>3. 8 * (7 - (x \div 8)) + (x % 8) \in BitIndex
      BY <2>2, <2>5 DEF BitIndex
    <3> QED
      BY <2>5, <3>2, <3>3 DEF bswap_64, Load64
  <2>6. x \in bswap_64(Load64(mem, p)) => x \in BitIndex
    BY DEF bswap_64
  <2>7. b \in Shr(bswap_64(Load64(mem, p)), f) <=> x \in bswap_64(Load64(mem, p))
    BY DEF Shr, x
  <2> QED
    BY <2>4, <2>5, <2>6, <2>7 DEF y
<1>6. Shr(bswap_64(Load64(mem, p)), f) \subseteq BitIndex
  BY DEF Shr
<1> HIDE DEF l
<1>7. QED
  BY <1>1, <1>4, <1>5, <1>6 DEF Prolonged, Window, p, f

(* One float: what GeneratedFloatProlonged says of it.                      *)
LEMMA GeneratedFloat ==
    ASSUME NEW g \in Geometry, g.extended_value_type = "Float", NEW n \in Nat, NEW mem,
           Create(n, g).error = {}
    PROVE  /\ GeneratedDecode(Create(n, g), mem) = Prolonged(g, mem)
           /\ Prolonged(g, mem) \cap (0 .. 31) = Decode(Create(n, g), mem)
<1> DEFINE s == Create(n, g)
           w == NativeWord(s, mem)
<1>1. /\ s.geometry = g /\ s.fixed_start_bit_0 = FixedStartBit0(g)
      /\ g.bit_size = 32
  BY DEF Create, Errors
<1>2. Alignment(g) # "does_not_fit"
  <2>1. 8 * NBytes(g) <= g.bit_size + 14 /\ NBytes(g) \in Nat
    BY ByteCount DEF Geometry
  <2>2. NBytes(g) # 9
    BY <1>1, <2>1
  <2>3. QED
    BY <2>2, SplitShape
<1>3. GeneratedDecode(s, mem) = Shr(w, FixedStartBit0(g))
  <2>1. (IF InFirstWord(s) THEN 0 ELSE MemberBytePos(s)) = BytePos(g)
    BY <1>2, GeneratorSelectsAlignment
  <2>2. dbcppp_native(s, Load64(mem, IF InFirstWord(s) THEN 0 ELSE MemberBytePos(s))) = w
    BY <2>1, GeneratedNative
  <2>3. InOneWord(s)
    BY <1>2, GeneratorSelectsAlignment
  <2>4. QED
    BY <1>1, <2>2, <2>3 DEF GeneratedDecode, GeneratedWord
<1>4. Shr(w, FixedStartBit0(g)) = Prolonged(g, mem)
  <2>1. CASE g.byte_order = "LittleEndian"
    BY <1>2, <2>1, ShiftedLE
  <2>2. CASE g.byte_order = "BigEndian"
    BY <1>2, <2>2, ShiftedBE
  <2>3. QED
    BY <2>1, <2>2 DEF Geometry
<1>5. GeneratedDecode(s, mem) \cap (0 .. 31) = Decode(s, mem)
  BY GeneratedDecodeIsDecode
<1>6. QED
  BY <1>3, <1>4, <1>5

(* Network2C.cpp: the generated function for a float returns the signal     *)
(* prolonged to the end of the word it loads. So it returns what the        *)
(* library's decoder does exactly if the bits of the word after the signal  *)
(* are 0.                                                                   *)
GeneratedFloatProlonged ==
    \A s \in Signals : Usable(s) /\ Geo(s).extended_value_type = "Float" =>
        \A mem \in Memory :
            /\ GeneratedDecode(sig[s], mem) = Prolonged(Geo(s), mem)
            /\ GeneratedDecode(sig[s], mem) = Decode(sig[s], mem)
                 <=> \A b \in 32 .. 63 :
                        BitAddress(Geo(s), b) \notin Window(Geo(s)) \cap mem

(* Network2C.cpp, for every float and every buffer.                         *)
THEOREM GeneratedFloatProlongedAlways == Spec => []GeneratedFloatProlonged
<1>1. TypeOK => GeneratedFloatProlonged
  <2> SUFFICES ASSUME TypeOK, NEW s \in Signals, Usable(s),
                      Geo(s).extended_value_type = "Float", NEW mem \in Memory
               PROVE  /\ GeneratedDecode(sig[s], mem) = Prolonged(Geo(s), mem)
                      /\ GeneratedDecode(sig[s], mem) = Decode(sig[s], mem)
                           <=> \A b \in 32 .. 63 :
                                  BitAddress(Geo(s), b) \notin Window(Geo(s)) \cap mem
    BY DEF GeneratedFloatProlonged
  <2> DEFINE long == Prolonged(Geo(s), mem)
  <2>1. /\ Geo(s) \in Geometry /\ sig[s] = Create(MessageSize, Geo(s))
        /\ sig[s].error = {}
    BY CreatedObject DEF Usable
  <2>2. /\ GeneratedDecode(sig[s], mem) = long
        /\ Decode(sig[s], mem) = long \cap (0 .. 31)
    BY <2>1, MessageSizeAssumption, GeneratedFloat
  <2>3. \A b \in BitIndex : b \in long <=> BitAddress(Geo(s), b) \in Window(Geo(s)) \cap mem
    BY DEF Prolonged
  <2>4. long \subseteq BitIndex
    BY DEF Prolonged
  <2> HIDE DEF long
  <2>5. long = long \cap (0 .. 31) <=> \A b \in 32 .. 63 : b \notin long
    <3>1. /\ BitIndex = (0 .. 31) \cup (32 .. 63)
          /\ \A b \in 32 .. 63 : b \notin 0 .. 31
      BY DEF BitIndex
    <3>2. ASSUME \A b \in 32 .. 63 : b \notin long
          PROVE  long \subseteq long \cap (0 .. 31)
      BY <2>4, <3>1, <3>2, Zenon
    <3>3. ASSUME long = long \cap (0 .. 31)
          PROVE  \A b \in 32 .. 63 : b \notin long
      BY <3>1, <3>3
    <3> QED
      BY <3>2, <3>3
  <2>6. \A b \in 32 .. 63 : b \in BitIndex
    BY DEF BitIndex
  <2>7. QED
    BY <2>2, <2>3, <2>5, <2>6 DEF long
<1>2. QED
  BY <1>1, TypeCorrect, PTL

-----------------------------------------------------------------------------
(* That encode() returns. Fairness is not needed for this half of           *)
(* EncodeReturns: there is a number for each step of a call to lower.       *)

(* The iterations a call has left, and its return.                          *)
EncodeLeft == IF enc.active THEN Geo(enc.sig).bit_size - enc.i + 1 ELSE 0

(* SignalImpl.cpp, encode(): every step within a call, which is the thread  *)
(* it runs in, lowers the number of what is left.                           *)
EncodeStepsDown == [][enc.active => EncodeLeft' < EncodeLeft]_vars

(* What is left of a call is a number, above 0 until it has returned.       *)
LEMMA EncodeLeftIs ==
    ASSUME IInv
    PROVE  EncodeLeft \in Nat /\ (enc.active => EncodeLeft > 0)
  <1>1. CASE enc.active
    <2> DEFINE n == Geo(enc.sig).bit_size
               k == enc.i
    <2>1. n \in Nat /\ k \in Nat /\ k <= n
      BY <1>1, CreatedObject DEF IInv, TypeOK, Locals, WalkInv, Usable, Geometry
    <2>2. EncodeLeft = n - k + 1
      BY <1>1 DEF EncodeLeft
    <2> HIDE DEF n, k
    <2>3. n - k + 1 \in Nat /\ n - k + 1 > 0
      BY <2>1
    <2> QED
      BY <2>2, <2>3
  <1>2. CASE ~ enc.active
    BY <1>2 DEF EncodeLeft
  <1> QED
    BY <1>1, <1>2

(* One iteration more leaves less.                                          *)
LEMMA OneLess ==
    ASSUME NEW n \in Int, NEW k \in Int
    PROVE  n - (k + 1) + 1 < n - k + 1
  OBVIOUS

(* The steps of a call. *)
LEMMA EncodeDown ==
    ASSUME IInv, Next, enc.active
    PROVE  EncodeLeft' < EncodeLeft
  <1>1. EncodeBit \/ EncodeReturn
    BY DEF Next, CreateSignal, ReceiveFrame, EncodeCall
  <1>2. CASE EncodeBit
    <2> DEFINE n == Geo(enc.sig).bit_size
               k == enc.i
    <2>1. /\ enc'.active /\ enc'.sig = enc.sig /\ enc'.i = k + 1 /\ sig' = sig
      BY <1>2 DEF EncodeBit, IInv, TypeOK, Locals
    <2>2. n \in Int /\ k \in Int
      BY CreatedObject DEF IInv, TypeOK, Locals, WalkInv, Usable, Geometry
    <2>3. EncodeLeft' = n - (k + 1) + 1 /\ EncodeLeft = n - k + 1
      BY <2>1, Zenon DEF EncodeLeft, Geo
    <2> HIDE DEF n, k
    <2> QED
      BY <2>2, <2>3, OneLess
  <1>3. CASE EncodeReturn
    <2>1. ~ enc'.active
      BY <1>3 DEF EncodeReturn, Returned
    <2>2. EncodeLeft' = 0
      BY <2>1 DEF EncodeLeft
    <2> QED
      BY <2>2, EncodeLeftIs
  <1> QED
    BY <1>1, <1>2, <1>3

(* encode() returns from every call, whatever the geometry: each of its     *)
(* steps lowers a natural number, and no other step comes between them.     *)
THEOREM EncodeStepsDownAlways == Spec => [](EncodeLeft \in Nat) /\ EncodeStepsDown
  <1>1. IInv => EncodeLeft \in Nat
    BY EncodeLeftIs
  <1>2. IInv /\ [Next]_vars => [enc.active => EncodeLeft' < EncodeLeft]_vars
    BY EncodeDown
  <1> QED
    BY Invariance, <1>1, <1>2, PTL DEF Spec, EncodeStepsDown
=============================================================================

---------------------------- MODULE SignalFrame ----------------------------
(***************************************************************************)
(* The signals of one message and the frame buffer they share.             *)
(*                                                                         *)
(* A user creates signals (ISignal::Create), encodes raw values into the   *)
(* buffer and decodes them back. encode() is modelled loop iteration by    *)
(* loop iteration; Decode changes no state and is the operator of          *)
(* SignalImpl, evaluated by the properties on every reachable buffer.      *)
(***************************************************************************)
EXTENDS SignalImpl

CONSTANTS
    Signals,      \* names of the signals of the message
    Geometries,   \* the geometries a signal may be created with
    MessageSize,  \* the message size of the DBC file, in bytes
    RawValues,    \* the raw values the user encodes
    Frames,       \* the buffer contents received from the bus
    Surroundings, \* what the memory behind the buffer may hold
    NoSignal      \* a signal not created yet

BufferBits == 0 .. 8 * FrameBytes(MessageSize) - 1

ASSUME GeometriesAssumption   == Geometries \subseteq Geometry
ASSUME MessageSizeAssumption  == MessageSize \in Nat
ASSUME RawValuesAssumption    == RawValues \subseteq Word
ASSUME FramesAssumption       == Frames \subseteq SUBSET BufferBits
ASSUME SurroundingsAssumption ==
    \A m \in Surroundings : m \cap BufferBits = {} /\ m \subseteq Nat
ASSUME NoSignalAssumption     ==
    \A g \in Geometries : NoSignal # Create(MessageSize, g) /\ NoSignal # g

VARIABLES
    sig,      \* sig[s]: the SignalImpl object of s, or NoSignal
    frame,    \* the addresses of the 1 bits of the frame buffer
    enc,      \* the locals of the running encode(), active or not
    written   \* history: written[s] is the raw value s was last encoded
              \* with, if nothing overwrote one of its bits since ({} or {v})

vars == << sig, frame, enc, written >>

Created(s)  == sig[s] # NoSignal
(* A signal whose constructor reported an error may lie outside the buffer; *)
(* the user is expected to look at Error() before using it.                 *)
Usable(s)   == Created(s) /\ sig[s].error = {}
Geo(s)      == sig[s].geometry
Overlap(s, t) ==
    Created(s) /\ Created(t) /\ SignalBits(Geo(s)) \cap SignalBits(Geo(t)) # {}

Locals ==
    [ active : BOOLEAN, sig : Signals, raw : Word,
      i : 0 .. 64, src : Nat, dst : Int, before : SUBSET BufferBits ]

(* No call of encode() is running; s was the signal of the last one. *)
Returned(s) ==
    [ active |-> FALSE, sig |-> s, raw |-> {}, i |-> 0,
      src |-> 0, dst |-> 0, before |-> {} ]

Init ==
    /\ sig = [s \in Signals |-> NoSignal]
    /\ frame = {}
    /\ enc \in { Returned(s) : s \in Signals }
    /\ written = [s \in Signals |-> {}]

-----------------------------------------------------------------------------
CreateSignal(s, g) ==
    /\ ~ enc.active
    /\ ~ Created(s)
    /\ sig' = [sig EXCEPT ![s] = Create(MessageSize, g)]
    /\ UNCHANGED << frame, enc, written >>

(* The user copies a received frame over the buffer. *)
ReceiveFrame(f) ==
    /\ ~ enc.active
    /\ frame' = f
    /\ written' = [s \in Signals |-> {}]
    /\ UNCHANGED << sig, enc >>

(* encode() is entered: src and dst are set up. enc.before keeps the buffer *)
(* of this moment for the properties.                                       *)
EncodeCall(s, raw) ==
    LET w == WalkStart(Geo(s))
    IN  /\ ~ enc.active
        /\ Usable(s)
        /\ enc' = [ active |-> TRUE, sig |-> s, raw |-> raw, i |-> 0,
                    src |-> w.src, dst |-> w.dst, before |-> frame ]
        /\ written' = [t \in Signals |-> IF t = s \/ Overlap(s, t) THEN {}
                                         ELSE written[t]]
        /\ UNCHANGED << sig, frame >>

(* Mutant: an iteration that finds the bit as it should be `continue's      *)
(* before it has moved the walk on.                                         *)
EncodeBit_ContinuesEarly ==
    LET g == Geo(enc.sig)
        w == WalkNext(g, [src |-> enc.src, dst |-> enc.dst])
    IN  /\ enc.active
        /\ enc.i < g.bit_size
        /\ (enc.src \in frame) # (enc.dst \in enc.raw)
        /\ frame' = PutBit(frame, enc.src, enc.raw, enc.dst)
        /\ enc' = [enc EXCEPT !.i = @ + 1, !.src = w.src, !.dst = w.dst]
        /\ UNCHANGED << sig, written >>

(* One iteration of the loop. *)
EncodeBit ==
    LET g == Geo(enc.sig)
        w == WalkNext(g, [src |-> enc.src, dst |-> enc.dst])
    IN  /\ enc.active
        /\ enc.i < g.bit_size
        /\ frame' = PutBit(frame, enc.src, enc.raw, enc.dst)
        /\ enc' = [enc EXCEPT !.i = @ + 1, !.src = w.src, !.dst = w.dst]
        /\ UNCHANGED << sig, written >>

EncodeReturn ==
    /\ enc.active
    /\ enc.i = Geo(enc.sig).bit_size
    /\ enc' = Returned(enc.sig)
    /\ written' = [written EXCEPT ![enc.sig] = {enc.raw}]
    /\ UNCHANGED << sig, frame >>

Next ==
    \/ \E s \in Signals, g \in Geometries : CreateSignal(s, g)
    \/ \E f \in Frames : ReceiveFrame(f)
    \/ \E s \in Signals, raw \in RawValues : EncodeCall(s, raw)
    \/ EncodeBit
    \/ EncodeReturn

Spec == Init /\ [][Next]_vars

(* A call of encode(), once entered, is run by its thread. Nothing obliges  *)
(* the user to make another one.                                            *)
FairSpec == Spec /\ WF_vars(EncodeBit) /\ WF_vars(EncodeReturn)

-----------------------------------------------------------------------------
(* Every variable has its type; a created object is one the constructor     *)
(* returns for a geometry of Geometries, its derived members included.      *)
TypeOK ==
    /\ sig \in [Signals -> {NoSignal}
                   \cup { Create(MessageSize, g) : g \in Geometries }]
    /\ frame \in SUBSET BufferBits
    /\ enc \in Locals
    /\ written \in [Signals -> SUBSET RawValues]

(* The memory a decoder may find at the buffer: its bytes and whatever is   *)
(* behind them.                                                             *)
Memory == { frame \cup m : m \in Surroundings }

(* SignalImpl.cpp, template_decode and the constructor: the optimised       *)
(* decoder, word loads, swaps, shifts and masks, returns for every usable   *)
(* signal and every buffer what the bit-by-bit decoder of                   *)
(* tests/DecodingTest.cpp returns, whatever lies behind the buffer.         *)
DecodeIsBitWalk ==
    \A s \in Signals : Usable(s) =>
        \A mem \in Memory : Decode(sig[s], mem) = EasyDecode(Geo(s), frame)

(* encode and template_decode agree: a value encoded into a signal decodes  *)
(* to its low bits, sign extended where the signal is signed, until a frame *)
(* is received or a signal sharing a bit with it is encoded, and also while *)
(* other signals are being encoded.                                         *)
EncodedValueReadsBack ==
    \A s \in Signals : \A raw \in written[s] : \A mem \in Memory :
        Decode(sig[s], mem)
          = Extended(Geo(s), raw \cap (0 .. Geo(s).bit_size - 1))

(* The constructor's size check is exact: it flags a signal if and only if  *)
(* the walk of encode() would leave the message's bytes, for both byte      *)
(* orders.                                                                  *)
ErrorIffOutsideFrame ==
    \A s \in Signals : Created(s) =>
        ("SignalExceedsMessageSize" \in sig[s].error
            <=> ~ (SignalBits(Geo(s)) \subseteq BufferBits))

(* The loop of encode() writes inside the buffer at every iteration, the    *)
(* bit it is at is the one the layout assigns to bit dst of the raw value,  *)
(* and its shift `1ull << dst' is below 64.                                 *)
EncodeInBounds ==
    enc.active /\ enc.i < Geo(enc.sig).bit_size =>
        /\ enc.src \in BufferBits
        /\ enc.dst \in BitIndex
        /\ enc.src = BitAddress(Geo(enc.sig), enc.dst)

(* No shift the constructor or a decoder makes is by 64 or more (undefined  *)
(* in C++), and none of the unsigned subtractions that compute the shifts   *)
(* wraps around; an 8-bit operand is shifted by at most 8.                  *)
ShiftsDefined ==
    \A s \in Signals : Usable(s) =>
        LET g == Geo(s)
        IN  /\ MaskShift(g) \in BitIndex
            /\ sig[s].fixed_start_bit_0 \in BitIndex
            /\ sig[s].alignment = "does_not_fit" =>
                 IF g.byte_order = "BigEndian"
                   THEN sig[s].fixed_start_bit_1 \in 0 .. 8
                   ELSE sig[s].fixed_start_bit_1 \in BitIndex

(* encode() never changes a bit of the buffer outside the signal it writes. *)
EncodeKeepsOtherBits ==
    [][ EncodeBit =>
          \A a \in BufferBits \ SignalBits(Geo(enc.sig)) :
             a \in frame' <=> a \in frame ]_vars

(* encode() and Decode implement the registers: a loop of single-bit writes *)
(* into a shared buffer behaves as one store, and no store disturbs what a  *)
(* register apart from it reads as, not even half way.                      *)
Registers == INSTANCE MessageRegisters WITH
    geometry <- [s \in Signals |-> IF Usable(s) THEN Geo(s) ELSE NoSignal],
    storing  <- IF enc.active THEN { << enc.sig, enc.raw >> } ELSE {},
    reads    <- [s \in Signals |->
                   IF written[s] = {} THEN {} ELSE { Decode(sig[s], frame) }]
ImplementsRegisters == Registers!Spec

(* A call of encode() returns. *)
EncodeReturns == enc.active ~> ~ enc.active
=============================================================================

-------------------------- MODULE MessageRegisters --------------------------
(***************************************************************************)
(* What a message promises its user: each signal is a register. Once a     *)
(* store has finished, the register reads as the stored value cut to the   *)
(* signal's width and extended; it keeps doing so while other registers    *)
(* are stored to, until a store to a register that shares a bit with it    *)
(* begins or a frame is received. Nothing is promised in between.          *)
(***************************************************************************)
EXTENDS SignalImpl

CONSTANTS
    Signals,      \* names of the registers
    Geometries,   \* the geometries a register may have
    RawValues,    \* the values stored
    NoSignal      \* the geometry of a register that does not exist yet

VARIABLES
    geometry,     \* geometry[s], or NoSignal
    storing,      \* {<< s, raw >>} while raw is stored to s, else {}
    reads         \* {v} if reading s is bound to return v, else {}

rvars == << geometry, storing, reads >>

Exists(s) == geometry[s] # NoSignal
Shares(s, t) ==
    /\ Exists(s) /\ Exists(t)
    /\ SignalBits(geometry[s]) \cap SignalBits(geometry[t]) # {}

Init ==
    /\ geometry = [s \in Signals |-> NoSignal]
    /\ storing = {}
    /\ reads = [s \in Signals |-> {}]

Add(s, g) ==
    /\ storing = {}
    /\ ~ Exists(s)
    /\ geometry' = [geometry EXCEPT ![s] = g]
    /\ UNCHANGED << storing, reads >>

BeginStore(s, raw) ==
    /\ storing = {}
    /\ Exists(s)
    /\ storing' = { << s, raw >> }
    /\ reads' = [t \in Signals |-> IF t = s \/ Shares(s, t) THEN {}
                                   ELSE reads[t]]
    /\ UNCHANGED geometry

EndStore(s, raw) ==
    /\ storing = { << s, raw >> }
    /\ storing' = {}
    /\ reads' = [reads EXCEPT ![s] =
         { Extended(geometry[s], raw \cap (0 .. geometry[s].bit_size - 1)) }]
    /\ UNCHANGED geometry

Receive ==
    /\ storing = {}
    /\ reads' = [s \in Signals |-> {}]
    /\ UNCHANGED << geometry, storing >>

Next ==
    \/ \E s \in Signals, g \in Geometries : Add(s, g)
    \/ \E s \in Signals, raw \in RawValues : BeginStore(s, raw)
    \/ \E s \in Signals, raw \in RawValues : EndStore(s, raw)
    \/ Receive

Spec == Init /\ [][Next]_rvars
=============================================================================

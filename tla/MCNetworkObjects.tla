-------------------------- MODULE MCNetworkObjects --------------------------
(***************************************************************************)
(* The callers of the runs: one that uses every kind of object, and one    *)
(* that builds networks of multiplexed signals, or has loaded two networks *)
(* and copies, merges and releases them.                                   *)
(***************************************************************************)
EXTENDS NetworkObjects

AllKinds == Kind
MuxKinds == {"BitTiming", "Signal", "Message", "Network"}
OneIndicator == {"NoMux"}
AllIndicators == {"NoMux", "MuxSwitch", "MuxValue"}

(* A network of one message with two signals, numbered from i: the bit      *)
(* timing, the signals, the message, the network.                           *)
NewObject(kind, id, inline, indicator, mux, passed_for) ==
    [ kind |-> kind, id |-> id, inline |-> inline, indicator |-> indicator,
      mux |-> mux, error |-> FALSE, passed_for |-> passed_for,
      lists |-> [ l \in DOMAIN ListKinds[kind] |-> Buffer(id, l) ] ]
LoadedSignals(i, second) ==
    << NewObject("Signal", i + 1, {}, "MuxSwitch", Null, "signals"),
       NewObject("Signal", i + 2, {}, second, Null, "signals") >>
Loaded(i, second) ==
    LET signals == LoadedSignals(i, second)
        message == NewObject("Message", i + 3, {}, "NoMux",
                             MuxSignal(Buffer(i + 3, "signals"), signals), "messages")
        network == NewObject("Network", i + 4, {i}, "NoMux", Null, "none")
        objects == {signals[1], signals[2], message, network}
        blocks  == {Self(i + 4)} \cup UNION { Blocks(o) : o \in objects }
    IN  [ b \in blocks |->
            IF b = Self(i + 4) THEN << network >>
            ELSE IF b = Buffer(i + 4, "messages") THEN << message >>
            ELSE IF b = Buffer(i + 3, "signals") THEN signals
            ELSE << >> ]

LoadedInit ==
    /\ LET one == Loaded(1, "MuxSwitch")
           two == Loaded(6, "MuxValue")
       IN  mem = [ b \in DOMAIN one \cup DOMAIN two |->
                     IF b \in DOMAIN one THEN one[b] ELSE two[b] ]
    /\ handles = {Self(5), Self(10)}
    /\ created = 10

(* A caller with nothing in hand, who builds the last five objects. *)
Builds == 5
BuilderInit == mem = << >> /\ handles = {} /\ created = MaxObjects - Builds

(* Who has loaded networks does not build any beside them. *)
OnlyBuilt ==
    /\ created >= MaxObjects - Builds
    /\ \A b \in DOMAIN mem : b[1] > MaxObjects - Builds

LoadedSpec ==
    /\ LoadedInit \/ BuilderInit
    /\ [][ \/ OnlyBuilt /\ Creates
           \/ \E h \in handles : Free(h) \/ Clone(h)
           \/ \E h, other \in HandlesOf("Network") :
                \E grown \in SUBSET NonEmptyLists(other) : Merge(h, other, grown) ]_vars
=============================================================================

------------------------- MODULE DecodeTool_proofs -------------------------
(***************************************************************************)
(* Proofs about `dbcppp decode', for every set of files, command lines and *)
(* lines: what is printed for a line is what the file says is in it, by    *)
(* the bytes of that line alone. The walk along the switches is compared   *)
(* with Selected, the least set of signals closed under the file's rules;  *)
(* nothing is assumed about cycles, in which the walk does not end. If     *)
(* there are none a line is answered, since each step leads down.          *)
(***************************************************************************)
EXTENDS DecodeTool, WellFoundedInduction, TLAPS

(* A bus has the network of the first option that names it. *)
BusesInv ==
    /\ \A k \in 1 .. option - 1 : pc # "failed" => given[k].bus \in DOMAIN buses
    /\ \A b \in DOMAIN buses : \E k \in DOMAIN given :
          /\ given[k].bus = b /\ given[k].net # None
          /\ buses[b] = given[k].net
          /\ \A n \in 1 .. k - 1 : given[n].bus # b

(* The buffer has the bytes of the line, as far as they go. *)
LineInv ==
    pc = "signals" =>
        /\ message = LineMessage
        /\ \A k \in 0 .. line.size - 1 : data[k] = LineByte(line, k)
        /\ at # None => index \in DOMAIN message.signals

(* The signal being checked is selected only if the one the loop is at is,  *)
(* and for entries of one value if and only if.                             *)
WalkInv ==
    pc = "signals" /\ Covers(line, message) /\ WellNested(message) =>
        /\ printed \subseteq Selected(message)
        /\ \A i \in DOMAIN message.signals :
              at = message.signals[i] /\ i \in Selected(message) =>
                  index \in Selected(message)
        /\ SingleValued(message) =>
              /\ 1 .. index - 1 \cap Selected(message) \subseteq printed
              /\ at # None => at.multiplexer_values # << >> \/ ~ Plain(at)
              /\ \A i \in DOMAIN message.signals :
                    at = message.signals[i] /\ index \in Selected(message) =>
                        i \in Selected(message)

IInv ==
    /\ TypeOK
    /\ given \in CommandLines
    /\ BusesInv
    /\ LineInv
    /\ WalkInv

-----------------------------------------------------------------------------
(* A set of natural numbers that is not empty has a least one.              *)
LEMMA Least ==
    ASSUME NEW T, T \subseteq Nat, T # {}
    PROVE  (CHOOSE x \in T : \A y \in T : x <= y) \in T
  <1>1. PICK x \in T : \A y \in T : << y, x >> \notin OpToRel(<, Nat)
    BY WFMin, NatLessThanWellFounded, Zenon
  <1>2. \A y \in T : ~ (y < x)
    BY <1>1, Zenon DEF OpToRel
  <1>3. ASSUME NEW y \in T PROVE x <= y
    <2>1. x \in Nat /\ y \in Nat /\ ~ (y < x)
      BY <1>2
    <2> QED
      BY <2>1
  <1> QED
    BY <1>1, <1>3, Zenon

(* The parts of a message. *)
LEMMA MessageParts ==
    ASSUME NEW msg \in Messages
    PROVE  /\ Len(msg.signals) \in Nat /\ DOMAIN msg.signals = 1 .. Len(msg.signals)
           /\ \A i \in DOMAIN msg.signals : msg.signals[i] \in Signals
           /\ \A i \in DOMAIN msg.signals : msg.signals[i] # None
  <1>1. msg.signals \in Seq(Signals)
    BY DEF Messages
  <1>2. /\ Len(msg.signals) \in Nat /\ DOMAIN msg.signals = 1 .. Len(msg.signals)
        /\ \A i \in DOMAIN msg.signals : msg.signals[i] \in Signals
    BY <1>1
  <1> QED
    BY <1>2, DataAssumption

(* The parts of a signal. *)
LEMMA SignalParts ==
    ASSUME NEW sig \in Signals
    PROVE  /\ sig.byte \in 0 .. DataSize - 1
           /\ Len(sig.multiplexer_values) \in Nat
           /\ DOMAIN sig.multiplexer_values = 1 .. Len(sig.multiplexer_values)
           /\ sig.multiplexer_values = << >> <=> Len(sig.multiplexer_values) = 0
           /\ \A k \in DOMAIN sig.multiplexer_values :
                 LET ranges == sig.multiplexer_values[k].ranges
                 IN  \A r \in DOMAIN ranges : ranges[r][1] \in Int /\ ranges[r][2] \in Int
  <1>1. sig.byte \in 0 .. DataSize - 1 /\ sig.multiplexer_values \in Seq(MuxEntries)
    BY DEF Signals
  <1>2. /\ Len(sig.multiplexer_values) \in Nat
        /\ DOMAIN sig.multiplexer_values = 1 .. Len(sig.multiplexer_values)
        /\ sig.multiplexer_values = << >> <=> Len(sig.multiplexer_values) = 0
        /\ \A k \in DOMAIN sig.multiplexer_values : sig.multiplexer_values[k] \in MuxEntries
    BY <1>1
  <1>3. ASSUME NEW e \in MuxEntries
        PROVE  \A r \in DOMAIN e.ranges : e.ranges[r][1] \in Int /\ e.ranges[r][2] \in Int
    <2>1. e.ranges \in Seq(Int \X Int)
      BY DEF MuxEntries
    <2>2. \A r \in DOMAIN e.ranges : e.ranges[r] \in Int \X Int
      BY <2>1
    <2> QED
      BY <2>2
  <1> QED
    BY <1>1, <1>2, <1>3

(* FindMessage finds a message of the network or none. *)
LEMMA FindMessageIs ==
    ASSUME NEW net \in Seq(Messages), NEW id
    PROVE  FindMessage(net, id) \in Messages \cup {None}
  <1> DEFINE those == { m \in DOMAIN net : net[m].id = id }
  <1>1. those \subseteq Nat /\ \A m \in those : net[m] \in Messages
    OBVIOUS
  <1>2. FindMessage(net, id) =
            IF those = {} THEN None ELSE net[CHOOSE m \in those : \A n \in those : m <= n]
    BY DEF FindMessage
  <1> HIDE DEF those
  <1>3. those # {} => (CHOOSE m \in those : \A n \in those : m <= n) \in those
    BY <1>1, Least
  <1> QED
    BY <1>1, <1>2, <1>3

(* FindSignal finds a signal of the name, if there is one. *)
LEMMA FindSignalIs ==
    ASSUME NEW msg \in Messages, NEW name
    PROVE  \/ /\ FindSignal(msg, name) = None
              /\ \A i \in DOMAIN msg.signals : msg.signals[i].name # name
           \/ /\ FindSignal(msg, name) # None
              /\ \E i \in DOMAIN msg.signals :
                    FindSignal(msg, name) = msg.signals[i] /\ msg.signals[i].name = name
  <1> DEFINE those == { i \in DOMAIN msg.signals : msg.signals[i].name = name }
             first == CHOOSE i \in those : \A j \in those : i <= j
  <1>1. those \subseteq Nat /\ those \subseteq DOMAIN msg.signals
    BY MessageParts
  <1>2. FindSignal(msg, name) = IF those = {} THEN None ELSE msg.signals[first]
    BY DEF FindSignal
  <1>3. those # {} => first \in those
    <2> HIDE DEF those
    <2> QED
      BY <1>1, Least
  <1>4. those # {} => msg.signals[first].name = name
    BY <1>3
  <1>5. \A i \in DOMAIN msg.signals : msg.signals[i] # None
    BY MessageParts
  <1>6. those = {} => \A i \in DOMAIN msg.signals : msg.signals[i].name # name
    OBVIOUS
  <1> HIDE DEF those, first
  <1> QED
    BY <1>1, <1>2, <1>3, <1>4, <1>5, <1>6

(* MuxSignal is a signal of the message, or none. *)
LEMMA MuxSignalIs ==
    ASSUME NEW msg \in Messages, MuxSignal(msg) # None
    PROVE  \E i \in DOMAIN msg.signals : MuxSignal(msg) = msg.signals[i]
  <1> DEFINE switches == { i \in DOMAIN msg.signals :
                             msg.signals[i].multiplexer = "MuxSwitch" }
             last == CHOOSE i \in switches : \A j \in switches : j <= i
  <1>1. MuxSignal(msg) = IF switches = {} THEN None ELSE msg.signals[last]
    BY DEF MuxSignal
  <1>2. switches # {} /\ MuxSignal(msg) = msg.signals[last]
    BY <1>1
  <1> DEFINE n == Len(msg.signals)
             mirrored == { k \in Nat : n - k \in switches }
  <1>3. n \in Nat /\ switches \subseteq 1 .. n
    BY MessageParts
  <1>4. mirrored \subseteq Nat /\ mirrored # {}
    <2> HIDE DEF switches, n
    <2>1. PICK i \in switches : TRUE
      BY <1>2
    <2>2. n - i \in Nat /\ n - (n - i) = i
      BY <1>3, <2>1
    <2> QED
      BY <2>1, <2>2
  <1>5. PICK k \in mirrored : \A y \in mirrored : << y, k >> \notin OpToRel(<, Nat)
    <2> HIDE DEF mirrored
    <2> QED
      BY <1>4, WFMin, NatLessThanWellFounded, Zenon
  <1>6. \A y \in mirrored : ~ (y < k)
    <2> HIDE DEF mirrored
    <2> QED
      BY <1>4, <1>5, Zenon DEF OpToRel
  <1>7. n - k \in switches /\ \A j \in switches : j <= n - k
    <2> HIDE DEF switches, n
    <2>1. \A j \in switches : n - j \in mirrored
      BY <1>3
    <2>2. k \in Nat /\ n - k \in switches
      BY <1>5
    <2>3. ASSUME NEW j \in switches PROVE j <= n - k
      <3>1. ~ (n - j < k)
        BY <1>6, <2>1
      <3> QED
        BY <1>3, <2>2, <3>1
    <2> QED
      BY <2>2, <2>3
  <1>8. last \in switches
    <2> HIDE DEF switches, n
    <2> QED
      BY <1>7, Zenon
  <1> QED
    BY <1>2, <1>8

-----------------------------------------------------------------------------
(* Selected is a fixed point of SelectedBy. *)
LEMMA SelectedFixed ==
    ASSUME NEW msg
    PROVE  SelectedBy(msg, Selected(msg)) = Selected(msg)
  <1> DEFINE D == DOMAIN msg.signals
             F(S) == SelectedBy(msg, S)
             L == Selected(msg)
  <1>1. ASSUME NEW S, NEW T, S \subseteq T
        PROVE  F(S) \subseteq F(T)
    BY <1>1, Zenon DEF SelectedBy
  <1>2. \A S : F(S) \subseteq D
    BY DEF SelectedBy
  <1>3. L = { i \in D : \A S \in SUBSET D : F(S) \subseteq S => i \in S }
    BY DEF Selected
  <1> HIDE DEF D, F, L
  <1>4. F(L) \subseteq L
    <2> SUFFICES ASSUME NEW i \in F(L), NEW S \in SUBSET D, F(S) \subseteq S
                 PROVE  i \in S
      BY <1>2, <1>3
    <2>1. L \subseteq S
      BY <1>3
    <2> QED
      BY <1>1, <2>1
  <1>5. L \subseteq F(L)
    <2>1. F(F(L)) \subseteq F(L)
      BY <1>1, <1>4
    <2> QED
      BY <1>2, <1>3, <2>1
  <1>6. F(L) = L
    BY <1>4, <1>5
  <1> QED
    BY <1>6 DEF F, L

(* What the decode loop reads is in the line. *)
LEMMA DecodeIs ==
    ASSUME IInv, pc = "signals", Covers(line, message), NEW i \in DOMAIN message.signals
    PROVE  /\ Decode(message.signals[i]) = LineByte(line, message.signals[i].byte)
           /\ Decode(message.signals[i]) \in Nat
  <1> DEFINE byte == message.signals[i].byte
  <1>1. byte \in 0 .. DataSize - 1
    BY MessageParts, SignalParts DEF IInv, TypeOK
  <1>2. byte < line.size /\ line.size \in 0 .. DataSize
    BY LinesAssumption DEF IInv, TypeOK, Covers
  <1>3. byte \in 0 .. line.size - 1
    BY <1>1, <1>2, DataAssumption
  <1>4. data[byte] \in Nat
    BY <1>1, DataAssumption DEF IInv, TypeOK
  <1> QED
    BY <1>3, <1>4 DEF IInv, LineInv, Decode

(* Signal j is the switch of an entry, with a value in one of its ranges;   *)
(* and one with a value that passes the walk's test of one.                 *)
SwitchIn(entry, j) ==
    /\ message.signals[j].name = entry.switch
    /\ \E r \in DOMAIN entry.ranges :
          Decode(message.signals[j]) \in entry.ranges[r][1] .. entry.ranges[r][2]
SwitchHits(entry, j) ==
    /\ message.signals[j].name = entry.switch
    /\ \E r \in DOMAIN entry.ranges : InRange(entry.ranges[r], Decode(message.signals[j]))

(* What SelectedBy says of one signal: the branch that prints it without a  *)
(* walk, or an entry.                                                       *)
LEMMA SelectedMeans ==
    ASSUME IInv, pc = "signals", Covers(line, message), NEW i \in DOMAIN message.signals
    PROVE  LET sig == message.signals[i]
           IN  i \in Selected(message) <=>
                  \/ Plain(sig)
                  \/ \E k \in DOMAIN sig.multiplexer_values, j \in Selected(message) :
                        SwitchIn(sig.multiplexer_values[k], j)
  <1> DEFINE sig == message.signals[i]
             L == Selected(message)
             Value(s) == LineByte(line, s.byte)
             By(entry, j) ==
                /\ message.signals[j].name = entry.switch
                /\ \E r \in Range(entry.ranges) : Value(message.signals[j]) \in r[1] .. r[2]
             Direct ==
                \/ sig.multiplexer # "MuxValue"
                \/ /\ sig.multiplexer_values = << >>
                   /\ MuxSignal(message) # None
                   /\ sig.switch_value = Value(MuxSignal(message))
  <1>1. i \in L <=> Direct \/ \E entry \in Range(sig.multiplexer_values), j \in L : By(entry, j)
    <2>1. i \in L <=> i \in SelectedBy(message, L)
      BY SelectedFixed
    <2>2. i \in SelectedBy(message, L) <=>
              Direct \/ \E entry \in Range(sig.multiplexer_values), j \in L : By(entry, j)
      BY Zenon DEF SelectedBy
    <2> QED
      BY <2>1, <2>2
  <1>2. Direct <=> Plain(sig)
    <2>1. CASE MuxSignal(message) = None
      BY <2>1 DEF Plain
    <2>2. CASE MuxSignal(message) # None
      <3>1. PICK j \in DOMAIN message.signals : MuxSignal(message) = message.signals[j]
        BY <2>2, MuxSignalIs DEF IInv, TypeOK
      <3>2. Decode(MuxSignal(message)) = Value(MuxSignal(message))
        BY <3>1, DecodeIs
      <3> QED
        BY <3>2 DEF Plain
    <2> QED
      BY <2>1, <2>2
  <1>3. L \subseteq DOMAIN message.signals
    BY DEF Selected
  <1>4. ASSUME NEW entry, NEW j \in L
        PROVE  By(entry, j) <=> SwitchIn(entry, j)
    <2>1. Decode(message.signals[j]) = Value(message.signals[j])
      BY <1>3, DecodeIs
    <2> HIDE DEF Value
    <2> QED
      BY <2>1, Zenon DEF Range, SwitchIn
  <1> HIDE DEF By, Direct, L
  <1>5. (\E entry \in Range(sig.multiplexer_values), j \in L : By(entry, j)) <=>
            \E k \in DOMAIN sig.multiplexer_values, j \in L : By(sig.multiplexer_values[k], j)
    BY Zenon DEF Range
  <1>6. (\E k \in DOMAIN sig.multiplexer_values, j \in L : By(sig.multiplexer_values[k], j)) <=>
            \E k \in DOMAIN sig.multiplexer_values, j \in L : SwitchIn(sig.multiplexer_values[k], j)
    BY <1>4, Zenon
  <1>7. i \in L <=>
            \/ Plain(sig)
            \/ \E k \in DOMAIN sig.multiplexer_values, j \in L : SwitchIn(sig.multiplexer_values[k], j)
    BY <1>1, <1>2, <1>5, <1>6
  <1> QED
    BY <1>7, Zenon DEF L

(* A hit: the entry followed is one of the signal, the switch it names is a *)
(* signal of the message and has a value in one of the ranges.              *)
LEMMA HitFollowed ==
    ASSUME IInv, pc = "signals", NEW sig \in Signals, Hits(sig) # {}
    PROVE  \E k \in Hits(sig), j \in DOMAIN message.signals :
              /\ k \in DOMAIN sig.multiplexer_values
              /\ Followed(sig) = message.signals[j]
              /\ SwitchHits(sig.multiplexer_values[k], j)
  <1> DEFINE first == CHOOSE k \in Hits(sig) : \A n \in Hits(sig) : k <= n
             name == sig.multiplexer_values[first].switch
  <1>1. Hits(sig) \subseteq Nat /\ Hits(sig) \subseteq DOMAIN sig.multiplexer_values
    BY SignalParts DEF Hits
  <1>2. first \in Hits(sig)
    BY <1>1, Least
  <1>3. Followed(sig) = FindSignal(message, name)
    BY DEF Followed
  <1>4. /\ FindSignal(message, name) # None
        /\ \E r \in DOMAIN sig.multiplexer_values[first].ranges :
              InRange(sig.multiplexer_values[first].ranges[r], Decode(FindSignal(message, name)))
    <2> HIDE DEF first
    <2> QED
      BY <1>2 DEF Hits
  <1>5. \E j \in DOMAIN message.signals :
           FindSignal(message, name) = message.signals[j] /\ message.signals[j].name = name
    BY <1>4, FindSignalIs DEF IInv, TypeOK
  <1> HIDE DEF first
  <1>6. PICK j \in DOMAIN message.signals :
            FindSignal(message, name) = message.signals[j] /\ message.signals[j].name = name
    BY <1>5
  <1>7. SwitchHits(sig.multiplexer_values[first], j)
    BY <1>4, <1>6 DEF SwitchHits
  <1> QED
    BY <1>1, <1>2, <1>3, <1>6, <1>7

(* Ranges that are not upside down: a value that passes the test is in it.  *)
LEMMA HitIsInRange ==
    ASSUME IInv, pc = "signals", WellNested(message), NEW i \in DOMAIN message.signals,
           NEW k \in DOMAIN message.signals[i].multiplexer_values,
           NEW r \in DOMAIN message.signals[i].multiplexer_values[k].ranges, NEW raw \in Nat
    PROVE  LET range == message.signals[i].multiplexer_values[k].ranges[r]
           IN  /\ range[1] \in Int /\ range[2] \in Int /\ range[1] <= range[2]
               /\ InRange(range, raw) => raw \in range[1] .. range[2]
               /\ SingleValued(message) /\ raw \in range[1] .. range[2] => InRange(range, raw)
  <1> DEFINE entry == message.signals[i].multiplexer_values[k]
             range == entry.ranges[r]
  <1>1. range[1] \in Int /\ range[2] \in Int
    BY MessageParts, SignalParts DEF IInv, TypeOK
  <1>2. entry \in Entries(message) /\ range \in Range(entry.ranges)
    BY DEF Entries, Range
  <1>3. range[1] <= range[2]
    BY <1>2 DEF WellNested
  <1>4. SingleValued(message) => range[1] = range[2]
    BY <1>2 DEF SingleValued
  <1> HIDE DEF entry, range
  <1>5. /\ InRange(range, raw) => raw \in range[1] .. range[2]
        /\ SingleValued(message) /\ raw \in range[1] .. range[2] => InRange(range, raw)
    BY <1>1, <1>3, <1>4 DEF InRange
  <1> QED
    BY <1>1, <1>3, <1>5 DEF entry, range

(* So a switch that passes the test of an entry has a value in its ranges.  *)
LEMMA HitIsIn ==
    ASSUME IInv, pc = "signals", Covers(line, message), WellNested(message),
           NEW i \in DOMAIN message.signals, NEW j \in DOMAIN message.signals,
           NEW k \in DOMAIN message.signals[i].multiplexer_values,
           SwitchHits(message.signals[i].multiplexer_values[k], j)
    PROVE  SwitchIn(message.signals[i].multiplexer_values[k], j)
  <1> DEFINE ranges == message.signals[i].multiplexer_values[k].ranges
             raw == Decode(message.signals[j])
  <1>1. PICK r \in DOMAIN ranges : InRange(ranges[r], raw)
    BY Zenon DEF SwitchHits
  <1>2. raw \in Nat
    BY DecodeIs, Zenon
  <1> HIDE DEF raw
  <1>3. raw \in ranges[r][1] .. ranges[r][2]
    BY <1>1, <1>2, HitIsInRange, Zenon
  <1> QED
    BY <1>3, Zenon DEF SwitchHits, SwitchIn, raw

(* The other way round, too, where the entries are of one value.            *)
LEMMA InIsHit ==
    ASSUME IInv, pc = "signals", Covers(line, message), WellNested(message),
           SingleValued(message),
           NEW i \in DOMAIN message.signals, NEW j \in DOMAIN message.signals,
           NEW k \in DOMAIN message.signals[i].multiplexer_values,
           SwitchIn(message.signals[i].multiplexer_values[k], j)
    PROVE  SwitchHits(message.signals[i].multiplexer_values[k], j)
  <1> DEFINE ranges == message.signals[i].multiplexer_values[k].ranges
             raw == Decode(message.signals[j])
  <1>1. PICK r \in DOMAIN ranges : raw \in ranges[r][1] .. ranges[r][2]
    BY Zenon DEF SwitchIn
  <1>2. raw \in Nat
    BY DecodeIs, Zenon
  <1> HIDE DEF raw
  <1>3. InRange(ranges[r], raw)
    BY <1>1, <1>2, HitIsInRange, Zenon
  <1> QED
    BY <1>3, Zenon DEF SwitchHits, SwitchIn, raw

(* A step of the walk goes from a signal to a switch that selects it if it  *)
(* is selected itself; where the walk ends, it is.                          *)
LEMMA WalkUp ==
    ASSUME IInv, pc = "signals", Covers(line, message), WellNested(message),
           NEW i \in DOMAIN message.signals, Hits(message.signals[i]) # {}
    PROVE  \E j \in DOMAIN message.signals :
              /\ Followed(message.signals[i]) = message.signals[j]
              /\ j \in Selected(message) => i \in Selected(message)
              /\ message.signals[j].multiplexer_values = << >> => j \in Selected(message)
  <1> DEFINE sig == message.signals[i]
  <1>1. sig \in Signals
    BY MessageParts DEF IInv, TypeOK
  <1>2. PICK k \in Hits(sig), j \in DOMAIN message.signals :
              /\ k \in DOMAIN sig.multiplexer_values
              /\ Followed(sig) = message.signals[j]
              /\ SwitchHits(sig.multiplexer_values[k], j)
    BY <1>1, HitFollowed
  <1>3. SwitchIn(sig.multiplexer_values[k], j)
    BY <1>2, HitIsIn
  <1>5. j \in Selected(message) => i \in Selected(message)
    BY <1>2, <1>3, SelectedMeans, Zenon
  <1>6. ASSUME message.signals[j].multiplexer_values = << >>
        PROVE  j \in Selected(message)
    <2>1. sig.multiplexer_values[k] \in Entries(message)
      BY <1>2 DEF Entries, Range
    <2>2. message.signals[j] \in Range(message.signals)
      BY DEF Range
    <2>3. message.signals[j].name = sig.multiplexer_values[k].switch
      BY <1>2 DEF SwitchHits
    <2>4. message.signals[j].multiplexer # "MuxValue"
      BY <1>6, <2>1, <2>2, <2>3 DEF WellNested
    <2> QED
      BY <2>4, SelectedMeans, Zenon DEF Plain
  <1> QED
    BY <1>2, <1>5, <1>6

(* With entries of one value the walk misses nothing that is selected.      *)
LEMMA WalkDown ==
    ASSUME IInv, pc = "signals", Covers(line, message), WellNested(message),
           SingleValued(message), NEW i \in DOMAIN message.signals,
           message.signals[i].multiplexer_values # << >> \/ ~ Plain(message.signals[i]),
           i \in Selected(message)
    PROVE  /\ Hits(message.signals[i]) # {}
           /\ \A j \in DOMAIN message.signals :
                 Followed(message.signals[i]) = message.signals[j] => j \in Selected(message)
  <1> DEFINE sig == message.signals[i]
  <1>1. sig \in Signals
    BY MessageParts DEF IInv, TypeOK
  <1>2. Len(sig.multiplexer_values) <= 1
        /\ (sig.multiplexer_values # << >> => sig.multiplexer = "MuxValue")
    BY DEF SingleValued, Range
  <1>3. ~ Plain(sig)
    BY <1>2 DEF Plain
  <1>4. PICK k \in DOMAIN sig.multiplexer_values, j \in Selected(message) :
            SwitchIn(sig.multiplexer_values[k], j)
    BY <1>3, SelectedMeans, Zenon
  <1>5. j \in DOMAIN message.signals
    BY DEF Selected
  <1>6. SwitchHits(sig.multiplexer_values[k], j)
    BY <1>4, <1>5, InIsHit
  <1> DEFINE name == sig.multiplexer_values[k].switch
  <1>7. k \in Hits(sig)
    <2>1. message.signals[j].name = name
      BY <1>4 DEF SwitchIn
    <2>2. \A n \in DOMAIN message.signals : message.signals[n].name = name => n = j
      BY <1>5, <2>1 DEF WellNested
    <2> HIDE DEF name
    <2>3. message \in Messages
      BY DEF IInv, TypeOK
    <2>4. FindSignal(message, name) = message.signals[j] /\ message.signals[j] # None
      BY <1>5, <2>1, <2>2, <2>3, FindSignalIs, MessageParts
    <2>5. \E r \in DOMAIN sig.multiplexer_values[k].ranges :
              InRange(sig.multiplexer_values[k].ranges[r], Decode(FindSignal(message, name)))
      BY <1>6, <2>4 DEF SwitchHits
    <2> QED
      BY <2>4, <2>5, Zenon DEF Hits, name
  <1>8. ASSUME NEW n \in DOMAIN message.signals, Followed(sig) = message.signals[n]
        PROVE  n \in Selected(message)
    <2>1. PICK l \in Hits(sig), m \in DOMAIN message.signals :
              /\ l \in DOMAIN sig.multiplexer_values
              /\ Followed(sig) = message.signals[m]
              /\ message.signals[m].name = sig.multiplexer_values[l].switch
      BY <1>1, <1>7, HitFollowed DEF SwitchHits
    <2>2. l = k
      BY <1>1, <1>2, <1>4, <2>1, SignalParts
    <2>3. message.signals[n].name = message.signals[j].name
      BY <1>4, <1>8, <2>1, <2>2 DEF SwitchIn
    <2> QED
      BY <1>4, <1>5, <2>3 DEF WellNested
  <1> QED
    BY <1>7, <1>8

-----------------------------------------------------------------------------
(* The network of a bus is a list of messages, that of its first option.    *)
LEMMA BusIs ==
    ASSUME IInv, NEW b \in DOMAIN buses
    PROVE  buses[b] = FirstOption(b).net /\ buses[b] \in Seq(Messages)
  <1> DEFINE its == { k \in DOMAIN given : given[k].bus = b }
             first == CHOOSE k \in its : \A n \in its : k <= n
  <1>1. given \in Seq(Range(given)) /\ given \in CommandLines
    BY CommandLinesAssumption DEF IInv
  <1>2. DOMAIN given = 1 .. Len(given) /\ Len(given) \in Nat
    BY <1>1
  <1>3. PICK k \in DOMAIN given :
          /\ given[k].bus = b /\ given[k].net # None
          /\ buses[b] = given[k].net
          /\ \A n \in 1 .. k - 1 : given[n].bus # b
    BY DEF IInv, BusesInv
  <1>4. k \in its /\ its \subseteq Nat
    BY <1>2, <1>3
  <1>5. \A n \in its : k <= n
    BY <1>2, <1>3
  <1>6. first = k
    <2> HIDE DEF its
    <2>1. first \in its /\ \A n \in its : first <= n
      BY <1>4, <1>5, Zenon
    <2> HIDE DEF first
    <2>2. first <= k /\ k <= first /\ first \in Nat /\ k \in Nat
      BY <1>4, <1>5, <2>1
    <2> QED
      BY <2>2
  <1>7. FirstOption(b) = given[k]
    BY <1>6 DEF FirstOption
  <1>8. given[k].net \in Seq(Messages)
    BY <1>1, <1>3, CommandLinesAssumption
  <1> QED
    BY <1>3, <1>7, <1>8

(* While a line is answered, steps that keep it keep what it selects.       *)
LEMMA SameLine ==
    ASSUME UNCHANGED << line, data, message >>
    PROVE  /\ Selected(message)' = Selected(message)
           /\ \A sig : Plain(sig)' <=> Plain(sig)
  <1>1. \A msg, S : SelectedBy(msg, S)' = SelectedBy(msg, S)
    BY DEF SelectedBy, MuxSignal, LineByte
  <1>2. Selected(message)' = Selected(message)
    BY <1>1 DEF Selected
  <1>3. \A sig : Plain(sig)' <=> Plain(sig)
    BY DEF Plain, MuxSignal, Decode
  <1> QED
    BY <1>2, <1>3

(* The lines are untouched outside of the loop over the signals. *)
LEMMA BetweenLines ==
    ASSUME pc' # "signals"
    PROVE  LineInv' /\ WalkInv'
  BY DEF LineInv, WalkInv

(* Nothing was read, checked or printed before the first step.              *)
LEMMA Start == Init => IInv
  <1> SUFFICES ASSUME Init PROVE IInv
    OBVIOUS
  <1>1. given \in Seq(Range(given)) /\ Len(given) \in Nat
    BY CommandLinesAssumption DEF Init
  <1>2. TypeOK
    BY <1>1, DataAssumption DEF Init, TypeOK, NoLine
  <1>3. BusesInv
    BY DEF Init, BusesInv
  <1>4. LineInv /\ WalkInv
    BY DEF Init, LineInv, WalkInv
  <1> QED
    BY <1>2, <1>3, <1>4 DEF IInv, Init

(* A bus is the first option of its name.                                   *)
LEMMA AddBusStep == IInv /\ AddBus => IInv'
  <1> SUFFICES ASSUME IInv, AddBus PROVE IInv'
    OBVIOUS
  <1> USE DEF AddBus
  <1>1. given \in Seq(Range(given)) /\ Len(given) \in Nat /\ DOMAIN given = 1 .. Len(given)
    BY CommandLinesAssumption DEF IInv
  <1>2. option \in 1 .. Len(given) /\ option \in DOMAIN given /\ pc' \in {"buses", "failed"}
    BY <1>1 DEF IInv, TypeOK
  <1>3. TypeOK'
    <2>1. NoLine'
      BY DEF IInv, TypeOK, NoLine, inLine
    <2> QED
      BY <1>1, <1>2, <2>1 DEF IInv, TypeOK
  <1>4. BusesInv'
    <2> DEFINE opt == given[option]
    <2>1. CASE opt.net = None
      BY <1>2, <2>1 DEF IInv, BusesInv
    <2>2. CASE opt.net # None /\ opt.bus \in DOMAIN buses
      <3>1. buses' = buses /\ option' = option + 1 /\ given' = given /\ pc' = pc
        BY <2>2 DEF Insert
      <3>2. \A k \in 1 .. option' - 1 : k \in 1 .. option - 1 \/ k = option
        BY <1>2, <3>1
      <3> QED
        BY <2>2, <3>1, <3>2 DEF IInv, BusesInv
    <2>3. CASE opt.net # None /\ opt.bus \notin DOMAIN buses
      <3>1. /\ DOMAIN buses' = DOMAIN buses \cup {opt.bus}
            /\ buses'[opt.bus] = opt.net
            /\ \A b \in DOMAIN buses : buses'[b] = buses[b]
            /\ option' = option + 1 /\ given' = given /\ pc' = pc
        BY <2>3 DEF Insert
      <3>2. \A k \in 1 .. option' - 1 : k \in 1 .. option - 1 \/ k = option
        BY <1>2, <3>1
      <3>3. \A n \in 1 .. option - 1 : given[n].bus # opt.bus
        BY <2>3 DEF IInv, BusesInv
      <3>4. \A k \in 1 .. option' - 1 : given'[k].bus \in DOMAIN buses'
        BY <3>1, <3>2 DEF IInv, BusesInv
      <3>5. ASSUME NEW b \in DOMAIN buses'
            PROVE  \E k \in DOMAIN given :
                      /\ given[k].bus = b /\ given[k].net # None
                      /\ buses'[b] = given[k].net
                      /\ \A n \in 1 .. k - 1 : given[n].bus # b
        <4>1. CASE b = opt.bus
          BY <1>2, <2>3, <3>1, <3>3, <4>1
        <4>2. CASE b \in DOMAIN buses
          <5>1. PICK k \in DOMAIN given :
                    /\ given[k].bus = b /\ given[k].net # None
                    /\ buses[b] = given[k].net
                    /\ \A n \in 1 .. k - 1 : given[n].bus # b
            BY <4>2 DEF IInv, BusesInv
          <5>2. buses'[b] = buses[b]
            BY <3>1, <4>2
          <5> QED
            BY <5>1, <5>2
        <4> QED
          BY <3>1, <4>1, <4>2
      <3> QED
        BY <3>1, <3>4, <3>5 DEF BusesInv
    <2> QED
      BY <2>1, <2>2, <2>3
  <1>5. LineInv' /\ WalkInv'
    BY <1>2, BetweenLines
  <1> QED
    BY <1>3, <1>4, <1>5 DEF IInv

(* A line fills the buffer from its start and selects nothing yet.          *)
LEMMA ReadLineStep == ASSUME NEW l \in Lines PROVE IInv /\ ReadLine(l) => IInv'
  <1> SUFFICES ASSUME IInv, ReadLine(l) PROVE IInv'
    OBVIOUS
  <1> USE DEF ReadLine
  <1>1. at = None /\ printed = {}
    BY DEF IInv, TypeOK, NoLine
  <1>2. message' \in Messages
    <2>1. buses[l.bus] \in Seq(Messages)
      BY BusIs
    <2> QED
      BY <2>1, FindMessageIs
  <1>3. Len(message'.signals) \in Nat /\ \A i \in DOMAIN message'.signals : message'.signals[i] # None
    BY <1>2, MessageParts
  <1>4. TypeOK'
    <2>1. data' \in [0 .. DataSize - 1 -> Bytes]
      BY DEF Filled
    <2>2. read' \in 0 .. MaxLines
      BY DataAssumption DEF IInv, TypeOK
    <2> QED
      BY <1>1, <1>2, <1>3, <2>1, <2>2 DEF IInv, TypeOK
  <1>5. BusesInv'
    BY DEF IInv, BusesInv
  <1>6. LineInv'
    <2>1. message' = LineMessage'
      <3>1. line' = l /\ given' = given
        OBVIOUS
      <3>2. LineMessage' = FindMessage(FirstOption(l.bus).net, l.id)
        BY <3>1 DEF LineMessage, FirstOption
      <3>3. buses[l.bus] = FirstOption(l.bus).net
        BY BusIs
      <3>4. message' = FindMessage(buses[l.bus], l.id)
        OBVIOUS
      <3> QED
        BY <3>2, <3>3, <3>4
    <2>2. \A k \in 0 .. line'.size - 1 : data'[k] = LineByte(line', k)
      BY DEF Filled
    <2> QED
      BY <1>1, <2>1, <2>2 DEF LineInv
  <1>7. WalkInv'
    BY <1>1, <1>3 DEF WalkInv
  <1> QED
    BY <1>4, <1>5, <1>6, <1>7 DEF IInv

(* The steps that leave the buses and the line alone. *)
LEMMA IdleStep ==
    ASSUME IInv, BusesLoaded \/ EndOfInput \/ \E l \in Lines : SkipLine(l)
    PROVE  IInv'
  <1>1. /\ UNCHANGED << given, option, buses, inLine >> /\ pc # "signals" /\ pc # "failed"
        /\ pc' \in {"read", "done"} /\ read' \in 0 .. MaxLines
    BY DataAssumption DEF BusesLoaded, EndOfInput, SkipLine, IInv, TypeOK
  <1>2. TypeOK'
    <2>1. NoLine'
      BY <1>1 DEF IInv, TypeOK, NoLine, inLine
    <2> QED
      BY <1>1, <2>1 DEF IInv, TypeOK
  <1>3. BusesInv'
    BY <1>1 DEF IInv, BusesInv
  <1>4. LineInv' /\ WalkInv'
    BY <1>1, BetweenLines
  <1> QED
    BY <1>1, <1>2, <1>3, <1>4 DEF IInv

(* After the last signal of a line all that are selected were printed.      *)
LEMMA EndLineStep == IInv /\ EndLine => IInv'
  <1> SUFFICES ASSUME IInv, EndLine PROVE IInv'
    OBVIOUS
  <1> USE DEF EndLine
  <1>1. TypeOK'
    BY DEF IInv, TypeOK, NoLine
  <1>2. BusesInv'
    BY DEF IInv, BusesInv
  <1>3. LineInv' /\ WalkInv'
    BY BetweenLines
  <1> QED
    BY <1>1, <1>2, <1>3 DEF IInv

(* The invariant after a step within a line: what is left to show is the    *)
(* loop's own part.                                                         *)
LEMMA WithinLine ==
    ASSUME IInv, pc = "signals", UNCHANGED << given, option, buses, pc, read, line, data, message >>,
           index' \in 1 .. Len(message.signals) + 1, printed' \subseteq 1 .. index' - 1,
           at' # None => at' \in Range(message.signals) /\ index' \in DOMAIN message.signals,
           WalkInv'
    PROVE  IInv'
  <1>1. TypeOK'
    BY DEF IInv, TypeOK
  <1>2. BusesInv'
    BY DEF IInv, BusesInv
  <1>3. LineInv'
    <2>1. LineMessage' = LineMessage
      BY DEF LineMessage, FirstOption
    <2>2. \A k \in 0 .. line'.size - 1 : data'[k] = LineByte(line', k)
      BY DEF IInv, LineInv
    <2> QED
      BY <2>1, <2>2 DEF IInv, LineInv
  <1> QED
    BY <1>1, <1>2, <1>3 DEF IInv

(* A signal that is not switched is in every frame.                         *)
LEMMA PrintSignalStep == IInv /\ PrintSignal => IInv'
  <1> SUFFICES ASSUME IInv, PrintSignal PROVE IInv'
    OBVIOUS
  <1> USE DEF PrintSignal, AfterSignal
  <1>1. /\ index \in DOMAIN message.signals /\ Len(message.signals) \in Nat
        /\ \A i \in DOMAIN message.signals : message.signals[i] # None
        /\ DOMAIN message.signals = 1 .. Len(message.signals)
    BY MessageParts DEF IInv, TypeOK
  <1>2. index' \in 1 .. Len(message.signals) + 1 /\ printed' \subseteq 1 .. index' - 1
    BY <1>1 DEF IInv, TypeOK
  <1>3. WalkInv'
    <2> SUFFICES ASSUME Covers(line, message), WellNested(message)
                 PROVE  /\ printed' \subseteq Selected(message)
                        /\ SingleValued(message) =>
                              1 .. index' - 1 \cap Selected(message) \subseteq printed'
      BY <1>1, SameLine DEF WalkInv
    <2>1. index \in Selected(message)
      BY <1>1, SelectedMeans, Zenon DEF Current
    <2>2. 1 .. index' - 1 = 1 .. index - 1 \cup {index}
      BY <1>1
    <2> QED
      BY <2>1, <2>2 DEF IInv, WalkInv
  <1> QED
    BY <1>2, <1>3, WithinLine

(* The check begins at the signal the loop is at.                           *)
LEMMA BeginCheckStep == IInv /\ BeginCheck => IInv'
  <1> SUFFICES ASSUME IInv, BeginCheck PROVE IInv'
    OBVIOUS
  <1> USE DEF BeginCheck, Current
  <1>1. index \in DOMAIN message.signals
    BY MessageParts DEF IInv, TypeOK
  <1>2. at' \in Range(message.signals)
    BY <1>1 DEF Range
  <1>3. WalkInv'
    <2> SUFFICES ASSUME Covers(line, message), WellNested(message)
                 PROVE  /\ printed \subseteq Selected(message)
                        /\ \A i \in DOMAIN message.signals :
                              at' = message.signals[i] => i = index
                        /\ SingleValued(message) =>
                              1 .. index - 1 \cap Selected(message) \subseteq printed
      BY SameLine DEF WalkInv
    <2> QED
      BY <1>1 DEF IInv, WalkInv, WellNested
  <1> QED
    BY <1>1, <1>2, <1>3, WithinLine DEF IInv, TypeOK

(* One call of check_signal_multiplexer_values: the walk goes on, or it     *)
(* ends at a switch that is in the frame, or at an entry that is not hit.   *)
LEMMA CheckStep == IInv /\ Check => IInv'
  <1> SUFFICES ASSUME IInv, Check PROVE IInv'
    OBVIOUS
  <1>1. /\ pc = "signals" /\ at # None /\ index \in DOMAIN message.signals
        /\ DOMAIN message.signals = 1 .. Len(message.signals) /\ Len(message.signals) \in Nat
        /\ UNCHANGED << given, option, buses, pc, read, line, data, message >>
    BY MessageParts DEF IInv, TypeOK, NoLine, LineInv, Check
  <1>2. PICK i \in DOMAIN message.signals : at = message.signals[i]
    BY <1>1 DEF IInv, TypeOK, Range
  <1>3. at \in Signals
    BY <1>1, <1>2, MessageParts DEF IInv, TypeOK
  <1>4. ASSUME Covers(line, message), WellNested(message)
        PROVE  /\ printed \subseteq Selected(message)
               /\ i \in Selected(message) => index \in Selected(message)
               /\ SingleValued(message) =>
                     /\ 1 .. index - 1 \cap Selected(message) \subseteq printed
                     /\ at.multiplexer_values # << >> \/ ~ Plain(at)
                     /\ index \in Selected(message) => i \in Selected(message)
    BY <1>1, <1>2, <1>4 DEF IInv, WalkInv
  <1>5. CASE Hits(at) # {} /\ Followed(at).multiplexer_values # << >>
    <2>1. at' = Followed(at) /\ UNCHANGED << index, printed >>
      BY <1>5 DEF Check, Recurse
    <2>2. at' \in Range(message.signals)
      BY <1>1, <1>3, <1>5, <2>1, HitFollowed DEF Range
    <2>3. WalkInv'
      <3> SUFFICES ASSUME Covers(line, message), WellNested(message)
                   PROVE  /\ printed \subseteq Selected(message)
                          /\ \A n \in DOMAIN message.signals :
                                at' = message.signals[n] /\ n \in Selected(message) =>
                                    index \in Selected(message)
                          /\ SingleValued(message) =>
                                /\ 1 .. index - 1 \cap Selected(message) \subseteq printed
                                /\ \A n \in DOMAIN message.signals :
                                      at' = message.signals[n] /\ index \in Selected(message) =>
                                          n \in Selected(message)
        BY <1>1, <1>5, <2>1, SameLine DEF WalkInv
      <3>1. PICK j \in DOMAIN message.signals :
              /\ Followed(at) = message.signals[j]
              /\ j \in Selected(message) => i \in Selected(message)
        BY <1>1, <1>2, <1>5, WalkUp
      <3>2. \A n \in DOMAIN message.signals : at' = message.signals[n] => n = j
        BY <2>1, <3>1 DEF WellNested
      <3>3. SingleValued(message) /\ i \in Selected(message) => j \in Selected(message)
        BY <1>1, <1>2, <1>4, <3>1, WalkDown
      <3> QED
        BY <1>4, <3>1, <3>2, <3>3
    <2> QED
      BY <1>1, <2>1, <2>2, <2>3, WithinLine DEF IInv, TypeOK
  <1>6. CASE ~ (Hits(at) # {} /\ Followed(at).multiplexer_values # << >>)
    <2>1. /\ at' = None /\ index' = index + 1
          /\ printed' = IF Hits(at) # {} THEN printed \cup {index} ELSE printed
      BY <1>6 DEF Check, AfterSignal
    <2>2. /\ index' \in 1 .. Len(message.signals) + 1
          /\ printed' \subseteq 1 .. index' - 1
          /\ 1 .. index' - 1 = 1 .. index - 1 \cup {index}
      BY <1>1, <2>1 DEF IInv, TypeOK
    <2>3. WalkInv'
      <3> SUFFICES ASSUME Covers(line, message), WellNested(message)
                   PROVE  /\ printed' \subseteq Selected(message)
                          /\ SingleValued(message) =>
                                1 .. index' - 1 \cap Selected(message) \subseteq printed'
        <4>1. \A n \in DOMAIN message.signals : message.signals[n] # None
          BY <1>1, MessageParts DEF IInv, TypeOK
        <4> QED
          BY <1>1, <2>1, <4>1, SameLine DEF WalkInv
      <3>1. CASE Hits(at) # {}
        <4>1. i \in Selected(message)
          BY <1>1, <1>2, <1>6, <3>1, WalkUp
        <4> QED
          BY <1>4, <2>1, <2>2, <3>1, <4>1
      <3>2. CASE Hits(at) = {}
        <4>1. SingleValued(message) => i \notin Selected(message)
          BY <1>1, <1>2, <1>4, <3>2, WalkDown
        <4> QED
          BY <1>4, <2>1, <2>2, <3>2, <4>1
      <3> QED
        BY <3>1, <3>2
    <2> QED
      BY <1>1, <2>1, <2>2, <2>3, WithinLine
  <1> QED
    BY <1>5, <1>6

-----------------------------------------------------------------------------
(* The invariant holds always. *)
THEOREM Invariance == Spec => []IInv
  <1>1. Init => IInv
    BY Start
  <1>2. IInv /\ [Next]_vars => IInv'
    <2> SUFFICES ASSUME IInv, [Next]_vars PROVE IInv'
      OBVIOUS
    <2>1. CASE AddBus
      BY <2>1, AddBusStep
    <2>2. CASE BusesLoaded \/ EndOfInput \/ \E l \in Lines : SkipLine(l)
      BY <2>2, IdleStep
    <2>3. CASE \E l \in Lines : ReadLine(l)
      BY <2>3, ReadLineStep
    <2>4. CASE PrintSignal
      BY <2>4, PrintSignalStep
    <2>5. CASE BeginCheck
      BY <2>5, BeginCheckStep
    <2>6. CASE Check
      BY <2>6, CheckStep
    <2>7. CASE EndLine
      BY <2>7, EndLineStep
    <2>8. CASE UNCHANGED vars
      <3>1. BusesInv'
        BY <2>8 DEF IInv, BusesInv, vars
      <3>2. LineInv'
        BY <2>8 DEF IInv, LineInv, LineMessage, FirstOption, vars
      <3>3. WalkInv'
        BY <2>8, SameLine DEF IInv, WalkInv, vars
      <3>4. TypeOK'
        BY <2>8 DEF IInv, TypeOK, NoLine, vars
      <3> QED
        BY <2>8, <3>1, <3>2, <3>3, <3>4 DEF IInv, vars
    <2> QED
      BY <2>1, <2>2, <2>3, <2>4, <2>5, <2>6, <2>7, <2>8 DEF Next, Answer
  <1> QED
    BY <1>1, <1>2, PTL DEF Spec

(* Every variable keeps its type, for every file and input.                 *)
THEOREM TypeCorrect == Spec => []TypeOK
  <1>1. IInv => TypeOK
    BY DEF IInv
  <1> QED
    BY <1>1, Invariance, PTL

(* main.cpp, the decode loop: only signals that are in the frame are        *)
(* printed, by the file of the bus's first option and the line's own bytes. *)
THEOREM PrintedOnlySelectedAlways == Spec => []PrintedOnlySelected
  <1>1. IInv => PrintedOnlySelected
    BY DEF IInv, LineInv, WalkInv, PrintedOnlySelected
  <1> QED
    BY <1>1, Invariance, PTL

(* A line that is answered has had every signal in its frame printed, if    *)
(* the entries are of one value.                                            *)
THEOREM AllSelectedPrintedAlways == Spec => []AllSelectedPrinted
  <1>1. IInv => AllSelectedPrinted
    <2> SUFFICES ASSUME IInv, pc = "signals", index > Len(message.signals),
                        Covers(line, message), WellNested(message), SingleValued(message)
                 PROVE  printed = Selected(message)
      BY DEF AllSelectedPrinted, IInv, LineInv
    <2>1. DOMAIN message.signals = 1 .. Len(message.signals) /\ Len(message.signals) \in Nat
      BY MessageParts DEF IInv, TypeOK
    <2>2. 1 .. index - 1 = DOMAIN message.signals
      BY <2>1 DEF IInv, TypeOK
    <2>3. Selected(message) \subseteq DOMAIN message.signals
      BY DEF Selected
    <2> QED
      BY <2>2, <2>3 DEF IInv, WalkInv
  <1> QED
    BY <1>1, Invariance, PTL

-----------------------------------------------------------------------------
(* That a line is answered. Fairness is not needed for this half of         *)
(* EveryLineAnswered: each step leads down, and if the switches of the      *)
(* message form no cycle there is no infinite way down.                     *)

(* What check_signal_multiplexer_values may be called with after None, the  *)
(* signal of the loop, and after a signal, one its entries name.            *)
Places(msg) == {None} \cup Range(msg.signals)
Walk(msg) ==
    { p \in Range(msg.signals) \X Places(msg) :
        p[2] # None => \E entry \in Range(p[2].multiplexer_values) : p[1].name = entry.switch }

(* Signals left of the message first, then the place of the walk.           *)
LineLeft == << Len(message.signals) + 1 - index, at >>
LineRanks(msg) == Nat \X Places(msg)
LineBelow(msg) == LexPairOrdering(OpToRel(<, Nat), Walk(msg), Nat, Places(msg))

(* main.cpp, the decode loop: every step within a line leads down.          *)
LineStepsDown ==
    [][pc = "signals" /\ pc' = "signals" =>
          message' = message /\ << LineLeft', LineLeft >> \in LineBelow(message)]_vars

(* There is no infinite walk without a cycle. *)
LEMMA WalkWellFounded ==
    ASSUME NEW msg \in Messages, Acyclic(msg)
    PROVE  IsWellFoundedOn(Walk(msg), Places(msg))
  <1> DEFINE R == Range(msg.signals)
  <1>1. None \notin R
    BY MessageParts DEF Range
  <1>2. ASSUME NEW T \in SUBSET Places(msg), T # {}
        PROVE  \E x \in T : \A y \in T : << y, x >> \notin Walk(msg)
    <2>1. CASE T \subseteq {None}
      <3>1. T = {None}
        BY <1>2, <2>1
      <3>2. << None, None >> \notin Walk(msg)
        BY <1>1 DEF Walk
      <3> QED
        BY <3>1, <3>2
    <2>2. CASE ~ (T \subseteq {None})
      <3> DEFINE C == { i \in DOMAIN msg.signals : msg.signals[i] \in T }
      <3>1. PICK s \in T : s # None
        BY <2>2
      <3>2. s \in R
        BY <3>1 DEF Places
      <3>3. C # {} /\ C \subseteq DOMAIN msg.signals
        BY <3>1, <3>2 DEF Range
      <3> HIDE DEF C
      <3>4. PICK i \in C : \A entry \in Range(msg.signals[i].multiplexer_values) :
                              \A j \in C : msg.signals[j].name # entry.switch
        BY <3>3 DEF Acyclic
      <3> DEFINE x == msg.signals[i]
      <3>5. x \in T /\ x # None
        BY <3>4, MessageParts DEF C
      <3>6. ASSUME NEW y \in T, << y, x >> \in Walk(msg)
            PROVE  FALSE
        <4> HIDE DEF x
        <4>1. y \in R
          BY <3>6 DEF Walk
        <4>2. PICK entry \in Range(x.multiplexer_values) : y.name = entry.switch
          BY <3>5, <3>6 DEF Walk
        <4>3. PICK j \in DOMAIN msg.signals : y = msg.signals[j]
          BY <4>1 DEF Range
        <4>4. j \in C
          BY <3>6, <4>3 DEF C
        <4> QED
          BY <3>4, <4>2, <4>3, <4>4 DEF x
      <3> HIDE DEF x
      <3> QED
        BY <3>5, <3>6
    <2> QED
      BY <2>1, <2>2
  <1> QED
    BY <1>2, MinWF

(* So a message without cycles has no infinite way down. *)
LEMMA LineBelowWellFounded ==
    ASSUME NEW msg \in Messages, Acyclic(msg)
    PROVE  IsWellFoundedOn(LineBelow(msg), LineRanks(msg))
  BY WalkWellFounded, NatLessThanWellFounded, WFLexPairOrdering DEF LineBelow, LineRanks

(* What is left of a line.                                                  *)
LEMMA LineLeftIs ==
    ASSUME TypeOK, pc = "signals"
    PROVE  LineLeft \in LineRanks(message)
  <1>1. /\ Len(message.signals) \in Nat /\ index \in 1 .. Len(message.signals) + 1
    BY MessageParts DEF TypeOK
  <1>2. Len(message.signals) + 1 - index \in Nat
    BY <1>1
  <1>3. at \in Places(message)
    BY DEF TypeOK, Places
  <1> QED
    BY <1>2, <1>3 DEF LineLeft, LineRanks

(* A signal farther on leaves fewer.                                        *)
LEMMA OneLess ==
    ASSUME NEW n \in Int, NEW k \in Int
    PROVE  n + 1 - (k + 1) < n + 1 - k
  OBVIOUS

(* The loop goes on to the next signal, or the walk to the next switch.     *)
LEMMA LineDown ==
    ASSUME IInv, Next, pc = "signals", pc' = "signals",
           LineLeft \in LineRanks(message), (LineLeft \in LineRanks(message))'
    PROVE  message' = message /\ << LineLeft', LineLeft >> \in LineBelow(message)
  <1>1. PrintSignal \/ BeginCheck \/ Check
    BY DEF Next, Answer, AddBus, BusesLoaded, EndOfInput, EndLine, ReadLine, SkipLine
  <1>2. /\ message' = message /\ message \in Messages
        /\ Len(message.signals) \in Nat /\ index \in Nat
    BY <1>1, MessageParts DEF PrintSignal, BeginCheck, Check, IInv, TypeOK
  <1> DEFINE n == Len(message.signals)
  <1>3. ASSUME \/ << LineLeft'[1], LineLeft[1] >> \in OpToRel(<, Nat)
               \/ LineLeft'[1] = LineLeft[1] /\ << LineLeft'[2], LineLeft[2] >> \in Walk(message)
        PROVE  << LineLeft', LineLeft >> \in LineBelow(message)
    <2> DEFINE a == LineLeft'
               b == LineLeft
    <2>1. a \in Nat \X Places(message) /\ b \in Nat \X Places(message)
      BY <1>2 DEF LineRanks
    <2> HIDE DEF a, b
    <2> QED
      BY <1>3, <2>1 DEF LineBelow, LexPairOrdering, a, b
  <1>4. CASE index' = index + 1
    <2>1. LineLeft'[1] = n + 1 - (index + 1) /\ LineLeft[1] = n + 1 - index
      <3>1. LineLeft' = << n + 1 - (index + 1), at' >> /\ LineLeft = << n + 1 - index, at >>
        BY <1>2, <1>4, Zenon DEF LineLeft
      <3> HIDE DEF LineLeft, n
      <3> QED
        BY <3>1
    <2>2. LineLeft'[1] \in Nat /\ LineLeft[1] \in Nat
      BY DEF LineRanks
    <2>3. n + 1 - (index + 1) < n + 1 - index
      <3>1. n \in Int /\ index \in Int
        BY <1>2
      <3> HIDE DEF n
      <3> QED
        BY <3>1, OneLess
    <2>4. << LineLeft'[1], LineLeft[1] >> \in OpToRel(<, Nat)
      <3> HIDE DEF n
      <3> QED
        BY <2>1, <2>2, <2>3 DEF OpToRel
    <2> QED
      BY <1>2, <1>3, <2>4
  <1>5. CASE index' = index /\ << at', at >> \in Walk(message)
    <2>1. LineLeft'[1] = LineLeft[1] /\ LineLeft'[2] = at' /\ LineLeft[2] = at
      BY <1>2, <1>5 DEF LineLeft
    <2> QED
      BY <1>2, <1>3, <1>5, <2>1
  <1>6. CASE PrintSignal
    BY <1>4, <1>6 DEF PrintSignal, AfterSignal
  <1>7. CASE BeginCheck
    <2>1. at = None /\ at' = Current /\ index' = index /\ index \in DOMAIN message.signals
      BY <1>2, <1>7, MessageParts DEF BeginCheck, IInv, TypeOK
    <2>2. at' \in Range(message.signals) /\ at \in Places(message)
      BY <2>1 DEF Current, Range, Places
    <2>3. << at', at >> \in Walk(message)
      BY <2>1, <2>2 DEF Walk
    <2> QED
      BY <1>5, <2>1, <2>3
  <1>8. CASE Check /\ Hits(at) # {} /\ Followed(at).multiplexer_values # << >>
    <2>1. at # None /\ at' = Followed(at) /\ index' = index
      BY <1>8 DEF Check, Recurse
    <2>2. at \in Range(message.signals) /\ at \in Signals
      BY <1>2, <2>1, MessageParts DEF IInv, TypeOK, Range
    <2>3. PICK k \in Hits(at), j \in DOMAIN message.signals :
              /\ k \in DOMAIN at.multiplexer_values
              /\ Followed(at) = message.signals[j]
              /\ SwitchHits(at.multiplexer_values[k], j)
      BY <1>8, <2>2, HitFollowed
    <2>4. at' \in Range(message.signals) /\ at \in Places(message)
      BY <2>1, <2>2, <2>3 DEF Range, Places
    <2>5. /\ at.multiplexer_values[k] \in Range(at.multiplexer_values)
          /\ at'.name = at.multiplexer_values[k].switch
      BY <2>1, <2>3 DEF SwitchHits, Range
    <2>6. << at', at >> \in Walk(message)
      BY <2>4, <2>5 DEF Walk
    <2> QED
      BY <1>5, <2>1, <2>6
  <1>9. CASE Check /\ ~ (Hits(at) # {} /\ Followed(at).multiplexer_values # << >>)
    BY <1>4, <1>9 DEF Check, AfterSignal
  <1> QED
    BY <1>1, <1>6, <1>7, <1>8, <1>9

(* check_signal_multiplexer_values returns, and the line is answered: every *)
(* step within a line leads down, and unless the switches of its message    *)
(* form a cycle there is no infinite way down.                              *)
THEOREM LineStepsDownAlways ==
    /\ \A msg \in Messages : Acyclic(msg) => IsWellFoundedOn(LineBelow(msg), LineRanks(msg))
    /\ Spec => [](pc = "signals" => LineLeft \in LineRanks(message)) /\ LineStepsDown
  <1>1. IInv => (pc = "signals" => LineLeft \in LineRanks(message))
    BY LineLeftIs DEF IInv
  <1>2. ASSUME IInv, pc = "signals" => LineLeft \in LineRanks(message),
               (pc = "signals" => LineLeft \in LineRanks(message))', [Next]_vars
        PROVE  [pc = "signals" /\ pc' = "signals" =>
                   message' = message /\ << LineLeft', LineLeft >> \in LineBelow(message)]_vars
    BY <1>2, LineDown
  <1>3. Spec => [](pc = "signals" => LineLeft \in LineRanks(message)) /\ LineStepsDown
    BY Invariance, <1>1, <1>2, PTL DEF Spec, LineStepsDown
  <1> QED
    BY <1>3, LineBelowWellFounded
=============================================================================

----------------------------- MODULE DecodeTool -----------------------------
(***************************************************************************)
(* `dbcppp decode': the tool loads a DBC file for every bus of its command *)
(* line, then reads candump lines from its input, finds the message of     *)
(* each and prints the signals the frame holds. Which of the multiplexed   *)
(* signals those are is decided by the multiplexer switch, or by walking   *)
(* along the SG_MUL_VAL_ entries from switch to switch.                    *)
(*                                                                         *)
(* A signal occupies one byte of the frame: the codec itself is the        *)
(* subject of SignalImpl. What is printed for a signal is left out.        *)
(***************************************************************************)
EXTENDS Integers, Sequences, FiniteSets, Functions

CONSTANTS
    DataSize,       \* the bytes of the tool's buffer, 8
    Bytes,          \* the values of a byte
    CommandLines,   \* the lists of --bus options the tool may be started with
    Lines,          \* the lines its input may have
    MaxLines,       \* how many of them it reads
    None

(* What a loaded file says: a network is its messages, a message has an id   *)
(* and signals, and an SG_MUL_VAL_ entry names a switch and ranges of its    *)
(* values, each << from, to >>.                                              *)
MuxEntries == [ switch : STRING, ranges : Seq(Int \X Int) ]
Signals ==
    [ name : STRING, multiplexer : {"NoMux", "MuxSwitch", "MuxValue"}, switch_value : Int,
      byte : 0 .. DataSize - 1, multiplexer_values : Seq(MuxEntries) ]
Messages == [ id : Nat, signals : Seq(Signals) ]

ASSUME DataAssumption ==
    /\ DataSize \in Nat \ {0}
    /\ 0 \in Bytes /\ Bytes \subseteq Nat
    /\ MaxLines \in Nat
    /\ None \notin Lines /\ None \notin Signals /\ None \notin Messages
(* A line has a bus, a message id, a size and the bytes that follow. More    *)
(* than eight bytes are written past the buffer; not modelled.               *)
ASSUME LinesAssumption ==
    \A l \in Lines : l.size \in 0 .. DataSize /\ l.bytes \in Seq(Bytes)
(* An option names a bus and its file, here the network loaded from it,      *)
(* None for a file that could not be loaded.                                 *)
ASSUME CommandLinesAssumption ==
    \A c \in CommandLines :
        /\ c \in Seq(Range(c))
        /\ \A k \in DOMAIN c : c[k].net # None => c[k].net \in Seq(Messages)

VARIABLES
    given,      \* the --bus options
    option,     \* the next of them
    buses,      \* the networks of the buses loaded
    pc,         \* where the tool is
    read,       \* the number of lines read
    line,       \* the line being answered
    data,       \* the buffer
    message,    \* the message of the line
    index,      \* the signal the loop is at
    at,         \* the signal whose SG_MUL_VAL_ entries are being checked
    printed     \* the indices of the signals printed for the line

vars == << given, option, buses, pc, read, line, data, message, index, at, printed >>
inLine == << line, data, message, index, at, printed >>

NoLine ==
    /\ line = None /\ data = None /\ message = None
    /\ index = 0 /\ at = None /\ printed = {}

Init ==
    /\ given \in CommandLines
    /\ option = 1
    /\ buses = << >>
    /\ pc = "buses"
    /\ read = 0
    /\ NoLine

-----------------------------------------------------------------------------
(* Mutant: operator[] overwrites it. *)
Insert_Overwrites(map, name, net) ==
    [ b \in DOMAIN map \cup {name} |-> IF b = name THEN net ELSE map[b] ]

(* unordered_map::insert keeps the bus that is already there. *)
Insert(map, name, net) ==
    IF name \in DOMAIN map THEN map
    ELSE [ b \in DOMAIN map \cup {name} |-> IF b = name THEN net ELSE map[b] ]

(* One --bus option; a file that cannot be loaded ends the tool. *)
AddBus ==
    /\ pc = "buses"
    /\ option <= Len(given)
    /\ IF given[option].net = None
         THEN pc' = "failed" /\ buses' = buses
         ELSE pc' = pc /\ buses' = Insert(buses, given[option].bus, given[option].net)
    /\ option' = option + 1
    /\ UNCHANGED << given, read, inLine >>

BusesLoaded ==
    /\ pc = "buses"
    /\ option > Len(given)
    /\ pc' = "read"
    /\ UNCHANGED << given, option, buses, read, inLine >>

-----------------------------------------------------------------------------
(* What data[k] is given; a byte missing in the line is parsed as 0.        *)
LineByte(l, k) == IF k < Len(l.bytes) THEN l.bytes[k + 1] ELSE 0

(* Mutant: the last byte of the line is not copied. *)
Filled_OneShort(l) ==
    { d \in [0 .. DataSize - 1 -> Bytes] : \A k \in 0 .. l.size - 2 : d[k] = LineByte(l, k) }

(* The buffer is not initialised: from msg_size on it holds anything. *)
Filled(l) ==
    { d \in [0 .. DataSize - 1 -> Bytes] : \A k \in 0 .. l.size - 1 : d[k] = LineByte(l, k) }

(* The first message with the id, None without one. *)
FindMessage(net, id) ==
    LET those == { m \in DOMAIN net : net[m].id = id }
    IN  IF those = {} THEN None
        ELSE net[CHOOSE m \in those : \A n \in those : m <= n]

(* A line of a known bus and message. *)
ReadLine(l) ==
    /\ pc = "read"
    /\ read < MaxLines
    /\ l.bus \in DOMAIN buses
    /\ FindMessage(buses[l.bus], l.id) # None
    /\ line' = l
    /\ data' \in Filled(l)
    /\ message' = FindMessage(buses[l.bus], l.id)
    /\ index' = 1
    /\ pc' = "signals"
    /\ read' = read + 1
    /\ UNCHANGED << given, option, buses, at, printed >>

(* Any other line is dropped. *)
SkipLine(l) ==
    /\ pc = "read"
    /\ read < MaxLines
    /\ l.bus \in DOMAIN buses => FindMessage(buses[l.bus], l.id) = None
    /\ read' = read + 1
    /\ UNCHANGED << given, option, buses, pc, inLine >>

EndOfInput ==
    /\ pc = "read"
    /\ pc' = "done"
    /\ UNCHANGED << given, option, buses, read, inLine >>

-----------------------------------------------------------------------------
Decode(sig) == data[sig.byte]

(* MessageImpl's constructor: the last switch of the message, or None. *)
MuxSignal(msg) ==
    LET switches == { i \in DOMAIN msg.signals :
                        msg.signals[i].multiplexer = "MuxSwitch" }
    IN  IF switches = {} THEN None
        ELSE msg.signals[CHOOSE i \in switches : \A j \in switches : j <= i]

(* The first signal of a name, None without one. *)
FindSignal(msg, name) ==
    LET those == { i \in DOMAIN msg.signals : msg.signals[i].name = name }
    IN  IF those = {} THEN None
        ELSE msg.signals[CHOOSE i \in those : \A j \in those : i <= j]

(* The loops over SignalMultiplexerValues and ValueRanges: the first entry  *)
(* whose switch exists and has a value in one of its ranges is followed;    *)
(* the test of a range is `from >= raw && to <= raw'.                       *)
InRange(range, raw) == range[1] >= raw /\ range[2] <= raw
Hits(sig) ==
    { k \in DOMAIN sig.multiplexer_values :
        LET entry  == sig.multiplexer_values[k]
            switch == FindSignal(message, entry.switch)
        IN  /\ switch # None
            /\ \E r \in DOMAIN entry.ranges : InRange(entry.ranges[r], Decode(switch)) }
Followed(sig) ==
    LET first == CHOOSE k \in Hits(sig) : \A n \in Hits(sig) : k <= n
    IN  FindSignal(message, sig.multiplexer_values[first].switch)

Current == message.signals[index]

(* The branch of a signal that is printed without a walk. *)
Plain(sig) ==
    \/ sig.multiplexer # "MuxValue"
    \/ /\ MuxSignal(message) # None
       /\ sig.multiplexer_values = << >>
       /\ sig.switch_value = Decode(MuxSignal(message))

(* Mutant: one signal is left out. *)
AfterSignal_SkipsOne == index + 2

AfterSignal == index + 1

PrintSignal ==
    /\ pc = "signals" /\ at = None
    /\ index <= Len(message.signals)
    /\ Plain(Current)
    /\ printed' = printed \cup {index}
    /\ index' = AfterSignal
    /\ UNCHANGED << given, option, buses, pc, read, line, data, message, at >>

(* The call of check_signal_multiplexer_values. *)
BeginCheck ==
    /\ pc = "signals" /\ at = None
    /\ index <= Len(message.signals)
    /\ ~ Plain(Current)
    /\ at' = Current
    /\ UNCHANGED << given, option, buses, pc, read, line, data, message, index, printed >>

(* Mutant: it is called with its own argument. *)
Recurse_Same(sig) == sig

(* The signal check_signal_multiplexer_values is called with next. *)
Recurse(sig) == Followed(sig)

(* One call of it: it calls itself for the switch, or returns. *)
Check ==
    /\ at # None
    /\ IF Hits(at) # {} /\ Followed(at).multiplexer_values # << >>
         THEN /\ at' = Recurse(at)
              /\ UNCHANGED << index, printed >>
         ELSE /\ at' = None
              /\ printed' = IF Hits(at) # {} THEN printed \cup {index} ELSE printed
              /\ index' = AfterSignal
    /\ UNCHANGED << given, option, buses, pc, read, line, data, message >>

EndLine ==
    /\ pc = "signals" /\ at = None
    /\ index > Len(message.signals)
    /\ pc' = "read"
    /\ line' = None /\ data' = None /\ message' = None
    /\ index' = 0 /\ at' = None /\ printed' = {}
    /\ UNCHANGED << given, option, buses, read >>

Answer == PrintSignal \/ BeginCheck \/ Check \/ EndLine
Next ==
    \/ AddBus \/ BusesLoaded \/ EndOfInput \/ Answer
    \/ \E l \in Lines : ReadLine(l) \/ SkipLine(l)

(* The tool runs on while it has a line to answer; its input may stay out.  *)
Spec == Init /\ [][Next]_vars /\ WF_vars(Answer)
-----------------------------------------------------------------------------
(* Every variable has its type. *)
TypeOK ==
    /\ pc \in {"buses", "failed", "read", "signals", "done"}
    /\ option \in 1 .. Len(given) + 1 /\ read \in 0 .. MaxLines
    /\ pc # "signals" => NoLine
    /\ pc = "signals" =>
          /\ line \in Lines /\ message \in Messages
          /\ data \in [0 .. DataSize - 1 -> Bytes]
          /\ index \in 1 .. Len(message.signals) + 1
          /\ printed \subseteq 1 .. index - 1
          /\ at # None => at \in Range(message.signals)

(* What a DBC file says is in a frame, by the line alone: the signals that  *)
(* are not multiplexed, those of the multiplexer's value, and those whose   *)
(* SG_MUL_VAL_ entry names a switch that is itself in the frame and has a   *)
(* value in one of the ranges. It is the least set of which this is true.   *)
SelectedBy(msg, chosen) ==
    LET Value(sig) == LineByte(line, sig.byte)
        In(sig) ==
            \/ sig.multiplexer # "MuxValue"
            \/ /\ sig.multiplexer_values = << >>
               /\ MuxSignal(msg) # None
               /\ sig.switch_value = Value(MuxSignal(msg))
            \/ \E entry \in Range(sig.multiplexer_values), j \in chosen :
                  /\ msg.signals[j].name = entry.switch
                  /\ \E r \in Range(entry.ranges) :
                        Value(msg.signals[j]) \in r[1] .. r[2]
    IN  { i \in DOMAIN msg.signals : In(msg.signals[i]) }
Selected(msg) ==
    { i \in DOMAIN msg.signals :
        \A S \in SUBSET DOMAIN msg.signals : SelectedBy(msg, S) \subseteq S => i \in S }

(* The network of a bus is the one of its first option. *)
FirstOption(bus) ==
    LET its == { k \in DOMAIN given : given[k].bus = bus }
    IN  given[CHOOSE k \in its : \A n \in its : k <= n]
LineMessage == FindMessage(FirstOption(line.bus).net, line.id)

(* The frame has all bytes of the message's signals. *)
Covers(l, msg) == \A i \in DOMAIN msg.signals : msg.signals[i].byte < l.size

Entries(msg) ==
    UNION { Range(msg.signals[i].multiplexer_values) : i \in DOMAIN msg.signals }

(* Names tell signals apart, ranges are not upside down, and a multiplexed  *)
(* signal that is a switch itself has an SG_MUL_VAL_ entry of its own.      *)
WellNested(msg) ==
    /\ \A i, j \in DOMAIN msg.signals :
          msg.signals[i].name = msg.signals[j].name => i = j
    /\ \A entry \in Entries(msg) :
          /\ \A r \in Range(entry.ranges) : r[1] <= r[2]
          /\ \A sig \in Range(msg.signals) :
                sig.name = entry.switch /\ sig.multiplexer = "MuxValue" =>
                    sig.multiplexer_values # << >>

(* One entry at most, at multiplexed signals only, and of one value: what   *)
(* the walk, and its test of a range, are right for.                        *)
SingleValued(msg) ==
    /\ \A sig \in Range(msg.signals) :
          /\ Len(sig.multiplexer_values) <= 1
          /\ sig.multiplexer_values # << >> => sig.multiplexer = "MuxValue"
    /\ \A entry \in Entries(msg) : \A r \in Range(entry.ranges) : r[1] = r[2]

(* No switch of an entry leads back to itself along the entries. *)
Acyclic(msg) ==
    \A C \in SUBSET DOMAIN msg.signals :
        C # {} => \E i \in C : \A entry \in Range(msg.signals[i].multiplexer_values) :
                     \A j \in C : msg.signals[j].name # entry.switch

(* main.cpp, the decode loop: a printed signal is in the frame by the file  *)
(* first given for the bus and by the bytes of this line alone, however     *)
(* deep its switches are nested and whatever the lines before left behind.  *)
PrintedOnlySelected ==
    pc = "signals" /\ Covers(line, message) /\ WellNested(message) =>
        printed \subseteq Selected(LineMessage)

(* And when a line is answered every signal in the frame is printed, if the *)
(* entries are of one value; the walk follows only the first entry it hits. *)
AllSelectedPrinted ==
    pc = "signals" /\ at = None /\ index > Len(message.signals)
    /\ Covers(line, message) /\ WellNested(message) /\ SingleValued(message) =>
        printed = Selected(LineMessage)

(* check_signal_multiplexer_values returns: a line is answered, and the     *)
(* next one read, unless the file's switches form a cycle.                  *)
EveryLineAnswered ==
    line # None /\ Acyclic(message) ~> line = None
=============================================================================

---------------------------- MODULE Network2Human ----------------------------
(***************************************************************************)
(* dbc2 --format=human: of every message a layout, one row of eight cells  *)
(* per byte with a line of labels for each signal that starts in it, and   *)
(* the tree of its signals. A multiplexed message has a layout for every   *)
(* value of its switch. The cursor i_bit is a size_t that runs from the    *)
(* left of a row to the right, below 0 in the first one.                   *)
(*                                                                         *)
(* Names, headers, frames and the list of the value descriptions are left  *)
(* out; a signal is its index in the message.                              *)
(***************************************************************************)
EXTENDS Integers, FiniteSetsExt, SequencesExt

CONSTANTS
    WordSize,   \* 2^64: one more than the largest size_t and uint64_t
    Networks    \* sequences of messages [size, signals]

Signal  == [ multiplexer  : {"NoMux", "MuxSwitch", "MuxValue"},
             switch_value : Nat,
             start_bit    : Nat,
             bit_size     : Nat,
             byte_order   : {"LittleEndian", "BigEndian"} ]
Message == [ size : Nat, signals : Seq(Signal) ]

ASSUME WordAssumption == WordSize \in Nat /\ WordSize > 8
ASSUME NetworksAssumption ==
    /\ Networks \subseteq Seq(Message)
    /\ \A n \in Networks : \A k \in DOMAIN n : 8 * n[k].size + 8 < WordSize

VARIABLES
    net,        \* the network
    m,          \* the message that is printed
    pc,         \* where the printing of it is
    passes,     \* the mux_values still to be printed
    mux_value,  \* the one that is
    byte,       \* the rows completed of its layout
    i_bit,      \* the bit of the cell or label under the cursor
    i,          \* its column
    depth,      \* the signals that start in the row and are not labelled yet
    n_sigs,     \* how many of them the cursor has passed in this line
    cells,      \* what the layouts show, in the order of printing
    labels,     \* the labels below the rows
    tree        \* the signals in the tree

cursor == << byte, i_bit, i, depth, n_sigs >>
output == << cells, labels, tree >>
vars   == << net, m, pc, passes, mux_value, cursor, output >>

Init ==
    /\ net \in Networks
    /\ m = 1
    /\ pc = "message"
    /\ passes = << >>
    /\ mux_value = 0
    /\ byte = 0 /\ i_bit = 7 /\ i = 0 /\ depth = 0 /\ n_sigs = 0
    /\ cells = << >> /\ labels = << >> /\ tree = << >>

-----------------------------------------------------------------------------
(* -1 as a uint64_t: the default argument, and the value that turns the     *)
(* filter of bit_is_inbetween off.                                          *)
AllOnes     == WordSize - 1
Signals     == net[m].signals
Lower(n)    == (i_bit - n) % WordSize       \* i_bit -= n

get_mux_values ==
    { s.switch_value : s \in { s \in ToSet(Signals) : s.multiplexer = "MuxValue" } }

(* Null is written as an empty set. *)
get_mux_signal ==
    LET switches == { k \in DOMAIN Signals : Signals[k].multiplexer = "MuxSwitch" }
    IN  { k \in switches : \A l \in switches : k <= l }

(* The order of a std::set of numbers, and of a loop over indices. *)
Ascending(S) ==
    CHOOSE s \in [1 .. Cardinality(S) -> S] : \A a, b \in DOMAIN s : a < b => s[a] < s[b]

(* The k-th bit of a signal, for a big endian one as these functions count. *)
DrawnBit(s) ==
    LET after[b \in Nat] == IF b > 15 /\ (b + 1) % 8 = 0 THEN b - 15 ELSE b + 1
        big[k \in 0 .. s.bit_size - 1] == IF k = 0 THEN s.start_bit ELSE after[big[k - 1]]
    IN  IF s.byte_order = "BigEndian" THEN big
        ELSE [ k \in 0 .. s.bit_size - 1 |-> s.start_bit + k ]

Filtered(s) ==
    /\ mux_value # AllOnes
    /\ s.multiplexer = "MuxValue"
    /\ s.switch_value # mux_value

(* Mutant: the filter asks for the value of every signal.                   *)
bit_is_inbetween_AllFiltered(s, bit) ==
    /\ ~ (mux_value # AllOnes /\ s.switch_value # mux_value)
    /\ bit \in { DrawnBit(s)[k] : k \in 0 .. s.bit_size - 1 }

bit_is_inbetween(s, bit) ==
    ~ Filtered(s) /\ bit \in { DrawnBit(s)[k] : k \in 0 .. s.bit_size - 1 }
is_start_bit(s, bit) == s.start_bit = bit
is_end_bit(s, bit)   == s.bit_size > 0 /\ DrawnBit(s)[s.bit_size - 1] = bit

(* The first signal of the message with the bit, or 0. *)
find_cur_sig ==
    LET those == { k \in DOMAIN Signals : bit_is_inbetween(Signals[k], i_bit) }
    IN  IF those = {} THEN 0 ELSE Min(those)

-----------------------------------------------------------------------------
(* operator<< for the next message. *)
PrintMessage ==
    /\ pc = "message"
    /\ m <= Len(net)
    /\ passes' = IF get_mux_values = {} THEN << AllOnes >>
                 ELSE Ascending(get_mux_values)
    /\ pc' = "pass"
    /\ cells' = << >> /\ labels' = << >> /\ tree' = << >>
    /\ UNCHANGED << net, m, mux_value, cursor >>

(* Mutant: a header is printed for the layout of no value too.              *)
NullSwitch_NoValue == get_mux_signal = {}

(* print_mux_header for a value, which takes the name of a switch that may  *)
(* not be there: a null pointer is dereferenced.                            *)
NullSwitch == get_mux_values # {} /\ get_mux_signal = {}
PrintHeader ==
    /\ pc = "pass"
    /\ passes # << >>
    /\ IF NullSwitch
         THEN pc' = "crashed" /\ UNCHANGED << passes, mux_value, cursor >>
         ELSE /\ pc' = "cells"
              /\ mux_value' = Head(passes)
              /\ passes' = Tail(passes)
              /\ byte' = 0 /\ i_bit' = 7 /\ i' = 0 /\ depth' = 0 /\ n_sigs' = 0
    /\ UNCHANGED << net, m, output >>

(* print_signal while i_bit is in the message: eight cells ... *)
PrintCell ==
    LET k == find_cur_sig
    IN  /\ pc = "cells"
        /\ i < 8
        /\ i = 0 => i_bit < 8 * net[m].size
        /\ cells' = Append(cells, [ mux_value |-> mux_value, bit |-> i_bit, signal |-> k,
                                    start |-> k # 0 /\ is_start_bit(Signals[k], i_bit),
                                    end   |-> k # 0 /\ is_end_bit(Signals[k], i_bit) ])
        /\ depth' = IF k # 0 /\ is_start_bit(Signals[k], i_bit) THEN depth + 1 ELSE depth
        /\ i_bit' = Lower(1)
        /\ i' = i + 1
        /\ UNCHANGED << net, m, pc, passes, mux_value, byte, n_sigs, labels, tree >>

(* ... and the cursor back to the first, or on to the next row.             *)
EndCells ==
    /\ pc = "cells"
    /\ i = 8
    /\ IF depth > 0
         THEN pc' = "labels" /\ i_bit' = Lower(-8) /\ UNCHANGED byte
         ELSE pc' = pc /\ i_bit' = Lower(-16) /\ byte' = byte + 1
    /\ i' = 0
    /\ UNCHANGED << net, m, passes, mux_value, depth, n_sigs, output >>

(* The columns right of the cursor up to the start of the signal. *)
Skipped(s) ==
    IF i_bit > s.start_bit THEN Min({8 - i, i_bit - s.start_bit}) ELSE 0

(* Mutant: the column after the last one left out is passed as well.        *)
PrintLabel_SkipsColumn ==
    LET k       == find_cur_sig
        skipped == IF k = 0 THEN 0 ELSE Skipped(Signals[k])
    IN  /\ pc = "labels"
        /\ i < 8
        /\ i_bit' = Lower(skipped + 1)
        /\ i' = Min({8, i + skipped + 1})
        /\ IF k = 0 \/ i + skipped = 8
             THEN UNCHANGED << n_sigs, labels >>
             ELSE /\ n_sigs' = n_sigs + 1
                  /\ labels' = IF depth - 1 # n_sigs THEN labels
                               ELSE Append(labels, [ mux_value |-> mux_value, byte |-> byte,
                                                     column |-> i + skipped, signal |-> k ])
        /\ UNCHANGED << net, m, pc, passes, mux_value, byte, depth, cells, tree >>

(* One column of a line of labels, after the columns that are left out:     *)
(* the label of the signal whose turn it is, the bar of an earlier one.     *)
PrintLabel ==
    LET k       == find_cur_sig
        skipped == IF k = 0 THEN 0 ELSE Skipped(Signals[k])
        step    == IF i + skipped = 8 THEN skipped ELSE skipped + 1
    IN  /\ pc = "labels"
        /\ i < 8
        /\ i_bit' = Lower(step)
        /\ i' = i + step
        /\ IF k = 0 \/ i + skipped = 8
             THEN UNCHANGED << n_sigs, labels >>
             ELSE /\ n_sigs' = n_sigs + 1
                  /\ labels' = IF depth - 1 # n_sigs THEN labels
                               ELSE Append(labels, [ mux_value |-> mux_value, byte |-> byte,
                                                     column |-> i + skipped, signal |-> k ])
        /\ UNCHANGED << net, m, pc, passes, mux_value, byte, depth, cells, tree >>

(* The end of such a line, and of print_signal after the last one.          *)
EndLabels ==
    /\ pc = "labels"
    /\ i = 8
    /\ depth' = depth - 1
    /\ n_sigs' = 0
    /\ i' = 0
    /\ IF depth > 1
         THEN i_bit' = Lower(-8) /\ UNCHANGED << pc, byte >>
         ELSE i_bit' = Lower(-16) /\ pc' = "cells" /\ byte' = byte + 1
    /\ UNCHANGED << net, m, passes, mux_value, output >>

EndLayout ==
    /\ pc = "cells"
    /\ i = 0
    /\ i_bit >= 8 * net[m].size
    /\ pc' = IF passes = << >> THEN "tree" ELSE "pass"
    /\ UNCHANGED << net, m, passes, mux_value, cursor, output >>

Direct   == Ascending({ k \in DOMAIN Signals : Signals[k].multiplexer = "NoMux" })
Below(v) == Ascending({ k \in DOMAIN Signals : /\ Signals[k].multiplexer = "MuxValue"
                                               /\ Signals[k].switch_value = v })
BelowValues ==
    LET values == Ascending(get_mux_values)
    IN  FlattenSeq([ v \in DOMAIN values |-> Below(values[v]) ])

(* Mutant: the signals of no value are left out when there is a switch.     *)
SignalTree_SwitchOnly ==
    IF get_mux_signal = {} THEN Direct ELSE Ascending(get_mux_signal) \o BelowValues

(* The switch, below it the signals of each value, then those of none.      *)
SignalTree ==
    (IF get_mux_signal = {} THEN << >> ELSE Ascending(get_mux_signal) \o BelowValues)
    \o Direct

print_signal_tree ==
    /\ pc = "tree"
    /\ tree' = SignalTree
    /\ pc' = "printed"
    /\ UNCHANGED << net, m, passes, mux_value, cursor, cells, labels >>

NextMessage ==
    /\ pc = "printed"
    /\ m' = m + 1
    /\ pc' = "message"
    /\ UNCHANGED << net, passes, mux_value, cursor, output >>
End ==
    /\ pc = "message"
    /\ m > Len(net)
    /\ pc' = "done"
    /\ UNCHANGED << net, m, passes, mux_value, cursor, output >>

Next ==
    \/ PrintMessage
    \/ PrintHeader
    \/ PrintCell
    \/ EndCells
    \/ PrintLabel
    \/ EndLabels
    \/ EndLayout
    \/ print_signal_tree
    \/ NextMessage
    \/ End

Spec == Init /\ [][Next]_vars
(* The tool is one thread that is not held up. *)
FairSpec == Spec /\ WF_vars(Next)

-----------------------------------------------------------------------------
(* print_signal: whatever signals there are and however they overlap, the   *)
(* cursor is at the bit of its row and column all the time, on the cells    *)
(* and on each line of labels: it is put back exactly as far as it moved.   *)
CursorAligned ==
    pc \in {"cells", "labels"} =>
        /\ i \in 0 .. 8
        /\ (i_bit + i) % WordSize = 8 * byte + 7
        /\ byte <= net[m].size

(* The signals of the layout for the value, each bit of one of which only   *)
(* it has, all of the message and little endian.                            *)
Codec == INSTANCE SignalImpl
Active(v) ==
    { k \in DOMAIN Signals : Signals[k].multiplexer = "MuxValue" => Signals[k].switch_value = v }
Values == IF get_mux_values = {} THEN {AllOnes} ELSE get_mux_values
Plain(v) ==
    /\ \A k \in Active(v) : /\ Signals[k].byte_order = "LittleEndian"
                            /\ Signals[k].bit_size > 0
    /\ \A k, l \in Active(v) :
          k # l => Codec!SignalBits(Signals[k]) \cap Codec!SignalBits(Signals[l]) = {}
MessageBits == 0 .. 8 * net[m].size - 1
Shown(v, k) == { cells[c].bit : c \in { c \in DOMAIN cells :
                    cells[c].mux_value = v /\ cells[c].signal = k } }

(* print_signal: in the layout for a value the cells of a signal are the    *)
(* bits it is decoded from, and each signal that starts in the message has  *)
(* one label, below its start. (The value 2^64-1 is taken for none.)        *)
LayoutShowsSignals ==
    pc = "printed" =>
        \A v \in Values : (Plain(v) /\ (v = AllOnes => get_mux_values = {})) =>
            \A k \in Active(v) :
                LET own == { l \in DOMAIN labels : labels[l].mux_value = v
                                                   /\ labels[l].signal = k }
                    start == Signals[k].start_bit
                IN  /\ Shown(v, k) = Codec!SignalBits(Signals[k]) \cap MessageBits
                    /\ Cardinality(own) = IF start \in MessageBits THEN 1 ELSE 0
                    /\ \A l \in own : labels[l].byte = start \div 8
                                      /\ labels[l].column = 7 - (start % 8)

(* print_signal_tree: every signal is in the tree once. It starts from the  *)
(* first switch: a second one is missing.                                   *)
TreeIsComplete ==
    pc = "printed" =>
        \A k \in DOMAIN Signals :
            Cardinality({ t \in DOMAIN tree : tree[t] = k })
              = IF Signals[k].multiplexer = "MuxSwitch" /\ get_mux_signal # {k} THEN 0 ELSE 1

(* operator<<: the printing comes to an end, however far the cursor wraps:  *)
(* in a crash if there is a message with values and no switch.              *)
PrintEnds ==
    LET OfValue(p)  == \E k \in DOMAIN net[p].signals : net[p].signals[k].multiplexer = "MuxValue"
        HasSwitch(p) == \E k \in DOMAIN net[p].signals : net[p].signals[k].multiplexer = "MuxSwitch"
    IN  <>[](pc = IF \E p \in DOMAIN net : OfValue(p) /\ ~ HasSwitch(p)
                    THEN "crashed" ELSE "done")

(* bit_is_inbetween: the layout shows a signal where it is decoded from, a  *)
(* big endian one too.                                                      *)
LayoutShowsDecodedBits ==
    pc = "printed" =>
        \A k \in DOMAIN Signals : \A v \in Values :
            k \in Active(v) => Shown(v, k) = Codec!SignalBits(Signals[k]) \cap MessageBits
=============================================================================

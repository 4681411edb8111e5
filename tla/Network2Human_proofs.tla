------------------------- MODULE Network2Human_proofs -------------------------
(***************************************************************************)
(* Network2Human for all messages: where the cursor is, what the tree has, *)
(* and what the layouts show.                                              *)
(*                                                                         *)
(* IInv adds to the alignment of the cursor how far it may have wrapped    *)
(* below 0, and that the rows of the message have not been used up while   *)
(* one is printed. TreeInv says what the tree is made from. LayoutInv says *)
(* of each value whether it is printed, is being printed or is pending,    *)
(* and of the one that is being printed what is there in the middle of a   *)
(* row: which bits have a cell, how many starts the depth counts, and      *)
(* which labels the lines above and this one have set. Weaker forms of it  *)
(* hold of signals that overlap. Last, that printing stops, and where.     *)
(***************************************************************************)
EXTENDS Network2Human, SequenceLemmas, TLAPS

CursorInv ==
    pc \in {"cells", "labels"} =>
        /\ \/ i_bit + i = 8 * byte + 7
           \/ i_bit + i = 8 * byte + 7 + WordSize
        /\ IF pc = "labels" \/ i > 0 THEN byte < net[m].size ELSE byte <= net[m].size

IInv ==
    /\ net \in Networks
    /\ m \in Nat \ {0}
    /\ byte \in Nat /\ i \in 0 .. 8 /\ i_bit \in 0 .. WordSize - 1 /\ depth \in Nat
    /\ pc \in {"pass", "cells", "labels"} => m <= Len(net)
    /\ CursorInv
    /\ pc = "labels" => depth > 0

-----------------------------------------------------------------------------
(* Subtraction on a word.                                                   *)

(* The word of the cursor is longer than a byte.                            *)
LEMMA WordBound == WordSize \in Nat /\ WordSize > 8
BY WordAssumption

(* Which of the words a number is that is at most one word away from them.  *)
LEMMA WordOf ==
    ASSUME NEW W \in Nat, NEW x \in Int
    PROVE  /\ 0 <= x /\ x < W => x % W = x
           /\ - W <= x /\ x < 0 => x % W = x + W
           /\ W <= x /\ x < 2 * W => x % W = x - W
OBVIOUS

(* The sizes of the messages leave room for a row on the word. *)
LEMMA MessageOf ==
    ASSUME IInv, m <= Len(net)
    PROVE  net[m] \in Message /\ 8 * net[m].size + 8 < WordSize
  <1>1. net \in Seq(Message) /\ \A k \in DOMAIN net : 8 * net[k].size + 8 < WordSize
    BY NetworksAssumption DEF IInv, CursorInv
  <1>2. m \in 1 .. Len(net) /\ DOMAIN net = 1 .. Len(net)
    BY <1>1 DEF IInv, CursorInv
  <1> QED
    BY <1>1, <1>2

(* Signals start at numbers.                                                *)
LEMMA StartOf ==
    ASSUME IInv, m <= Len(net), NEW k \in DOMAIN Signals
    PROVE  Signals[k].start_bit \in Nat
  <1>1. Signals \in Seq(Signal)
    BY MessageOf DEF Message, Signals
  <1>2. Signals[k] \in Signal
    BY <1>1
  <1> QED
    BY <1>2 DEF Signal

(* The smaller of two numbers. *)
LEMMA MinOfTwo ==
    ASSUME NEW a \in Int, NEW b \in Int
    PROVE  Min({a, b}) \in {a, b} /\ Min({a, b}) <= a /\ Min({a, b}) <= b
  <1> DEFINE least == CHOOSE x \in {a, b} : \A y \in {a, b} : x <= y
  <1>1. \E x \in {a, b} : \A y \in {a, b} : x <= y
    <2>1. CASE a <= b
      BY <2>1
    <2>2. CASE b <= a
      BY <2>2
    <2> QED
      BY <2>1, <2>2
  <1>2. least \in {a, b} /\ \A y \in {a, b} : least <= y
    BY <1>1, Zenon
  <1>3. Min({a, b}) = least
    BY DEF Min
  <1> QED
    BY <1>2, <1>3

(* The signal under the cursor is one of the message. *)
LEMMA CurSigOf ==
    ASSUME IInv, m <= Len(net), find_cur_sig # 0
    PROVE  find_cur_sig \in DOMAIN Signals
  <1> DEFINE those == { k \in DOMAIN Signals : bit_is_inbetween(Signals[k], i_bit) }
  <1>1. those \subseteq Nat
    BY MessageOf DEF Message, Signals
  <1>2. those # {} /\ find_cur_sig = Min(those)
    BY DEF find_cur_sig
  <1> HIDE DEF those
  <1>3. \E x \in those : \A y \in those : x <= y
    <2>1. those \in SUBSET Nat /\ those # {}
      BY <1>1, <1>2
    <2> QED
      BY <2>1, LeastNumber
  <1>4. Min(those) \in those
    BY <1>3, Zenon DEF Min
  <1> QED
    BY <1>2, <1>4 DEF those

(* What a subtraction leaves, given up to a word.                           *)
LEMMA LowerIs ==
    ASSUME IInv, NEW n \in Int, NEW r \in 0 .. WordSize - 1,
           i_bit - n \in {r, r - WordSize, r + WordSize}
    PROVE  Lower(n) = r
  <1> DEFINE x == i_bit - n
             W == WordSize
  <1>1. W \in Nat /\ x \in Int /\ r \in 0 .. W - 1 /\ x \in {r, r - W, r + W}
    BY WordBound DEF IInv, CursorInv
  <1>2. Lower(n) = x % W
    BY DEF Lower
  <1> HIDE DEF x, W
  <1>3. /\ 0 <= x /\ x < W => x % W = x
        /\ - W <= x /\ x < 0 => x % W = x + W
        /\ W <= x /\ x < 2 * W => x % W = x - W
    BY <1>1, WordOf
  <1>4. x % W = r
    BY <1>1, <1>3
  <1> QED
    BY <1>2, <1>4

(* To the right by no more than one below 0: the cursor stays aligned. *)
LEMMA MovedRight ==
    ASSUME IInv, pc \in {"cells", "labels"}, m <= Len(net),
           NEW n \in 1 .. 8, i + n <= 8, n <= i_bit + 1
    PROVE  /\ Lower(n) \in 0 .. WordSize - 1
           /\ \/ Lower(n) + (i + n) = 8 * byte + 7
              \/ Lower(n) + (i + n) = 8 * byte + 7 + WordSize
  <1>1. WordSize \in Nat /\ i_bit \in 0 .. WordSize - 1 /\ i \in 0 .. 8 /\ byte \in Nat
    BY WordBound DEF IInv, CursorInv
  <1>2. i_bit + i = 8 * byte + 7 \/ i_bit + i = 8 * byte + 7 + WordSize
    BY DEF IInv, CursorInv
  <1>3. CASE n <= i_bit
    <2>1. i_bit - n \in 0 .. WordSize - 1
      BY <1>1, <1>3
    <2>2. Lower(n) = i_bit - n
      BY <1>1, <2>1, LowerIs
    <2> QED
      BY <1>1, <1>2, <2>1, <2>2
  <1>4. CASE n = i_bit + 1
    <2>1. WordSize - 1 \in 0 .. WordSize - 1 /\ i_bit - n = WordSize - 1 - WordSize
      BY <1>1, <1>4
    <2>2. Lower(n) = WordSize - 1
      BY <1>1, <2>1, LowerIs
    <2> QED
      BY <1>1, <1>2, <1>4, <2>2
  <1> QED
    BY <1>1, <1>3, <1>4

(* From the end of a line back to its first cell, and to that of the next   *)
(* row.                                                                     *)
LEMMA MovedBack ==
    ASSUME IInv, pc \in {"cells", "labels"}, m <= Len(net), i = 8
    PROVE  /\ Lower(-8) = 8 * byte + 7 /\ Lower(-16) = 8 * (byte + 1) + 7
           /\ Lower(-8) \in 0 .. WordSize - 1 /\ Lower(-16) \in 0 .. WordSize - 1
           /\ byte < net[m].size
  <1>1. /\ WordSize \in Nat /\ i_bit \in 0 .. WordSize - 1 /\ byte \in Nat
        /\ net[m].size \in Nat /\ 8 * net[m].size + 8 < WordSize /\ byte < net[m].size
    BY WordBound, MessageOf DEF IInv, CursorInv, Message
  <1>2. i_bit + 8 = 8 * byte + 7 \/ i_bit + 8 = 8 * byte + 7 + WordSize
    BY DEF IInv, CursorInv
  <1>3. Lower(-8) = 8 * byte + 7 /\ Lower(-8) \in 0 .. WordSize - 1
    <2> DEFINE r == 8 * byte + 7
    <2>1. r \in 0 .. WordSize - 1 /\ (i_bit - (-8) = r \/ i_bit - (-8) = r + WordSize)
      BY <1>1, <1>2
    <2> HIDE DEF r
    <2>2. Lower(-8) = r
      BY <2>1, LowerIs
    <2>3. Lower(-8) \in 0 .. WordSize - 1
      BY <2>1, <2>2
    <2> QED
      BY <2>2, <2>3 DEF r
  <1>4. Lower(-16) = 8 * (byte + 1) + 7 /\ Lower(-16) \in 0 .. WordSize - 1
    <2> DEFINE r == 8 * (byte + 1) + 7
    <2>1. r \in 0 .. WordSize - 1 /\ (i_bit - (-16) = r \/ i_bit - (-16) = r + WordSize)
      BY <1>1, <1>2
    <2> HIDE DEF r
    <2>2. Lower(-16) = r
      BY <2>1, LowerIs
    <2>3. Lower(-16) \in 0 .. WordSize - 1
      BY <2>1, <2>2
    <2> QED
      BY <2>2, <2>3 DEF r
  <1> QED
    BY <1>1, <1>3, <1>4

-----------------------------------------------------------------------------
(* One lemma per action that moves the cursor.                              *)

(* A cell moves the cursor one bit down.                                    *)
LEMMA PrintCellIInv ==
    ASSUME IInv, PrintCell
    PROVE  IInv'
  <1> DEFINE k == find_cur_sig
  <1>1. /\ pc = "cells" /\ i < 8 /\ (i = 0 => i_bit < 8 * net[m].size)
        /\ depth' \in {depth, depth + 1} /\ i_bit' = Lower(1) /\ i' = i + 1
        /\ UNCHANGED << net, m, pc, byte >>
    BY DEF PrintCell
  <1>2. m <= Len(net) /\ i \in 0 .. 8 /\ byte \in Nat /\ i_bit \in 0 .. WordSize - 1
    BY <1>1 DEF IInv, CursorInv
  <1>3. /\ i_bit' \in 0 .. WordSize - 1
        /\ i_bit' + i' = 8 * byte + 7 \/ i_bit' + i' = 8 * byte + 7 + WordSize
    BY <1>1, <1>2, WordBound, MovedRight
  <1>4. byte < net[m].size
    BY <1>1, <1>2, WordBound, MessageOf DEF IInv, CursorInv, Message
  <1> QED
    BY <1>1, <1>2, <1>3, <1>4 DEF IInv, CursorInv

(* The end of a row of cells moves it back to the first bit of the row, or  *)
(* to the next.                                                             *)
LEMMA EndCellsIInv ==
    ASSUME IInv, EndCells
    PROVE  IInv'
  <1>1. /\ pc = "cells" /\ i = 8 /\ i' = 0
        /\ UNCHANGED << net, m, depth >>
        /\ \/ depth > 0 /\ pc' = "labels" /\ i_bit' = Lower(-8) /\ byte' = byte
           \/ pc' = pc /\ i_bit' = Lower(-16) /\ byte' = byte + 1
    BY DEF EndCells
  <1>2. m <= Len(net) /\ byte \in Nat /\ depth \in Nat
    BY <1>1 DEF IInv, CursorInv
  <1>3. net[m].size \in Nat
    BY <1>2, MessageOf DEF Message
  <1>4. /\ Lower(-8) = 8 * byte + 7 /\ Lower(-16) = 8 * (byte + 1) + 7
        /\ Lower(-8) \in 0 .. WordSize - 1 /\ Lower(-16) \in 0 .. WordSize - 1
        /\ byte < net[m].size
    BY <1>1, <1>2, MovedBack
  <1>5. CursorInv'
    <2>1. CASE depth > 0 /\ pc' = "labels" /\ i_bit' = Lower(-8) /\ byte' = byte
      BY <1>1, <1>2, <1>4, <2>1 DEF CursorInv
    <2>2. CASE pc' = pc /\ i_bit' = Lower(-16) /\ byte' = byte + 1
      <3>1. byte' <= net[m].size
        BY <1>2, <1>3, <1>4, <2>2
      <3> QED
        BY <1>1, <1>2, <1>4, <2>2, <3>1 DEF CursorInv
    <2> QED
      BY <1>1, <2>1, <2>2
  <1> QED
    BY <1>1, <1>2, <1>4, <1>5 DEF IInv

(* So does a label, over the columns without one, too.                      *)
LEMMA PrintLabelIInv ==
    ASSUME IInv, PrintLabel
    PROVE  IInv'
  <1> DEFINE k       == find_cur_sig
             skipped == IF k = 0 THEN 0 ELSE Skipped(Signals[k])
             step    == IF i + skipped = 8 THEN skipped ELSE skipped + 1
  <1>1. /\ pc = "labels" /\ i < 8 /\ i_bit' = Lower(step) /\ i' = i + step
        /\ UNCHANGED << net, m, pc, byte, depth >>
    BY DEF PrintLabel
  <1>2. m <= Len(net) /\ i \in 0 .. 8 /\ byte \in Nat /\ i_bit \in 0 .. WordSize - 1
    BY <1>1 DEF IInv, CursorInv
  <1>3. skipped \in 0 .. 8 - i /\ skipped <= i_bit
    <2>1. CASE k = 0
      BY <1>1, <1>2, <2>1, WordBound
    <2>2. CASE k # 0
      <3>1. k \in DOMAIN Signals
        BY <1>2, <2>2, CurSigOf
      <3>2. Signals[k].start_bit \in Nat
        BY <1>2, <3>1, StartOf
      <3> DEFINE start == Signals[k].start_bit
      <3>3. skipped = IF i_bit > start THEN Min({8 - i, i_bit - start}) ELSE 0
        BY <2>2 DEF Skipped
      <3> HIDE DEF start, skipped, k
      <3>4. Min({8 - i, i_bit - start}) \in {8 - i, i_bit - start}
            /\ Min({8 - i, i_bit - start}) <= 8 - i
            /\ Min({8 - i, i_bit - start}) <= i_bit - start
        <4>1. 8 - i \in Int /\ i_bit - start \in Int
          BY <1>2, <3>2, WordBound DEF start
        <4> QED
          BY <4>1, MinOfTwo
      <3> DEFINE least == Min({8 - i, i_bit - start})
      <3>5. start \in Nat /\ i_bit \in Nat /\ i \in 0 .. 8
        BY <1>2, <3>2, WordBound DEF start
      <3>6. skipped = IF i_bit > start THEN least ELSE 0
        BY <3>3
      <3>7. (least = 8 - i \/ least = i_bit - start) /\ least <= 8 - i /\ least <= i_bit - start
        BY <3>4
      <3> HIDE DEF least
      <3> QED
        BY <3>5, <3>6, <3>7
    <2> QED
      BY <2>1, <2>2
  <1> HIDE DEF skipped
  <1>4. step \in 1 .. 8 /\ i + step <= 8 /\ step <= i_bit + 1
    BY <1>1, <1>2, <1>3, WordBound
  <1> HIDE DEF step
  <1>5. /\ i_bit' \in 0 .. WordSize - 1
        /\ i_bit' + i' = 8 * byte + 7 \/ i_bit' + i' = 8 * byte + 7 + WordSize
    BY <1>1, <1>2, <1>4, MovedRight
  <1> QED
    BY <1>1, <1>2, <1>4, <1>5 DEF IInv, CursorInv

(* So does the end of a row of labels.                                      *)
LEMMA EndLabelsIInv ==
    ASSUME IInv, EndLabels
    PROVE  IInv'
  <1>1. /\ pc = "labels" /\ i = 8 /\ i' = 0 /\ depth' = depth - 1
        /\ UNCHANGED << net, m >>
        /\ \/ depth > 1 /\ pc' = pc /\ i_bit' = Lower(-8) /\ byte' = byte
           \/ pc' = "cells" /\ i_bit' = Lower(-16) /\ byte' = byte + 1
    BY DEF EndLabels
  <1>2. m <= Len(net) /\ byte \in Nat /\ depth \in Nat /\ depth > 0
    BY <1>1 DEF IInv, CursorInv
  <1>3. net[m].size \in Nat
    BY <1>2, MessageOf DEF Message
  <1>4. /\ Lower(-8) = 8 * byte + 7 /\ Lower(-16) = 8 * (byte + 1) + 7
        /\ Lower(-8) \in 0 .. WordSize - 1 /\ Lower(-16) \in 0 .. WordSize - 1
        /\ byte < net[m].size
    BY <1>1, <1>2, MovedBack
  <1>5. CursorInv' /\ depth' \in Nat /\ (pc' = "labels" => depth' > 0)
    <2>1. CASE depth > 1 /\ pc' = pc /\ i_bit' = Lower(-8) /\ byte' = byte
      BY <1>1, <1>2, <1>4, <2>1 DEF CursorInv
    <2>2. CASE pc' = "cells" /\ i_bit' = Lower(-16) /\ byte' = byte + 1
      <3>1. byte' <= net[m].size
        BY <1>2, <1>3, <1>4, <2>2
      <3> QED
        BY <1>1, <1>2, <1>4, <2>2, <3>1 DEF CursorInv
    <2> QED
      BY <1>1, <2>1, <2>2
  <1> QED
    BY <1>1, <1>2, <1>4, <1>5 DEF IInv

-----------------------------------------------------------------------------
(* The other actions do not move it, or set it to the first row.            *)
LEMMA OtherIInv ==
    ASSUME IInv,
           PrintMessage \/ PrintHeader \/ EndLayout \/ print_signal_tree
             \/ NextMessage \/ End \/ UNCHANGED vars
    PROVE  IInv'
  <1>1. CASE PrintMessage
    BY <1>1 DEF PrintMessage, IInv, CursorInv, cursor
  <1>2. CASE PrintHeader
    <2>1. pc = "pass" /\ m <= Len(net) /\ net' = net /\ m' = m
      BY <1>2 DEF PrintHeader, IInv, CursorInv
    <2>2. net[m].size \in Nat /\ 8 * net[m].size + 8 < WordSize
      BY <2>1, MessageOf DEF Message
    <2>3. CASE pc' = "crashed" /\ UNCHANGED << passes, mux_value, cursor >>
      BY <2>1, <2>3 DEF IInv, CursorInv, cursor
    <2>4. CASE pc' = "cells" /\ byte' = 0 /\ i_bit' = 7 /\ i' = 0 /\ depth' = 0
      BY <2>1, <2>2, <2>4, WordBound DEF IInv, CursorInv
    <2> QED
      BY <1>2, <2>3, <2>4 DEF PrintHeader
  <1>3. CASE EndLayout
    BY <1>3 DEF EndLayout, IInv, CursorInv, cursor
  <1>4. CASE print_signal_tree
    BY <1>4 DEF print_signal_tree, IInv, CursorInv, cursor
  <1>5. CASE NextMessage
    BY <1>5 DEF NextMessage, IInv, CursorInv, cursor
  <1>6. CASE End
    BY <1>6 DEF End, IInv, CursorInv, cursor
  <1>7. CASE UNCHANGED vars
    BY <1>7 DEF vars, IInv, CursorInv, cursor
  <1> QED
    BY <1>1, <1>2, <1>3, <1>4, <1>5, <1>6, <1>7

(* A word has room for the first row, as there are messages only if it has. *)
LEMMA InitIInv == Init => IInv
BY WordBound DEF Init, IInv, CursorInv

(* The invariant holds in every state. *)
THEOREM Invariance == Spec => []IInv
  <1>1. IInv /\ [Next]_vars => IInv'
    BY PrintCellIInv, EndCellsIInv, PrintLabelIInv, EndLabelsIInv, OtherIInv DEF Next
  <1> QED
    BY InitIInv, <1>1, PTL DEF Spec

(* print_signal: the cursor is at the bit of its row and column, for        *)
(* messages of every size and signals however they lie.                     *)
THEOREM CursorAlignedAlways == Spec => []CursorAligned
  <1>1. IInv => CursorAligned
    <2> SUFFICES ASSUME IInv, pc \in {"cells", "labels"} PROVE CursorAligned
      BY DEF CursorAligned
    <2>1. m <= Len(net)
      BY DEF IInv, CursorInv
    <2>2. /\ WordSize \in Nat /\ i_bit \in 0 .. WordSize - 1 /\ byte \in Nat /\ i \in 0 .. 8
          /\ net[m].size \in Nat /\ 8 * net[m].size + 8 < WordSize /\ byte <= net[m].size
      BY <2>1, WordBound, MessageOf DEF IInv, CursorInv, Message
    <2> DEFINE r == 8 * byte + 7
               x == i_bit + i
               W == WordSize
    <2>3. W \in Nat /\ r \in 0 .. W - 1 /\ (x = r \/ x = r + W) /\ x \in Int
      <3>1. x = r \/ x = r + W
        BY <2>1 DEF IInv, CursorInv
      <3> DEFINE s == net[m].size
      <3>2. s \in Nat /\ 8 * s + 8 < WordSize /\ byte <= s /\ byte \in Nat /\ WordSize \in Nat
        BY <2>2
      <3> HIDE DEF s
      <3>3. r \in 0 .. W - 1
        BY <3>2
      <3> QED
        BY <2>2, <3>1, <3>3
    <2> HIDE DEF r, x, W
    <2>4. /\ 0 <= x /\ x < W => x % W = x
          /\ W <= x /\ x < 2 * W => x % W = x - W
      BY <2>3, WordOf
    <2>5. x % W = r
      BY <2>3, <2>4
    <2> QED
      BY <2>2, <2>5 DEF CursorAligned, r, x, W
  <1> QED
    BY Invariance, <1>1, PTL

-----------------------------------------------------------------------------
(* A std::set has each of its elements once. *)
LEMMA AscendingLists ==
    ASSUME NEW S \in SUBSET Nat, IsFiniteSet(S)
    PROVE  Lists(Ascending(S), S)
  <1>1. PICK t : Increasing(t, S)
    BY OrderExists
  <1>2. \E s \in [ 1 .. Cardinality(S) -> S ] : \A a, b \in DOMAIN s : a < b => s[a] < s[b]
    BY <1>1 DEF Increasing
  <1>3. Increasing(Ascending(S), S)
    BY <1>2, Zenon DEF Ascending, Increasing
  <1> QED
    BY <1>3, IncreasingLists

-----------------------------------------------------------------------------
(* The tree.                                                                *)

(* The signals of the message printed.                                      *)
LEMMA SignalsOf ==
    ASSUME IInv, m <= Len(net)
    PROVE  /\ Signals \in Seq(Signal)
           /\ DOMAIN Signals = 1 .. Len(Signals) /\ Len(Signals) \in Nat
           /\ \A k \in DOMAIN Signals : Signals[k] \in Signal
  <1>1. Signals \in Seq(Signal)
    BY MessageOf DEF Message, Signals
  <1> QED
    BY <1>1

(* There are finitely many of them.                                         *)
LEMMA IndicesFinite ==
    ASSUME IInv, m <= Len(net), NEW S \in SUBSET DOMAIN Signals
    PROVE  S \in SUBSET Nat /\ IsFiniteSet(S)
  <1>1. DOMAIN Signals = 1 .. Len(Signals) /\ Len(Signals) \in Nat
    BY SignalsOf
  <1>2. IsFiniteSet(DOMAIN Signals)
    BY <1>1, FS_Interval
  <1> QED
    BY <1>1, <1>2, FS_Subset

(* The switch values are those of the switched signals.                     *)
LEMMA ValuesOf ==
    ASSUME IInv, m <= Len(net)
    PROVE  /\ get_mux_values \in SUBSET Nat /\ IsFiniteSet(get_mux_values)
           /\ get_mux_values = { Signals[k].switch_value : k \in
                                   { k \in DOMAIN Signals : Signals[k].multiplexer = "MuxValue" } }
  <1> DEFINE K == { k \in DOMAIN Signals : Signals[k].multiplexer = "MuxValue" }
             V == { Signals[k].switch_value : k \in K }
             f == [ k \in K |-> Signals[k].switch_value ]
  <1>1. get_mux_values = V
    BY DEF get_mux_values, ToSet
  <1>2. V \in SUBSET Nat
    BY SignalsOf DEF Signal
  <1>3. IsFiniteSet(K)
    BY IndicesFinite
  <1>4. f \in Surjection(K, V)
    BY DEF Surjection
  <1>5. IsFiniteSet(V)
    BY <1>3, <1>4, FS_Surjection
  <1> QED
    BY <1>1, <1>2, <1>5

(* The first switch, if there is one. *)
LEMMA SwitchOf ==
    ASSUME IInv, m <= Len(net)
    PROVE  /\ get_mux_signal \in SUBSET DOMAIN Signals
           /\ \A k \in get_mux_signal : /\ Signals[k].multiplexer = "MuxSwitch"
                                        /\ get_mux_signal = {k}
  <1>1. DOMAIN Signals \subseteq Nat
    BY SignalsOf
  <1>2. ASSUME NEW k \in get_mux_signal, NEW l \in get_mux_signal
        PROVE  k = l
    <2>1. k \in Nat /\ l \in Nat /\ k <= l /\ l <= k
      BY <1>1 DEF get_mux_signal
    <2> QED
      BY <2>1
  <1>3. /\ get_mux_signal \in SUBSET DOMAIN Signals
        /\ \A k \in get_mux_signal : Signals[k].multiplexer = "MuxSwitch"
    BY DEF get_mux_signal
  <1> QED
    BY <1>2, <1>3

OfKind(kind) == { k \in DOMAIN Signals : Signals[k].multiplexer = kind }
OfValue(v)   == { k \in OfKind("MuxValue") : Signals[k].switch_value = v }

(* Going down the values in order lists each switched signal once.          *)
LEMMA BelowValuesLists ==
    ASSUME IInv, m <= Len(net)
    PROVE  Lists(BelowValues, OfKind("MuxValue"))
  <1> DEFINE values == Ascending(get_mux_values)
             seqs   == [ v \in DOMAIN values |-> Below(values[v]) ]
             S      == [ v \in DOMAIN values |-> OfValue(values[v]) ]
  <1>1. Lists(values, get_mux_values)
    BY ValuesOf, AscendingLists
  <1>2. Sequence(seqs) /\ DOMAIN seqs = DOMAIN values
    <2>1. Len(values) \in Nat /\ DOMAIN values = 1 .. Len(values)
      BY <1>1, SequenceDomain DEF Lists
    <2>2. seqs = [ v \in 1 .. Len(values) |-> seqs[v] ]
      BY <2>1
    <2> HIDE DEF seqs, values
    <2>3. Sequence(seqs)
      BY <2>1, <2>2, SequenceMade
    <2> QED
      BY <2>3 DEF seqs
  <1>3. ASSUME NEW v \in DOMAIN seqs
        PROVE  Lists(seqs[v], S[v])
    <2>1. seqs[v] = Ascending(OfValue(values[v])) /\ S[v] = OfValue(values[v])
      <3>1. Below(values[v]) = Ascending(OfValue(values[v]))
        <4>1. OfValue(values[v]) = { k \in DOMAIN Signals :
                   /\ Signals[k].multiplexer = "MuxValue"
                   /\ Signals[k].switch_value = values[v] }
          BY DEF OfValue, OfKind
        <4> QED
          BY <4>1 DEF Below
      <3> QED
        BY <1>2, <3>1
    <2>2. OfValue(values[v]) \in SUBSET DOMAIN Signals
      BY DEF OfValue, OfKind
    <2>3. Lists(Ascending(OfValue(values[v])), OfValue(values[v]))
      BY <2>2, IndicesFinite, AscendingLists
    <2> QED
      BY <2>1, <2>3
  <1>4. ASSUME NEW v \in DOMAIN seqs, NEW w \in DOMAIN seqs, v # w
        PROVE  S[v] \cap S[w] = {}
    <2>1. values[v] # values[w]
      BY <1>1, <1>2, <1>4 DEF Lists
    <2>2. S[v] = OfValue(values[v]) /\ S[w] = OfValue(values[w])
      BY <1>2
    <2> HIDE DEF values, S
    <2> QED
      BY <2>1, <2>2 DEF OfValue
  <1>5. UNION { S[v] : v \in DOMAIN seqs } = OfKind("MuxValue")
    <2>1. ASSUME NEW k \in OfKind("MuxValue")
          PROVE  \E v \in DOMAIN seqs : k \in S[v]
      <3>1. Signals[k].switch_value \in get_mux_values
        BY ValuesOf DEF OfKind
      <3>2. PICK v \in DOMAIN values : values[v] = Signals[k].switch_value
        BY <1>1, <3>1 DEF Lists
      <3>3. S[v] = OfValue(values[v]) /\ v \in DOMAIN seqs
        BY <1>2
      <3> HIDE DEF values, S, seqs
      <3>4. k \in S[v]
        BY <3>2, <3>3 DEF OfValue
      <3> QED
        BY <3>3, <3>4
    <2>2. ASSUME NEW v \in DOMAIN seqs PROVE S[v] \subseteq OfKind("MuxValue")
      <3>1. S[v] = OfValue(values[v])
        BY <1>2
      <3> HIDE DEF values, S, seqs
      <3> QED
        BY <3>1 DEF OfValue
    <2> HIDE DEF values, S, seqs
    <2> QED
      BY <2>1, <2>2
  <1>6. BelowValues = FlattenSeq(seqs)
    BY DEF BelowValues
  <1> HIDE DEF seqs, S, values
  <1>7. Lists(FlattenSeq(seqs), UNION { S[v] : v \in DOMAIN seqs })
    BY <1>2, <1>3, <1>4, ListsFlattened
  <1> QED
    BY <1>5, <1>6, <1>7

(* The signals print_signal_tree reaches. *)
TreeSignals ==
    { k \in DOMAIN Signals : Signals[k].multiplexer = "MuxSwitch" => k \in get_mux_signal }

(* The tree lists each signal once, but for switches after the first.       *)
LEMMA SignalTreeLists ==
    ASSUME IInv, m <= Len(net), ~ NullSwitch
    PROVE  Lists(SignalTree, TreeSignals)
  <1>1. Lists(Direct, OfKind("NoMux"))
    <2>1. OfKind("NoMux") \in SUBSET DOMAIN Signals /\ Direct = Ascending(OfKind("NoMux"))
      BY DEF OfKind, Direct
    <2> QED
      BY <2>1, IndicesFinite, AscendingLists
  <1>2. \A k \in DOMAIN Signals :
           Signals[k].multiplexer \in {"NoMux", "MuxSwitch", "MuxValue"}
    BY SignalsOf DEF Signal
  <1>3. CASE get_mux_signal = {}
    <2>1. SignalTree = << >> \o Direct
      BY <1>3 DEF SignalTree
    <2>2. OfKind("MuxValue") = {}
      BY <1>3, ValuesOf DEF NullSwitch, OfKind
    <2>3. TreeSignals = {} \cup OfKind("NoMux")
      BY <1>2, <1>3, <2>2 DEF TreeSignals, OfKind
    <2>4. {} \cap OfKind("NoMux") = {}
      OBVIOUS
    <2>5. Lists(<< >> \o Direct, {} \cup OfKind("NoMux"))
      BY <1>1, <2>4, ListsNone, ListsConcat
    <2> QED
      BY <2>1, <2>3, <2>5
  <1>4. CASE get_mux_signal # {}
    <2> DEFINE switch == Ascending(get_mux_signal)
    <2>1. SignalTree = (switch \o BelowValues) \o Direct
      BY <1>4 DEF SignalTree
    <2>2. Lists(switch, get_mux_signal)
      BY SwitchOf, IndicesFinite, AscendingLists
    <2> HIDE DEF switch
    <2>3. get_mux_signal \cap OfKind("MuxValue") = {}
      BY SwitchOf DEF OfKind
    <2>4. Lists(switch \o BelowValues, get_mux_signal \cup OfKind("MuxValue"))
      BY <2>2, <2>3, BelowValuesLists, ListsConcat
    <2>5. (get_mux_signal \cup OfKind("MuxValue")) \cap OfKind("NoMux") = {}
      BY SwitchOf DEF OfKind
    <2>6. Lists((switch \o BelowValues) \o Direct,
                (get_mux_signal \cup OfKind("MuxValue")) \cup OfKind("NoMux"))
      BY <1>1, <2>4, <2>5, ListsConcat
    <2>7. TreeSignals = (get_mux_signal \cup OfKind("MuxValue")) \cup OfKind("NoMux")
      <3>1. get_mux_signal \subseteq OfKind("MuxSwitch")
        BY SwitchOf DEF OfKind
      <3> QED
        BY <1>2, <3>1 DEF TreeSignals, OfKind
    <2> QED
      BY <2>1, <2>6, <2>7
  <1> QED
    BY <1>3, <1>4

TreeInv ==
    /\ pc \in {"cells", "labels", "tree", "printed"} => m <= Len(net) /\ ~ NullSwitch
    /\ pc = "printed" => tree = SignalTree

(* A tree that is printed has these signals.                                *)
LEMMA TreeStep ==
    ASSUME IInv, TreeInv, [Next]_vars
    PROVE  TreeInv'
  <1>1. ASSUME net' = net, m' = m
        PROVE  NullSwitch' = NullSwitch /\ SignalTree' = SignalTree
    <2>1. Signals' = Signals
      BY <1>1 DEF Signals
    <2>2. get_mux_values' = get_mux_values /\ get_mux_signal' = get_mux_signal
      BY <2>1 DEF get_mux_values, get_mux_signal
    <2>3. Direct' = Direct /\ BelowValues' = BelowValues
      BY <2>1, <2>2 DEF Direct, BelowValues, Below
    <2> QED
      BY <2>2, <2>3 DEF NullSwitch, SignalTree
  <1>2. CASE PrintMessage
    BY <1>2 DEF PrintMessage, TreeInv
  <1>3. CASE PrintHeader
    <2>1. net' = net /\ m' = m /\ pc = "pass" /\ m <= Len(net)
      BY <1>3 DEF PrintHeader, IInv, CursorInv
    <2>2. pc' = "crashed" \/ (pc' = "cells" /\ ~ NullSwitch)
      BY <1>3 DEF PrintHeader
    <2> QED
      BY <1>1, <2>1, <2>2 DEF TreeInv
  <1>4. CASE PrintCell \/ EndCells \/ PrintLabel \/ EndLabels
    <2>1. /\ net' = net /\ m' = m /\ pc \in {"cells", "labels"}
          /\ pc' \in {"cells", "labels"}
      BY <1>4 DEF PrintCell, EndCells, PrintLabel, EndLabels
    <2> QED
      BY <1>1, <2>1 DEF TreeInv
  <1>5. CASE EndLayout
    <2>1. net' = net /\ m' = m /\ pc = "cells" /\ pc' \in {"tree", "pass"}
      BY <1>5 DEF EndLayout
    <2> QED
      BY <1>1, <2>1 DEF TreeInv
  <1>6. CASE print_signal_tree
    <2>1. net' = net /\ m' = m /\ pc = "tree" /\ pc' = "printed" /\ tree' = SignalTree
      BY <1>6 DEF print_signal_tree
    <2> QED
      BY <1>1, <2>1 DEF TreeInv
  <1>7. CASE NextMessage \/ End
    <2>1. pc' \in {"message", "done"}
      BY <1>7 DEF NextMessage, End
    <2> QED
      BY <2>1 DEF TreeInv
  <1>8. CASE UNCHANGED vars
    BY <1>1, <1>8 DEF TreeInv, vars, output
  <1> QED
    BY <1>2, <1>3, <1>4, <1>5, <1>6, <1>7, <1>8 DEF Next

(* Each signal of the tree is in it once, the others are not. *)
LEMMA TreeShows ==
    ASSUME IInv, TreeInv
    PROVE  TreeIsComplete
  <1> SUFFICES ASSUME pc = "printed", NEW k \in DOMAIN Signals
               PROVE  Cardinality({ t \in DOMAIN tree : tree[t] = k })
                        = IF Signals[k].multiplexer = "MuxSwitch" /\ get_mux_signal # {k}
                            THEN 0 ELSE 1
    BY DEF TreeIsComplete
  <1>1. Lists(tree, TreeSignals) /\ m <= Len(net)
    BY SignalTreeLists DEF TreeInv
  <1>2. k \in TreeSignals
          <=> ~ (Signals[k].multiplexer = "MuxSwitch" /\ get_mux_signal # {k})
    BY <1>1, SwitchOf DEF TreeSignals
  <1> DEFINE places == { t \in DOMAIN tree : tree[t] = k }
  <1>3. CASE k \in TreeSignals
    <2>1. PICK t \in DOMAIN tree : tree[t] = k
      BY <1>1, <1>3 DEF Lists
    <2>2. places = {t}
      BY <1>1, <2>1 DEF Lists
    <2> QED
      BY <1>2, <1>3, <2>2, FS_Singleton
  <1>4. CASE k \notin TreeSignals
    <2>1. places = {}
      BY <1>1, <1>4 DEF Lists
    <2> QED
      BY <1>2, <1>4, <2>1, FS_EmptySet
  <1> QED
    BY <1>3, <1>4

(* print_signal_tree: the tree has every signal of the message once, but    *)
(* for the switches after the first, however many of them there are and     *)
(* whatever values select the others.                                       *)
THEOREM TreeIsCompleteAlways == Spec => []TreeIsComplete
  <1>1. Init => TreeInv
    BY DEF Init, TreeInv
  <1>2. IInv /\ TreeInv /\ [Next]_vars => TreeInv'
    BY TreeStep
  <1>3. IInv /\ TreeInv => TreeIsComplete
    BY TreeShows
  <1> QED
    BY Invariance, <1>1, <1>2, <1>3, PTL DEF Spec

-----------------------------------------------------------------------------
(* The layouts, apart from the state. The signals sigs of a message that    *)
(* are shown for the value v, the bits of a little endian one ...           *)
ActiveIn(sigs, v) ==
    { k \in DOMAIN sigs : sigs[k].multiplexer = "MuxValue" => sigs[k].switch_value = v }
BitsOf(s) == s.start_bit .. s.start_bit + s.bit_size - 1
IsPlain(sigs, v) ==
    /\ DOMAIN sigs \subseteq Nat \ {0}
    /\ \A k \in ActiveIn(sigs, v) : /\ sigs[k].byte_order = "LittleEndian"
                                    /\ sigs[k].start_bit \in Nat
                                    /\ sigs[k].bit_size \in Nat \ {0}
    /\ \A k, l \in ActiveIn(sigs, v) :
          k # l => BitsOf(sigs[k]) \cap BitsOf(sigs[l]) = {}
(* ... and the bits they start at, of which there are so many from a to b.  *)
StartsIn(sigs, v) == { sigs[k].start_bit : k \in ActiveIn(sigs, v) }
Count(X, a, b)    == Cardinality(X \cap (a .. b))

(* The signal of the bit b. *)
IsAt(sigs, v, b, k) ==
    /\ k = 0 => \A l \in ActiveIn(sigs, v) : b \notin BitsOf(sigs[l])
    /\ k # 0 => k \in ActiveIn(sigs, v) /\ b \in BitsOf(sigs[k])

(* The cells cs show the signals on the bits B. *)
ShownBy(cs, v, k) ==
    { cs[c].bit : c \in { c \in DOMAIN cs : cs[c].mux_value = v /\ cs[c].signal = k } }
CellsShow(sigs, v, cs, B) ==
    \A k \in ActiveIn(sigs, v) : ShownBy(cs, v, k) = BitsOf(sigs[k]) \cap B

(* The labels ls are those of the signals that start at T, each below its   *)
(* start.                                                                   *)
OwnOf(ls, v, k) == { l \in DOMAIN ls : ls[l].mux_value = v /\ ls[l].signal = k }
HasLabel(ls, v, k, s, T) ==
    /\ s \in T => \E l : OwnOf(ls, v, k) = {l}
    /\ s \notin T => OwnOf(ls, v, k) = {}
    /\ \A l \in OwnOf(ls, v, k) : ls[l].byte = s \div 8 /\ ls[l].column = 7 - (s % 8)
LabelsShow(sigs, v, ls, T) ==
    \A k \in ActiveIn(sigs, v) : HasLabel(ls, v, k, sigs[k].start_bit, T)

(* So many signals of the row start left of s. In the line of labels at     *)
(* depth d the one with d - 1 of them gets its label, when it is passed.    *)
Rank(X, by, s) == Count(X, s + 1, 8 * by + 7)
Labelled(X, by, col, d) ==
    (0 .. 8 * by - 1) \cup
    { s \in 8 * by .. 8 * by + 7 :
        \/ Rank(X, by, s) >= d
        \/ Rank(X, by, s) = d - 1 /\ s >= 8 * by + 8 - col }

(* What is there when col cells of the row by are printed ... *)
CellsDone(sigs, v, cs, ls, by, col, d, n) ==
    /\ CellsShow(sigs, v, cs, (0 .. 8 * by - 1) \cup (8 * by + 8 - col .. 8 * by + 7))
    /\ LabelsShow(sigs, v, ls, 0 .. 8 * by - 1)
    /\ d = Count(StartsIn(sigs, v), 8 * by + 8 - col, 8 * by + 7)
    /\ n = 0
(* ... and when col columns of a line of its labels are. *)
LineDone(sigs, v, cs, ls, by, col, d, n) ==
    /\ CellsShow(sigs, v, cs, 0 .. 8 * by + 7)
    /\ LabelsShow(sigs, v, ls, Labelled(StartsIn(sigs, v), by, col, d))
    /\ n = Count(StartsIn(sigs, v), 8 * by + 8 - col, 8 * by + 7)

(* A cell added shows its bit for its signal and changes no other.          *)
LEMMA ShownByAppend ==
    ASSUME NEW cs, NEW x, NEW v, NEW k, Sequence(cs)
    PROVE  ShownBy(Append(cs, x), v, k)
             = IF x.mux_value = v /\ x.signal = k THEN ShownBy(cs, v, k) \cup {x.bit}
                                                  ELSE ShownBy(cs, v, k)
  <1> DEFINE t == Append(cs, x)
             n == Len(cs) + 1
  <1>1. /\ DOMAIN t = DOMAIN cs \cup {n} /\ n \notin DOMAIN cs
        /\ \A c \in DOMAIN cs : t[c] = cs[c]
        /\ t[n] = x
    BY SequenceAppend
  <1> HIDE DEF t, n
  <1>2. ShownBy(t, v, k)
          = ShownBy(cs, v, k) \cup { x.bit : c \in { c \in {n} : x.mux_value = v /\ x.signal = k } }
    BY <1>1 DEF ShownBy
  <1> QED
    BY <1>2 DEF t

(* A label added is the last of its signal and changes no other.            *)
LEMMA OwnOfAppend ==
    ASSUME NEW ls, NEW x, NEW v, NEW k, Sequence(ls)
    PROVE  /\ OwnOf(Append(ls, x), v, k)
                = IF x.mux_value = v /\ x.signal = k THEN OwnOf(ls, v, k) \cup {Len(ls) + 1}
                                                     ELSE OwnOf(ls, v, k)
  <1> DEFINE t == Append(ls, x)
             n == Len(ls) + 1
  <1>1. /\ DOMAIN t = DOMAIN ls \cup {n} /\ n \notin DOMAIN ls
        /\ \A c \in DOMAIN ls : t[c] = ls[c]
        /\ t[n] = x
    BY SequenceAppend
  <1> HIDE DEF t, n
  <1>2. OwnOf(t, v, k)
          = OwnOf(ls, v, k) \cup { c \in {n} : x.mux_value = v /\ x.signal = k }
    BY <1>1 DEF OwnOf
  <1>3. OwnOf(t, v, k) = IF x.mux_value = v /\ x.signal = k THEN OwnOf(ls, v, k) \cup {n}
                                                            ELSE OwnOf(ls, v, k)
    BY <1>2
  <1> QED
    BY <1>3 DEF t, n

(* What is printed for another value changes nothing. *)
LEMMA OtherCell ==
    ASSUME NEW sigs, NEW v, NEW cs, NEW B, NEW x, Sequence(cs), x.mux_value # v
    PROVE  CellsShow(sigs, v, Append(cs, x), B) <=> CellsShow(sigs, v, cs, B)
  <1>1. \A k : ShownBy(Append(cs, x), v, k) = ShownBy(cs, v, k)
    BY ShownByAppend
  <1> QED
    BY <1>1 DEF CellsShow

(* Labels of other signals and values do not matter.                        *)
LEMMA OtherLabel ==
    ASSUME NEW ls, NEW x, NEW v, NEW k, NEW s, NEW T, Sequence(ls),
           x.mux_value # v \/ x.signal # k
    PROVE  HasLabel(Append(ls, x), v, k, s, T) <=> HasLabel(ls, v, k, s, T)
  <1> DEFINE t == Append(ls, x)
             own == OwnOf(ls, v, k)
             same(q) == q.byte = s \div 8 /\ q.column = 7 - (s % 8)
  <1>1. OwnOf(t, v, k) = own /\ \A l \in own : t[l] = ls[l]
    <2>1. OwnOf(Append(ls, x), v, k) = OwnOf(ls, v, k)
      BY OwnOfAppend
    <2>2. \A l \in DOMAIN ls : Append(ls, x)[l] = ls[l]
      BY SequenceAppend
    <2>3. own \subseteq DOMAIN ls
      BY DEF OwnOf
    <2> QED
      BY <2>1, <2>2, <2>3
  <1> HIDE DEF t, own
  <1>2. (\A l \in own : same(t[l])) <=> (\A l \in own : same(ls[l]))
    <2> HIDE DEF same
    <2> QED
      BY <1>1
  <1> QED
    BY <1>1, <1>2 DEF HasLabel, t, own

(* Labels show the same for sets that have the same of the starts. *)
LEMMA SameLabels ==
    ASSUME NEW sigs, NEW v, NEW ls, NEW T, NEW U, LabelsShow(sigs, v, ls, T),
           \A s \in StartsIn(sigs, v) : s \in T <=> s \in U
    PROVE  LabelsShow(sigs, v, ls, U)
  <1>1. \A k \in ActiveIn(sigs, v) : sigs[k].start_bit \in StartsIn(sigs, v)
    BY DEF StartsIn
  <1> QED
    BY <1>1 DEF LabelsShow, HasLabel

-----------------------------------------------------------------------------
(* Counting the starts.                                                     *)
LEMMA StartsAre ==
    ASSUME NEW sigs, NEW v, IsPlain(sigs, v)
    PROVE  /\ StartsIn(sigs, v) \in SUBSET Nat
           /\ \A k \in ActiveIn(sigs, v) : /\ sigs[k].start_bit \in BitsOf(sigs[k])
                                           /\ k # 0
           /\ \A k, l \in ActiveIn(sigs, v) :
                 sigs[k].start_bit = sigs[l].start_bit => k = l
  <1>1. StartsIn(sigs, v) \in SUBSET Nat
    BY DEF StartsIn, IsPlain
  <1>2. \A k \in ActiveIn(sigs, v) : sigs[k].start_bit \in BitsOf(sigs[k])
    BY DEF IsPlain, BitsOf
  <1>3. \A k \in ActiveIn(sigs, v) : k # 0
    BY DEF IsPlain, ActiveIn
  <1> QED
    BY <1>1, <1>2, <1>3 DEF IsPlain

(* How many elements of X lie between a and b is a number, 0 if none can.   *)
LEMMA CountIs ==
    ASSUME NEW X \in SUBSET Nat, NEW a \in Int, NEW b \in Int
    PROVE  /\ IsFiniteSet(X \cap (a .. b))
           /\ Count(X, a, b) \in Nat
           /\ a > b => Count(X, a, b) = 0
  <1>1. IsFiniteSet(a .. b)
    BY FS_Interval
  <1>2. IsFiniteSet(X \cap (a .. b))
    BY <1>1, FS_Subset
  <1>3. a > b => X \cap (a .. b) = {}
    OBVIOUS
  <1> QED
    BY <1>2, <1>3, FS_EmptySet, FS_CardinalityType DEF Count

(* No start, or one, in the numbers from a up to c. *)
LEMMA CountSame ==
    ASSUME NEW X, NEW a \in Int, NEW b \in Int, NEW c \in Int, a <= c,
           \A s \in X : s \in Nat /\ ~ (a <= s /\ s < c)
    PROVE  Count(X, a, b) = Count(X, c, b)
  <1>1. X \cap (a .. b) = X \cap (c .. b)
    OBVIOUS
  <1> QED
    BY <1>1 DEF Count

(* Going down past one element, it is one more.                             *)
LEMMA CountOne ==
    ASSUME NEW X \in SUBSET Nat, NEW a \in Int, NEW b \in Int, NEW c \in Int,
           NEW x \in X, a <= x, x < c, x <= b, c <= b + 1,
           \A s \in X : (a <= s /\ s < c) => s = x
    PROVE  Count(X, a, b) = Count(X, c, b) + 1
  <1> DEFINE R == X \cap (c .. b)
  <1>1. IsFiniteSet(R) /\ x \notin R
    BY CountIs
  <1>2. \A s \in X : s \in Int
    OBVIOUS
  <1>3. X \cap (a .. b) = R \cup {x}
    BY <1>2
  <1> HIDE DEF R
  <1>4. Cardinality(R \cup {x}) = Cardinality(R) + 1
    BY <1>1, FS_AddElement
  <1> QED
    BY <1>3, <1>4 DEF Count, R

(* Fewer start left of a start of the row than in the row. *)
LEMMA RankBelow ==
    ASSUME NEW X \in SUBSET Nat, NEW by \in Nat, NEW s \in X, s \in 8 * by .. 8 * by + 7
    PROVE  /\ Rank(X, by, s) \in Nat
           /\ Rank(X, by, s) < Count(X, 8 * by, 8 * by + 7)
  <1> DEFINE R == X \cap (s + 1 .. 8 * by + 7)
             Q == X \cap (8 * by .. 8 * by + 7)
  <1>1. s \in Nat /\ s + 1 \in Int /\ 8 * by + 7 \in Int /\ 8 * by \in Int
    OBVIOUS
  <1>2. IsFiniteSet(R) /\ IsFiniteSet(Q)
    BY <1>1, CountIs
  <1>3. s \notin R /\ R \cup {s} \subseteq Q
    BY <1>1
  <1> HIDE DEF R, Q
  <1>4. Cardinality(R \cup {s}) = Cardinality(R) + 1 /\ Cardinality(R) \in Nat
        /\ Cardinality(Q) \in Nat
    BY <1>2, <1>3, FS_AddElement, FS_CardinalityType
  <1>5. Cardinality(R \cup {s}) <= Cardinality(Q)
    BY <1>2, <1>3, FS_Subset
  <1>6. Rank(X, by, s) = Cardinality(R) /\ Count(X, 8 * by, 8 * by + 7) = Cardinality(Q)
    BY DEF Rank, Count, R, Q
  <1> QED
    BY <1>4, <1>5, <1>6

(* The signal of a bit is the only one. *)
LEMMA OnlyOneAt ==
    ASSUME NEW sigs, NEW v, IsPlain(sigs, v), NEW b, NEW k, IsAt(sigs, v, b, k),
           NEW l \in ActiveIn(sigs, v), b \in BitsOf(sigs[l])
    PROVE  k # 0 /\ k = l
  <1>1. k # 0
    BY DEF IsAt
  <1>2. k \in ActiveIn(sigs, v) /\ b \in BitsOf(sigs[k])
    BY <1>1 DEF IsAt
  <1> QED
    BY <1>1, <1>2 DEF IsPlain

(* Before the first cell. *)
LEMMA LayoutBegun ==
    ASSUME NEW sigs, NEW v, IsPlain(sigs, v), NEW cs, NEW ls,
           \A c \in DOMAIN cs : cs[c].mux_value # v,
           \A l \in DOMAIN ls : ls[l].mux_value # v
    PROVE  CellsDone(sigs, v, cs, ls, 0, 0, 0, 0)
  <1> DEFINE X == StartsIn(sigs, v)
             B == (0 .. 8 * 0 - 1) \cup (8 * 0 + 8 - 0 .. 8 * 0 + 7)
             T == 0 .. 8 * 0 - 1
  <1>1. X \in SUBSET Nat
    BY StartsAre
  <1>2. 0 = Count(X, 8 * 0 + 8 - 0, 8 * 0 + 7)
    <2> HIDE DEF X
    <2>1. Count(X, 8, 7) = 0
      <3>1. 8 \in Int /\ 7 \in Int /\ 8 > 7
        OBVIOUS
      <3> QED
        BY <1>1, <3>1, CountIs
    <2>2. 8 * 0 + 8 - 0 = 8 /\ 8 * 0 + 7 = 7
      OBVIOUS
    <2> QED
      BY <2>1, <2>2
  <1>3. B = {} /\ T = {}
    OBVIOUS
  <1> HIDE DEF X, B, T
  <1>4. CellsShow(sigs, v, cs, B)
    <2>1. \A k : ShownBy(cs, v, k) = {}
      BY DEF ShownBy
    <2> QED
      BY <1>3, <2>1 DEF CellsShow
  <1>5. LabelsShow(sigs, v, ls, T)
    <2>1. \A k : OwnOf(ls, v, k) = {}
      BY DEF OwnOf
    <2> QED
      BY <1>3, <2>1 DEF LabelsShow, HasLabel
  <1> QED
    BY <1>2, <1>4, <1>5 DEF CellsDone, X, B, T

(* A cell. *)
LEMMA CellShown ==
    ASSUME NEW sigs, NEW v, IsPlain(sigs, v), NEW cs, Sequence(cs), NEW ls,
           NEW by \in Nat, NEW col \in 0 .. 7, NEW d, NEW n,
           CellsDone(sigs, v, cs, ls, by, col, d, n),
           NEW k, NEW b, b = 8 * by + 7 - col, IsAt(sigs, v, b, k),
           NEW x, x.mux_value = v, x.bit = b, x.signal = k,
           NEW d1, d1 = IF k # 0 /\ sigs[k].start_bit = b THEN d + 1 ELSE d
    PROVE  CellsDone(sigs, v, Append(cs, x), ls, by, col + 1, d1, n)
  <1> DEFINE X  == StartsIn(sigs, v)
             B  == (0 .. 8 * by - 1) \cup (8 * by + 8 - col .. 8 * by + 7)
             B1 == (0 .. 8 * by - 1) \cup (8 * by + 8 - (col + 1) .. 8 * by + 7)
             t  == Append(cs, x)
             r  == 8 * by + 7
  <1>1. b \in Nat /\ 8 * by + 8 - (col + 1) = b /\ 8 * by + 8 - col = b + 1
        /\ r \in Nat /\ b <= r
    OBVIOUS
  <1>2. B1 = B \cup {b}
    BY <1>1
  <1>3. X \in SUBSET Nat
    BY StartsAre
  <1>4. CellsShow(sigs, v, t, B1)
    <2> SUFFICES ASSUME NEW l \in ActiveIn(sigs, v)
                 PROVE  ShownBy(t, v, l) = BitsOf(sigs[l]) \cap B1
      BY DEF CellsShow
    <2>1. ShownBy(t, v, l) = IF k = l THEN ShownBy(cs, v, l) \cup {b} ELSE ShownBy(cs, v, l)
      BY ShownByAppend
    <2>2. ShownBy(cs, v, l) = BitsOf(sigs[l]) \cap B
      BY DEF CellsDone, CellsShow
    <2>3. k = l <=> b \in BitsOf(sigs[l])
      <3>1. k = l => k # 0
        BY StartsAre
      <3>2. ASSUME k = l PROVE b \in BitsOf(sigs[l])
        BY <3>1, <3>2 DEF IsAt
      <3>3. ASSUME b \in BitsOf(sigs[l]) PROVE k = l
        BY <3>3, OnlyOneAt
      <3> QED
        BY <3>2, <3>3
    <2> HIDE DEF t, B, B1
    <2> QED
      BY <1>2, <2>1, <2>2, <2>3
  <1>5. Count(X, b, r) = IF k # 0 /\ sigs[k].start_bit = b THEN Count(X, b + 1, r) + 1
                                                          ELSE Count(X, b + 1, r)
    <2>1. CASE k # 0 /\ sigs[k].start_bit = b
      <3>1. b \in X
        BY <2>1 DEF StartsIn, IsAt
      <3> HIDE DEF X, r
      <3>2. \A s \in X : (b <= s /\ s < b + 1) => s = b
        BY <1>1, <1>3
      <3>3. Count(X, b, r) = Count(X, b + 1, r) + 1
        <4>1. b \in Int /\ r \in Int /\ b + 1 \in Int /\ b < b + 1 /\ b + 1 <= r + 1
          BY <1>1
        <4> QED
          BY <1>1, <1>3, <3>1, <3>2, <4>1, CountOne
      <3> QED
        BY <2>1, <3>3
    <2>2. CASE ~ (k # 0 /\ sigs[k].start_bit = b)
      <3>1. b \notin X
        <4>1. ASSUME NEW l \in ActiveIn(sigs, v), sigs[l].start_bit = b PROVE FALSE
          <5>1. b \in BitsOf(sigs[l])
            BY <4>1, StartsAre
          <5> QED
            BY <2>2, <4>1, <5>1, OnlyOneAt
        <4> QED
          BY <4>1 DEF StartsIn
      <3> HIDE DEF X, r
      <3>2. \A s \in X : s \in Nat /\ ~ (b <= s /\ s < b + 1)
        BY <1>1, <1>3, <3>1
      <3>3. Count(X, b, r) = Count(X, b + 1, r)
        BY <1>1, <3>2, CountSame
      <3> QED
        BY <2>2, <3>3
    <2> QED
      BY <2>1, <2>2
  <1>6. d = Count(X, b + 1, r) /\ n = 0 /\ LabelsShow(sigs, v, ls, 0 .. 8 * by - 1)
    BY <1>1 DEF CellsDone
  <1>7. d1 = Count(X, 8 * by + 8 - (col + 1), 8 * by + 7)
    <2>1. d1 = Count(X, b, r)
      <3> HIDE DEF X, r
      <3> QED
        BY <1>5, <1>6
    <2> QED
      BY <1>1, <2>1
  <1> HIDE DEF t
  <1>8. CellsDone(sigs, v, t, ls, by, col + 1, d1, n)
    BY <1>4, <1>6, <1>7 DEF CellsDone
  <1> QED
    BY <1>8 DEF t

(* The last cell of a row: nothing starts in it, or there are labels. *)
LEMMA RowShown ==
    ASSUME NEW sigs, NEW v, IsPlain(sigs, v), NEW cs, NEW ls, NEW by \in Nat, NEW d, NEW n,
           CellsDone(sigs, v, cs, ls, by, 8, d, n)
    PROVE  /\ d = 0 => CellsDone(sigs, v, cs, ls, by + 1, 0, d, n)
           /\ LineDone(sigs, v, cs, ls, by, 0, d, n)
  <1> DEFINE X == StartsIn(sigs, v)
             r == 8 * by
  <1>1. /\ CellsShow(sigs, v, cs, (0 .. r - 1) \cup (r .. r + 7))
        /\ LabelsShow(sigs, v, ls, 0 .. r - 1)
        /\ d = Count(X, r, r + 7) /\ n = 0
    BY DEF CellsDone
  <1>2. X \in SUBSET Nat /\ r \in Nat
    BY StartsAre
  <1>3. \A s \in X : s \in r .. r + 7 => Rank(X, by, s) \in Nat /\ Rank(X, by, s) < d
    BY <1>1, <1>2, RankBelow
  <1>4. (0 .. r - 1) \cup (r .. r + 7) = 0 .. r + 7
    BY <1>2
  <1>5. Count(X, r + 8, r + 7) = 0 /\ Count(X, r + 16, r + 15) = 0 /\ d \in Nat
    <2> HIDE DEF X, r
    <2>1. r + 8 \in Int /\ r + 7 \in Int /\ r + 16 \in Int /\ r + 15 \in Int /\ r \in Int
          /\ r + 8 > r + 7 /\ r + 16 > r + 15
      BY <1>2
    <2> QED
      BY <1>1, <1>2, <2>1, CountIs
  <1>6. CellsShow(sigs, v, cs, 0 .. r + 7)
    BY <1>1, <1>4
  <1>7. LineDone(sigs, v, cs, ls, by, 0, d, n)
    <2> DEFINE U == Labelled(X, by, 0, d)
    <2>1. \A s \in X : s \in 0 .. r - 1 <=> s \in U
      <3> SUFFICES ASSUME NEW s \in X PROVE s \in 0 .. r - 1 <=> s \in U
        OBVIOUS
      <3>1. s \in U <=> \/ s \in 0 .. r - 1
                        \/ /\ s \in r .. r + 7
                           /\ Rank(X, by, s) >= d
                              \/ (Rank(X, by, s) = d - 1 /\ s >= r + 8 - 0)
        BY DEF Labelled
      <3> HIDE DEF X, r, U
      <3>2. s \in Nat
        BY <1>2
      <3>3. s \in r .. r + 7 => ~ (Rank(X, by, s) >= d) /\ ~ (s >= r + 8 - 0)
        BY <1>2, <1>3, <1>5, <3>2
      <3> QED
        BY <3>1, <3>3
    <2>2. LabelsShow(sigs, v, ls, U)
      <3> HIDE DEF U, r
      <3> QED
        BY <1>1, <2>1, SameLabels
    <2>3. n = Count(X, r + 8 - 0, r + 7)
      <3>1. r + 8 - 0 = r + 8
        BY <1>2
      <3> QED
        BY <1>1, <1>5, <3>1
    <2> QED
      BY <1>6, <2>2, <2>3 DEF LineDone
  <1>8. ASSUME d = 0
        PROVE  CellsDone(sigs, v, cs, ls, by + 1, 0, d, n)
    <2>1. /\ 0 .. 8 * (by + 1) - 1 = 0 .. r + 7
          /\ 8 * (by + 1) + 8 - 0 = r + 16 /\ 8 * (by + 1) + 7 = r + 15
          /\ (0 .. r + 7) \cup (r + 16 .. r + 15) = 0 .. r + 7
      BY <1>2
    <2>2. LabelsShow(sigs, v, ls, 0 .. r + 7)
      <3>1. \A s \in X : s \notin r .. r + 7
        BY <1>3, <1>8
      <3>2. \A s \in X : s \in 0 .. r - 1 <=> s \in 0 .. r + 7
        <4> HIDE DEF X, r
        <4> QED
          BY <1>2, <3>1
      <3> HIDE DEF r
      <3> QED
        BY <1>1, <3>2, SameLabels
    <2> HIDE DEF X, r
    <2>3. CellsDone(sigs, v, cs, ls, by + 1, 0, d, n)
      BY <1>1, <1>5, <1>6, <1>8, <2>1, <2>2 DEF CellsDone, X
    <2> QED
      BY <2>3
  <1> QED
    BY <1>7, <1>8

(* The end of a line of labels. *)
LEMMA LineShown ==
    ASSUME NEW sigs, NEW v, IsPlain(sigs, v), NEW cs, NEW ls, NEW by \in Nat,
           NEW d \in Nat \ {0}, NEW n, LineDone(sigs, v, cs, ls, by, 8, d, n)
    PROVE  /\ d = 1 => CellsDone(sigs, v, cs, ls, by + 1, 0, d - 1, 0)
           /\ LineDone(sigs, v, cs, ls, by, 0, d - 1, 0)
  <1> DEFINE X == StartsIn(sigs, v)
             r == 8 * by
             T == Labelled(X, by, 8, d)
  <1>1. CellsShow(sigs, v, cs, 0 .. r + 7) /\ LabelsShow(sigs, v, ls, T)
    BY DEF LineDone
  <1>2. X \in SUBSET Nat /\ r \in Nat
    BY StartsAre
  <1>3. \A s \in X : s \in r .. r + 7 => Rank(X, by, s) \in Nat
    BY <1>2, RankBelow
  <1>4. Count(X, r + 8, r + 7) = 0 /\ Count(X, r + 16, r + 15) = 0
    <2> HIDE DEF X, r
    <2>1. r + 8 \in Int /\ r + 7 \in Int /\ r + 16 \in Int /\ r + 15 \in Int
          /\ r + 8 > r + 7 /\ r + 16 > r + 15
      BY <1>2
    <2> QED
      BY <1>2, <2>1, CountIs
  <1>5. \A s \in X : s \in T <=> s \in 0 .. r - 1 \/ (s \in r .. r + 7 /\ Rank(X, by, s) >= d - 1)
    <2> SUFFICES ASSUME NEW s \in X
                 PROVE  s \in T <=> s \in 0 .. r - 1
                                    \/ (s \in r .. r + 7 /\ Rank(X, by, s) >= d - 1)
      OBVIOUS
    <2>1. s \in T <=> \/ s \in 0 .. r - 1
                      \/ /\ s \in r .. r + 7
                         /\ Rank(X, by, s) >= d
                            \/ (Rank(X, by, s) = d - 1 /\ s >= r + 8 - 8)
      BY DEF Labelled
    <2> HIDE DEF X, r, T
    <2>2. s \in r .. r + 7 => /\ Rank(X, by, s) \in Nat /\ s >= r + 8 - 8
                              /\ (Rank(X, by, s) >= d \/ Rank(X, by, s) = d - 1)
                                   <=> Rank(X, by, s) >= d - 1
      BY <1>2, <1>3
    <2> QED
      BY <2>1, <2>2
  <1>6. LineDone(sigs, v, cs, ls, by, 0, d - 1, 0)
    <2> DEFINE U == Labelled(X, by, 0, d - 1)
    <2>1. \A s \in X : s \in T <=> s \in U
      <3> SUFFICES ASSUME NEW s \in X PROVE s \in T <=> s \in U
        OBVIOUS
      <3>1. s \in U <=> \/ s \in 0 .. r - 1
                        \/ /\ s \in r .. r + 7
                           /\ Rank(X, by, s) >= d - 1
                              \/ (Rank(X, by, s) = d - 1 - 1 /\ s >= r + 8 - 0)
        BY DEF Labelled
      <3> HIDE DEF X, r, U, T
      <3>2. s \in r .. r + 7 => ~ (s >= r + 8 - 0)
        BY <1>2
      <3> QED
        BY <1>5, <3>1, <3>2
    <2>2. LabelsShow(sigs, v, ls, U)
      <3> HIDE DEF U, T
      <3> QED
        BY <1>1, <2>1, SameLabels
    <2>3. 0 = Count(X, r + 8 - 0, r + 7)
      <3>1. r + 8 - 0 = r + 8
        BY <1>2
      <3> QED
        BY <1>4, <3>1
    <2> QED
      BY <1>1, <2>2, <2>3 DEF LineDone
  <1>7. ASSUME d = 1
        PROVE  CellsDone(sigs, v, cs, ls, by + 1, 0, d - 1, 0)
    <2>1. /\ 0 .. 8 * (by + 1) - 1 = 0 .. r + 7
          /\ 8 * (by + 1) + 8 - 0 = r + 16 /\ 8 * (by + 1) + 7 = r + 15
          /\ (0 .. r + 7) \cup (r + 16 .. r + 15) = 0 .. r + 7
      BY <1>2
    <2>2. LabelsShow(sigs, v, ls, 0 .. r + 7)
      <3>1. \A s \in X : s \in T <=> s \in 0 .. r + 7
        <4> HIDE DEF X, r, T
        <4>1. \A s \in X : s \in Nat /\ (s \in r .. r + 7 => Rank(X, by, s) >= d - 1)
          BY <1>2, <1>3, <1>7
        <4> QED
          BY <1>2, <1>5, <4>1
      <3> HIDE DEF r, T
      <3> QED
        BY <1>1, <3>1, SameLabels
    <2>3. d - 1 = 0
      BY <1>7
    <2> HIDE DEF X, r
    <2>4. CellsDone(sigs, v, cs, ls, by + 1, 0, d - 1, 0)
      BY <1>1, <1>4, <2>1, <2>2, <2>3 DEF CellsDone, X
    <2> QED
      BY <2>4
  <1> QED
    BY <1>6, <1>7

(* The columns passed in a line of labels up to the start of the signal     *)
(* under the cursor, or to the end of the row if it starts in an earlier.   *)
LEMMA LabelPassed ==
    ASSUME NEW sigs, NEW v, IsPlain(sigs, v), NEW cs, NEW ls, Sequence(ls),
           NEW by \in Nat, NEW col \in 0 .. 7, NEW d \in Nat, NEW n,
           LineDone(sigs, v, cs, ls, by, col, d, n),
           NEW k, IsAt(sigs, v, 8 * by + 7 - col, k), k # 0
    PROVE  LET s == sigs[k].start_bit
           IN  /\ s \in Nat /\ s <= 8 * by + 7 - col
               /\ s < 8 * by => LineDone(sigs, v, cs, ls, by, 8, d, n)
               /\ (s >= 8 * by /\ d - 1 # n) =>
                    LineDone(sigs, v, cs, ls, by, 8 * by + 8 - s, d, n + 1)
               /\ (s >= 8 * by /\ d - 1 = n) =>
                    \A x : (/\ x.mux_value = v /\ x.signal = k
                            /\ x.byte = by /\ x.column = 8 * by + 7 - s) =>
                       LineDone(sigs, v, cs, Append(ls, x), by, 8 * by + 8 - s, d, n + 1)
  <1> DEFINE X == StartsIn(sigs, v)
             r == 8 * by
             c == 8 * by + 7 - col
             s == sigs[k].start_bit
             T == Labelled(X, by, col, d)
  <1>1. /\ CellsShow(sigs, v, cs, 0 .. r + 7) /\ LabelsShow(sigs, v, ls, T)
        /\ n = Count(X, c + 1, r + 7)
    <2>1. 8 * by + 8 - col = c + 1
      OBVIOUS
    <2> QED
      BY <2>1 DEF LineDone
  <1>2. X \in SUBSET Nat /\ r \in Nat /\ c \in r .. r + 7 /\ c + 1 = r + 8 - col
    BY StartsAre
  <1>3. /\ k \in ActiveIn(sigs, v) /\ s \in Nat /\ s <= c /\ s \in X
        /\ s + sigs[k].bit_size > c /\ sigs[k].bit_size \in Nat
    <2>1. k \in ActiveIn(sigs, v) /\ c \in BitsOf(sigs[k])
      BY DEF IsAt
    <2>2. s \in Nat /\ sigs[k].bit_size \in Nat
      BY <2>1 DEF IsPlain
    <2> HIDE DEF c
    <2> QED
      BY <1>2, <2>1, <2>2 DEF BitsOf, StartsIn
  \* Between the start and the cursor no other signal starts.
  <1>4. \A u \in X : u \in Nat /\ ((s <= u /\ u <= c) => u = s)
    <2> SUFFICES ASSUME NEW l \in ActiveIn(sigs, v),
                        s <= sigs[l].start_bit, sigs[l].start_bit <= c
                 PROVE  sigs[l].start_bit = s
      BY <1>2 DEF StartsIn
    <2> DEFINE u == sigs[l].start_bit
    <2>1. u \in BitsOf(sigs[l]) /\ u \in Nat
      BY StartsAre DEF IsPlain
    <2>2. u \in BitsOf(sigs[k])
      <3> HIDE DEF c
      <3> QED
        BY <1>2, <1>3, <2>1 DEF BitsOf
    <2>3. k = l
      BY <1>3, <2>1, <2>2 DEF IsPlain
    <2> QED
      BY <2>3
  <1>5. \A u \in X : u \in T <=> \/ u \in 0 .. r - 1
                                 \/ /\ u \in r .. r + 7
                                    /\ Rank(X, by, u) >= d
                                       \/ (Rank(X, by, u) = d - 1 /\ u >= c + 1)
    BY <1>2 DEF Labelled
  <1> HIDE DEF X, c, s, T, r
  <1>6. ASSUME s < r
        PROVE  LineDone(sigs, v, cs, ls, by, 8, d, n)
    <2>1. \A u \in X : u \in Nat /\ ~ (r <= u /\ u < c + 1)
      BY <1>2, <1>3, <1>4, <1>6
    <2>2. n = Count(X, r, r + 7)
      <3>1. r \in Int /\ r + 7 \in Int /\ c + 1 \in Int /\ r <= c + 1
        BY <1>2
      <3> QED
        BY <1>1, <2>1, <3>1, CountSame
    <2> DEFINE U == Labelled(X, by, 8, d)
    <2>3. \A u \in X : u \in T <=> u \in U
      <3> SUFFICES ASSUME NEW u \in X PROVE u \in T <=> u \in U
        OBVIOUS
      <3>1. u \in U <=> \/ u \in 0 .. r - 1
                        \/ /\ u \in r .. r + 7
                           /\ Rank(X, by, u) >= d
                              \/ (Rank(X, by, u) = d - 1 /\ u >= r + 8 - 8)
        BY DEF Labelled, r
      <3> HIDE DEF U
      <3>2. u \in r .. r + 7 => u >= r + 8 - 8 /\ u >= c + 1
        BY <1>2, <2>1
      <3> QED
        BY <1>5, <3>1, <3>2
    <2> HIDE DEF U
    <2>4. LabelsShow(sigs, v, ls, U)
      BY <1>1, <2>3, SameLabels DEF X
    <2>5. n = Count(X, r + 8 - 8, r + 7)
      <3>1. r + 8 - 8 = r
        BY <1>2
      <3> QED
        BY <2>2, <3>1
    <2> QED
      BY <1>1, <2>4, <2>5 DEF LineDone, U, r, X
  <1>7. ASSUME s >= r
        PROVE  /\ Rank(X, by, s) = n /\ n \in Nat
               /\ n + 1 = Count(X, s, r + 7)
               /\ s \in r .. r + 7
               /\ r + 8 - (r + 8 - s) = s
               /\ \A u \in X : u \in Labelled(X, by, r + 8 - s, d)
                                 <=> (u \in T \/ (u = s /\ n = d - 1))
    <2>1. s + 1 \in Int /\ c + 1 \in Int /\ r + 7 \in Int /\ s + 1 <= c + 1 /\ s < c + 1
          /\ s <= r + 7 /\ c + 1 <= r + 7 + 1 /\ s \in Int /\ s \in r .. r + 7
      BY <1>2, <1>3, <1>7
    <2>2. \A u \in X : u \in Nat /\ ~ (s + 1 <= u /\ u < c + 1)
      BY <1>2, <1>3, <1>4
    <2>3. Count(X, s + 1, r + 7) = n
      BY <1>1, <2>1, <2>2, CountSame
    <2>4. Rank(X, by, s) = n
      BY <2>3 DEF Rank, r
    <2>5. n \in Nat
      BY <1>1, <1>2, <2>1, CountIs
    <2>6. Count(X, s, r + 7) = n + 1
      <3>1. ASSUME NEW u \in X, s <= u, u < c + 1 PROVE u = s
        <4>1. u \in Nat /\ u <= c
          BY <1>2, <1>4, <3>1
        <4> QED
          BY <1>4, <3>1, <4>1
      <3> QED
        BY <1>1, <1>2, <1>3, <2>1, <3>1, CountOne
    <2>7. r + 8 - (r + 8 - s) = s
      BY <1>2, <1>3
    <2>8. ASSUME NEW u \in X
          PROVE  u \in Labelled(X, by, r + 8 - s, d) <=> (u \in T \/ (u = s /\ n = d - 1))
      <3> DEFINE U == Labelled(X, by, r + 8 - s, d)
      <3>1. u \in U <=> \/ u \in 0 .. r - 1
                        \/ /\ u \in r .. r + 7
                           /\ Rank(X, by, u) >= d
                              \/ (Rank(X, by, u) = d - 1 /\ u >= s)
        BY <2>7 DEF Labelled, r
      <3> HIDE DEF U
      <3>2. CASE u = s
        <4>1. u \in r .. r + 7 /\ u \notin 0 .. r - 1 /\ Rank(X, by, u) = n /\ u >= s
              /\ ~ (u >= c + 1)
          BY <1>2, <1>3, <2>1, <2>4, <3>2
        <4>2. u \in U <=> Rank(X, by, u) >= d \/ Rank(X, by, u) = d - 1
          BY <3>1, <4>1
        <4>3. u \in T <=> Rank(X, by, u) >= d
          BY <1>5, <4>1
        <4> QED
          BY <3>2, <4>1, <4>2, <4>3 DEF U
      <3>3. CASE u # s
        <4>1. u \in r .. r + 7 => (u >= s <=> u >= c + 1)
          BY <1>2, <1>3, <1>4, <3>3
        <4> QED
          BY <1>5, <3>1, <3>3, <4>1 DEF U
      <3> QED
        BY <3>2, <3>3 DEF U
    <2> QED
      BY <2>1, <2>4, <2>5, <2>6, <2>7, <2>8
  <1>8. ASSUME s >= r, d - 1 # n
        PROVE  LineDone(sigs, v, cs, ls, by, r + 8 - s, d, n + 1)
    <2> DEFINE U == Labelled(X, by, r + 8 - s, d)
    <2>1. \A u \in X : u \in T <=> u \in U
      BY <1>7, <1>8
    <2> HIDE DEF U
    <2>2. LabelsShow(sigs, v, ls, U)
      BY <1>1, <2>1, SameLabels DEF X
    <2>3. n + 1 = Count(X, r + 8 - (r + 8 - s), r + 7)
      BY <1>7, <1>8
    <2> QED
      BY <1>1, <2>2, <2>3 DEF LineDone, U, r, X
  <1>9. ASSUME s >= r, d - 1 = n, NEW x, x.mux_value = v, x.signal = k,
               x.byte = by, x.column = r + 7 - s
        PROVE  LineDone(sigs, v, cs, Append(ls, x), by, r + 8 - s, d, n + 1)
    <2> DEFINE U == Labelled(X, by, r + 8 - s, d)
               t == Append(ls, x)
    <2>1. /\ \A u \in X : u \in U <=> (u \in T \/ u = s)
          /\ Rank(X, by, s) = n /\ n \in Nat /\ s \in r .. r + 7
      BY <1>7, <1>9
    <2>2. s \notin T
      <3>1. ~ (s \in 0 .. r - 1) /\ ~ (Rank(X, by, s) >= d) /\ ~ (s >= c + 1)
        BY <1>2, <1>3, <1>9, <2>1
      <3> QED
        BY <1>3, <1>5, <3>1
    <2> HIDE DEF U
    <2>3. ASSUME NEW l \in ActiveIn(sigs, v)
          PROVE  HasLabel(t, v, l, sigs[l].start_bit, U)
      <3>1. HasLabel(ls, v, l, sigs[l].start_bit, T) /\ sigs[l].start_bit \in X
        BY <1>1 DEF LabelsShow, X, StartsIn
      <3>2. CASE l = k
        <4>1. OwnOf(ls, v, k) = {}
          BY <2>2, <3>1, <3>2 DEF HasLabel, s
        <4>2. OwnOf(t, v, k) = {Len(ls) + 1} /\ t[Len(ls) + 1] = x
          <5>1. OwnOf(t, v, k) = OwnOf(ls, v, k) \cup {Len(ls) + 1}
            BY <1>9, OwnOfAppend
          <5> QED
            BY <4>1, <5>1, SequenceAppend
        <4>3. s \in U
          BY <1>3, <2>1
        <4>4. by = s \div 8 /\ r + 7 - s = 7 - (s % 8)
          BY <1>2, <2>1 DEF r
        <4>5. HasLabel(t, v, k, s, U)
          <5> HIDE DEF t
          <5> QED
            BY <1>9, <4>2, <4>3, <4>4 DEF HasLabel
        <4> QED
          BY <3>2, <4>5 DEF s
      <3>3. CASE l # k
        <4>1. sigs[l].start_bit # s
          BY <1>3, <3>3, StartsAre DEF s
        <4>2. HasLabel(ls, v, l, sigs[l].start_bit, U)
          BY <2>1, <3>1, <4>1 DEF HasLabel
        <4> QED
          BY <1>9, <3>3, <4>2, OtherLabel
      <3> QED
        BY <3>2, <3>3
    <2> HIDE DEF t
    <2>4. LabelsShow(sigs, v, t, U)
      BY <2>3 DEF LabelsShow
    <2>5. n + 1 = Count(X, r + 8 - (r + 8 - s), r + 7)
      BY <1>7, <1>9
    <2>6. LineDone(sigs, v, cs, t, by, r + 8 - s, d, n + 1)
      BY <1>1, <2>4, <2>5 DEF LineDone, U, r, X
    <2> QED
      BY <2>6 DEF t
  <1> QED
    BY <1>3, <1>6, <1>8, <1>9 DEF s, c, r

(* A column of it without a signal. *)
LEMMA ColumnPassed ==
    ASSUME NEW sigs, NEW v, IsPlain(sigs, v), NEW cs, NEW ls,
           NEW by \in Nat, NEW col \in 0 .. 7, NEW d \in Nat, NEW n,
           LineDone(sigs, v, cs, ls, by, col, d, n),
           IsAt(sigs, v, 8 * by + 7 - col, 0)
    PROVE  LineDone(sigs, v, cs, ls, by, col + 1, d, n)
  <1> DEFINE X == StartsIn(sigs, v)
             r == 8 * by
             c == 8 * by + 7 - col
             T == Labelled(X, by, col, d)
             U == Labelled(X, by, col + 1, d)
  <1>1. /\ CellsShow(sigs, v, cs, 0 .. r + 7) /\ LabelsShow(sigs, v, ls, T)
        /\ n = Count(X, c + 1, r + 7)
    <2>1. 8 * by + 8 - col = c + 1
      OBVIOUS
    <2> QED
      BY <2>1 DEF LineDone
  <1>2. X \in SUBSET Nat /\ r \in Nat /\ c \in r .. r + 7
        /\ r + 8 - col = c + 1 /\ r + 8 - (col + 1) = c
    BY StartsAre
  <1>3. \A u \in X : u \in Nat /\ ~ (c <= u /\ u < c + 1)
    <2>1. c \notin X
      <3>1. \A l \in ActiveIn(sigs, v) : c \notin BitsOf(sigs[l])
        BY DEF IsAt
      <3> HIDE DEF c
      <3> QED
        BY <3>1, StartsAre DEF StartsIn
    <2> HIDE DEF X, c, r
    <2> QED
      BY <1>2, <2>1
  <1>4. n = Count(X, c, r + 7)
    <2> HIDE DEF X, c, r
    <2>1. c \in Int /\ r + 7 \in Int /\ c + 1 \in Int /\ c <= c + 1
      BY <1>2
    <2> QED
      BY <1>1, <1>3, <2>1, CountSame
  <1>5. \A u \in X : u \in T <=> u \in U
    <2> SUFFICES ASSUME NEW u \in X PROVE u \in T <=> u \in U
      OBVIOUS
    <2>1. u \in U <=> \/ u \in 0 .. r - 1
                      \/ /\ u \in r .. r + 7
                         /\ Rank(X, by, u) >= d
                            \/ (Rank(X, by, u) = d - 1 /\ u >= r + 8 - (col + 1))
      BY DEF Labelled
    <2>2. u \in T <=> \/ u \in 0 .. r - 1
                      \/ /\ u \in r .. r + 7
                         /\ Rank(X, by, u) >= d
                            \/ (Rank(X, by, u) = d - 1 /\ u >= r + 8 - col)
      BY DEF Labelled
    <2> HIDE DEF X, c, r, T, U
    <2>3. u >= r + 8 - (col + 1) <=> u >= r + 8 - col
      BY <1>2, <1>3
    <2> QED
      BY <2>1, <2>2, <2>3
  <1> HIDE DEF X, c, r, T, U
  <1>6. LabelsShow(sigs, v, ls, U)
    BY <1>1, <1>5, SameLabels DEF X
  <1> QED
    BY <1>1, <1>2, <1>4, <1>6 DEF LineDone, X, r, U

(* The values LayoutShowsSignals is about: the signals of which are plain,  *)
(* and that are not taken for none.                                         *)
AppliesTo(v) == IsPlain(Signals, v) /\ (v = AllOnes => get_mux_values = {})

(* If the signals shown are little endian, the codec reads each from        *)
(* consecutive bits.                                                        *)
LEMMA PlainIs ==
    ASSUME IInv, m <= Len(net), NEW v, Plain(v)
    PROVE  /\ IsPlain(Signals, v)
           /\ Active(v) = ActiveIn(Signals, v)
           /\ \A k \in Active(v) : Codec!SignalBits(Signals[k]) = BitsOf(Signals[k])
  <1>1. Active(v) = ActiveIn(Signals, v)
    BY DEF Active, ActiveIn
  <1>2. DOMAIN Signals \subseteq Nat \ {0} /\ \A k \in DOMAIN Signals : Signals[k] \in Signal
    BY SignalsOf
  <1>3. ASSUME NEW k \in Active(v)
        PROVE  /\ Signals[k].byte_order = "LittleEndian"
               /\ Signals[k].start_bit \in Nat
               /\ Signals[k].bit_size \in Nat \ {0}
               /\ Codec!SignalBits(Signals[k]) = BitsOf(Signals[k])
    <2>1. Signals[k] \in Signal /\ Signals[k].byte_order = "LittleEndian"
          /\ Signals[k].bit_size > 0
      BY <1>2 DEF Active, Plain
    <2> DEFINE s == Signals[k]
    <2>2. s.start_bit \in Nat /\ s.bit_size \in Nat \ {0}
      BY <2>1 DEF Signal
    <2>3. Codec!SignalBits(s) = { s.start_bit + b : b \in 0 .. s.bit_size - 1 }
      BY <2>1 DEF Codec!SignalBits, Codec!BitAddress
    <2> HIDE DEF s
    <2>4. { s.start_bit + b : b \in 0 .. s.bit_size - 1 } = BitsOf(s)
      <3>1. ASSUME NEW x \in BitsOf(s)
            PROVE  x - s.start_bit \in 0 .. s.bit_size - 1
                   /\ x = s.start_bit + (x - s.start_bit)
        BY <2>2 DEF BitsOf
      <3>2. ASSUME NEW b \in 0 .. s.bit_size - 1
            PROVE  s.start_bit + b \in BitsOf(s)
        BY <2>2 DEF BitsOf
      <3> QED
        BY <3>1, <3>2
    <2> QED
      BY <2>1, <2>2, <2>3, <2>4 DEF s
  <1>4. \A k, l \in Active(v) : k # l => BitsOf(Signals[k]) \cap BitsOf(Signals[l]) = {}
    BY <1>3 DEF Plain
  <1> QED
    BY <1>1, <1>2, <1>3, <1>4 DEF IsPlain

(* find_cur_sig finds the signal of the bit under the cursor. *)
LEMMA FoundIs ==
    ASSUME IInv, m <= Len(net), AppliesTo(mux_value)
    PROVE  IsAt(Signals, mux_value, i_bit, find_cur_sig)
  <1> DEFINE those == { k \in DOMAIN Signals : bit_is_inbetween(Signals[k], i_bit) }
             A     == ActiveIn(Signals, mux_value)
  <1>1. \A k \in DOMAIN Signals : k \in Nat \ {0} /\ (Filtered(Signals[k]) <=> k \notin A)
    <2> SUFFICES ASSUME NEW k \in DOMAIN Signals
                 PROVE  k \in Nat \ {0} /\ (Filtered(Signals[k]) <=> k \notin A)
      OBVIOUS
    <2>1. k \in Nat \ {0}
      BY SignalsOf
    <2>2. CASE mux_value = AllOnes
      <3>1. Signals[k].multiplexer # "MuxValue"
        BY <2>2, ValuesOf DEF AppliesTo
      <3> QED
        BY <2>1, <2>2, <3>1 DEF Filtered, ActiveIn
    <2>3. CASE mux_value # AllOnes
      BY <2>1, <2>3 DEF Filtered, ActiveIn
    <2> QED
      BY <2>2, <2>3
  <1>2. \A k \in DOMAIN Signals : k \in those <=> k \in A /\ i_bit \in BitsOf(Signals[k])
    <2> SUFFICES ASSUME NEW k \in DOMAIN Signals
                 PROVE  k \in those <=> k \in A /\ i_bit \in BitsOf(Signals[k])
      OBVIOUS
    <2>1. CASE k \notin A
      BY <1>1, <2>1 DEF bit_is_inbetween
    <2>2. CASE k \in A
      <3> DEFINE s == Signals[k]
      <3>1. /\ s.byte_order = "LittleEndian" /\ s.start_bit \in Nat
            /\ s.bit_size \in Nat \ {0}
        BY <2>2 DEF AppliesTo, IsPlain
      <3>2. DrawnBit(s) = [ b \in 0 .. s.bit_size - 1 |-> s.start_bit + b ]
        BY <3>1 DEF DrawnBit
      <3>3. bit_is_inbetween(s, i_bit)
              <=> \E b \in 0 .. s.bit_size - 1 : i_bit = s.start_bit + b
        BY <1>1, <2>2, <3>2 DEF bit_is_inbetween
      <3> HIDE DEF s
      <3>4. i_bit \in BitsOf(s) <=> \E b \in 0 .. s.bit_size - 1 : i_bit = s.start_bit + b
        <4>1. ASSUME i_bit \in BitsOf(s)
              PROVE  i_bit - s.start_bit \in 0 .. s.bit_size - 1
                     /\ i_bit = s.start_bit + (i_bit - s.start_bit)
          BY <3>1, <4>1 DEF BitsOf
        <4>2. ASSUME NEW b \in 0 .. s.bit_size - 1, i_bit = s.start_bit + b
              PROVE  i_bit \in BitsOf(s)
          BY <3>1, <4>2 DEF BitsOf
        <4> QED
          BY <4>1, <4>2
      <3> QED
        BY <2>2, <3>3, <3>4 DEF s
    <2> QED
      BY <2>1, <2>2
  <1>3. find_cur_sig = IF those = {} THEN 0 ELSE Min(those)
    BY DEF find_cur_sig
  <1>4. those # {} => Min(those) \in those
    <2> SUFFICES ASSUME those # {} PROVE Min(those) \in those
      OBVIOUS
    <2>1. those \in SUBSET Nat
      BY <1>1
    <2> HIDE DEF those
    <2>2. \E x \in those : \A y \in those : x <= y
      BY <2>1, LeastNumber
    <2> QED
      BY <2>2, Zenon DEF Min
  <1>5. those \subseteq DOMAIN Signals /\ A \subseteq DOMAIN Signals /\ 0 \notin those
    BY <1>1 DEF ActiveIn
  <1> HIDE DEF those, A
  <1>6. find_cur_sig = 0 => \A l \in A : i_bit \notin BitsOf(Signals[l])
    BY <1>2, <1>3, <1>4, <1>5
  <1>7. find_cur_sig # 0 => find_cur_sig \in A /\ i_bit \in BitsOf(Signals[find_cur_sig])
    BY <1>2, <1>3, <1>4, <1>5
  <1> QED
    BY <1>6, <1>7 DEF IsAt, A

(* In a row the cursor is at the bit of its column. *)
LEMMA CursorIs ==
    ASSUME IInv, pc \in {"cells", "labels"}, i < 8
    PROVE  /\ m <= Len(net) /\ byte \in Nat /\ i \in 0 .. 7
           /\ i_bit = 8 * byte + 7 - i
  <1>1. /\ m <= Len(net) /\ byte \in Nat /\ i \in 0 .. 8 /\ i_bit \in 0 .. WordSize - 1
        /\ i_bit + i = 8 * byte + 7 \/ i_bit + i = 8 * byte + 7 + WordSize
    BY DEF IInv, CursorInv
  <1> QED
    BY <1>1, WordBound

-----------------------------------------------------------------------------
Pending == { passes[j] : j \in DOMAIN passes }

(* The values still to be printed are different ones, and the one that is   *)
(* printed is none of them.                                                 *)
PassesInv ==
    /\ pc \in {"pass", "cells", "labels"} => Lists(passes, Pending) /\ Pending \subseteq Values
    /\ pc \in {"cells", "labels"} => mux_value \in Values \ Pending
    /\ pc \in {"tree", "printed"} => Pending = {}

(* Nothing is printed for them. *)
Unshown(v) ==
    /\ \A c \in DOMAIN cells : cells[c].mux_value # v
    /\ \A l \in DOMAIN labels : labels[l].mux_value # v
FreshInv ==
    pc \in {"pass", "cells", "labels"} => \A v \in Pending : Unshown(v)

(* All is for those that were printed. *)
LayoutComplete(v) ==
    /\ CellsShow(Signals, v, cells, MessageBits)
    /\ LabelsShow(Signals, v, labels, MessageBits)
DoneInv ==
    pc \in {"pass", "cells", "labels", "tree", "printed"} =>
        \A v \in Values \ Pending :
            (pc \in {"cells", "labels"} => v # mux_value) /\ AppliesTo(v) => LayoutComplete(v)

CurrentInv ==
    AppliesTo(mux_value) =>
        /\ pc = "cells" =>
              CellsDone(Signals, mux_value, cells, labels, byte, i, depth, n_sigs)
        /\ pc = "labels" =>
              LineDone(Signals, mux_value, cells, labels, byte, i, depth, n_sigs)

LayoutInv ==
    /\ Sequence(cells) /\ Sequence(labels)
    /\ PassesInv
    /\ FreshInv
    /\ DoneInv
    /\ CurrentInv

(* As long as the message is the same, so are its signals.                  *)
LEMMA SameMessage ==
    ASSUME net' = net, m' = m
    PROVE  /\ Signals' = Signals /\ Values' = Values /\ MessageBits' = MessageBits
           /\ \A v : AppliesTo(v)' <=> AppliesTo(v)
  <1>1. Signals' = Signals
    BY DEF Signals
  <1>2. get_mux_values' = get_mux_values
    BY <1>1 DEF get_mux_values
  <1>3. \A v : AppliesTo(v)' <=> AppliesTo(v)
    BY <1>1, <1>2 DEF AppliesTo
  <1> QED
    BY <1>1, <1>2, <1>3 DEF Values, MessageBits

(* A sequence that lists S has the elements of S.                           *)
LEMMA ListedAre ==
    ASSUME NEW s, NEW S, Lists(s, S)
    PROVE  { s[j] : j \in DOMAIN s } = S
  BY DEF Lists

(* A message begins with all its values.                                    *)
LEMMA PassesBegin ==
    ASSUME IInv, PrintMessage
    PROVE  Lists(passes', Values)
  <1>1. m <= Len(net) /\ passes' = IF get_mux_values = {} THEN << AllOnes >>
                                   ELSE Ascending(get_mux_values)
    BY DEF PrintMessage
  <1>2. CASE get_mux_values = {}
    <2>1. Lists(<< AllOnes >>, {AllOnes})
      BY SequenceOne DEF Lists
    <2> QED
      BY <1>1, <1>2, <2>1 DEF Values
  <1>3. CASE get_mux_values # {}
    <2>1. Lists(Ascending(get_mux_values), get_mux_values)
      BY <1>1, ValuesOf, AscendingLists
    <2> QED
      BY <1>1, <1>3, <2>1 DEF Values
  <1> QED
    BY <1>2, <1>3

(* A pass takes the first of those that are left. *)
LEMMA PassBegins ==
    ASSUME LayoutInv, PrintHeader, pc' = "cells"
    PROVE  /\ mux_value' \in Pending /\ Lists(passes', Pending \ {mux_value'})
           /\ Pending' = Pending \ {mux_value'}
  <1>1. /\ pc = "pass" /\ passes # << >> /\ mux_value' = Head(passes) /\ passes' = Tail(passes)
    BY DEF PrintHeader
  <1>2. Lists(passes, Pending)
    BY <1>1 DEF LayoutInv, PassesInv
  <1>3. mux_value' \in Pending /\ Lists(passes', Pending \ {mux_value'})
    BY <1>1, <1>2, ListsTail
  <1> QED
    BY <1>3, ListedAre DEF Pending

(* A message begins without a cell or a label.                              *)
LEMMA PrintMessageLayout ==
    ASSUME IInv, LayoutInv, PrintMessage
    PROVE  LayoutInv'
  <1>1. /\ m <= Len(net) /\ net' = net /\ m' = m /\ pc' = "pass"
        /\ passes' = IF get_mux_values = {} THEN << AllOnes >> ELSE Ascending(get_mux_values)
        /\ cells' = << >> /\ labels' = << >>
    BY DEF PrintMessage
  <1>2. Lists(passes', Values)
    BY PassesBegin
  <1>3. Pending' = Values /\ Values' = Values
    BY <1>1, <1>2, ListedAre, SameMessage DEF Pending
  <1>4. Sequence(<< >>) /\ DOMAIN << >> = {}
    BY DEF Sequence
  <1>5. Sequence(cells') /\ Sequence(labels')
    BY <1>1, <1>4
  <1>6. PassesInv'
    BY <1>1, <1>2, <1>3 DEF PassesInv
  <1>7. FreshInv'
    <2>1. DOMAIN cells' = {} /\ DOMAIN labels' = {}
      BY <1>1, <1>4
    <2> QED
      BY <2>1 DEF FreshInv, Unshown
  <1>8. DoneInv'
    BY <1>3 DEF DoneInv
  <1>9. CurrentInv'
    BY <1>1 DEF CurrentInv
  <1> QED
    BY <1>5, <1>6, <1>7, <1>8, <1>9 DEF LayoutInv

(* A pass begins at its first row.                                          *)
LEMMA PrintHeaderLayout ==
    ASSUME IInv, LayoutInv, PrintHeader
    PROVE  LayoutInv'
  <1>1. /\ pc = "pass" /\ passes # << >> /\ m <= Len(net)
        /\ net' = net /\ m' = m /\ cells' = cells /\ labels' = labels
    BY DEF PrintHeader, output, IInv, CursorInv
  <1>2. Sequence(cells') /\ Sequence(labels')
    BY <1>1 DEF LayoutInv
  <1>3. CASE pc' = "crashed"
    BY <1>2, <1>3 DEF LayoutInv, PassesInv, FreshInv, DoneInv, CurrentInv
  <1>4. CASE /\ pc' = "cells" /\ mux_value' = Head(passes) /\ passes' = Tail(passes)
             /\ byte' = 0 /\ i' = 0 /\ depth' = 0 /\ n_sigs' = 0
    <2>1. Lists(passes, Pending) /\ Pending \subseteq Values
      BY <1>1 DEF LayoutInv, PassesInv
    <2>2. mux_value' \in Pending /\ Lists(passes', Pending \ {mux_value'})
      BY <1>4, PassBegins
    <2>3. Pending' = Pending \ {mux_value'}
      BY <1>4, PassBegins
    <2>4. PassesInv'
      BY <1>1, <1>4, <2>1, <2>2, <2>3, SameMessage DEF PassesInv
    <2>5. \A v : Unshown(v)' <=> Unshown(v)
      BY <1>1 DEF Unshown
    <2>6. FreshInv'
      BY <1>1, <1>4, <2>3, <2>5 DEF FreshInv, LayoutInv
    <2>7. \A v : LayoutComplete(v)' <=> LayoutComplete(v)
      BY <1>1, SameMessage DEF LayoutComplete
    <2>8. DoneInv'
      BY <1>1, <1>4, <2>3, <2>7, SameMessage DEF DoneInv, LayoutInv
    <2>9. CurrentInv'
      <3> SUFFICES ASSUME AppliesTo(mux_value')
                   PROVE  CellsDone(Signals, mux_value', cells, labels, 0, 0, 0, 0)
        BY <1>1, <1>4, SameMessage DEF CurrentInv, AppliesTo
      <3>1. Unshown(mux_value')
        BY <1>1, <2>2 DEF FreshInv, LayoutInv
      <3>2. IsPlain(Signals, mux_value')
        BY DEF AppliesTo
      <3> QED
        BY <3>1, <3>2, LayoutBegun DEF Unshown
    <2> QED
      BY <1>2, <2>4, <2>6, <2>8, <2>9 DEF LayoutInv
  <1> QED
    BY <1>3, <1>4 DEF PrintHeader

(* A cell shows the bit it stands for (CellShown).                          *)
LEMMA PrintCellLayout ==
    ASSUME IInv, LayoutInv, PrintCell
    PROVE  LayoutInv'
  <1> DEFINE k == find_cur_sig
             x == [ mux_value |-> mux_value, bit |-> i_bit, signal |-> k,
                    start |-> k # 0 /\ is_start_bit(Signals[k], i_bit),
                    end   |-> k # 0 /\ is_end_bit(Signals[k], i_bit) ]
  <1>1. /\ pc = "cells" /\ i < 8 /\ cells' = Append(cells, x)
        /\ depth' = IF k # 0 /\ is_start_bit(Signals[k], i_bit) THEN depth + 1 ELSE depth
        /\ i' = i + 1
        /\ UNCHANGED << net, m, pc, passes, mux_value, byte, n_sigs, labels >>
    BY DEF PrintCell
  <1>2. x.mux_value = mux_value /\ x.bit = i_bit /\ x.signal = k
    OBVIOUS
  <1> HIDE DEF x
  <1>3. /\ Sequence(cells) /\ Sequence(labels) /\ Pending' = Pending
        /\ mux_value \in Values \ Pending
    BY <1>1 DEF LayoutInv, PassesInv, Pending
  <1>4. Sequence(cells') /\ Sequence(labels')
    BY <1>1, <1>3, SequenceAppend
  <1>5. PassesInv'
    BY <1>1, <1>3, SameMessage DEF PassesInv, LayoutInv
  <1>6. ASSUME NEW v, v # mux_value
        PROVE  /\ Unshown(v) => Unshown(v)'
               /\ LayoutComplete(v) => LayoutComplete(v)'
    <2>1. Unshown(v) => Unshown(v)'
      <3>1. /\ DOMAIN cells' = DOMAIN cells \cup {Len(cells) + 1}
            /\ \A c \in DOMAIN cells : cells'[c] = cells[c]
            /\ cells'[Len(cells) + 1] = x
        BY <1>1, <1>3, SequenceAppend
      <3> QED
        BY <1>1, <1>2, <1>6, <3>1 DEF Unshown
    <2>2. CellsShow(Signals, v, cells', MessageBits) <=> CellsShow(Signals, v, cells, MessageBits)
      BY <1>1, <1>2, <1>3, <1>6, OtherCell
    <2> QED
      BY <1>1, <2>1, <2>2, SameMessage DEF LayoutComplete
  <1>7. FreshInv'
    BY <1>1, <1>3, <1>6 DEF FreshInv, LayoutInv
  <1>8. DoneInv'
    <2> SUFFICES ASSUME NEW v \in Values \ Pending, v # mux_value, AppliesTo(v)
                 PROVE  LayoutComplete(v)'
      BY <1>1, <1>3, SameMessage DEF DoneInv
    <2>1. LayoutComplete(v)
      BY <1>1 DEF DoneInv, LayoutInv
    <2> QED
      BY <1>6, <2>1
  <1>9. CurrentInv'
    <2> SUFFICES ASSUME AppliesTo(mux_value)
                 PROVE  CellsDone(Signals, mux_value, cells', labels, byte, i', depth', n_sigs)
      BY <1>1, SameMessage DEF CurrentInv
    <2>1. m <= Len(net) /\ byte \in Nat /\ i \in 0 .. 7 /\ i_bit = 8 * byte + 7 - i
      BY <1>1, CursorIs
    <2>2. IsAt(Signals, mux_value, i_bit, k)
      BY <2>1, FoundIs
    <2>3. CellsDone(Signals, mux_value, cells, labels, byte, i, depth, n_sigs)
      BY <1>1 DEF CurrentInv, LayoutInv
    <2>4. IsPlain(Signals, mux_value)
      BY DEF AppliesTo
    <2>5. depth' = IF k # 0 /\ Signals[k].start_bit = i_bit THEN depth + 1 ELSE depth
      BY <1>1 DEF is_start_bit
    <2> HIDE DEF k
    <2>6. CellsDone(Signals, mux_value, Append(cells, x), labels, byte, i + 1, depth', n_sigs)
      BY <1>2, <1>3, <2>1, <2>2, <2>3, <2>4, <2>5, CellShown
    <2> QED
      BY <1>1, <2>6
  <1> QED
    BY <1>4, <1>5, <1>7, <1>8, <1>9 DEF LayoutInv

(* A step that prints nothing, inside of a layout. *)
LEMMA CursorMoved ==
    ASSUME LayoutInv, pc \in {"cells", "labels"}, pc' \in {"cells", "labels"},
           UNCHANGED << net, m, passes, mux_value, cells, labels >>, CurrentInv'
    PROVE  LayoutInv'
  <1>1. Pending' = Pending
    BY DEF Pending
  <1>2. \A v : /\ Unshown(v)' <=> Unshown(v)
               /\ LayoutComplete(v)' <=> LayoutComplete(v)
    BY SameMessage DEF Unshown, LayoutComplete
  <1>3. PassesInv'
    BY <1>1, SameMessage DEF PassesInv, LayoutInv
  <1>4. FreshInv'
    BY <1>1, <1>2 DEF FreshInv, LayoutInv
  <1>5. DoneInv'
    BY <1>1, <1>2, SameMessage DEF DoneInv, LayoutInv
  <1> QED
    BY <1>3, <1>4, <1>5 DEF LayoutInv

(* At the end of a row every bit of it has its cell (RowShown).             *)
LEMMA EndCellsLayout ==
    ASSUME IInv, LayoutInv, EndCells
    PROVE  LayoutInv'
  <1>1. /\ pc = "cells" /\ i = 8 /\ i' = 0 /\ depth' = depth /\ n_sigs' = n_sigs
        /\ IF depth > 0 THEN pc' = "labels" /\ byte' = byte
                        ELSE pc' = "cells" /\ byte' = byte + 1
        /\ UNCHANGED << net, m, passes, mux_value, cells, labels >>
    BY DEF EndCells, output
  <1>2. depth \in Nat /\ byte \in Nat
    BY DEF IInv, CursorInv
  <1>3. CurrentInv'
    <2> SUFFICES ASSUME AppliesTo(mux_value)
                 PROVE  /\ depth > 0 => LineDone(Signals, mux_value, cells, labels,
                                                 byte, 0, depth, n_sigs)
                        /\ ~ (depth > 0) => CellsDone(Signals, mux_value, cells, labels,
                                                      byte + 1, 0, depth, n_sigs)
      BY <1>1, SameMessage DEF CurrentInv
    <2>1. CellsDone(Signals, mux_value, cells, labels, byte, 8, depth, n_sigs)
      BY <1>1 DEF CurrentInv, LayoutInv
    <2>2. IsPlain(Signals, mux_value)
      BY DEF AppliesTo
    <2>3. ~ (depth > 0) => depth = 0
      BY <1>2
    <2> QED
      BY <1>2, <2>1, <2>2, <2>3, RowShown
  <1> QED
    BY <1>1, <1>3, CursorMoved

(* At the end of the labels every start in the row has one (LineShown).     *)
LEMMA EndLabelsLayout ==
    ASSUME IInv, LayoutInv, EndLabels
    PROVE  LayoutInv'
  <1>1. /\ pc = "labels" /\ i = 8 /\ i' = 0 /\ depth' = depth - 1 /\ n_sigs' = 0
        /\ IF depth > 1 THEN pc' = "labels" /\ byte' = byte
                        ELSE pc' = "cells" /\ byte' = byte + 1
        /\ UNCHANGED << net, m, passes, mux_value, cells, labels >>
    BY DEF EndLabels, output
  <1>2. depth \in Nat \ {0} /\ byte \in Nat
    BY <1>1 DEF IInv, CursorInv
  <1>3. CurrentInv'
    <2> SUFFICES ASSUME AppliesTo(mux_value)
                 PROVE  /\ depth > 1 => LineDone(Signals, mux_value, cells, labels,
                                                 byte, 0, depth - 1, 0)
                        /\ ~ (depth > 1) => CellsDone(Signals, mux_value, cells, labels,
                                                      byte + 1, 0, depth - 1, 0)
      BY <1>1, SameMessage DEF CurrentInv
    <2>1. LineDone(Signals, mux_value, cells, labels, byte, 8, depth, n_sigs)
      BY <1>1 DEF CurrentInv, LayoutInv
    <2>2. IsPlain(Signals, mux_value)
      BY DEF AppliesTo
    <2>3. ~ (depth > 1) => depth = 1
      BY <1>2
    <2> QED
      BY <1>2, <2>1, <2>2, <2>3, LineShown
  <1> QED
    BY <1>1, <1>3, CursorMoved

(* How far the columns are skipped. *)
LEMMA SkippedIs ==
    ASSUME NEW s \in Nat, NEW c \in Nat, NEW r \in Nat, c \in r .. r + 7, s <= c
    PROVE  (IF c > s THEN Min({8 - (r + 7 - c), c - s}) ELSE 0)
             = IF s < r THEN 8 - (r + 7 - c) ELSE c - s
  <1> DEFINE a == 8 - (r + 7 - c)
             b == c - s
  <1>1. a \in Int /\ b \in Int /\ a > 0
    OBVIOUS
  <1>2. s < r <=> a <= b
    OBVIOUS
  <1>3. c > s <=> b # 0
    OBVIOUS
  <1>4. b >= 0
    OBVIOUS
  <1> HIDE DEF a, b
  <1>5. Min({a, b}) \in {a, b} /\ Min({a, b}) <= a /\ Min({a, b}) <= b
    BY <1>1, MinOfTwo
  <1>6. (IF c > s THEN Min({a, b}) ELSE 0) = IF s < r THEN a ELSE b
    BY <1>1, <1>2, <1>3, <1>4, <1>5
  <1> QED
    BY <1>6 DEF a, b

(* A column adds the label of the signal that starts there, or none         *)
(* (LabelPassed, ColumnPassed).                                             *)
LEMMA PrintLabelLayout ==
    ASSUME IInv, LayoutInv, PrintLabel
    PROVE  LayoutInv'
  <1> DEFINE k       == find_cur_sig
             skipped == IF k = 0 THEN 0 ELSE Skipped(Signals[k])
             step    == IF i + skipped = 8 THEN skipped ELSE skipped + 1
             x       == [ mux_value |-> mux_value, byte |-> byte,
                          column |-> i + skipped, signal |-> k ]
  <1>1. /\ pc = "labels" /\ i < 8 /\ i' = i + step
        /\ IF k = 0 \/ i + skipped = 8
             THEN UNCHANGED << n_sigs, labels >>
             ELSE /\ n_sigs' = n_sigs + 1
                  /\ labels' = IF depth - 1 # n_sigs THEN labels ELSE Append(labels, x)
        /\ UNCHANGED << net, m, pc, passes, mux_value, byte, depth, cells >>
    BY DEF PrintLabel
  <1>2. m <= Len(net) /\ byte \in Nat /\ i \in 0 .. 7 /\ i_bit = 8 * byte + 7 - i
        /\ depth \in Nat
    BY <1>1, CursorIs DEF IInv, CursorInv
  <1>3. /\ x.mux_value = mux_value /\ x.signal = k /\ x.byte = byte
        /\ x.column = i + skipped
    OBVIOUS
  <1>4. ASSUME AppliesTo(mux_value)
        PROVE  LineDone(Signals, mux_value, cells, labels', byte, i', depth, n_sigs')
    <2>1. /\ IsAt(Signals, mux_value, 8 * byte + 7 - i, k)
          /\ LineDone(Signals, mux_value, cells, labels, byte, i, depth, n_sigs)
          /\ IsPlain(Signals, mux_value)
          /\ Sequence(labels)
      BY <1>1, <1>2, <1>4, FoundIs DEF CurrentInv, LayoutInv, AppliesTo
    <2>2. CASE k = 0
      <3>1. i' = i + 1 /\ labels' = labels /\ n_sigs' = n_sigs
        BY <1>1, <1>2, <2>2
      <3>2. IsAt(Signals, mux_value, 8 * byte + 7 - i, 0)
        BY <2>1, <2>2
      <3> HIDE DEF k
      <3>3. LineDone(Signals, mux_value, cells, labels, byte, i + 1, depth, n_sigs)
        BY <1>2, <2>1, <3>2, ColumnPassed
      <3> QED
        BY <3>1, <3>3
    <2>3. CASE k # 0
      <3> DEFINE s == Signals[k].start_bit
                 r == 8 * byte
      <3> HIDE DEF k
      <3>1. /\ s \in Nat /\ s <= r + 7 - i
            /\ s < r => LineDone(Signals, mux_value, cells, labels, byte, 8, depth, n_sigs)
            /\ (s >= r /\ depth - 1 # n_sigs) =>
                 LineDone(Signals, mux_value, cells, labels, byte, r + 8 - s, depth, n_sigs + 1)
            /\ (s >= r /\ depth - 1 = n_sigs) =>
                 \A y : (/\ y.mux_value = mux_value /\ y.signal = k
                         /\ y.byte = byte /\ y.column = r + 7 - s) =>
                    LineDone(Signals, mux_value, cells, Append(labels, y), byte,
                             r + 8 - s, depth, n_sigs + 1)
        BY <1>2, <2>1, <2>3, LabelPassed
      <3>2. skipped = IF i_bit > s THEN Min({8 - i, i_bit - s}) ELSE 0
        BY <2>3 DEF Skipped
      <3>3. skipped = IF s < r THEN 8 - i ELSE i_bit - s
        <4>1. i = r + 7 - i_bit /\ i_bit \in Nat /\ r \in Nat /\ i_bit \in r .. r + 7
              /\ s <= i_bit
          <5>1. r \in Nat /\ i_bit = r + 7 - i /\ i \in 0 .. 7
            BY <1>2
          <5>2. s \in Nat /\ s <= r + 7 - i
            BY <3>1
          <5> HIDE DEF s, r
          <5> QED
            BY <5>1, <5>2
        <4> HIDE DEF s, r, skipped
        <4>2. (IF i_bit > s THEN Min({8 - (r + 7 - i_bit), i_bit - s}) ELSE 0)
                = IF s < r THEN 8 - (r + 7 - i_bit) ELSE i_bit - s
          BY <3>1, <4>1, SkippedIs
        <4> QED
          BY <3>2, <4>1, <4>2
      <3> HIDE DEF skipped
      <3>4. CASE s < r
        <4>1. i + skipped = 8
          BY <1>2, <3>3, <3>4
        <4>2. i' = 8 /\ labels' = labels /\ n_sigs' = n_sigs
          BY <1>1, <4>1
        <4> QED
          BY <3>1, <3>4, <4>2
      <3>5. CASE s >= r
        <4>1. r \in Nat /\ ~ (s < r)
          BY <1>2, <3>1, <3>5
        <4>2. i + skipped = r + 7 - s /\ r + 7 - s # 8 /\ i + (skipped + 1) = r + 8 - s
          <5>1. r \in Nat /\ i_bit = r + 7 - i /\ i \in 0 .. 7
            BY <1>2
          <5>2. s \in Nat /\ s >= r /\ skipped = i_bit - s
            BY <3>1, <3>3, <3>5, <4>1
          <5> HIDE DEF s, r
          <5> QED
            BY <5>1, <5>2
        <4>3. i' = r + 8 - s /\ n_sigs' = n_sigs + 1
              /\ labels' = IF depth - 1 # n_sigs THEN labels ELSE Append(labels, x)
          BY <1>1, <2>3, <4>2
        <4>4. x.column = r + 7 - s
          BY <1>3, <4>2
        <4> HIDE DEF s, r, step, x
        <4>5. CASE depth - 1 # n_sigs
          BY <3>1, <3>5, <4>3, <4>5
        <4>6. CASE depth - 1 = n_sigs
          <5>1. LineDone(Signals, mux_value, cells, Append(labels, x), byte,
                         r + 8 - s, depth, n_sigs + 1)
            BY <1>3, <3>1, <3>5, <4>4, <4>6
          <5> QED
            BY <4>3, <4>6, <5>1
        <4> QED
          BY <4>5, <4>6
      <3> QED
        BY <1>2, <3>1, <3>4, <3>5
    <2> QED
      BY <2>2, <2>3
  <1>5. CurrentInv'
    BY <1>1, <1>4, SameMessage DEF CurrentInv
  <1> HIDE DEF x
  <1>6. CASE labels' = labels
    BY <1>1, <1>5, <1>6, CursorMoved
  <1>7. CASE labels' = Append(labels, x)
    <2>1. /\ Sequence(cells) /\ Sequence(labels) /\ Pending' = Pending
          /\ mux_value \in Values \ Pending
      BY <1>1 DEF LayoutInv, PassesInv, Pending
    <2>2. Sequence(cells') /\ Sequence(labels')
      BY <1>1, <1>7, <2>1, SequenceAppend
    <2>3. PassesInv'
      BY <1>1, <2>1, SameMessage DEF PassesInv, LayoutInv
    <2>4. ASSUME NEW v, v # mux_value
          PROVE  /\ Unshown(v) => Unshown(v)'
                 /\ LayoutComplete(v) => LayoutComplete(v)'
      <3>1. Unshown(v) => Unshown(v)'
        <4>1. /\ DOMAIN labels' = DOMAIN labels \cup {Len(labels) + 1}
              /\ \A c \in DOMAIN labels : labels'[c] = labels[c]
              /\ labels'[Len(labels) + 1] = x
          BY <1>7, <2>1, SequenceAppend
        <4> QED
          BY <1>1, <1>3, <2>4, <4>1 DEF Unshown
      <3>2. ASSUME LabelsShow(Signals, v, labels, MessageBits)
            PROVE  LabelsShow(Signals, v, labels', MessageBits)
        <4>1. \A l \in ActiveIn(Signals, v) :
                 HasLabel(labels', v, l, Signals[l].start_bit, MessageBits)
          BY <1>3, <1>7, <2>1, <2>4, <3>2, OtherLabel DEF LabelsShow
        <4> QED
          BY <4>1 DEF LabelsShow
      <3> QED
        BY <1>1, <3>1, <3>2, SameMessage DEF LayoutComplete
    <2>5. FreshInv'
      BY <1>1, <2>1, <2>4 DEF FreshInv, LayoutInv
    <2>6. DoneInv'
      <3> SUFFICES ASSUME NEW v \in Values \ Pending, v # mux_value, AppliesTo(v)
                   PROVE  LayoutComplete(v)'
        BY <1>1, <2>1, SameMessage DEF DoneInv
      <3>1. LayoutComplete(v)
        BY <1>1 DEF DoneInv, LayoutInv
      <3> QED
        BY <2>4, <3>1
    <2> QED
      BY <1>5, <2>2, <2>3, <2>5, <2>6 DEF LayoutInv
  <1> QED
    BY <1>1, <1>6, <1>7

(* The rows of the message have been printed when a layout ends.            *)
LEMMA LastRow ==
    ASSUME IInv, EndLayout
    PROVE  byte = net[m].size /\ byte \in Nat
  <1>1. pc = "cells" /\ i = 0 /\ i_bit >= 8 * net[m].size /\ m <= Len(net)
    BY DEF EndLayout, IInv, CursorInv
  <1>2. net[m].size \in Nat /\ byte \in Nat /\ byte <= net[m].size
    BY <1>1, MessageOf DEF IInv, CursorInv, Message
  <1>3. i_bit = 8 * byte + 7
    BY <1>1, CursorIs
  <1> QED
    BY <1>1, <1>2, <1>3

(* A pass over all rows is a finished one.                                  *)
LEMMA EndLayoutLayout ==
    ASSUME IInv, LayoutInv, EndLayout
    PROVE  LayoutInv'
  <1>1. /\ pc = "cells" /\ i = 0 /\ i_bit >= 8 * net[m].size /\ m <= Len(net)
        /\ pc' = IF passes = << >> THEN "tree" ELSE "pass"
        /\ UNCHANGED << net, m, passes, mux_value, cells, labels >>
    BY DEF EndLayout, output, IInv, CursorInv
  <1>2. byte = net[m].size /\ byte \in Nat
    BY <1>1, LastRow
  <1>3. ASSUME AppliesTo(mux_value)
        PROVE  LayoutComplete(mux_value)
    <2>1. CellsDone(Signals, mux_value, cells, labels, byte, 0, depth, n_sigs)
      BY <1>1, <1>3 DEF CurrentInv, LayoutInv
    <2>2. (0 .. 8 * byte - 1) \cup (8 * byte + 8 - 0 .. 8 * byte + 7) = 0 .. 8 * byte - 1
      BY <1>2
    <2> QED
      BY <1>2, <2>1, <2>2 DEF CellsDone, LayoutComplete, MessageBits
  <1>4. Pending' = Pending /\ (passes = << >> => Pending = {})
    BY <1>1 DEF Pending
  <1>5. \A v : /\ Unshown(v)' <=> Unshown(v)
               /\ LayoutComplete(v)' <=> LayoutComplete(v)
    BY <1>1, SameMessage DEF Unshown, LayoutComplete
  <1>6. PassesInv'
    BY <1>1, <1>4, SameMessage DEF PassesInv, LayoutInv
  <1>7. FreshInv'
    BY <1>1, <1>4, <1>5 DEF FreshInv, LayoutInv
  <1>8. DoneInv'
    <2> SUFFICES ASSUME NEW v \in Values \ Pending, AppliesTo(v)
                 PROVE  LayoutComplete(v)
      BY <1>1, <1>4, <1>5, SameMessage DEF DoneInv
    <2>1. CASE v = mux_value
      BY <1>3, <2>1
    <2>2. CASE v # mux_value
      BY <1>1, <2>2 DEF DoneInv, LayoutInv
    <2> QED
      BY <2>1, <2>2
  <1>9. CurrentInv'
    BY <1>1 DEF CurrentInv
  <1> QED
    BY <1>1, <1>6, <1>7, <1>8, <1>9 DEF LayoutInv

(* The other steps print no cell and no label.                              *)
LEMMA OtherLayout ==
    ASSUME LayoutInv, print_signal_tree \/ NextMessage \/ End \/ UNCHANGED vars
    PROVE  LayoutInv'
  <1>1. CASE print_signal_tree
    <2>1. /\ pc = "tree" /\ pc' = "printed"
          /\ UNCHANGED << net, m, passes, mux_value, cells, labels >>
      BY <1>1 DEF print_signal_tree
    <2>2. Pending' = Pending
      BY <2>1 DEF Pending
    <2>3. \A v : LayoutComplete(v)' <=> LayoutComplete(v)
      BY <2>1, SameMessage DEF LayoutComplete
    <2>4. DoneInv'
      BY <2>1, <2>2, <2>3, SameMessage DEF DoneInv, LayoutInv
    <2> QED
      BY <2>1, <2>2, <2>4 DEF LayoutInv, PassesInv, FreshInv, CurrentInv
  <1>2. CASE NextMessage \/ End
    <2>1. /\ pc' \in {"message", "done"} /\ cells' = cells /\ labels' = labels
      BY <1>2 DEF NextMessage, End, output
    <2> QED
      BY <2>1 DEF LayoutInv, PassesInv, FreshInv, DoneInv, CurrentInv
  <1>3. CASE UNCHANGED vars
    <2>1. UNCHANGED << net, m, pc, passes, mux_value, cells, labels, byte, i, depth, n_sigs >>
      BY <1>3 DEF vars, output, cursor
    <2>2. Pending' = Pending
      BY <2>1 DEF Pending
    <2>3. \A v : /\ Unshown(v)' <=> Unshown(v)
                 /\ LayoutComplete(v)' <=> LayoutComplete(v)
      BY <2>1, SameMessage DEF Unshown, LayoutComplete
    <2>4. PassesInv' /\ FreshInv'
      BY <2>1, <2>2, <2>3, SameMessage DEF PassesInv, FreshInv, LayoutInv
    <2>5. DoneInv'
      BY <2>1, <2>2, <2>3, SameMessage DEF DoneInv, LayoutInv
    <2>6. CurrentInv'
      BY <2>1, SameMessage DEF CurrentInv, LayoutInv
    <2> QED
      BY <2>1, <2>4, <2>5, <2>6 DEF LayoutInv
  <1> QED
    BY <1>1, <1>2, <1>3

(* Nothing was printed before the first step.                               *)
LEMMA InitLayout == Init => LayoutInv
  <1>1. Sequence(<< >>)
    BY DEF Sequence
  <1> QED
    BY <1>1 DEF Init, LayoutInv, PassesInv, FreshInv, DoneInv, CurrentInv

(* When all values have been printed every layout is right. *)
LEMMA LayoutShows ==
    ASSUME IInv, TreeInv, LayoutInv
    PROVE  LayoutShowsSignals
  <1> SUFFICES ASSUME pc = "printed", NEW v \in Values,
                      Plain(v), v = AllOnes => get_mux_values = {},
                      NEW k \in Active(v)
               PROVE  LET own == { l \in DOMAIN labels : labels[l].mux_value = v
                                                         /\ labels[l].signal = k }
                          start == Signals[k].start_bit
                      IN  /\ Shown(v, k) = Codec!SignalBits(Signals[k]) \cap MessageBits
                          /\ Cardinality(own) = IF start \in MessageBits THEN 1 ELSE 0
                          /\ \A l \in own : labels[l].byte = start \div 8
                                            /\ labels[l].column = 7 - (start % 8)
    BY DEF LayoutShowsSignals
  <1>1. m <= Len(net)
    BY DEF TreeInv
  <1>2. /\ IsPlain(Signals, v) /\ k \in ActiveIn(Signals, v)
        /\ Codec!SignalBits(Signals[k]) = BitsOf(Signals[k])
    BY <1>1, PlainIs
  <1>3. AppliesTo(v)
    BY <1>2 DEF AppliesTo
  <1>4. v \in Values \ Pending
    BY DEF LayoutInv, PassesInv
  <1>5. LayoutComplete(v)
    BY <1>3, <1>4 DEF LayoutInv, DoneInv
  <1>6. Shown(v, k) = Codec!SignalBits(Signals[k]) \cap MessageBits
    BY <1>2, <1>5 DEF LayoutComplete, CellsShow, ShownBy, Shown
  <1> DEFINE own   == OwnOf(labels, v, k)
             start == Signals[k].start_bit
  <1>7. HasLabel(labels, v, k, start, MessageBits)
    BY <1>2, <1>5 DEF LayoutComplete, LabelsShow
  <1> HIDE DEF start
  <1>8. /\ Cardinality(own) = IF start \in MessageBits THEN 1 ELSE 0
        /\ \A l \in own : labels[l].byte = start \div 8
                          /\ labels[l].column = 7 - (start % 8)
    BY <1>7, FS_EmptySet, FS_Singleton DEF HasLabel
  <1> QED
    BY <1>6, <1>8 DEF OwnOf, start

(* What was printed of a layout is right all the time. *)
LEMMA LayoutInvariance == Spec => []LayoutInv
  <1>1. IInv /\ LayoutInv /\ [Next]_vars => LayoutInv'
    BY PrintMessageLayout, PrintHeaderLayout, PrintCellLayout, EndCellsLayout,
       PrintLabelLayout, EndLabelsLayout, EndLayoutLayout, OtherLayout DEF Next
  <1> QED
    BY Invariance, InitLayout, <1>1, PTL DEF Spec

(* print_signal: for every message and every value, if the signals shown    *)
(* for it are little endian and share no bit, the cells of each are the     *)
(* bits it is decoded from, and it has one label, below its start.          *)
THEOREM LayoutShowsSignalsAlways == Spec => []LayoutShowsSignals
  <1>1. Init => TreeInv
    BY DEF Init, TreeInv
  <1>2. IInv /\ TreeInv /\ [Next]_vars => TreeInv'
    BY TreeStep
  <1>3. IInv /\ TreeInv /\ LayoutInv => LayoutShowsSignals
    BY LayoutShows
  <1> QED
    BY Invariance, LayoutInvariance, <1>1, <1>2, <1>3, PTL DEF Spec

-----------------------------------------------------------------------------
(* The layouts of any signals, also of those that overlap and of big endian *)
(* ones: what a cell shows does not depend on what was printed before.      *)

(* The signals the layout for v draws at bit b, and the one that it shows.  *)
DrawnAt(sigs, v, b) ==
    { k \in DOMAIN sigs :
        /\ v # AllOnes /\ sigs[k].multiplexer = "MuxValue" => sigs[k].switch_value = v
        /\ \E j \in 0 .. sigs[k].bit_size - 1 : DrawnBit(sigs[k])[j] = b }
FirstAt(sigs, v, b) == IF DrawnAt(sigs, v, b) = {} THEN 0 ELSE Min(DrawnAt(sigs, v, b))

(* For v there is one cell for each bit of B, and none for another.         *)
CellsOver(sigs, v, cs, B) ==
    /\ \A c \in DOMAIN cs : cs[c].mux_value = v =>
          cs[c].bit \in B /\ cs[c].signal = FirstAt(sigs, v, cs[c].bit)
    /\ \A b \in B : \E c \in DOMAIN cs : cs[c].mux_value = v /\ cs[c].bit = b
    /\ \A c, d \in DOMAIN cs :
          cs[c].mux_value = v /\ cs[d].mux_value = v /\ cs[c].bit = cs[d].bit => c = d

(* print_signal: the layout for each value has one cell for each bit of the *)
(* message, with the first signal of it that is drawn there.                *)
LayoutShowsFirst ==
    pc = "printed" => \A v \in Values : CellsOver(Signals, v, cells, MessageBits)

(* The bits of the rows above and of the columns left of the cursor.        *)
Covered(by, col) == (0 .. 8 * by - 1) \cup (8 * by + 8 - col .. 8 * by + 7)

(* What has been covered of the layout for v.                               *)
CoveredFor(v) ==
    IF v \in Pending THEN {}
    ELSE IF pc \in {"cells", "labels"} /\ v = mux_value
           THEN Covered(byte, IF pc = "labels" THEN 8 ELSE i)
           ELSE MessageBits
CellsInv ==
    pc \in {"pass", "cells", "labels", "tree", "printed"} =>
        \A v \in Values : CellsOver(Signals, v, cells, CoveredFor(v))

(* The cells of the bits covered: the next column, and the next row.        *)
LEMMA CoveredIs ==
    ASSUME NEW by \in Nat
    PROVE  /\ Covered(by, 0) = 0 .. 8 * by - 1
           /\ Covered(by, 8) = Covered(by + 1, 0)
           /\ \A col \in 0 .. 7 :
                 /\ Covered(by, col + 1) = Covered(by, col) \cup {8 * by + 7 - col}
                 /\ 8 * by + 7 - col \notin Covered(by, col)
  BY DEF Covered

(* find_cur_sig finds the first signal that the layout draws at its bit.    *)
LEMMA FoundFirst == find_cur_sig = FirstAt(Signals, mux_value, i_bit)
  <1> DEFINE those == { k \in DOMAIN Signals : bit_is_inbetween(Signals[k], i_bit) }
  <1>1. \A s : bit_is_inbetween(s, i_bit)
                 <=> /\ mux_value # AllOnes /\ s.multiplexer = "MuxValue" => s.switch_value = mux_value
                     /\ \E j \in 0 .. s.bit_size - 1 : DrawnBit(s)[j] = i_bit
    BY DEF bit_is_inbetween, Filtered
  <1>2. those = DrawnAt(Signals, mux_value, i_bit)
    BY <1>1 DEF DrawnAt
  <1>3. find_cur_sig = IF those = {} THEN 0 ELSE Min(those)
    BY DEF find_cur_sig
  <1> QED
    BY <1>2, <1>3 DEF FirstAt

(* A cell of another value changes nothing.                                 *)
LEMMA OverOther ==
    ASSUME NEW sigs, NEW v, NEW cs, NEW x, NEW B, Sequence(cs), x.mux_value # v,
           CellsOver(sigs, v, cs, B)
    PROVE  CellsOver(sigs, v, Append(cs, x), B)
  <1> DEFINE t == Append(cs, x)
             n == Len(cs) + 1
  <1>1. /\ DOMAIN t = DOMAIN cs \cup {n} /\ n \notin DOMAIN cs
        /\ \A c \in DOMAIN cs : t[c] = cs[c]
        /\ t[n] = x
    BY SequenceAppend
  <1> HIDE DEF t, n
  <1>2. CellsOver(sigs, v, t, B)
    BY <1>1 DEF CellsOver
  <1> QED
    BY <1>2 DEF t

(* A cell of the value for one bit more. *)
LEMMA OverOneMore ==
    ASSUME NEW sigs, NEW v, NEW cs, NEW x, NEW B, Sequence(cs), CellsOver(sigs, v, cs, B),
           x.mux_value = v, x.bit \notin B, x.signal = FirstAt(sigs, v, x.bit)
    PROVE  CellsOver(sigs, v, Append(cs, x), B \cup {x.bit})
  <1> DEFINE t == Append(cs, x)
             n == Len(cs) + 1
  <1>1. /\ DOMAIN t = DOMAIN cs \cup {n} /\ n \notin DOMAIN cs
        /\ \A c \in DOMAIN cs : t[c] = cs[c]
        /\ t[n] = x
    BY SequenceAppend
  <1> HIDE DEF t, n
  <1>2. \A c \in DOMAIN t : t[c].mux_value = v =>
           t[c].bit \in B \cup {x.bit} /\ t[c].signal = FirstAt(sigs, v, t[c].bit)
    BY <1>1 DEF CellsOver
  <1>3. \A b \in B \cup {x.bit} : \E c \in DOMAIN t : t[c].mux_value = v /\ t[c].bit = b
    BY <1>1 DEF CellsOver
  <1>4. \A c \in DOMAIN cs : cs[c].mux_value = v => cs[c].bit # x.bit
    BY DEF CellsOver
  <1>5. \A c, d \in DOMAIN t :
           t[c].mux_value = v /\ t[d].mux_value = v /\ t[c].bit = t[d].bit => c = d
    <2> SUFFICES ASSUME NEW c \in DOMAIN t, NEW d \in DOMAIN t,
                        t[c].mux_value = v, t[d].mux_value = v, t[c].bit = t[d].bit
                 PROVE  c = d
      OBVIOUS
    <2>1. CASE c \in DOMAIN cs /\ d \in DOMAIN cs
      BY <1>1, <2>1 DEF CellsOver
    <2>2. CASE c = n
      BY <1>1, <1>4, <2>2
    <2>3. CASE d = n
      BY <1>1, <1>4, <2>3
    <2> QED
      BY <1>1, <2>1, <2>2, <2>3
  <1>6. CellsOver(sigs, v, t, B \cup {x.bit})
    BY <1>2, <1>3, <1>5 DEF CellsOver
  <1> QED
    BY <1>6 DEF t

(* A step that prints no cell and covers no bit. *)
LEMMA CellsKept ==
    ASSUME CellsInv, pc \in {"pass", "cells", "labels", "tree", "printed"},
           net' = net, m' = m, cells' = cells,
           \A v \in Values : CoveredFor(v)' = CoveredFor(v)
    PROVE  CellsInv'
  <1>1. Signals' = Signals /\ Values' = Values
    BY SameMessage
  <1>2. ASSUME NEW v \in Values
        PROVE  CellsOver(Signals', v, cells', CoveredFor(v)')
    BY <1>1 DEF CellsInv
  <1> QED
    BY <1>1, <1>2 DEF CellsInv

(* A message begins without a cell.                                         *)
LEMMA PrintMessageCells ==
    ASSUME IInv, PrintMessage
    PROVE  CellsInv'
  <1>1. net' = net /\ m' = m /\ cells' = << >>
    BY DEF PrintMessage
  <1>2. Pending' = Values /\ Values' = Values
    BY <1>1, PassesBegin, ListedAre, SameMessage DEF Pending
  <1>3. \A v \in Values' : CoveredFor(v)' = {}
    BY <1>2 DEF CoveredFor
  <1>4. DOMAIN cells' = {}
    BY <1>1
  <1>5. \A v : CellsOver(Signals', v, cells', {})
    BY <1>4 DEF CellsOver
  <1> QED
    BY <1>3, <1>5 DEF CellsInv

(* A layout begins without one. *)
LEMMA PrintHeaderCells ==
    ASSUME LayoutInv, CellsInv, PrintHeader
    PROVE  CellsInv'
  <1>1. /\ pc = "pass" /\ net' = net /\ m' = m /\ cells' = cells
        /\ \/ pc' = "crashed"
           \/ pc' = "cells" /\ byte' = 0 /\ i' = 0
    BY DEF PrintHeader, output
  <1>2. CASE pc' = "crashed"
    BY <1>2 DEF CellsInv
  <1>3. CASE pc' = "cells" /\ byte' = 0 /\ i' = 0
    <2>1. mux_value' \in Pending /\ Pending' = Pending \ {mux_value'}
      BY <1>3, PassBegins
    <2>2. Covered(0, 0) = {}
      BY CoveredIs
    <2>3. MessageBits' = MessageBits
      BY <1>1, SameMessage
    <2>4. \A v \in Values : CoveredFor(v)' = CoveredFor(v)
      BY <1>1, <1>3, <2>1, <2>2, <2>3 DEF CoveredFor
    <2> QED
      BY <1>1, <2>4, CellsKept
  <1> QED
    BY <1>1, <1>2, <1>3

(* A cell covers one bit more of the layout that is printed.                *)
LEMMA PrintCellCells ==
    ASSUME IInv, LayoutInv, CellsInv, PrintCell
    PROVE  CellsInv'
  <1> DEFINE k == find_cur_sig
             x == [ mux_value |-> mux_value, bit |-> i_bit, signal |-> k,
                    start |-> k # 0 /\ is_start_bit(Signals[k], i_bit),
                    end   |-> k # 0 /\ is_end_bit(Signals[k], i_bit) ]
  <1>1. /\ pc = "cells" /\ i < 8 /\ cells' = Append(cells, x) /\ i' = i + 1
        /\ UNCHANGED << net, m, pc, passes, mux_value, byte >>
    BY DEF PrintCell
  <1>2. /\ x.mux_value = mux_value /\ x.bit = i_bit
        /\ x.signal = FirstAt(Signals, mux_value, i_bit)
    BY FoundFirst
  <1> HIDE DEF x
  <1>3. /\ Sequence(cells) /\ Pending' = Pending /\ mux_value \in Values \ Pending
    BY <1>1 DEF LayoutInv, PassesInv, Pending
  <1>4. Signals' = Signals /\ Values' = Values /\ MessageBits' = MessageBits
    BY <1>1, SameMessage
  <1>5. ASSUME NEW v \in Values, v # mux_value
        PROVE  CellsOver(Signals', v, cells', CoveredFor(v)')
    <2>1. CoveredFor(v)' = CoveredFor(v)
      BY <1>1, <1>3, <1>4, <1>5 DEF CoveredFor
    <2>2. CellsOver(Signals, v, cells, CoveredFor(v))
      BY <1>1 DEF CellsInv
    <2>3. CellsOver(Signals, v, Append(cells, x), CoveredFor(v))
      BY <1>2, <1>3, <1>5, <2>2, OverOther
    <2> QED
      BY <1>1, <1>4, <2>1, <2>3
  <1>6. ASSUME NEW v \in Values, v = mux_value
        PROVE  CellsOver(Signals', v, cells', CoveredFor(v)')
    <2>1. byte \in Nat /\ i \in 0 .. 7 /\ i_bit = 8 * byte + 7 - i
      BY <1>1, CursorIs
    <2>2. CoveredFor(v) = Covered(byte, i) /\ CoveredFor(v)' = Covered(byte, i + 1)
      BY <1>1, <1>3, <1>6 DEF CoveredFor
    <2>3. /\ Covered(byte, i + 1) = Covered(byte, i) \cup {i_bit}
          /\ i_bit \notin Covered(byte, i)
      <3>1. /\ Covered(byte, i + 1) = Covered(byte, i) \cup {8 * byte + 7 - i}
            /\ 8 * byte + 7 - i \notin Covered(byte, i)
        BY <2>1, CoveredIs
      <3> QED
        BY <2>1, <3>1
    <2>4. CellsOver(Signals, v, cells, Covered(byte, i))
      BY <1>1, <2>2 DEF CellsInv
    <2>5. CellsOver(Signals, v, Append(cells, x), Covered(byte, i) \cup {x.bit})
      BY <1>2, <1>3, <1>6, <2>3, <2>4, OverOneMore
    <2> QED
      BY <1>1, <1>2, <1>4, <2>2, <2>3, <2>5
  <1>7. \A v \in Values : CellsOver(Signals', v, cells', CoveredFor(v)')
    BY <1>5, <1>6
  <1> QED
    BY <1>4, <1>7 DEF CellsInv

(* The end of a row, a label and the end of a line of labels cover nothing. *)
LEMMA RowCells ==
    ASSUME IInv, LayoutInv, CellsInv, EndCells \/ PrintLabel \/ EndLabels
    PROVE  CellsInv'
  <1>1. /\ net' = net /\ m' = m /\ cells' = cells /\ passes' = passes /\ mux_value' = mux_value
        /\ pc \in {"cells", "labels"} /\ pc' \in {"cells", "labels"}
    BY DEF EndCells, PrintLabel, EndLabels, output
  <1> DEFINE Col == IF pc = "labels" THEN 8 ELSE i
  <1>2. \/ byte' = byte /\ Col' = Col
        \/ byte' = byte + 1 /\ Col = 8 /\ Col' = 0
    BY DEF EndCells, PrintLabel, EndLabels
  <1>3. byte \in Nat
    BY DEF IInv
  <1>4. Covered(byte', Col') = Covered(byte, Col)
    BY <1>2, <1>3, CoveredIs
  <1>5. Pending' = Pending /\ MessageBits' = MessageBits
    BY <1>1, SameMessage DEF Pending
  <1>6. \A v \in Values : CoveredFor(v)' = CoveredFor(v)
    BY <1>1, <1>4, <1>5 DEF CoveredFor
  <1> QED
    BY <1>1, <1>6, CellsKept

(* The layout ends when its rows are those of the message. *)
LEMMA EndLayoutCells ==
    ASSUME IInv, LayoutInv, CellsInv, EndLayout
    PROVE  CellsInv'
  <1>1. /\ pc = "cells" /\ i = 0 /\ i_bit >= 8 * net[m].size /\ m <= Len(net)
        /\ pc' \in {"tree", "pass"}
        /\ UNCHANGED << net, m, passes, mux_value, cells >>
    BY DEF EndLayout, output, IInv, CursorInv
  <1>2. byte = net[m].size /\ byte \in Nat
    BY <1>1, LastRow
  <1>3. Pending' = Pending /\ MessageBits' = MessageBits
    BY <1>1, SameMessage DEF Pending
  <1>4. Covered(byte, 0) = MessageBits
    BY <1>2, CoveredIs DEF MessageBits
  <1>5. \A v \in Values : CoveredFor(v)' = CoveredFor(v)
    BY <1>1, <1>3, <1>4 DEF CoveredFor
  <1> QED
    BY <1>1, <1>5, CellsKept

(* The other steps print no cell.                                           *)
LEMMA OtherCells ==
    ASSUME CellsInv, print_signal_tree \/ NextMessage \/ End \/ UNCHANGED vars
    PROVE  CellsInv'
  <1>1. CASE print_signal_tree
    <2>1. /\ pc = "tree" /\ pc' = "printed" /\ UNCHANGED << net, m, passes, mux_value, cells >>
      BY <1>1 DEF print_signal_tree
    <2>2. Pending' = Pending /\ MessageBits' = MessageBits
      BY <2>1, SameMessage DEF Pending
    <2>3. \A v \in Values : CoveredFor(v)' = CoveredFor(v)
      BY <2>1, <2>2 DEF CoveredFor
    <2> QED
      BY <2>1, <2>3, CellsKept
  <1>2. CASE NextMessage \/ End
    BY <1>2 DEF NextMessage, End, CellsInv
  <1>3. CASE UNCHANGED vars
    <2>1. UNCHANGED << net, m, pc, passes, mux_value, cells, byte, i >>
      BY <1>3 DEF vars, output, cursor
    <2>2. Pending' = Pending /\ MessageBits' = MessageBits
      BY <2>1, SameMessage DEF Pending
    <2>3. \A v \in Values : CoveredFor(v)' = CoveredFor(v)
      BY <2>1, <2>2 DEF CoveredFor
    <2>4. CASE pc \in {"pass", "cells", "labels", "tree", "printed"}
      BY <2>1, <2>3, <2>4, CellsKept
    <2>5. CASE pc \notin {"pass", "cells", "labels", "tree", "printed"}
      BY <2>1, <2>5 DEF CellsInv
    <2> QED
      BY <2>4, <2>5
  <1> QED
    BY <1>1, <1>2, <1>3

(* print_signal, for every message and however its signals overlap, big     *)
(* endian ones among them: the layout for each value has one cell for each  *)
(* bit of the message, with the first signal that is drawn there, whatever  *)
(* was printed before.                                                      *)
THEOREM LayoutShowsFirstAlways == Spec => []LayoutShowsFirst
  <1>1. IInv /\ LayoutInv /\ CellsInv /\ [Next]_vars => CellsInv'
    BY PrintMessageCells, PrintHeaderCells, PrintCellCells, RowCells, EndLayoutCells,
       OtherCells DEF Next
  <1>2. Init => CellsInv
    BY DEF Init, CellsInv
  <1>3. LayoutInv /\ CellsInv => LayoutShowsFirst
    <2> SUFFICES ASSUME LayoutInv, CellsInv, pc = "printed", NEW v \in Values
                 PROVE  CellsOver(Signals, v, cells, MessageBits)
      BY DEF LayoutShowsFirst
    <2>1. CoveredFor(v) = MessageBits
      BY DEF CoveredFor, LayoutInv, PassesInv
    <2> QED
      BY <2>1 DEF CellsInv
  <1> QED
    BY Invariance, LayoutInvariance, <1>1, <1>2, <1>3, PTL DEF Spec

-----------------------------------------------------------------------------
(* The labels of any signals, also of those that overlap.                   *)

(* A label names a signal of its layout; that of a little endian one is in  *)
(* the row and the column of the signal's start.                            *)
LabelRight(sigs, l) ==
    /\ l.signal \in DOMAIN sigs
    /\ l.mux_value # AllOnes /\ sigs[l.signal].multiplexer = "MuxValue"
         => sigs[l.signal].switch_value = l.mux_value
    /\ sigs[l.signal].byte_order = "LittleEndian"
         => l.column \in 0 .. 7 /\ sigs[l.signal].start_bit = 8 * l.byte + 7 - l.column

(* print_signal: however signals overlap, no label is below a bit that is   *)
(* not the start of the signal it names, or in the layout of a value that   *)
(* signal is not of.                                                        *)
LabelsBelowStarts == pc = "printed" => \A l \in DOMAIN labels : LabelRight(Signals, labels[l])

LabelsInv ==
    pc \in {"pass", "cells", "labels", "tree", "printed"} =>
        \A l \in DOMAIN labels : LabelRight(Signals, labels[l])

(* The signal found is drawn at the bit: it starts there or below.          *)
LEMMA FoundDrawn ==
    ASSUME IInv, m <= Len(net), find_cur_sig # 0
    PROVE  /\ find_cur_sig \in DOMAIN Signals
           /\ ~ Filtered(Signals[find_cur_sig])
           /\ Signals[find_cur_sig].byte_order = "LittleEndian"
                => Signals[find_cur_sig].start_bit <= i_bit
  <1> DEFINE those == { k \in DOMAIN Signals : bit_is_inbetween(Signals[k], i_bit) }
             s     == Signals[find_cur_sig]
  <1>1. those \in SUBSET Nat
    BY SignalsOf
  <1>2. those # {} /\ find_cur_sig = Min(those)
    BY DEF find_cur_sig
  <1> HIDE DEF those
  <1>3. \E x \in those : \A y \in those : x <= y
    BY <1>1, <1>2, LeastNumber
  <1>4. find_cur_sig \in those
    BY <1>2, <1>3, Zenon DEF Min
  <1>5. find_cur_sig \in DOMAIN Signals /\ bit_is_inbetween(s, i_bit)
    BY <1>4 DEF those
  <1>6. s.start_bit \in Nat /\ s.bit_size \in Nat
    BY <1>5, SignalsOf DEF Signal
  <1>7. ASSUME s.byte_order = "LittleEndian"
        PROVE  s.start_bit <= i_bit
    <2> DEFINE n == s.bit_size
               a == s.start_bit
    <2>1. DrawnBit(s) = [ b \in 0 .. n - 1 |-> a + b ]
      BY <1>7 DEF DrawnBit
    <2>2. PICK b \in 0 .. n - 1 : i_bit = DrawnBit(s)[b]
      BY <1>5 DEF bit_is_inbetween
    <2>3. i_bit = a + b
      BY <2>1, <2>2
    <2> QED
      BY <1>6, <2>3
  <1> QED
    BY <1>5, <1>7 DEF bit_is_inbetween

(* A label is set where the cursor finds the signal, after the columns that *)
(* are left out.                                                            *)
LEMMA PrintLabelLabels ==
    ASSUME IInv, LayoutInv, LabelsInv, PrintLabel
    PROVE  LabelsInv'
  <1> DEFINE k       == find_cur_sig
             skipped == IF k = 0 THEN 0 ELSE Skipped(Signals[k])
             x       == [ mux_value |-> mux_value, byte |-> byte,
                          column |-> i + skipped, signal |-> k ]
  <1>1. /\ pc = "labels" /\ i < 8 /\ net' = net /\ m' = m
        /\ \/ labels' = labels
           \/ k # 0 /\ i + skipped # 8 /\ labels' = Append(labels, x)
    BY DEF PrintLabel
  <1>2. m <= Len(net) /\ byte \in Nat /\ i \in 0 .. 7 /\ i_bit = 8 * byte + 7 - i
    BY <1>1, CursorIs
  <1>3. Signals' = Signals /\ Sequence(labels) /\ \A l \in DOMAIN labels : LabelRight(Signals, labels[l])
    BY <1>1, SameMessage DEF LayoutInv, LabelsInv
  <1>4. CASE labels' = labels
    BY <1>3, <1>4 DEF LabelsInv
  <1>5. CASE k # 0 /\ i + skipped # 8 /\ labels' = Append(labels, x)
    <2> DEFINE s == Signals[k]
    <2>1. k \in DOMAIN Signals /\ ~ Filtered(s)
      BY <1>2, <1>5, FoundDrawn
    <2>2. ASSUME s.byte_order = "LittleEndian"
          PROVE  i + skipped \in 0 .. 7 /\ s.start_bit = 8 * byte + 7 - (i + skipped)
      <3> DEFINE a == s.start_bit
      <3>1. a \in Nat /\ a <= i_bit
        BY <1>2, <1>5, <2>1, <2>2, StartOf, FoundDrawn
      <3>2. skipped = IF i_bit > a THEN Min({8 - i, i_bit - a}) ELSE 0
        BY <1>5 DEF Skipped
      <3> HIDE DEF a, skipped, k
      <3> DEFINE u == 8 - i
                 w == i_bit - a
      <3>3. u \in Int /\ w \in Int /\ u > 0 /\ (i_bit > a <=> w > 0) /\ w >= 0
        BY <1>2, <3>1
      <3>4. skipped = IF i_bit > a THEN Min({u, w}) ELSE 0
        BY <3>2
      <3>5. i + skipped # i + u
        BY <1>2, <1>5
      <3> HIDE DEF u, w
      <3>6. Min({u, w}) \in {u, w} /\ Min({u, w}) <= u
        BY <3>3, MinOfTwo
      <3>7. skipped = w /\ w < u
        BY <3>3, <3>4, <3>5, <3>6
      <3>8. i + skipped \in 0 .. 7 /\ a = 8 * byte + 7 - (i + skipped)
        BY <1>2, <3>1, <3>3, <3>7 DEF u, w
      <3> QED
        BY <3>8 DEF a
    <2>3. x.mux_value = mux_value /\ x.byte = byte /\ x.column = i + skipped /\ x.signal = k
      OBVIOUS
    <2> HIDE DEF x, skipped, k
    <2>4. LabelRight(Signals, x)
      BY <2>1, <2>2, <2>3 DEF LabelRight, Filtered
    <2>5. /\ DOMAIN labels' = DOMAIN labels \cup {Len(labels) + 1}
          /\ \A l \in DOMAIN labels : labels'[l] = labels[l]
          /\ labels'[Len(labels) + 1] = x
      BY <1>3, <1>5, SequenceAppend
    <2>6. \A l \in DOMAIN labels' : LabelRight(Signals, labels'[l])
      BY <1>3, <2>4, <2>5
    <2> QED
      BY <1>3, <2>6 DEF LabelsInv
  <1> QED
    BY <1>1, <1>4, <1>5

(* The other steps set none. *)
LEMMA OtherLabels ==
    ASSUME LabelsInv, [Next]_vars, ~ PrintLabel
    PROVE  LabelsInv'
  <1>1. CASE PrintMessage
    <2>1. DOMAIN labels' = {}
      BY <1>1 DEF PrintMessage
    <2> QED
      BY <2>1 DEF LabelsInv
  <1>2. CASE NextMessage \/ End
    BY <1>2 DEF NextMessage, End, LabelsInv
  <1>3. CASE \/ PrintHeader \/ PrintCell \/ EndCells \/ EndLabels \/ EndLayout
             \/ print_signal_tree \/ UNCHANGED vars
    <2>1. /\ net' = net /\ m' = m /\ labels' = labels
          /\ pc' = pc \/ pc \in {"pass", "cells", "labels", "tree", "printed"}
      BY <1>3 DEF PrintHeader, PrintCell, EndCells, EndLabels, EndLayout,
                  print_signal_tree, vars, output, cursor
    <2>2. Signals' = Signals
      BY <2>1, SameMessage
    <2> QED
      BY <2>1, <2>2 DEF LabelsInv
  <1> QED
    BY <1>1, <1>2, <1>3 DEF Next

(* print_signal, for every message and however its signals overlap: every   *)
(* label is of a signal of its layout, and that of a little endian one is   *)
(* below its start.                                                         *)
THEOREM LabelsBelowStartsAlways == Spec => []LabelsBelowStarts
  <1>1. IInv /\ LayoutInv /\ LabelsInv /\ [Next]_vars => LabelsInv'
    BY PrintLabelLabels, OtherLabels
  <1>2. Init => LabelsInv
    BY DEF Init, LabelsInv
  <1>3. LabelsInv => LabelsBelowStarts
    BY DEF LabelsInv, LabelsBelowStarts
  <1> QED
    BY Invariance, LayoutInvariance, <1>1, <1>2, <1>3, PTL DEF Spec

-----------------------------------------------------------------------------
(* The printing stops. Fairness is not needed for this half of PrintEnds:   *)
(* each step leads down in a well-founded order.                            *)

(* What is still to be done: messages, stages of the one printed, values,   *)
(* rows, lines of the row, and columns of the line.                         *)
InLayout == pc \in {"cells", "labels"}
Stage ==
    CASE pc = "message" -> 3
      [] pc = "pass" \/ InLayout -> 2
      [] pc = "tree" -> 1
      [] OTHER -> 0
Left ==
    << Len(net) + 1 - m,
       Stage,
       IF pc = "pass" \/ InLayout THEN Len(passes) ELSE 0,
       IF InLayout THEN 1 ELSE 0,
       IF InLayout THEN net[m].size - byte ELSE 0,
       IF pc = "cells" THEN 1 ELSE 0,
       IF pc = "labels" THEN depth ELSE 0,
       IF InLayout THEN 8 - i ELSE 0 >>
Ranks == [ 1 .. 8 -> Nat ]
Below8 == LexProductOrdering(OpToRel(<, Nat), Nat, 8)

(* print_signal, operator<<: every step leads down.                         *)
PrintStepsDown == [][(<< Left', Left >> \in Below8)]_vars

(* The message printed, if any is, is one of the network.                   *)
PlaceInv == m <= (IF pc \in {"message", "done"} THEN Len(net) + 1 ELSE Len(net))

(* There is no infinite way down.                                           *)
LEMMA Below8WellFounded == IsWellFoundedOn(Below8, Ranks)
  BY NatLessThanWellFounded, WFLexProductOrdering DEF Below8, Ranks

(* Down at the first place where two ranks differ. *)
LEMMA DownAt ==
    ASSUME NEW a \in Ranks, NEW b \in Ranks, NEW k \in 1 .. 8,
           a[k] < b[k], \A j \in 1 .. k - 1 : a[j] = b[j]
    PROVE  << a, b >> \in Below8
  <1>1. << a[k], b[k] >> \in OpToRel(<, Nat)
    BY DEF OpToRel, Ranks
  <1> QED
    BY <1>1 DEF Below8, LexProductOrdering, Ranks

(* The place is kept.                                                       *)
LEMMA PlaceStep ==
    ASSUME IInv, TreeInv, PlaceInv, [Next]_vars
    PROVE  PlaceInv'
  <1>1. net \in Seq(Message) /\ Len(net) \in Nat /\ m \in Nat
    BY NetworksAssumption DEF IInv
  <1>2. CASE NextMessage
    BY <1>1, <1>2 DEF NextMessage, PlaceInv, TreeInv
  <1>3. CASE PrintMessage \/ End
    BY <1>3, <1>1 DEF PrintMessage, End, PlaceInv
  <1>4. CASE PrintHeader \/ PrintCell \/ EndCells \/ PrintLabel \/ EndLabels
             \/ EndLayout \/ print_signal_tree
    <2>1. /\ net' = net /\ m' = m
          /\ pc \notin {"message", "done"} /\ pc' \notin {"message", "done"}
      BY <1>4 DEF PrintHeader, PrintCell, EndCells, PrintLabel, EndLabels, EndLayout,
                  print_signal_tree
    <2> QED
      BY <2>1 DEF PlaceInv
  <1>5. CASE UNCHANGED vars
    BY <1>5 DEF vars, PlaceInv
  <1> QED
    BY <1>2, <1>3, <1>4, <1>5 DEF Next

(* Eight numbers are a rank.                                                *)
LEMMA EightNumbers ==
    ASSUME NEW a \in Nat, NEW b \in Nat, NEW c \in Nat, NEW d \in Nat,
           NEW e \in Nat, NEW f \in Nat, NEW g \in Nat, NEW h \in Nat
    PROVE  << a, b, c, d, e, f, g, h >> \in Ranks
  BY DEF Ranks

(* What is to be done is counted in numbers. *)
LEMMA LeftIs ==
    ASSUME IInv, LayoutInv, PlaceInv
    PROVE  Left \in Ranks
  <1>1. net \in Seq(Message) /\ Len(net) \in Nat /\ m \in Nat
    BY NetworksAssumption DEF IInv
  <1>2. Len(net) + 1 - m \in Nat
    BY <1>1 DEF PlaceInv
  <1>3. Stage \in Nat
    BY DEF Stage
  <1>4. (IF pc = "pass" \/ InLayout THEN Len(passes) ELSE 0) \in Nat
    BY DEF InLayout, LayoutInv, PassesInv, Lists, Sequence
  <1>5. (IF InLayout THEN net[m].size - byte ELSE 0) \in Nat
    <2>1. CASE InLayout
      <3>1. net[m].size \in Nat
        BY <2>1, MessageOf DEF InLayout, IInv, Message
      <3>2. byte \in Nat /\ byte <= net[m].size
        BY <2>1, <3>1 DEF InLayout, IInv, CursorInv
      <3> QED
        BY <2>1, <3>1, <3>2
    <2> QED
      BY <2>1
  <1>6. (IF pc = "labels" THEN depth ELSE 0) \in Nat /\ (IF InLayout THEN 8 - i ELSE 0) \in Nat
    BY DEF IInv
  <1>7. (IF InLayout THEN 1 ELSE 0) \in Nat /\ (IF pc = "cells" THEN 1 ELSE 0) \in Nat
    OBVIOUS
  <1> QED
    BY <1>2, <1>3, <1>4, <1>5, <1>6, <1>7, EightNumbers, Zenon DEF Left

(* The way down of each step: the first place where it leaves less.         *)
LEMMA MessageStepsDown ==
    ASSUME IInv, PlaceInv, PrintMessage \/ NextMessage \/ End
    PROVE  \E k \in 1 .. 8 : Left'[k] < Left[k] /\ \A j \in 1 .. k - 1 : Left'[j] = Left[j]
  <1>1. net \in Seq(Message) /\ Len(net) \in Nat /\ m \in Nat
    BY NetworksAssumption DEF IInv
  <1>2. CASE PrintMessage
    <2>1. net' = net /\ m' = m /\ pc = "message" /\ pc' = "pass"
      BY <1>2 DEF PrintMessage
    <2>2. Left'[2] < Left[2] /\ Left'[1] = Left[1]
      BY <2>1 DEF Left, Stage, InLayout
    <2> QED
      BY <2>2
  <1>3. CASE NextMessage
    <2>1. net' = net /\ m' = m + 1
      BY <1>3 DEF NextMessage
    <2>2. Left'[1] < Left[1]
      BY <1>1, <2>1 DEF Left
    <2> QED
      BY <2>2
  <1>4. CASE End
    <2>1. net' = net /\ m' = m /\ pc = "message" /\ pc' = "done"
      BY <1>4 DEF End
    <2>2. Left'[2] < Left[2] /\ Left'[1] = Left[1]
      BY <2>1 DEF Left, Stage, InLayout
    <2> QED
      BY <2>2
  <1> QED
    BY <1>2, <1>3, <1>4

(* A pass takes one of the values.                                          *)
LEMMA PassStepsDown ==
    ASSUME IInv, LayoutInv, PrintHeader \/ EndLayout \/ print_signal_tree
    PROVE  \E k \in 1 .. 8 : Left'[k] < Left[k] /\ \A j \in 1 .. k - 1 : Left'[j] = Left[j]
  <1>1. CASE PrintHeader /\ pc' = "crashed"
    <2>1. net' = net /\ m' = m /\ pc = "pass"
      BY <1>1 DEF PrintHeader
    <2>2. Left'[2] < Left[2] /\ Left'[1] = Left[1]
      BY <1>1, <2>1 DEF Left, Stage, InLayout
    <2> QED
      BY <2>2
  <1>2. CASE PrintHeader /\ pc' = "cells"
    <2>1. /\ net' = net /\ m' = m /\ pc = "pass"
          /\ passes # << >> /\ passes' = Tail(passes) /\ Sequence(passes)
      BY <1>2 DEF PrintHeader, LayoutInv, PassesInv, Lists
    <2>2. Len(passes') < Len(passes)
      <3> DEFINE E == { passes[k] : k \in DOMAIN passes }
      <3>1. passes \in Seq(E)
        BY <2>1 DEF Sequence
      <3> HIDE DEF E
      <3> QED
        BY <2>1, <3>1
    <2>3. Left'[3] < Left[3] /\ Left'[2] = Left[2] /\ Left'[1] = Left[1]
      BY <1>2, <2>1, <2>2 DEF Left, Stage, InLayout
    <2> QED
      BY <2>3
  <1>3. CASE EndLayout /\ pc' = "tree"
    <2>1. net' = net /\ m' = m /\ pc = "cells"
      BY <1>3 DEF EndLayout
    <2>2. Left'[2] < Left[2] /\ Left'[1] = Left[1]
      BY <1>3, <2>1 DEF Left, Stage, InLayout
    <2> QED
      BY <2>2
  <1>4. CASE EndLayout /\ pc' = "pass"
    <2>1. net' = net /\ m' = m /\ pc = "cells" /\ passes' = passes
      BY <1>4 DEF EndLayout
    <2>2. Left'[4] < Left[4] /\ Left'[3] = Left[3] /\ Left'[2] = Left[2] /\ Left'[1] = Left[1]
      BY <1>4, <2>1 DEF Left, Stage, InLayout
    <2> QED
      BY <2>2
  <1>5. CASE print_signal_tree
    <2>1. net' = net /\ m' = m /\ pc = "tree" /\ pc' = "printed"
      BY <1>5 DEF print_signal_tree
    <2>2. Left'[2] < Left[2] /\ Left'[1] = Left[1]
      BY <2>1 DEF Left, Stage, InLayout
    <2> QED
      BY <2>2
  <1> QED
    BY <1>1, <1>2, <1>3, <1>4, <1>5 DEF PrintHeader, EndLayout

(* Fewer columns are left to the right of a column farther right.           *)
LEMMA FewerLeft ==
    ASSUME NEW a \in Int, NEW b \in Int, a > b
    PROVE  8 - a < 8 - b
  OBVIOUS

(* A row takes one of the rows, a line of labels one of the lines, a cell   *)
(* or a label at least one of the columns.                                  *)
LEMMA RowStepsDown ==
    ASSUME IInv, PrintCell \/ EndCells \/ PrintLabel \/ EndLabels
    PROVE  \E k \in 1 .. 8 : Left'[k] < Left[k] /\ \A j \in 1 .. k - 1 : Left'[j] = Left[j]
  <1>1. /\ net' = net /\ m' = m /\ passes' = passes /\ m <= Len(net)
        /\ InLayout /\ InLayout'
    BY DEF PrintCell, EndCells, PrintLabel, EndLabels, InLayout, IInv
  <1>2. /\ net[m].size \in Nat /\ byte \in Nat /\ i \in 0 .. 8 /\ depth \in Nat
    BY <1>1, MessageOf DEF IInv, Message
  <1>3. Left'[4] = Left[4] /\ Left'[3] = Left[3] /\ Left'[2] = Left[2] /\ Left'[1] = Left[1]
    BY <1>1 DEF Left, Stage, InLayout
  <1>4. CASE byte' = byte + 1
    <2>1. Left'[5] < Left[5]
      <3> DEFINE n == net[m].size
      <3>1. Left[5] = n - byte /\ Left'[5] = n - (byte + 1)
        BY <1>1, <1>4 DEF Left
      <3> HIDE DEF n
      <3> QED
        BY <1>2, <3>1 DEF n
    <2> QED
      BY <1>3, <2>1
  <1>5. CASE byte' = byte /\ pc = "cells" /\ pc' = "labels"
    <2>1. Left'[6] < Left[6] /\ Left'[5] = Left[5]
      BY <1>1, <1>5 DEF Left, InLayout
    <2> QED
      BY <1>3, <2>1
  <1>6. CASE byte' = byte /\ pc = "labels" /\ pc' = "labels" /\ depth' < depth
    <2>1. Left'[7] < Left[7] /\ Left'[6] = Left[6] /\ Left'[5] = Left[5]
      BY <1>1, <1>6 DEF Left, InLayout
    <2> QED
      BY <1>3, <2>1
  <1>7. CASE /\ byte' = byte /\ pc' = pc /\ i' \in Int /\ i' > i
             /\ pc = "labels" => depth' = depth
    <2>1. Left'[7] = Left[7] /\ Left'[6] = Left[6] /\ Left'[5] = Left[5]
      BY <1>1, <1>7 DEF Left, InLayout
    <2>2. Left'[8] = 8 - i' /\ Left[8] = 8 - i
      BY <1>1 DEF Left
    <2>3. 8 - i' < 8 - i
      <3>1. i \in Int
        BY <1>2
      <3>2. i' \in Int
        BY <1>7
      <3>3. i' > i
        BY <1>7
      <3> QED
        BY ONLY <3>1, <3>2, <3>3, FewerLeft
    <2>4. Left'[8] < Left[8]
      BY <2>2, <2>3
    <2> QED
      BY <1>3, <2>1, <2>4
  <1>8. CASE PrintCell
    BY <1>2, <1>7, <1>8 DEF PrintCell
  <1>9. CASE EndCells
    BY <1>4, <1>5, <1>9 DEF EndCells
  <1>10. CASE PrintLabel
    <2>1. i' \in Int /\ i' > i
      <3> DEFINE skip == IF find_cur_sig = 0 THEN 0 ELSE Skipped(Signals[find_cur_sig])
      <3>1. i < 8 /\ i' = i + (IF i + skip = 8 THEN skip ELSE skip + 1)
        BY <1>10 DEF PrintLabel
      <3>2. skip \in Nat
        <4>1. CASE find_cur_sig = 0
          BY <4>1
        <4>2. CASE find_cur_sig # 0
          <5> DEFINE a == Signals[find_cur_sig].start_bit
          <5>1. a \in Nat /\ i_bit \in Nat
            BY <1>1, <4>2, CurSigOf, StartOf, WordBound DEF IInv
          <5>2. skip = IF i_bit > a THEN Min({8 - i, i_bit - a}) ELSE 0
            BY <4>2 DEF Skipped
          <5> HIDE DEF a, skip
          <5> DEFINE u == 8 - i
                     w == i_bit - a
          <5>3. u \in Int /\ w \in Int /\ u >= 0 /\ (i_bit > a => w >= 0)
            BY <1>2, <5>1
          <5>4. skip = IF i_bit > a THEN Min({u, w}) ELSE 0
            BY <5>2
          <5> HIDE DEF u, w
          <5>5. Min({u, w}) \in {u, w}
            BY <5>3, MinOfTwo
          <5> QED
            BY <5>3, <5>4, <5>5
        <4> QED
          BY <4>1, <4>2
      <3> HIDE DEF skip
      <3> QED
        BY <1>2, <3>1, <3>2
    <2>2. byte' = byte /\ pc' = pc /\ depth' = depth
      BY <1>10 DEF PrintLabel
    <2> QED
      BY <1>7, <2>1, <2>2
  <1>11. CASE EndLabels
    <2>1. /\ pc = "labels" /\ depth' = depth - 1
          /\ \/ pc' = pc /\ byte' = byte
             \/ byte' = byte + 1
      BY <1>11 DEF EndLabels
    <2>2. depth' < depth
      BY <1>2, <2>1
    <2> QED
      BY <1>4, <1>6, <2>1, <2>2
  <1> QED
    BY <1>8, <1>9, <1>10, <1>11

(* The printing stops for every network, however its signals lie and        *)
(* however often the cursor wraps: what is left of it goes down in a        *)
(* well-founded order with every step.                                      *)
THEOREM PrintStepsDownAlways ==
    /\ IsWellFoundedOn(Below8, Ranks)
    /\ Spec => [](Left \in Ranks) /\ PrintStepsDown
  <1>1. IInv /\ TreeInv /\ PlaceInv /\ [Next]_vars => PlaceInv'
    BY PlaceStep
  <1>2. Init => TreeInv /\ PlaceInv
    BY NetworksAssumption DEF Init, TreeInv, PlaceInv
  <1>3. IInv /\ TreeInv /\ [Next]_vars => TreeInv'
    BY TreeStep
  <1>4. IInv /\ LayoutInv /\ PlaceInv => Left \in Ranks
    BY LeftIs
  <1>5. ASSUME IInv, LayoutInv, PlaceInv, Left \in Ranks, (Left \in Ranks)', [Next]_vars
        PROVE  [(<< Left', Left >> \in Below8)]_vars
    <2> SUFFICES ASSUME Next PROVE << Left', Left >> \in Below8
      BY <1>5
    <2>1. \E k \in 1 .. 8 : Left'[k] < Left[k] /\ \A j \in 1 .. k - 1 : Left'[j] = Left[j]
      BY <1>5, MessageStepsDown, PassStepsDown, RowStepsDown DEF Next
    <2> HIDE DEF Left
    <2> QED
      BY <1>5, <2>1, DownAt
  <1>6. Spec => [](Left \in Ranks) /\ PrintStepsDown
    BY Invariance, LayoutInvariance, <1>1, <1>2, <1>3, <1>4, <1>5, PTL DEF Spec, PrintStepsDown
  <1> QED
    BY <1>6, Below8WellFounded

-----------------------------------------------------------------------------
(* Where it stops.                                                          *)

(* A message whose layouts cannot have a header. *)
Unprintable(sigs) ==
    /\ \E k \in DOMAIN sigs : sigs[k].multiplexer = "MuxValue"
    /\ \A k \in DOMAIN sigs : sigs[k].multiplexer # "MuxSwitch"

(* print_mux_header: printing crashes at the first message with values and  *)
(* no switch, and a network that was printed to its end has none.           *)
PrintEndsRight ==
    /\ pc = "crashed" => /\ m \in DOMAIN net
                         /\ Unprintable(net[m].signals)
                         /\ \A p \in 1 .. m - 1 : ~ Unprintable(net[p].signals)
    /\ pc = "done" => \A p \in DOMAIN net : ~ Unprintable(net[p].signals)

(* The messages printed had a switch if they had values.                    *)
BehindInv ==
    /\ \A p \in 1 .. m - 1 : ~ Unprintable(net[p].signals)
    /\ pc = "crashed" => m <= Len(net) /\ NullSwitch
    /\ pc = "done" => m = Len(net) + 1

(* The two ways to say it.                                                  *)
LEMMA NullSwitchIs ==
    ASSUME IInv, m <= Len(net)
    PROVE  NullSwitch <=> Unprintable(net[m].signals)
  <1> DEFINE V == { Signals[k].switch_value : k \in
                      { k \in DOMAIN Signals : Signals[k].multiplexer = "MuxValue" } }
             S == { k \in DOMAIN Signals : Signals[k].multiplexer = "MuxSwitch" }
  <1>1. get_mux_values = V
    BY ValuesOf
  <1>2. V # {} <=> \E k \in DOMAIN Signals : Signals[k].multiplexer = "MuxValue"
    OBVIOUS
  <1>3. get_mux_signal # {} => \E k \in DOMAIN Signals : Signals[k].multiplexer = "MuxSwitch"
    BY DEF get_mux_signal
  <1>4. (\E k \in DOMAIN Signals : Signals[k].multiplexer = "MuxSwitch") => get_mux_signal # {}
    <2> SUFFICES ASSUME S # {} PROVE get_mux_signal # {}
      OBVIOUS
    <2>1. S \in SUBSET Nat
      BY SignalsOf
    <2>2. get_mux_signal = { k \in S : \A l \in S : k <= l }
      BY DEF get_mux_signal
    <2> HIDE DEF S
    <2>3. \E k \in S : \A l \in S : k <= l
      BY <2>1, LeastNumber
    <2> QED
      BY <2>2, <2>3
  <1> HIDE DEF V, S
  <1> QED
    BY <1>1, <1>2, <1>3, <1>4 DEF NullSwitch, Unprintable, Signals

(* A message is passed after it was printed.                                *)
LEMMA BehindStep ==
    ASSUME IInv, TreeInv, PlaceInv, BehindInv, [Next]_vars
    PROVE  BehindInv'
  <1>1. Len(net) \in Nat /\ m \in Nat
    BY NetworksAssumption DEF IInv
  <1>2. CASE NextMessage
    <2>1. net' = net /\ m' = m + 1 /\ pc' = "message" /\ pc = "printed"
      BY <1>2 DEF NextMessage
    <2>2. m <= Len(net) /\ ~ NullSwitch
      BY <2>1 DEF TreeInv
    <2>3. ~ Unprintable(net[m].signals)
      BY <2>2, NullSwitchIs
    <2>4. \A p \in 1 .. m : p \in 1 .. m - 1 \/ p = m
      BY <1>1
    <2>5. \A p \in 1 .. m : ~ Unprintable(net[p].signals)
      BY <2>3, <2>4 DEF BehindInv
    <2>6. 1 .. m' - 1 = 1 .. m
      BY <1>1, <2>1
    <2> QED
      BY <2>1, <2>5, <2>6 DEF BehindInv
  <1>3. CASE End
    <2>1. net' = net /\ m' = m /\ pc' = "done" /\ pc = "message" /\ m > Len(net)
      BY <1>3 DEF End
    <2>2. m = Len(net) + 1
      BY <1>1, <2>1 DEF PlaceInv
    <2> QED
      BY <2>1, <2>2 DEF BehindInv
  <1>4. CASE PrintHeader
    <2>1. /\ net' = net /\ m' = m /\ m <= Len(net) /\ pc' # "done"
          /\ pc' = "crashed" => NullSwitch
      BY <1>4 DEF PrintHeader, IInv
    <2>2. NullSwitch' = NullSwitch
      BY <2>1, SameMessage DEF NullSwitch, get_mux_values, get_mux_signal
    <2> QED
      BY <2>1, <2>2 DEF BehindInv
  <1>5. CASE PrintMessage \/ PrintCell \/ EndCells \/ PrintLabel \/ EndLabels
             \/ EndLayout \/ print_signal_tree
    <2>1. net' = net /\ m' = m /\ pc' \notin {"crashed", "done"}
      BY <1>5 DEF PrintMessage, PrintCell, EndCells, PrintLabel, EndLabels, EndLayout,
                  print_signal_tree
    <2> QED
      BY <2>1 DEF BehindInv
  <1>6. CASE UNCHANGED vars
    <2>1. net' = net /\ m' = m /\ pc' = pc
      BY <1>6 DEF vars
    <2>2. NullSwitch' = NullSwitch
      BY <2>1, SameMessage DEF NullSwitch, get_mux_values, get_mux_signal
    <2> QED
      BY <2>1, <2>2 DEF BehindInv
  <1> QED
    BY <1>2, <1>3, <1>4, <1>5, <1>6 DEF Next

(* Printing any network ends in a crash at the first message with values    *)
(* and no switch, or with all of it printed if there is none.               *)
THEOREM PrintEndsRightAlways == Spec => []PrintEndsRight
  <1>1. Init => TreeInv /\ PlaceInv /\ BehindInv
    BY NetworksAssumption DEF Init, TreeInv, PlaceInv, BehindInv
  <1>2. IInv /\ TreeInv /\ PlaceInv /\ [Next]_vars => PlaceInv'
    BY PlaceStep
  <1>3. IInv /\ TreeInv /\ [Next]_vars => TreeInv'
    BY TreeStep
  <1>4. IInv /\ TreeInv /\ PlaceInv /\ BehindInv /\ [Next]_vars => BehindInv'
    BY BehindStep
  <1>5. ASSUME IInv, BehindInv
        PROVE  PrintEndsRight
    <2>1. Len(net) \in Nat /\ DOMAIN net = 1 .. Len(net) /\ m \in Nat \ {0}
      BY <1>5, NetworksAssumption DEF IInv
    <2>2. ASSUME pc = "crashed"
          PROVE  m \in DOMAIN net /\ Unprintable(net[m].signals)
      BY <1>5, <2>1, <2>2, NullSwitchIs DEF BehindInv
    <2>3. ASSUME pc = "done"
          PROVE  DOMAIN net = 1 .. m - 1
      BY <1>5, <2>1, <2>3 DEF BehindInv
    <2> QED
      BY <1>5, <2>2, <2>3 DEF BehindInv, PrintEndsRight
  <1> QED
    BY Invariance, <1>1, <1>2, <1>3, <1>4, <1>5, PTL DEF Spec
=============================================================================

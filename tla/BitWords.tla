------------------------------ MODULE BitWords ------------------------------
(***************************************************************************)
(* uint64_t words and byte buffers as sets of bit positions.               *)
(*                                                                         *)
(* A word is the set of the positions of its 1 bits; a buffer is the set   *)
(* of the addresses of its 1 bits, bit i of byte n having address 8*n + i  *)
(* (the order Signal.h documents for Decode's argument). `&' is then \cap, *)
(* `|' is \cup, and a shift, a byte swap or a load renames positions. No   *)
(* width is lost: a shift drops what leaves positions 0..63. A shift by 64 *)
(* or more is undefined in C++; the users of this module state as a        *)
(* property that they never make one.                                      *)
(***************************************************************************)
EXTENDS Integers

BitIndex == 0 .. 63
Word     == SUBSET BitIndex

Shl(w, k)  == { b \in BitIndex : b - k \in w }          \* w << k
Shr(w, k)  == { b \in BitIndex : b + k \in w }          \* w >> k
LowOnes(n) == { b \in BitIndex : b < n }                \* (1ull << n) - 1
bswap_64(w) ==
    { b \in BitIndex : 8 * (7 - (b \div 8)) + (b % 8) \in w }

(* The little-endian 8-byte load at byte p, and the 1-byte load. *)
Load64(mem, p) == { b \in BitIndex : 8 * p + b \in mem }
Load8(mem, p)  == { b \in 0 .. 7   : 8 * p + b \in mem }
=============================================================================

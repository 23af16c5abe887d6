----------------------------- MODULE MachineInt -----------------------------
(***************************************************************************)
(* The unsigned integers the code computes with.  Their widths are         *)
(* parameters: the program is the instance with Mod16 = 2^16, Mod32 = 2^32 *)
(* and Mod64 = 2^64; TLC works with small powers of two, so that wrapping  *)
(* around happens within a few steps.                                      *)
(***************************************************************************)
EXTENDS Integers

CONSTANTS
    Mod16,   \* number of values of a uint16_t (advertised window sizes)
    Mod32,   \* number of values of a uint32_t (sequence numbers on the wire)
    Mod64    \* number of values of a uint64_t (absolute numbers, indices)

ASSUME WidthAssumption ==
    /\ Mod16 \in Nat \ {0}
    /\ Mod32 \in Nat \ {0, 1}
    /\ Mod64 \in Nat
    /\ \E k \in 4 .. Mod64 : Mod64 = k * Mod32

UINT16_MAX == Mod16 - 1
UINT64_MAX == Mod64 - 1

UInt32 == 0 .. Mod32 - 1
UInt64 == 0 .. Mod64 - 1

\* The value a uint64_t holds after one addition or subtraction of two uint64_t
U64(x) == IF x < 0 THEN x + Mod64 ELSE IF x >= Mod64 THEN x - Mod64 ELSE x

\* std::min and std::max of two numbers
Lesser(a, b)  == IF a <= b THEN a ELSE b
Greater(a, b) == IF a <= b THEN b ELSE a
=============================================================================

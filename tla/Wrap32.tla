------------------------------- MODULE Wrap32 -------------------------------
(***************************************************************************)
(* src/wrapping_integers: 32-bit sequence numbers that start at a zero     *)
(* point and wrap, and their conversion from and to absolute 64-bit        *)
(* numbers.  A Wrap32 is its raw value.                                    *)
(***************************************************************************)
EXTENDS MachineInt

\* Wrap32::operator+
WrapAdd(raw, n) == (raw + n) % Mod32

\* Wrap32::wrap
Wrap(n, zero_point) == WrapAdd(zero_point, n % Mod32)

Distance(a, b) == IF a > b THEN a - b ELSE b - a

(* Mutated forms of Unwrap, for the mutants of PROJECT.json *)
UnwrapNoLow(raw, zero_point, checkpoint) ==
    LET remainder == (raw - zero_point) % Mod32
        med  == (checkpoint \div Mod32) * Mod32 + remainder
        high == U64(med + Mod32)
    IN  IF Distance(high, checkpoint) < Distance(med, checkpoint)
        THEN high ELSE med

UnwrapUnguardedLow(raw, zero_point, checkpoint) ==
    LET remainder == (raw - zero_point) % Mod32
        med  == (checkpoint \div Mod32) * Mod32 + remainder
        low  == med - Mod32
    IN  IF Distance(low, checkpoint) < Distance(med, checkpoint)
        THEN U64(low) ELSE med

(***************************************************************************)
(* Wrap32::unwrap: the candidates in the checkpoint's block of Mod32       *)
(* numbers and in the blocks next to it, and the closest of them.  low and *)
(* high are computed in 64 bits and may wrap; the guard on med keeps a     *)
(* wrapped low from being chosen.                                          *)
(***************************************************************************)
Unwrap(raw, zero_point, checkpoint) ==
    LET remainder == (raw - zero_point) % Mod32
        med      == (checkpoint \div Mod32) * Mod32 + remainder
        low      == U64(med - Mod32)
        high     == U64(med + Mod32)
        diffmed  == Distance(med, checkpoint)
        difflow  == Distance(low, checkpoint)
        diffhigh == Distance(high, checkpoint)
    IN  IF med >= Mod32 /\ difflow < diffmed /\ difflow < diffhigh THEN low
        ELSE IF diffhigh < diffmed THEN high
        ELSE med
=============================================================================

-------------------------------- MODULE Pow2 -------------------------------
(* lmk_next_pow2 in src/src/main/logmoko.h. *)
EXTENDS Integers, Bitwise

(* v |= v >> 1; v |= v >> 2; ... v |= v >> 32 *)
Smeared(v) ==
  LET a == v | shiftR(v, 1)
      b == a | shiftR(a, 2)
      c == b | shiftR(b, 4)
      d == c | shiftR(c, 8)
      f == d | shiftR(d, 16)
  IN f | shiftR(f, 32)

(* Mutant of LmkNextPow2: v-- is missing. *)
NextPow2Above(v) == IF v < 2 THEN 2 ELSE Smeared(v) + 1

LmkNextPow2(v) == IF v < 2 THEN 2 ELSE Smeared(v - 1) + 1
============================================================================

------------------------------- MODULE BigNat -------------------------------
(***************************************************************************)
(* Natural numbers of any size, for the uint64 accumulators of the base58 *)
(* codec that TLC's 32-bit integers cannot hold.  A number is the         *)
(* sequence of its base-256 digits, least significant first, with no      *)
(* trailing (most significant) zero digits: zero is << >>, and two numbers *)
(* are equal exactly when their sequences are.  Every step forms at most  *)
(* 255 * 2^22 + 2^22, well inside TLC's integers.                         *)
(***************************************************************************)
EXTENDS Integers, Sequences

Radix == 256

(* Each operation below is a recursive function rather than a RECURSIVE *)
(* operator: a function's arguments are values when its body is         *)
(* evaluated, which keeps evaluation linear where TLC does not cache the *)
(* arguments of operators (inside ENABLED, for the fairness conditions). *)

Digits == Seq(Nat)

Digit(a, k) == IF k <= Len(a) THEN a[k] ELSE 0
Rest(a) == IF a = << >> THEN << >> ELSE Tail(a)

TrimF[a \in Digits] ==
    IF a # << >> /\ a[Len(a)] = 0 THEN TrimF[SubSeq(a, 1, Len(a) - 1)] ELSE a
Trim(a) == TrimF[a]

BigF[n \in Nat] == IF n = 0 THEN << >> ELSE <<n % Radix>> \o BigF[n \div Radix]
Big(n) == BigF[n]

(* The integer value of a number below 2^31. *)
SmallF[a \in Digits] == IF a = << >> THEN 0 ELSE a[1] + Radix * SmallF[Tail(a)]
Small(a) == SmallF[a]

AddCarry[a \in Digits, b \in Digits, c \in Nat] ==
    IF a = << >> /\ b = << >> THEN Big(c)
    ELSE LET s == Digit(a, 1) + Digit(b, 1) + c
         IN  <<s % Radix>> \o AddCarry[Rest(a), Rest(b), s \div Radix]

BigAdd(a, b) == AddCarry[a, b, 0]

(* a * m + c for an integer m, c < 2^22 *)
MulSmallF[a \in Digits, m \in Nat, c \in Nat] ==
    IF a = << >> THEN Big(c)
    ELSE LET v == a[1] * m + c
         IN  <<v % Radix>> \o MulSmallF[Tail(a), m, v \div Radix]
MulSmall(a, m, c) == MulSmallF[a, m, c]

BigMulF[a \in Digits, b \in Digits] ==
    IF a = << >> \/ b = << >> THEN << >>
    ELSE BigAdd(Trim(MulSmall(a, b[1], 0)), Trim(<<0>> \o BigMulF[a, Tail(b)]))
BigMul(a, b) == BigMulF[a, b]

(* a % d for an integer 0 < d < 2^22 *)
RemF[a \in Digits, d \in Nat] ==
    IF a = << >> THEN 0 ELSE (RemF[Tail(a), d] * Radix + a[1]) % d

(* [q |-> a \div d, r |-> a % d]: digit k of the quotient is the value of *)
(* the digits from k up, divided by d, taken modulo the radix.           *)
DivSmall(a, d) ==
    [q |-> Trim([k \in 1..Len(a) |-> (RemF[SubSeq(a, k + 1, Len(a)), d] * Radix + a[k]) \div d]),
     r |-> RemF[a, d]]

(* a < b *)
BigLessF[a \in Digits, b \in Digits] ==
    IF Len(a) # Len(b) THEN Len(a) < Len(b)
    ELSE IF a = << >> THEN FALSE
    ELSE IF a[Len(a)] # b[Len(b)] THEN a[Len(a)] < b[Len(b)]
    ELSE BigLessF[SubSeq(a, 1, Len(a) - 1), SubSeq(b, 1, Len(b) - 1)]
BigLess(a, b) == BigLessF[a, b]

(* 2^k *)
Pow2(k) == [i \in 1..(k \div 8) + 1 |-> IF i = (k \div 8) + 1 THEN 2 ^ (k % 8) ELSE 0]

(* a >> 32 and a & 0xFFFFFFFF *)
Shr32(a) == IF Len(a) <= 4 THEN << >> ELSE SubSeq(a, 5, Len(a))
Low32(a) == Trim(SubSeq(a, 1, IF Len(a) < 4 THEN Len(a) ELSE 4))

(* the 32-bit limb n of a, counting from the least significant (0) *)
Limb32(a, n) == Low32(IF Len(a) <= 4 * n THEN << >> ELSE SubSeq(a, 4 * n + 1, Len(a)))

(* the number whose big-endian bytes are bs *)
FromBytesBE(bs) == Trim([k \in 1..Len(bs) |-> bs[Len(bs) + 1 - k]])

(* its n big-endian bytes (a < 256^n) *)
ToBytesBE(a, n) == [k \in 1..n |-> Digit(a, n + 1 - k)]
=============================================================================

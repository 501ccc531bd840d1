------------------------------- MODULE Base58 -------------------------------
(***************************************************************************)
(* The table-driven base58 codec of pkg/base58/base58.go: Encode32,       *)
(* Encode64, Decode32 and Decode64, written once for a width N.           *)
(*                                                                         *)
(* The code fixes N = 32 or 64 bytes, 32-bit limbs (LimbBytes = 4) and    *)
(* intermediate digits in base 58^5 (Group = 5).  Those widths need       *)
(* 64-bit arithmetic, beyond TLC's integers, so the constants keep every  *)
(* width a parameter: the same steps, in the same order, with the same    *)
(* loop bounds, are checked for smaller N, limbs and groups.  The tables  *)
(* are the unique solutions of the identities stated above them in the    *)
(* code, computed here by schoolbook base conversion.                     *)
(*                                                                         *)
(* A call is one atomic step; its result is "ok" with the output, "fail"  *)
(* (Decode returned false) or "panic" (a Go index out of range).          *)
(***************************************************************************)
EXTENDS Integers, Sequences, SequencesExt

CONSTANTS
    N,          \* bytes of the binary value
    LimbBytes,  \* bytes per limb (4)
    Group,      \* base58 digits per intermediate digit (5)
    InterSz,    \* inter32sz / inter64sz
    OutSz,      \* length of the output array of Encode (44 / 88)
    MiniReduce, \* TRUE for Encode64, which reduces after half the limbs
    Inputs,
    Texts

VARIABLES op, arg, res

vars == <<op, arg, res>>

Abstract == INSTANCE Base58Spec

LimbBase == 256 ^ LimbBytes
BinSz == N \div LimbBytes          \* bin32sz / bin64sz
RawSz == InterSz * Group           \* raw32sz / raw64sz
R1Div == 58 ^ Group                \* r1Div = 58^5

(* inter32sz is ceil(log_(58^5)(256^N - 1)): the fewest intermediate      *)
(* digits that hold every N-byte value.                                  *)
ASSUME /\ N % LimbBytes = 0
       /\ Len(Abstract!Convert([k \in 1..N |-> 255], 256, R1Div)) = InterSz

alphabet == Abstract!Alphabet

inverseLUT == <<
    0, 1, 2, 3, 4, 5, 6, 7,
    8, 255, 255, 255, 255, 255, 255, 255,
    9, 10, 11, 12, 13, 14, 15, 16,
    255, 17, 18, 19, 20, 21, 255, 22,
    23, 24, 25, 26, 27, 28, 29, 30,
    31, 32, 255, 255, 255, 255, 255, 255,
    33, 34, 35, 36, 37, 38, 39, 40,
    41, 42, 43, 255, 44, 45, 46, 47,
    48, 49, 50, 51, 52, 53, 54, 55,
    56, 57, 255 >>

invalidChar == 255
inverseLUTOffset == 49                              \* '1'
inverseLUTSentinel == 1 + 122 - inverseLUTOffset    \* 1 + 'z' - '1'

(* The base-b digits of b0^e, most significant first, as a function on   *)
(* 0..len-1.                                                              *)
PowDigits(b0, e, b, len) ==
    LET le == Abstract!Convert(<<1>> \o [k \in 1..e |-> 0], b0, b)
    IN  [k \in 0..len-1 |-> IF len - k <= Len(le) THEN le[len - k] ELSE 0]

(* 2^(32*(BinSz-1-j)) = sum_k encTable[j][k] * 58^(5*(InterSz-2-k)) *)
encTable == [j \in 0..BinSz-1 |-> PowDigits(LimbBase, BinSz - 1 - j, R1Div, InterSz - 1)]

(* 58^(5*(InterSz-1-j)) = sum_k decTable[j][k] * 2^(32*(BinSz-1-k)) *)
decTable == [j \in 0..InterSz-1 |-> PowDigits(R1Div, InterSz - 1 - j, LimbBase, BinSz)]

(* Index of the first element of the array a (on 0..n-1) that is not z,  *)
(* or n: the `for ... if a[i] != 0 { break }` counting loops.            *)
FirstNot(a, z, n) ==
    LET hits == {i \in 0..n-1 : a[i] # z}
    IN  IF hits = {} THEN n ELSE Min(hits)

Sum(f, S) == SumFunctionOnSet(f, S)

(* intermediate[j+1] += limbs[i] * encTable[i][j] for the rows i in Rows *)
AddRows(inter, limbs, Rows) ==
    [k \in 0..InterSz-1 |->
        IF k = 0 THEN inter[0]
        ELSE inter[k] + Sum([i \in Rows |-> limbs[i] * encTable[i][k-1]], Rows)]

(* Mutant: the carry loop stops at i > 1, never carrying into a[0]. *)
RECURSIVE CarryDownStopsEarly(_, _, _)
CarryDownStopsEarly(a, i, b) ==
    IF i <= 1 THEN a
    ELSE CarryDownStopsEarly([a EXCEPT ![i-1] = @ + a[i] \div b, ![i] = @ % b], i - 1, b)

(* The right-to-left carry loop: a[i-1] += a[i] / b; a[i] %= b, for i   *)
(* from hi down to 1.                                                    *)
RECURSIVE CarryDown(_, _, _)
CarryDown(a, i, b) ==
    IF i = 0 THEN a
    ELSE CarryDown([a EXCEPT ![i-1] = @ + a[i] \div b, ![i] = @ % b], i - 1, b)

(* Mutant: the mini-reduction carries but keeps intermediate[16]. *)
MiniReductionNoMod(inter) ==
    [inter EXCEPT ![InterSz-3] = @ + inter[InterSz-2] \div R1Div]

(* Encode64's mini-reduction of intermediate[16] into intermediate[15]. *)
MiniReduction(inter) ==
    [inter EXCEPT ![InterSz-3] = @ + inter[InterSz-2] \div R1Div,
                  ![InterSz-2] = @ % R1Div]

(* rawBase58[Group*i + (Group-1-p)] = (v / 58^p) % 58; the top digit is  *)
(* v / 58^(Group-1) with no reduction.                                   *)
RawDigit(inter, q) ==
    LET p == Group - 1 - (q % Group)
        v == inter[q \div Group]
    IN  IF p = Group - 1 THEN v \div 58 ^ p ELSE (v \div 58 ^ p) % 58

(* Mutant: the leading zero bytes are not subtracted from the skip. *)
SkipIgnoresZeros(rawBase58, inLeading0s) == FirstNot(rawBase58, 0, RawSz)

(* skip := rawLeading0s - inLeading0s: the raw zero digits to drop so    *)
(* that exactly one '1' stands for each leading zero byte.               *)
Skip(rawBase58, inLeading0s) == FirstNot(rawBase58, 0, RawSz) - inLeading0s

(* The end of Encode32/Encode64: skip the surplus raw zero digits and map *)
(* the rest through the alphabet.  A negative uint skip, a write past out, *)
(* or a digit past the alphabet is an index out of range.               *)
EncodeText(rawBase58, inLeading0s) ==
    LET skip == Skip(rawBase58, inLeading0s)
    IN  IF \/ skip < 0
           \/ RawSz - skip > OutSz
           \/ \E i \in 0..RawSz-skip-1 : rawBase58[i+skip] >= 58
        THEN [status |-> "panic", val |-> <<>>]
        ELSE [status |-> "ok",
              val |-> [i \in 1..RawSz-skip |-> alphabet[rawBase58[i-1+skip] + 1]]]

(* the leading zero bytes of the input *)
InLeading0s(in) == FirstNot([i \in 0..N-1 |-> in[i+1]], 0, N)

Encode(in) ==
    LET limbs == [i \in 0..BinSz-1 |->
                    Sum([b \in 0..LimbBytes-1 |->
                            in[LimbBytes*i + b + 1] * 256 ^ (LimbBytes-1-b)],
                        0..LimbBytes-1)]
        half == IF MiniReduce THEN BinSz \div 2 ELSE BinSz
        first == AddRows([k \in 0..InterSz-1 |-> 0], limbs, 0..half-1)
        mid == IF MiniReduce THEN MiniReduction(first) ELSE first
        inter == CarryDown(AddRows(mid, limbs, half..BinSz-1), InterSz - 1, R1Div)
    IN  EncodeText([q \in 0..RawSz-1 |-> RawDigit(inter, q)], InLeading0s(in))

(* idx := c - '1', clamped above to the sentinel but not below. *)
LUTIndex(c) == IF c - inverseLUTOffset > inverseLUTSentinel
               THEN inverseLUTSentinel ELSE c - inverseLUTOffset

(* Mutant: the check that the run of '1's ends is dropped. *)
CanonicalNoRunEnd(t, out) ==
    LET leadingZeroCnt == FirstNot([k \in 0..N-1 |-> out[k+1]], 0, N)
    IN  \A k \in 0..leadingZeroCnt-1 : t[k+1] = inverseLUTOffset

(* Mutant: the leading-zero loop runs to N-1 instead of N. *)
CanonicalShortLoop(t, out) ==
    LET leadingZeroCnt == FirstNot([k \in 0..N-2 |-> out[k+1]], 0, N-1)
    IN  /\ \A k \in 0..leadingZeroCnt-1 : t[k+1] = inverseLUTOffset
        /\ ~(leadingZeroCnt < Len(t) /\ t[leadingZeroCnt+1] = inverseLUTOffset)

(* The canonical-form check: a '1' for each leading zero byte of out,   *)
(* and the run of '1's ends there.                                      *)
Canonical(t, out) ==
    LET leadingZeroCnt == FirstNot([k \in 0..N-1 |-> out[k+1]], 0, N)
    IN  /\ \A k \in 0..leadingZeroCnt-1 : t[k+1] = inverseLUTOffset
        /\ ~(leadingZeroCnt < Len(t) /\ t[leadingZeroCnt+1] = inverseLUTOffset)

(* Decode's checks before any arithmetic: the length, then each byte in *)
(* order through the LUT (a negative index panics).                     *)
Precheck(t) ==
    LET bad == {k \in 1..Len(t) : LUTIndex(t[k]) < 0 \/ inverseLUT[LUTIndex(t[k]) + 1] = invalidChar}
    IN  CASE Len(t) < N \/ Len(t) > OutSz -> "fail"
          [] bad # {} /\ LUTIndex(t[Min(bad)]) < 0 -> "panic"
          [] bad # {} -> "fail"
          [] OTHER -> "ok"

(* The text right-aligned in RawSz base-58 digits, grouped into the      *)
(* intermediate digits of base 58^Group.                                 *)
DecodeIntermediate(t) ==
    LET prepend0 == RawSz - Len(t)
        rawBase58 == [j \in 0..RawSz-1 |->
                        IF j >= prepend0
                        THEN inverseLUT[t[j - prepend0 + 1] - inverseLUTOffset + 1]
                        ELSE 0]
    IN  [i \in 0..InterSz-1 |->
            Sum([p \in 0..Group-1 |-> rawBase58[Group*i + p] * 58 ^ (Group-1-p)], 0..Group-1)]

Decode(t) ==
    LET intermediate == DecodeIntermediate(t)
        acc == [j \in 0..BinSz-1 |->
                    Sum([i \in 0..InterSz-1 |-> intermediate[i] * decTable[i][j]], 0..InterSz-1)]
        binary == CarryDown(acc, BinSz - 1, LimbBase)
        out == [k \in 1..N |->
                    (binary[(k-1) \div LimbBytes] \div 256 ^ (LimbBytes - 1 - ((k-1) % LimbBytes))) % 256]
    IN  CASE Precheck(t) = "fail" -> Abstract!Fail
          [] Precheck(t) = "panic" -> [status |-> "panic", val |-> <<>>]
          [] binary[0] > LimbBase - 1 -> Abstract!Fail
          [] ~Canonical(t, out) -> Abstract!Fail
          [] OTHER -> [status |-> "ok", val |-> out]

-----------------------------------------------------------------------------

Init == Abstract!Init

EncodeCall(x) ==
    /\ op = "none"
    /\ op' = "encode"
    /\ arg' = x
    /\ res' = Encode(x)

DecodeCall(t) ==
    /\ op = "none"
    /\ op' = "decode"
    /\ arg' = t
    /\ res' = Decode(t)

Return ==
    /\ op # "none"
    /\ op' = "none"
    /\ arg' = <<>>
    /\ res' = [status |-> "none", val |-> <<>>]

Next ==
    \/ \E x \in Inputs : EncodeCall(x)
    \/ \E t \in Texts : DecodeCall(t)
    \/ Return

Spec == Init /\ [][Next]_vars

-----------------------------------------------------------------------------

TypeOK ==
    /\ op \in {"none", "encode", "decode"}
    /\ res.status \in {"none", "ok", "fail", "panic"}
    /\ res.status = "ok" /\ op = "decode" => Len(res.val) = N
    /\ res.status = "ok" /\ op = "encode" => Len(res.val) \in N..OutSz

(* Encode never indexes out of range: the raw digits have at least as    *)
(* many leading zeros as the input has zero bytes (skip >= 0), and enough *)
(* more that the RawSz - skip characters fit the OutSz-byte output array  *)
(* (for N = 32 the loop runs to enc32sz = 45 over a 44-byte array).       *)
EncodeInBounds == op = "encode" => res.status = "ok"

(* Decode(Encode(x)) = x for every input: the two tables, the carry      *)
(* loops and the leading-'1' handling of the two directions agree.       *)
RoundTrip ==
    op = "encode" /\ res.status = "ok" =>
        Decode(res.val) = [status |-> "ok", val |-> arg]

(* The codec implements Base58Spec: every Encode returns the canonical    *)
(* text and every Decode accepts exactly the canonical texts of N-byte   *)
(* values (so no two texts decode to the same value), rejecting the rest *)
(* without a panic.                                                      *)
Implements == Abstract!Spec

(* Decode is total: a text with any byte outside the alphabet is         *)
(* rejected (spec 4.1: out-of-span indices are clamped to an invalid     *)
(* sentinel), never a panic.                                             *)
DecodeTotal == op = "decode" => res.status \in {"ok", "fail"}


(* Spec section 8's known vectors for the all-zero input: 34 '1'        *)
(* characters for N = 32 and 68 for N = 64 (Encode32 / Encode64).        *)
SpecZeroVector ==
    op = "encode" /\ arg = [k \in 1..N |-> 0] =>
        res.val = [k \in 1..(IF N = 32 THEN 34 ELSE 68) |-> inverseLUTOffset]
=============================================================================

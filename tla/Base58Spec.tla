----------------------------- MODULE Base58Spec -----------------------------
(***************************************************************************)
(* What the base58 codec of pkg/base58 promises, stated without its       *)
(* radix-conversion tables: Encode maps an N-byte value to its canonical  *)
(* base58 text (one '1' per leading zero byte, then the base58 digits of  *)
(* the value), and Decode accepts exactly the canonical texts of N-byte   *)
(* values, returning the value, and rejects every other text.             *)
(*                                                                         *)
(* The conversions are the schoolbook ones: digit sequences are converted *)
(* between bases by repeated multiply-and-add, so no number larger than   *)
(* 256 * 58 is ever formed and TLC can evaluate them for any N.           *)
(***************************************************************************)
EXTENDS Integers, Sequences, SequencesExt

CONSTANTS
    N,          \* width of the binary value in bytes (32 or 64 in the code)
    OutSz,      \* longest text: the size of the output array (44 or 88)
    Inputs,     \* the N-byte values passed to Encode
    Texts       \* the texts passed to Decode, as sequences of ASCII codes

ASSUME N \in Nat \ {0} /\ OutSz >= N
ASSUME \A x \in Inputs : Len(x) = N /\ \A k \in 1..N : x[k] \in 0..255

VARIABLES
    op,         \* the last call: "none", "encode" or "decode"
    arg,        \* its argument
    res         \* its result: [status |-> "ok"|"fail"|..., val |-> ...]

vars == <<op, arg, res>>

(* ASCII codes of the 58 symbols, in digit order: 1-9 A-H J-N P-Z a-k m-z *)
Alphabet ==
    [k \in 1..9 |-> 48 + k] \o [k \in 1..8 |-> 64 + k] \o
    [k \in 1..5 |-> 73 + k] \o [k \in 1..11 |-> 79 + k] \o
    [k \in 1..11 |-> 96 + k] \o [k \in 1..14 |-> 108 + k]

One == 49   \* ASCII '1', the symbol of digit 0

IsSymbol(c) == \E d \in 1..58 : Alphabet[d] = c
DigitOf(c) == CHOOSE d \in 0..57 : Alphabet[d + 1] = c

(* Number of leading elements of s equal to v. *)
LeadingCount(s, v) ==
    LET run == {k \in 1..Len(s) : \A j \in 1..k : s[j] = v}
    IN  IF run = {} THEN 0 ELSE Max(run)

(* ds * m + c, where ds is a little-endian digit sequence in base b.  The *)
(* result has no leading (most significant) zero digits beyond those of   *)
(* ds; a zero value stays the empty sequence.                            *)
RECURSIVE MulAdd(_, _, _, _)
MulAdd(ds, m, c, b) ==
    IF ds = <<>>
    THEN IF c = 0 THEN <<>> ELSE <<c % b>> \o MulAdd(<<>>, m, c \div b, b)
    ELSE LET v == Head(ds) * m + c
         IN  <<v % b>> \o MulAdd(Tail(ds), m, v \div b, b)

(* The big-endian digits src of base b, as big-endian digits of base b^k. *)
Chunk(src, b, k) ==
    LET pad == (k - (Len(src) % k)) % k
        s == [i \in 1..pad |-> 0] \o src
    IN  [c \in 1..Len(s) \div k |->
            FoldLeft(LAMBDA acc, d : acc * b + d, 0, SubSeq(s, (c-1)*k + 1, c*k))]

(* The little-endian digits ds of base b^k, as minimal little-endian     *)
(* digits of base b.                                                     *)
Unchunk(ds, b, k) ==
    LET all == [i \in 1..Len(ds) * k |-> (ds[(i-1) \div k + 1] \div b ^ ((i-1) % k)) % b]
        top == {i \in DOMAIN all : all[i] # 0}
    IN  IF top = {} THEN <<>> ELSE SubSeq(all, 1, Max(top))

(* The little-endian base-b digits of the number whose big-endian base-m *)
(* digits are src[1..n]: Horner's rule, multiplying by m and adding.     *)
RECURSIVE Horner(_, _, _, _)
Horner(src, n, m, b) ==
    IF n = 0 THEN <<>> ELSE MulAdd(Horner(src, n - 1, m, b), m, src[n], b)

(* The minimal little-endian base-`to` digits of the value whose big-    *)
(* endian base-`from` digits are src.  Digits are taken two at a time    *)
(* on both sides when the products stay small, which halves the depth of *)
(* the recursion TLC has to evaluate.                                    *)
Convert(src, from, to) ==
    LET k == IF from <= 256 /\ to <= 256 /\ from * from * to * to < 2^30
             THEN 2 ELSE 1
        cs == Chunk(src, from, k)
    IN  Unchunk(Horner(cs, Len(cs), from ^ k, to ^ k), to, k)

RefEncode(x) ==
    [k \in 1..LeadingCount(x, 0) |-> One] \o
    Reverse([k \in DOMAIN Convert(x, 256, 58) |-> Alphabet[Convert(x, 256, 58)[k] + 1]])

(* The bytes a text of symbols stands for: one zero byte per leading '1', *)
(* then the minimal big-endian bytes of its value.                       *)
RefDecode(t) ==
    [k \in 1..LeadingCount(t, One) |-> 0] \o
    Reverse(Convert([k \in DOMAIN t |-> DigitOf(t[k])], 58, 256))

(* The texts Decode accepts: the length bounds, the alphabet, and a value *)
(* whose canonical form is exactly N bytes.                              *)
Accepts(t) ==
    /\ N <= Len(t) /\ Len(t) <= OutSz
    /\ \A k \in 1..Len(t) : IsSymbol(t[k])
    /\ Len(RefDecode(t)) = N

Fail == [status |-> "fail", val |-> <<>>]

Init ==
    /\ op = "none"
    /\ arg = <<>>
    /\ res = [status |-> "none", val |-> <<>>]

(* The caller invokes one function at a time and consumes its result. *)
EncodeCall(x) ==
    /\ op = "none"
    /\ op' = "encode"
    /\ arg' = x
    /\ res' = [status |-> "ok", val |-> RefEncode(x)]

DecodeCall(t) ==
    /\ op = "none"
    /\ op' = "decode"
    /\ arg' = t
    /\ res' = IF Accepts(t) THEN [status |-> "ok", val |-> RefDecode(t)] ELSE Fail

Return ==
    /\ op # "none"
    /\ op' = "none"
    /\ arg' = <<>>
    /\ res' = [status |-> "none", val |-> <<>>]

Next ==
    \/ \E x \in Inputs : EncodeCall(x)
    \/ \E t \in Texts : DecodeCall(t)
    \/ Return

Spec == Init /\ [][Next]_vars

=============================================================================

----------------------------- MODULE Base58Tests -----------------------------
(***************************************************************************)
(* The package's tests: testVector32 and testVector64, and TestEncode32,  *)
(* TestDecode32 and TestEncode64 as invariants of Base58Wide run on the   *)
(* vectors.  A vector's hex string is kept as the bytes hex.Decode makes  *)
(* of it, and its b58 string as its ASCII codes.  The benchmarks only    *)
(* time calls on the first vector and are not modelled.                   *)
(***************************************************************************)
EXTENDS Base58Wide

C1 == 49   \* '1'

Ones(n) == [k \in 1..n |-> C1]
ZeroBytes(n) == [k \in 1..n |-> 0]
FFBytes(n) == [k \in 1..n |-> 255]
(* n bytes ending in tail, zero before it *)
EndingIn(n, tail) == ZeroBytes(n - Len(tail)) \o tail
(* s with its last element replaced by v *)
WithLast(s, v) == SubSeq(s, 1, Len(s) - 1) \o <<v>>

(* "JEKNVnkbo3jma5nREBBJCDoXFVeKkD56V3xKrvRmWxFG" *)
FF32Text ==
    << 74, 69, 75, 78, 86, 110, 107, 98, 111, 51, 106, 109, 97, 53, 110, 82,
       69, 66, 66, 74, 67, 68, 111, 88, 70, 86, 101, 75, 107, 68, 53, 54, 86,
       51, 120, 75, 114, 118, 82, 109, 87, 120, 70, 71 >>

(* "67rpwLCuS5DGA8KGZXKsVQ7dnPb9goRLoKfgGbLfQg9WoLUgNY77E2jT11fem3coV9nA   *)
(*  kguBACzrU1iyZM4B8roQ"                                                 *)
FF64Text ==
    << 54, 55, 114, 112, 119, 76, 67, 117, 83, 53, 68, 71, 65, 56, 75, 71, 90,
       88, 75, 115, 86, 81, 55, 100, 110, 80, 98, 57, 103, 111, 82, 76, 111,
       75, 102, 103, 71, 98, 76, 102, 81, 103, 57, 87, 111, 76, 85, 103, 78,
       89, 55, 55, 69, 50, 106, 84, 49, 49, 102, 101, 109, 51, 99, 111, 86,
       57, 110, 65, 107, 103, 117, 66, 65, 67, 122, 114, 85, 49, 105, 121, 90,
       77, 52, 66, 56, 114, 111, 81 >>

(* the five vectors of each width: zero, 1, 0x0101, all 0xFF, and all    *)
(* 0xFF but a last 0xFE, whose text ends one symbol lower ('F', 'P')      *)
testVector32 ==
    << [hex |-> ZeroBytes(32), b58 |-> Ones(32)],
       [hex |-> EndingIn(32, <<1>>), b58 |-> Ones(31) \o <<50>>],
       [hex |-> EndingIn(32, <<1, 1>>), b58 |-> Ones(30) \o <<53, 83>>],
       [hex |-> FFBytes(32), b58 |-> FF32Text],
       [hex |-> WithLast(FFBytes(32), 254), b58 |-> WithLast(FF32Text, 70)] >>

testVector64 ==
    << [hex |-> ZeroBytes(64), b58 |-> Ones(64)],
       [hex |-> EndingIn(64, <<1>>), b58 |-> Ones(63) \o <<50>>],
       [hex |-> EndingIn(64, <<1, 1>>), b58 |-> Ones(62) \o <<53, 83>>],
       [hex |-> FFBytes(64), b58 |-> FF64Text],
       [hex |-> WithLast(FFBytes(64), 254), b58 |-> WithLast(FF64Text, 80)] >>

Vectors(tv) == {tv[k] : k \in DOMAIN tv}

-----------------------------------------------------------------------------

(* TestEncode32: Encode32 of each vector's bytes returns exactly its      *)
(* text, out[:outLen] (the carry, skip and alphabet steps all agree with  *)
(* the independently computed Firedancer vectors).                        *)
TestEncode32 ==
    N = 32 /\ phase = "done" /\ call = "encode" =>
        \A t \in Vectors(testVector32) :
            input = t.hex => result = [status |-> "ok", val |-> t.b58]

(* TestDecode32: Decode32 accepts each vector's text and returns its      *)
(* bytes (the top-limb and canonical checks let every vector through).   *)
TestDecode32 ==
    N = 32 /\ phase = "done" /\ call = "decode" =>
        \A t \in Vectors(testVector32) :
            input = t.b58 => result = [status |-> "ok", val |-> t.hex]

(* TestEncode64: Encode64 of each vector's bytes returns exactly its text *)
(* (the all-0xFF vectors pass through the mini-reduction at full size).  *)
TestEncode64 ==
    N = 64 /\ phase = "done" /\ call = "encode" =>
        \A t \in Vectors(testVector64) :
            input = t.hex => result = [status |-> "ok", val |-> t.b58]
=============================================================================

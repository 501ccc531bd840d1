---------------------------- MODULE MCBase58Wide ----------------------------
(***************************************************************************)
(* Inputs for Base58Wide.  Every accumulator only grows with each input    *)
(* byte (all terms are non-negative and each carry is monotone in its     *)
(* operand), so all-0xFF values and all-'z' texts of the longest length    *)
(* give each accumulator its largest possible value; the other values     *)
(* exercise leading zeros and the rejections.                             *)
(***************************************************************************)
EXTENDS Base58Tests

Cz == 122   CI == 73   C2 == 50

Const(n, v) == [k \in 1..n |-> v]

Values(n) ==
    { Const(n, 255), Const(n, 0),
      <<0>> \o Const(n - 1, 255),
      [k \in 1..n |-> IF k = n THEN 1 ELSE 0],
      [k \in 1..n |-> (k * 37) % 256] }

(* Texts are spelled out rather than computed by the reference encoder: *)
(* TLC re-evaluates this set whenever it checks a step against Implements. *)
Words(n, out) ==
    { Const(out, Cz),                          \* exceeds N bytes: rejected
      <<C1>> \o Const(out - 1, Cz),            \* a '1' but no zero byte: rejected
      <<C1>> \o Const(out - 1, C2),            \* one '1', one zero byte: accepted
      Const(out - 1, Cz),                      \* no '1', no zero byte: accepted
      Const(n, C1),                            \* the zero value
      Const(n + 1, C1),                        \* one '1' too many
      Const(out - 1, Cz) \o <<CI>> }           \* 'I' is not in the alphabet

(* with the test vectors of the package's tests *)
Inputs32 == Values(32) \cup {t.hex : t \in Vectors(testVector32)}
Texts32 == Words(32, 44) \cup {t.b58 : t \in Vectors(testVector32)}
Inputs64 == Values(64) \cup {t.hex : t \in Vectors(testVector64)}
Texts64 == Words(64, 88)

(* lengths Encode's switch has no case for *)
Others == { << >>, Const(31, 255), Const(33, 0), Const(65, 1) }
=============================================================================

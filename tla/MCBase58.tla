------------------------------ MODULE MCBase58 ------------------------------
(***************************************************************************)
(* Instances of Base58 for TLC.  Two scaled widths stand for the code's   *)
(* two: W3 (N = 3, byte limbs, 58^2 intermediate digits) has, like N = 32,*)
(* one more raw digit than output characters (6 > 5, as 45 > 44); W8      *)
(* (N = 8, 16-bit limbs, 58^2 digits) runs the Encode64 path with its     *)
(* mini-reduction.  ZeroVector is the true N = 32 width, on the all-zero *)
(* input only, whose arithmetic stays within TLC's integers.             *)
(***************************************************************************)
EXTENDS Base58

C1 == 49   C2 == 50   C9 == 57   CA == 65   Cy == 121   Cz == 122
CI == 73   \* 'I', excluded from the alphabet
CBrace == 123  \* '{', just above 'z': clamped to the sentinel
C0 == 48   \* '0', just below '1'

Inputs3 == TupleOf({0, 1, 57, 58, 128, 255}, 3)
Texts3 ==
    TupleOf({C1, C2, C9, CA, Cy, Cz, CI, CBrace}, 3) \cup
    TupleOf({C1, C2, C9, CA, Cy, Cz, CI, CBrace}, 4) \cup
    TupleOf({C1, C2, Cz}, 5) \cup TupleOf({C1, Cz}, 6) \cup {<<C1, C1>>}

(* high halves of 0 and 0xFF, low halves over {0, 1, 0xFF} *)
Inputs8 == {x \o y : x \in TupleOf({0, 255}, 4), y \in TupleOf({0, 1, 255}, 4)}
Texts8 ==
    {x \o y : x \in TupleOf({C1, Cz}, 4), y \in TupleOf({C1, C2, Cz}, 4)} \cup
    TupleOf({C1, Cz}, 10) \cup {<<C2>> \o x : x \in TupleOf({C1, Cz}, 10)} \cup
    {[k \in 1..10 |-> Cz], [k \in 1..12 |-> C1]}

(* Texts3 plus texts holding '0', the byte just below the table's span. *)
TextsBelowSpan == Texts3 \cup TupleOf({C1, C2, C0}, 3)

Zeros32 == {[k \in 1..32 |-> 0]}
=============================================================================

----------------------------- MODULE Base58Wide -----------------------------
(***************************************************************************)
(* Encode32/Encode64 and Decode32/Decode64 at their real width, one loop  *)
(* iteration per step, with the uint64 accumulators as BigNat numbers so  *)
(* that the model can say when one would not fit in 64 bits.  The steps   *)
(* before and after the arithmetic (leading zeros, skip and alphabet, the *)
(* length and LUT checks, the digit grouping, the canonical check) are    *)
(* Base58's, instantiated at limbs of 4 bytes and groups of 5 digits.     *)
(*                                                                         *)
(* The four tables are the code's literals.  decTable entries of 2^31 or *)
(* more, beyond what TLC can write as a number, are written U(hi, lo) for *)
(* hi * 2^16 + lo.  ASSUMEs check each table against the identity stated *)
(* in the comment above it in the code.                                   *)
(***************************************************************************)
EXTENDS Integers, Sequences, BigNat

CONSTANTS
    N,          \* 32 or 64
    Inputs,     \* the N-byte values passed to Encode
    Texts,      \* the texts passed to Decode, as sequences of ASCII codes
    OtherInputs \* byte strings of lengths other than 32 and 64 passed to Encode

ASSUME N \in {32, 64}

VARIABLES
    phase,      \* "idle", a loop of the running call, or "done"
    call,       \* "none", "encode" or "decode"
    input,      \* the argument of the running call
    i, j,       \* the loop counters
    inter,      \* intermediate[0..InterSz-1], uint64 each
    bin,        \* binary_[0..BinSz-1], uint64 each
    result      \* the call's result, once done

vars == <<phase, call, input, i, j, inter, bin, result>>

InterSz == IF N = 32 THEN 9 ELSE 18     \* inter32sz, inter64sz
BinSz == N \div 4                        \* bin32sz, bin64sz
OutSz == IF N = 32 THEN 44 ELSE 88       \* the out arrays

B == INSTANCE Base58 WITH LimbBytes <- 4, Group <- 5, MiniReduce <- (N = 64),
                          op <- call, arg <- input, res <- result

encTable32 == <<
    <<513735, 77223048, 437087610, 300156666, 605448490, 214625350, 141436834, 379377856>>,
    <<0, 78508, 646269101, 118408823, 91512303, 209184527, 413102373, 153715680>>,
    <<0, 0, 11997, 486083817, 3737691, 294005210, 247894721, 289024608>>,
    <<0, 0, 0, 1833, 324463681, 385795061, 551597588, 21339008>>,
    <<0, 0, 0, 0, 280, 127692781, 389432875, 357132832>>,
    <<0, 0, 0, 0, 0, 42, 537767569, 410450016>>,
    <<0, 0, 0, 0, 0, 0, 6, 356826688>>,
    <<0, 0, 0, 0, 0, 0, 0, 1>> >>

encTable64 == <<
    <<2631, 149457141, 577092685, 632289089, 81912456, 221591423, 502967496, 403284731, 377738089, 492128779, 746799, 366351977, 190199623, 38066284, 526403762, 650603058, 454901440>>,
    <<0, 402, 68350375, 30641941, 266024478, 208884256, 571208415, 337765723, 215140626, 129419325, 480359048, 398051646, 635841659, 214020719, 136986618, 626219915, 49699360>>,
    <<0, 0, 61, 295059608, 141201404, 517024870, 239296485, 527697587, 212906911, 453637228, 467589845, 144614682, 45134568, 184514320, 644355351, 104784612, 308625792>>,
    <<0, 0, 0, 9, 256449755, 500124311, 479690581, 372802935, 413254725, 487877412, 520263169, 176791855, 78190744, 291820402, 74998585, 496097732, 59100544>>,
    <<0, 0, 0, 0, 1, 285573662, 455976778, 379818553, 100001224, 448949512, 109507367, 117185012, 347328982, 522665809, 36908802, 577276849, 64504928>>,
    <<0, 0, 0, 0, 0, 0, 143945778, 651677945, 281429047, 535878743, 264290972, 526964023, 199595821, 597442702, 499113091, 424550935, 458949280>>,
    <<0, 0, 0, 0, 0, 0, 0, 21997789, 294590275, 148640294, 595017589, 210481832, 404203788, 574729546, 160126051, 430102516, 44963712>>,
    <<0, 0, 0, 0, 0, 0, 0, 0, 3361701, 325788598, 30977630, 513969330, 194569730, 164019635, 136596846, 626087230, 503769920>>,
    <<0, 0, 0, 0, 0, 0, 0, 0, 0, 513735, 77223048, 437087610, 300156666, 605448490, 214625350, 141436834, 379377856>>,
    <<0, 0, 0, 0, 0, 0, 0, 0, 0, 0, 78508, 646269101, 118408823, 91512303, 209184527, 413102373, 153715680>>,
    <<0, 0, 0, 0, 0, 0, 0, 0, 0, 0, 0, 11997, 486083817, 3737691, 294005210, 247894721, 289024608>>,
    <<0, 0, 0, 0, 0, 0, 0, 0, 0, 0, 0, 0, 1833, 324463681, 385795061, 551597588, 21339008>>,
    <<0, 0, 0, 0, 0, 0, 0, 0, 0, 0, 0, 0, 0, 280, 127692781, 389432875, 357132832>>,
    <<0, 0, 0, 0, 0, 0, 0, 0, 0, 0, 0, 0, 0, 0, 42, 537767569, 410450016>>,
    <<0, 0, 0, 0, 0, 0, 0, 0, 0, 0, 0, 0, 0, 0, 0, 6, 356826688>>,
    <<0, 0, 0, 0, 0, 0, 0, 0, 0, 0, 0, 0, 0, 0, 0, 0, 1>> >>

encTable == IF N = 32 THEN encTable32 ELSE encTable64

(* decTable entries as numbers: W(v) for v < 2^31, U(hi, lo) for the rest *)
W(v) == Big(v)
U(hi, lo) == BigAdd(MulSmall(Big(hi), 65536, 0), Big(lo))

decTable32 == <<
    <<W(1277), U(40441, 56311), U(57998, 54581), W(2074386530), U(49564, 18662), W(687255411), U(45153, 8448), W(0)>>,
    <<W(0), W(8360), W(1184754854), U(46502, 54119), U(52160, 36989), W(132556120), W(1199103528), W(0)>>,
    <<W(0), W(0), W(54706), U(45730, 24064), W(1834629191), U(60500, 35911), W(485140318), W(1073741824)>>,
    <<W(0), W(0), W(0), W(357981), W(1476998812), U(50921, 19934), W(1483338760), U(64000, 0)>>,
    <<W(0), W(0), W(0), W(0), W(2342503), U(46576, 62088), U(39599, 20563), W(17825792)>>,
    <<W(0), W(0), W(0), W(0), W(0), W(15328518), W(1933902296), U(62010, 32768)>>,
    <<W(0), W(0), W(0), W(0), W(0), W(0), W(100304420), U(51195, 41984)>>,
    <<W(0), W(0), W(0), W(0), W(0), W(0), W(0), W(656356768)>>,
    <<W(0), W(0), W(0), W(0), W(0), W(0), W(0), W(1)>> >>

decTable64 == <<
    <<W(249448), U(56760, 40705), W(173911550), U(61364, 6180), U(47543, 32835), U(38124, 30555), W(1035889824), W(627529458), U(58607, 20031), U(56887, 20760), U(44272, 27664), U(58950, 58576), W(1540739182), W(1570766848), W(0), W(0)>>,
    <<W(0), W(1632305), W(1882780341), U(62999, 4249), W(1023671068), U(39953, 62004), W(2005415586), W(1062993857), U(54584, 4822), U(60432, 5215), W(1695615427), U(39628, 104), W(669472826), W(104923136), W(0), W(0)>>,
    <<W(0), W(0), W(10681231), W(1422956801), U(36717, 59854), U(61930, 27391), W(2143913881), U(63615, 62947), U(36836, 20322), U(38903, 6444), W(997594232), W(713340517), U(34943, 45750), W(1103833088), W(0), W(0)>>,
    <<W(0), W(0), W(0), W(69894212), W(1038812943), W(1785020643), W(1285619000), U(35117, 40903), U(53284, 17681), W(314610629), U(42140, 53062), U(52041, 59128), W(1699516363), W(910779968), W(0), W(0)>>,
    <<W(0), W(0), W(0), W(0), W(457363084), W(927569770), U(60670, 37250), W(1389513021), W(2107865525), U(56712, 1789), W(1828091393), W(2088408376), W(439156799), U(39355, 57914), W(0), W(0)>>,
    <<W(0), W(0), W(0), W(0), W(0), U(45666, 55807), W(383623235), U(58942, 8203), W(112778334), W(339767049), W(1447250220), W(486575164), U(53334, 6138), U(33721, 6707), W(268435456), W(0)>>,
    <<W(0), W(0), W(0), W(0), W(0), W(4), U(36683, 50922), U(45209, 9205), U(61005, 63114), W(1893006839), U(34580, 23359), W(1429430446), W(307953032), U(36032, 30564), W(176160768), W(0)>>,
    <<W(0), W(0), W(0), W(0), W(0), W(0), W(29), U(54879, 40845), U(46448, 20549), W(1332209423), W(1014420882), W(868688145), U(65064, 48533), U(56286, 12512), U(37924, 0), W(0)>>,
    <<W(0), W(0), W(0), W(0), W(0), W(0), W(0), W(195), W(1054003707), U(56635, 65180), W(582574436), U(54156, 61654), W(1088536814), U(35681, 50076), W(1468637184), W(0)>>,
    <<W(0), W(0), W(0), W(0), W(0), W(0), W(0), W(0), W(1277), U(40441, 56311), U(57998, 54581), W(2074386530), U(49564, 18662), W(687255411), U(45153, 8448), W(0)>>,
    <<W(0), W(0), W(0), W(0), W(0), W(0), W(0), W(0), W(0), W(8360), W(1184754854), U(46502, 54119), U(52160, 36989), W(132556120), W(1199103528), W(0)>>,
    <<W(0), W(0), W(0), W(0), W(0), W(0), W(0), W(0), W(0), W(0), W(54706), U(45730, 24064), W(1834629191), U(60500, 35911), W(485140318), W(1073741824)>>,
    <<W(0), W(0), W(0), W(0), W(0), W(0), W(0), W(0), W(0), W(0), W(0), W(357981), W(1476998812), U(50921, 19934), W(1483338760), U(64000, 0)>>,
    <<W(0), W(0), W(0), W(0), W(0), W(0), W(0), W(0), W(0), W(0), W(0), W(0), W(2342503), U(46576, 62088), U(39599, 20563), W(17825792)>>,
    <<W(0), W(0), W(0), W(0), W(0), W(0), W(0), W(0), W(0), W(0), W(0), W(0), W(0), W(15328518), W(1933902296), U(62010, 32768)>>,
    <<W(0), W(0), W(0), W(0), W(0), W(0), W(0), W(0), W(0), W(0), W(0), W(0), W(0), W(0), W(100304420), U(51195, 41984)>>,
    <<W(0), W(0), W(0), W(0), W(0), W(0), W(0), W(0), W(0), W(0), W(0), W(0), W(0), W(0), W(0), W(656356768)>>,
    <<W(0), W(0), W(0), W(0), W(0), W(0), W(0), W(0), W(0), W(0), W(0), W(0), W(0), W(0), W(0), W(1)>> >>

decTable32x == [r \in 0..8 |-> [k \in 0..7 |-> decTable32[r+1][k+1]]]
decTable64x == [r \in 0..17 |-> [k \in 0..15 |-> decTable64[r+1][k+1]]]
decTable == IF N = 32 THEN decTable32x ELSE decTable64x

(* [q |-> a / 58^5, r |-> a % 58^5], as a division by 58^2 then by 58^3 *)
Div58x5(a) ==
    LET s == DivSmall(a, 3364)
        t == DivSmall(s.q, 195112)
    IN  [q |-> t.q, r |-> s.r + 3364 * t.r]

(* the number whose base-58^5 digits, most significant first, are row[1..n] *)
RECURSIVE Horner58x5(_, _)
Horner58x5(row, n) ==
    IF n = 0 THEN << >>
    ELSE BigAdd(MulSmall(MulSmall(Horner58x5(row, n - 1), 3364, 0), 195112, 0), Big(row[n]))

(* 58^(5*e) = (58^5)^e, as e multiplications by 58^2 and 58^3 *)
RECURSIVE Pow58x5(_)
Pow58x5(e) == IF e = 0 THEN <<1>> ELSE MulSmall(MulSmall(Pow58x5(e - 1), 3364, 0), 195112, 0)

(* 2^(32*(BinSz-1-j)) = sum_k encTable[j][k] * 58^(5*(InterSz-2-k)) *)
(* with every entry below 58^5, which makes the entries unique *)
ASSUME \A r \in 1..BinSz :
    /\ \A k \in 1..InterSz-1 : encTable[r][k] < 656356768
    /\ Horner58x5(encTable[r], InterSz - 1) = Pow2(32 * (BinSz - r))

(* 58^(5*(InterSz-1-j)) = sum_k decTable[j][k] * 2^(32*(BinSz-1-k)) *)
ASSUME \A r \in 0..InterSz-1 : \A k \in 0..BinSz-1 :
    decTable[r][k] = Limb32(Pow58x5(InterSz - 1 - r), BinSz - 1 - k)

(* a / 58^k, by k divisions by 58 *)
Quot58[a \in Digits, k \in Nat] == IF k = 0 THEN a ELSE Quot58[DivSmall(a, 58).q, k - 1]

(* limbs[k] = binary.BigEndian.Uint32(in[4*k:]) *)
Limb(k) == FromBytesBE(SubSeq(input, 4 * k + 1, 4 * k + 4))

(* RawDigit with the digits of a group taken in the reverse order *)
RawDigitReversed(q) ==
    LET p == q % 5
        t == Quot58[Low32(inter[q \div 5]), p]
    IN  IF p = 4 THEN Small(t) ELSE DivSmall(t, 58).r

(* rawBase58[5*k + (4-p)] = (v / 58^p) % 58 with v := uint32(intermediate[k]); *)
(* the top digit (p = 4) is v / 11316496 with no reduction.              *)
RawDigit(q) ==
    LET p == 4 - (q % 5)
        t == Quot58[Low32(inter[q \div 5]), p]
    IN  IF p = 4 THEN Small(t) ELSE DivSmall(t, 58).r

NoResult == [status |-> "none", val |-> << >>]
Zeros(n) == [k \in 0..n-1 |-> << >>]

-----------------------------------------------------------------------------
(* Encode32 / Encode64 *)

(* Encode's switch on len(buf): the 32 and 64 cases start the loops ... *)
StartEncode(x) ==
    /\ phase = "idle"
    /\ Len(x) = N
    /\ phase' = "encAdd"
    /\ call' = "encode"
    /\ input' = x
    /\ i' = 0
    /\ j' = 0
    /\ UNCHANGED <<inter, bin, result>>

(* ... and the default case panics("unsupported base58 length"). *)
EncodeUnsupported(x) ==
    /\ phase = "idle"
    /\ Len(x) \notin {32, 64}
    /\ phase' = "done"
    /\ call' = "encode"
    /\ input' = x
    /\ result' = [status |-> "panic", val |-> << >>]
    /\ UNCHANGED <<i, j, inter, bin>>

(* The first i of the carry loops: for i := inter32sz-1 (8 or 17).      *)
CarryStartPastEnd == InterSz
CarryStart == InterSz - 1

(* intermediate[j+1] += uint64(limbs[i]) * uint64(encTable[i][j]), j     *)
(* inner up to InterSz-2, i outer; Encode64 leaves the loop after row 7  *)
(* for the mini-reduction, and the carry loop starts at InterSz-1.       *)
EncAdd ==
    /\ phase = "encAdd"
    /\ inter' = [inter EXCEPT ![j+1] = BigAdd(@, BigMul(Limb(i), Big(encTable[i+1][j+1])))]
    /\ LET rowDone == j = InterSz - 2
       IN  /\ j' = IF rowDone THEN 0 ELSE j + 1
           /\ i' = CASE ~rowDone -> i
                     [] i = BinSz - 1 -> CarryStart
                     [] OTHER -> i + 1
           /\ phase' = CASE ~rowDone -> "encAdd"
                         [] i = BinSz - 1 -> "encCarry"
                         [] N = 64 /\ i = 7 -> "encMini"
                         [] OTHER -> "encAdd"
    /\ UNCHANGED <<call, input, bin, result>>

(* Encode64 going on to rows 8..15 without the mini-reduction *)
MiniReduceSkipped ==
    /\ phase = "encMini"
    /\ phase' = "encAdd"
    /\ UNCHANGED <<call, input, i, j, inter, bin, result>>

(* intermediate[15] += intermediate[16] / r1Div; intermediate[16] %= r1Div *)
MiniReduce ==
    /\ phase = "encMini"
    /\ LET d == Div58x5(inter[16])
       IN  inter' = [inter EXCEPT ![15] = BigAdd(@, d.q), ![16] = Big(d.r)]
    /\ phase' = "encAdd"
    /\ UNCHANGED <<call, input, i, j, bin, result>>

(* The carry loop with the i-- left out *)
EncCarryNoDecrement ==
    /\ phase = "encCarry"
    /\ i > 0
    /\ LET d == Div58x5(inter[i])
       IN  inter' = [inter EXCEPT ![i-1] = BigAdd(@, d.q), ![i] = Big(d.r)]
    /\ UNCHANGED <<phase, call, input, i, j, bin, result>>

(* intermediate[i-1] += intermediate[i] / r1Div; intermediate[i] %= r1Div *)
EncCarry ==
    /\ phase = "encCarry"
    /\ i > 0
    /\ LET d == Div58x5(inter[i])
       IN  inter' = [inter EXCEPT ![i-1] = BigAdd(@, d.q), ![i] = Big(d.r)]
    /\ i' = i - 1
    /\ UNCHANGED <<phase, call, input, j, bin, result>>

(* The text of the raw digits, evaluated once for its arguments *)
RawDigits == [0..B!RawSz-1 -> Nat]
EncodedText[raw \in RawDigits, lead \in 0..N] == B!EncodeText(raw, lead)

EncFinish ==
    /\ phase = "encCarry"
    /\ i = 0
    /\ result' = EncodedText[[q \in 0..B!RawSz-1 |-> RawDigit(q)], B!InLeading0s(input)]
    /\ phase' = "done"
    /\ UNCHANGED <<call, input, i, j, inter, bin>>

-----------------------------------------------------------------------------
(* Decode32 / Decode64 *)

DecodeRejected(t) ==
    /\ phase = "idle"
    /\ B!Precheck(t) # "ok"
    /\ phase' = "done"
    /\ call' = "decode"
    /\ input' = t
    /\ result' = IF B!Precheck(t) = "panic" THEN [status |-> "panic", val |-> << >>]
                 ELSE B!Abstract!Fail
    /\ UNCHANGED <<i, j, inter, bin>>

StartDecode(t) ==
    /\ phase = "idle"
    /\ B!Precheck(t) = "ok"
    /\ phase' = "decAcc"
    /\ call' = "decode"
    /\ input' = t
    /\ i' = 0
    /\ j' = 0
    /\ inter' = [k \in 0..InterSz-1 |-> Big(B!DecodeIntermediate(t)[k])]
    /\ UNCHANGED <<bin, result>>

(* DecAcc with acc declared outside the j loop, so never reset *)
DecAccNoReset ==
    /\ phase = "decAcc"
    /\ bin' = [bin EXCEPT ![j] = BigAdd(IF i = 0 /\ j > 0 THEN bin[j-1] ELSE @,
                                         BigMul(inter[i], decTable[i][j]))]
    /\ LET colDone == i = InterSz - 1
       IN  /\ i' = CASE ~colDone -> i + 1
                     [] j = BinSz - 1 -> BinSz - 1
                     [] OTHER -> 0
           /\ j' = IF colDone THEN j + 1 ELSE j
           /\ phase' = IF colDone /\ j = BinSz - 1 THEN "decCarry" ELSE "decAcc"
    /\ UNCHANGED <<call, input, inter, result>>

(* acc += uint64(intermediate[i]) * uint64(decTable[i][j]), i inner up to *)
(* InterSz-1, then binary_[j] = acc; the carry loop starts at BinSz-1.    *)
DecAcc ==
    /\ phase = "decAcc"
    /\ bin' = [bin EXCEPT ![j] = BigAdd(@, BigMul(inter[i], decTable[i][j]))]
    /\ LET colDone == i = InterSz - 1
       IN  /\ i' = CASE ~colDone -> i + 1
                     [] j = BinSz - 1 -> BinSz - 1
                     [] OTHER -> 0
           /\ j' = IF colDone THEN j + 1 ELSE j
           /\ phase' = IF colDone /\ j = BinSz - 1 THEN "decCarry" ELSE "decAcc"
    /\ UNCHANGED <<call, input, inter, result>>

(* binary_[i-1] += binary_[i] >> 32; binary_[i] &= 0xFFFFFFFF *)
DecCarry ==
    /\ phase = "decCarry"
    /\ i > 0
    /\ bin' = [bin EXCEPT ![i-1] = BigAdd(@, Shr32(bin[i])), ![i] = Low32(bin[i])]
    /\ i' = i - 1
    /\ UNCHANGED <<phase, call, input, j, inter, result>>

(* The top-limb check, the big-endian output, and the canonical check. *)
DecFinish ==
    /\ phase = "decCarry"
    /\ i = 0
    /\ LET out == [k \in 1..N |-> ToBytesBE(bin[(k-1) \div 4], 4)[((k-1) % 4) + 1]]
       IN  result' = CASE ~BigLess(bin[0], Pow2(32)) -> B!Abstract!Fail
                       [] ~B!Canonical(input, out) -> B!Abstract!Fail
                       [] OTHER -> [status |-> "ok", val |-> out]
    /\ phase' = "done"
    /\ UNCHANGED <<call, input, i, j, inter, bin>>

-----------------------------------------------------------------------------

Init ==
    /\ phase = "idle"
    /\ call = "none"
    /\ input = << >>
    /\ i = 0
    /\ j = 0
    /\ inter = Zeros(InterSz)
    /\ bin = Zeros(BinSz)
    /\ result = NoResult

(* The caller consumes the result; the next call starts from zeroed arrays. *)
Return ==
    /\ phase = "done"
    /\ phase' = "idle"
    /\ call' = "none"
    /\ input' = << >>
    /\ i' = 0
    /\ j' = 0
    /\ inter' = Zeros(InterSz)
    /\ bin' = Zeros(BinSz)
    /\ result' = NoResult

Next ==
    \/ \E x \in Inputs : StartEncode(x)
    \/ \E x \in OtherInputs : EncodeUnsupported(x)
    \/ EncAdd \/ MiniReduce \/ EncCarry \/ EncFinish
    \/ \E t \in Texts : StartDecode(t) \/ DecodeRejected(t)
    \/ DecAcc \/ DecCarry \/ DecFinish
    \/ Return

(* A call runs on the caller's goroutine with nothing to wait for, so    *)
(* once started its loop steps keep being taken.  The caller itself may *)
(* stop calling: Start*, DecodeRejected and Return get no fairness.       *)
Fairness == WF_vars(EncAdd \/ MiniReduce \/ EncCarry \/ EncFinish \/ DecAcc \/ DecCarry \/ DecFinish)

Spec == Init /\ [][Next]_vars /\ Fairness

-----------------------------------------------------------------------------

TypeOK ==
    /\ phase \in {"idle", "encAdd", "encMini", "encCarry", "decAcc", "decCarry", "done"}
    /\ call \in {"none", "encode", "decode"}
    /\ i \in 0..InterSz-1 /\ j \in 0..InterSz-1
    /\ inter \in [0..InterSz-1 -> Seq(0..255)]
    /\ bin \in [0..BinSz-1 -> Seq(0..255)]
    /\ result.status \in {"none", "ok", "fail", "panic"}

(* No uint64 the loops form ever needs more than 64 bits: the sums of    *)
(* limb * encTable products and their carries in Encode32/Encode64 (with *)
(* Encode64's mini-reduction between the halves), and the sums of        *)
(* intermediate * decTable products and their carries in Decode32/64.    *)
NoOverflow ==
    /\ \A k \in 0..InterSz-1 : Len(inter[k]) <= 8
    /\ \A k \in 0..BinSz-1 : Len(bin[k]) <= 8

(* Every started call returns: each loop of Encode32/64 and Decode32/64  *)
(* advances its counter to its bound, so the call ends in phase "done".  *)
CallsReturn == (phase \notin {"idle", "done"}) ~> (phase = "done")

(* The real-width codec, one loop iteration per step, implements         *)
(* Base58Spec: seen only when a call of a supported width is done, every *)
(* Encode returns the canonical text and every Decode accepts exactly    *)
(* the canonical texts.  Base58Spec says nothing of other widths, so a   *)
(* call of one is a stuttering step of it.                               *)
Visible == phase = "done" /\ ~(call = "encode" /\ Len(input) \notin {32, 64})

Abstract == INSTANCE Base58Spec WITH
    op <- IF Visible THEN call ELSE "none",
    arg <- IF Visible THEN input ELSE << >>,
    res <- IF Visible THEN result ELSE NoResult

Implements == Abstract!Spec
=============================================================================

----------------------------- MODULE MCSealevel -----------------------------
(***************************************************************************)
(* Params for TLC: one or two accounts, a primary first (a duplicate may  *)
(* only point back), with empty or one-byte data; the primary's           *)
(* DuplicateIndex left at Go's zero value or set to 0xFF.                  *)
(***************************************************************************)
EXTENDS Sealevel

Key == [k \in 1..32 |-> k]
Owner == [k \in 1..32 |-> 100 + k]
Zero32 == [k \in 1..32 |-> 0]

Primary(dupIdx, d) ==
    [isDuplicate |-> FALSE, duplicateIndex |-> dupIdx, isSigner |-> TRUE,
     isWritable |-> TRUE, isExecutable |-> FALSE, key |-> Key, owner |-> Owner,
     lamports |-> LE(5, 8), data |-> d, padding |-> 0, rentEpoch |-> LE(0, 8)]

Duplicate(d) ==
    [isDuplicate |-> TRUE, duplicateIndex |-> d, isSigner |-> FALSE,
     isWritable |-> FALSE, isExecutable |-> FALSE, key |-> Zero32, owner |-> Zero32,
     lamports |-> LE(0, 8), data |-> <<>>, padding |-> 0, rentEpoch |-> LE(0, 8)]

Accounts1 ==
    { <<Primary(255, <<>>)>>, <<Primary(255, <<7>>)>>, <<Primary(0, <<7>>)>>,
      <<Primary(255, <<7>>), Duplicate(0)>> }

(* the lists whose primary carries DuplicateIndex 0xFF, as Update's order *)
(* check requires                                                        *)
Accounts255 == {a \in Accounts1 : a[1].duplicateIndex = 255}

(* Accounts1 with the lists on which Update's loop reaches its other     *)
(* exits: after an empty primary, the padding seek leaves the reader past *)
(* the end (a read at EOF for the second account); and a duplicate in     *)
(* first place, which nothing in the code rules out, is the only way the *)
(* reader meets a duplicate's index byte.                                *)
AccountsLoop ==
    Accounts1 \cup { <<Primary(255, <<>>), Duplicate(0)>>, <<Duplicate(0)>> }

(* the one list on which Update gets through every account: an empty    *)
(* primary, read with the length 4 bytes late (all zero bytes)           *)
AccountsEmpty == { <<Primary(255, <<>>)>> }

(* An empty primary followed by a primary with BigLen bytes of data,     *)
(* whose contents the caller chooses.  After the first account Update's *)
(* reader stands at offset 96 and seeks by its Padding (10252) and the   *)
(* rent epoch, to offset 10356: inside the second account's data, which  *)
(* starts at offset 184.  There the data holds what the reader takes for *)
(* the second record: a 0xFF marker at data offset Landing, and, 80      *)
(* bytes on, a data length equal to the account's own length.            *)
BigLen == 10300
Landing == 10356 - 184
BigData ==
    LET lenAt == Landing + 80
    IN  [k \in 1..BigLen |->
            CASE k = Landing + 1 -> 255
              [] k - lenAt \in 1..8 -> LE(BigLen, 8)[k - lenAt]
              [] OTHER -> 0]

AccountsLanding == { <<Primary(255, <<>>), Primary(255, BigData)>> }

Instr1 == {<<9>>}
Programs1 == {[k \in 1..32 |-> 200]}
=============================================================================

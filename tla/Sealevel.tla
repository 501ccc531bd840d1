------------------------------ MODULE Sealevel ------------------------------
(***************************************************************************)
(* The Sealevel VM input codec of the sealevel package (Params.Serialize  *)
(* and Params.Update), byte by byte.                                      *)
(*                                                                         *)
(* One execution call is: Serialize writes the Params into a buffer, the  *)
(* VM (outside this code) overwrites bytes of that buffer, and Update     *)
(* reads the buffer back into the Params.  The VM is modelled as up to    *)
(* MaxWrites single-byte writes anywhere in the buffer; the Params may be *)
(* serialized again after an Update, up to MaxCalls times.                *)
(*                                                                         *)
(* A uint64 field (lamports, rent epoch) is kept as its 8 little-endian   *)
(* bytes: values read back from the VM region may exceed TLC's integers.  *)
(* A length read back is kept exactly when below 2^16 and otherwise as   *)
(* Huge, which compares above every bound Update tests it against.       *)
(***************************************************************************)
EXTENDS Integers, Sequences, SequencesExt

CONSTANTS
    InitAccounts,       \* the account lists a caller may pass
    InstrData,          \* the instruction data values a caller may pass
    ProgramIDs,         \* the 32-byte program ids a caller may pass
    ByteVals,           \* the byte values the VM writes
    MaxWrites,          \* bound on the VM's byte writes per call
    MaxCalls,           \* bound on Serialize calls
    ReaderSkipsCount    \* TRUE: Update's reader starts after the count

VARIABLES
    accounts,   \* p.Accounts
    data,       \* p.Data, the instruction data
    programID,  \* p.ProgramID
    buf,        \* the serialized bytes, which the VM then overwrites
    phase,      \* "idle", "serialized" (VM running) or "updated"
    writes,     \* byte writes of the VM in this call
    calls,      \* Serialize calls so far
    err,        \* Update's return: "none" before it runs, "nil", or an error
    snapshot,   \* accounts as Serialize left them (history, for properties)
    i,          \* Update's loop index, from 1
    pos         \* the offset of Update's bytes.Reader in buf

vars == <<accounts, data, programID, buf, phase, writes, calls, err, snapshot, i, pos>>

ReallocSpace == 1024 * 10
ReallocAlign == 8
Huge == 65536

(* the n little-endian bytes of the natural number v *)
RECURSIVE LE(_, _)
LE(v, n) == IF n = 0 THEN <<>> ELSE <<v % 256>> \o LE(v \div 256, n - 1)

(* a uint64 from its little-endian bytes, saturated at Huge *)
U64(bs) == IF \A k \in 3..8 : bs[k] = 0 THEN bs[1] + 256 * bs[2] ELSE Huge

Bytes == 0..255
Account ==
    [isDuplicate : BOOLEAN, duplicateIndex : Bytes, isSigner : BOOLEAN,
     isWritable : BOOLEAN, isExecutable : BOOLEAN, key : Seq(Bytes),
     owner : Seq(Bytes), lamports : Seq(Bytes), data : Seq(Bytes),
     padding : Nat, rentEpoch : Seq(Bytes)]

BoolByte(b) == IF b THEN 1 ELSE 0

-----------------------------------------------------------------------------
(* Serialize *)

(* One account record; a primary account also gets its Padding, computed *)
(* from the buffer length after its data.  buf.Grow reserves capacity    *)
(* and writes nothing, so the 7, 4 and Padding reserved bytes are not in *)
(* the buffer.                                                            *)
SerializeAccount(acc, b) ==
    IF acc.isDuplicate
    THEN [buf |-> Append(b, acc.duplicateIndex), acc |-> acc]
    ELSE LET b1 == b \o <<255, BoolByte(acc.isSigner), BoolByte(acc.isWritable),
                          BoolByte(acc.isExecutable)>>
                     \o acc.key \o acc.owner \o acc.lamports
                     \o LE(Len(acc.data), 8) \o acc.data
             padding == ReallocSpace + 1 + ((Len(b1) - 1) \div ReallocAlign)
         IN  [buf |-> b1 \o acc.rentEpoch, acc |-> [acc EXCEPT !.padding = padding]]

RECURSIVE SerializeAccounts(_, _, _)
SerializeAccounts(accs, k, b) ==
    IF k > Len(accs) THEN [buf |-> b, accs |-> accs]
    ELSE LET r == SerializeAccount(accs[k], b)
         IN  SerializeAccounts([accs EXCEPT ![k] = r.acc], k + 1, r.buf)

Serialize ==
    /\ phase \in {"idle", "updated"}
    /\ calls < MaxCalls
    /\ LET r == SerializeAccounts(accounts, 1, LE(Len(accounts), 8))
       IN  /\ buf' = r.buf \o LE(Len(data), 8) \o data \o programID
           /\ accounts' = r.accs
           /\ snapshot' = r.accs
    /\ phase' = "serialized"
    /\ writes' = 0
    /\ calls' = calls + 1
    /\ err' = "none"
    /\ UNCHANGED <<data, programID, i, pos>>

-----------------------------------------------------------------------------
(* The VM *)

VMWrite ==
    /\ phase = "serialized"
    /\ writes < MaxWrites
    /\ \E p \in 1..Len(buf), v \in ByteVals :
          /\ buf[p] # v
          /\ buf' = [buf EXCEPT ![p] = v]
    /\ writes' = writes + 1
    /\ UNCHANGED <<accounts, data, programID, phase, calls, err, snapshot, i, pos>>

-----------------------------------------------------------------------------
(* Update, reading buf through a bytes.Reader at position pos *)

(* io.ReadFull of n bytes, as binary.Read does: all n bytes, or an error  *)
(* after consuming what was left (a position past the end stays put).     *)
ReadFull(at, n) ==
    IF at + n <= Len(buf)
    THEN [ok |-> TRUE, val |-> SubSeq(buf, at + 1, at + n), pos |-> at + n]
    ELSE [ok |-> FALSE, val |-> <<>>, pos |-> Max({at, Len(buf)})]

(* Reader.Read into a byte array: copies what is left, up to its length *)
ReadInto(at, old) ==
    LET m == IF at >= Len(buf) THEN 0 ELSE Min({Len(old), Len(buf) - at})
    IN  [val |-> [k \in 1..Len(old) |-> IF k <= m THEN buf[at + k] ELSE old[k]],
         pos |-> at + m]

(* The reads as functions of their offsets: each is computed once for  *)
(* its arguments where UpdatePrimary refers to it several times.         *)
ReadFullAt[at \in Nat, n \in Nat] == ReadFull(at, n)
ReadIntoAt[at \in Nat, old \in Seq(Bytes)] == ReadInto(at, old)

(* Update's bounds on the data length read back: equal or grown by at   *)
(* most ReallocSpace.                                                     *)
LengthCheck(newLen, oldLen) ==
    CASE newLen < oldLen -> "shrink"
      [] newLen > oldLen + ReallocSpace -> "grow"
      [] OTHER -> "nil"

(* The fields of a primary account after its marker byte, read at pos *)
(* into acc: [acc, pos, err] with err = "nil" when the loop goes on.      *)
UpdatePrimary(acc, at) ==
    LET f1 == ReadFullAt[at, 1]
        f2 == ReadFullAt[f1.pos, 1]
        f3 == ReadFullAt[f2.pos, 1]
        k == ReadIntoAt[f3.pos + 4, acc.key]
        o == ReadIntoAt[k.pos, acc.owner]
        l == ReadFullAt[o.pos, 8]
        n == ReadFullAt[l.pos, 8]
        oldLen == Len(acc.data)
        newLen == IF n.ok THEN U64(n.val) ELSE 0
        a1 == [acc EXCEPT !.isSigner = IF f1.ok THEN f1.val[1] # 0 ELSE @,
                          !.isWritable = IF f2.ok THEN f2.val[1] # 0 ELSE @,
                          !.isExecutable = IF f3.ok THEN f3.val[1] # 0 ELSE @,
                          !.key = k.val, !.owner = o.val,
                          !.lamports = IF l.ok THEN l.val ELSE @]
        m == IF n.pos >= Len(buf) THEN 0 ELSE Min({newLen, Len(buf) - n.pos})
        afterData == n.pos + m
        seekTo == afterData + acc.padding - (newLen - oldLen)
        afterPad == IF seekTo < 0 THEN afterData ELSE seekTo
        r == ReadFullAt[afterPad, 8]
    IN  IF LengthCheck(newLen, oldLen) # "nil"
        THEN [acc |-> a1, pos |-> n.pos, err |-> LengthCheck(newLen, oldLen)]
        ELSE [acc |-> [a1 EXCEPT !.data = SubSeq(buf, n.pos + 1, afterData),
                                 !.rentEpoch = IF r.ok THEN r.val ELSE @],
              pos |-> r.pos, err |-> "nil"]

(* Update's account loop, `for i := 0; true; i++`, one iteration a step: *)
(* i indexes p.Accounts from 1 and pos is the reader's offset.  The loop  *)
(* has no condition; it is left only by the returns below.               *)
StartUpdate ==
    /\ phase = "serialized"
    /\ phase' = "updating"
    /\ i' = 1
    /\ pos' = IF ReaderSkipsCount THEN 8 ELSE 0
    /\ UNCHANGED <<accounts, data, programID, buf, writes, calls, err, snapshot>>

Return(e) ==
    /\ phase' = "updated"
    /\ err' = e
    /\ UNCHANGED <<data, programID, buf, writes, calls, snapshot, i, pos>>

(* the exit check written i > len(p.Accounts): p.Accounts[len] panics *)
UpdateAccountsChangedLate ==
    /\ phase = "updating"
    /\ i > Len(accounts) + 1
    /\ Return("accounts changed") /\ UNCHANGED accounts

(* if i >= len(p.Accounts), with the Go index i - 1 *)
UpdateAccountsChanged ==
    /\ phase = "updating"
    /\ i > Len(accounts)
    /\ Return("accounts changed") /\ UNCHANGED accounts

(* buf.ReadByte at the end of the buffer *)
UpdateEOF ==
    /\ phase = "updating"
    /\ i <= Len(accounts)
    /\ pos >= Len(buf)
    /\ Return("EOF") /\ UNCHANGED accounts

Idx == buf[pos + 1]

(* the order check without its DuplicateIndex comparison *)
OrderMatchesMarkerOnly == ~(~accounts[i].isDuplicate /\ Idx # 255)

(* (!acc.IsDuplicate && idx != 0xFF) || acc.DuplicateIndex != idx *)
OrderMatches ==
    ~((~accounts[i].isDuplicate /\ Idx # 255) \/ accounts[i].duplicateIndex # Idx)

ReadsMarker == phase = "updating" /\ i <= Len(accounts) /\ pos < Len(buf)

UpdateOrderChanged ==
    /\ ReadsMarker
    /\ ~OrderMatches
    /\ Return("order changed") /\ UNCHANGED accounts

(* a duplicate's index byte: continue *)
UpdateDuplicate ==
    /\ ReadsMarker
    /\ OrderMatches
    /\ Idx # 255
    /\ i' = i + 1
    /\ pos' = pos + 1
    /\ UNCHANGED <<accounts, data, programID, buf, phase, writes, calls, err, snapshot>>

(* a primary's fields, written into the account as they are read; a      *)
(* length check failing returns after the earlier fields are written.    *)
UpdateAccount ==
    /\ ReadsMarker
    /\ OrderMatches
    /\ Idx = 255
    /\ \E r \in {UpdatePrimary(accounts[i], pos + 1)} :
           /\ accounts' = [accounts EXCEPT ![i] = r.acc]
           /\ \/ /\ r.err = "nil"
                 /\ i' = i + 1
                 /\ pos' = r.pos
                 /\ UNCHANGED <<data, programID, buf, phase, writes, calls, err, snapshot>>
              \/ /\ r.err # "nil"
                 /\ Return(r.err)

UpdateStep ==
    \/ UpdateAccountsChanged \/ UpdateEOF \/ UpdateOrderChanged
    \/ UpdateDuplicate \/ UpdateAccount

-----------------------------------------------------------------------------

Init ==
    /\ accounts \in InitAccounts
    /\ data \in InstrData
    /\ programID \in ProgramIDs
    /\ buf = <<>>
    /\ phase = "idle"
    /\ writes = 0
    /\ calls = 0
    /\ err = "none"
    /\ snapshot = accounts
    /\ i = 0
    /\ pos = 0

Next == Serialize \/ VMWrite \/ StartUpdate \/ UpdateStep

(* Update runs to its return on the caller's goroutine: once started, its *)
(* iterations are taken.  The caller and the VM owe no further step.      *)
Fairness == WF_vars(UpdateStep)

Spec == Init /\ [][Next]_vars /\ Fairness


-----------------------------------------------------------------------------


(* Spec section 4.2: a new length below the old one is ShrinkNotAllowed, *)
(* and exactly new-length bytes are read as the new data.  So Update never *)
(* installs account data shorter than the data Serialize wrote.  In the   *)
(* code the data is io.ReadAll(io.LimitReader(buf, newLen)) (line 677),   *)
(* which stops without error where the buffer ends.                       *)
ShrinkNeverApplied ==
    phase = "updated" =>
        \A k \in DOMAIN accounts : Len(accounts[k].data) >= Len(snapshot[k].data)

(* Spec 4.2: duplicates are never independently mutated.  Whatever byte *)
(* the VM writes over a duplicate's index (0xFF, a primary's marker,      *)
(* included), Update leaves every duplicate account as Serialize saw it:  *)
(* the order check's DuplicateIndex comparison is what stops the reader   *)
(* from parsing a primary record into it.                                 *)
DuplicateNeverMutated ==
    phase = "updated" =>
        \A k \in DOMAIN accounts :
            snapshot[k].isDuplicate => accounts[k] = snapshot[k]

(* Update's loop has no exit of its own (`for i := 0; true; i++`): once *)
(* started, it always reaches one of its returns (the i >= len(p.Accounts) *)
(* check, a read at the end of the buffer, or a rejected record),         *)
(* whatever bytes the VM left in the buffer.                              *)
UpdateReturns == phase = "updating" ~> phase = "updated"

(* Spec section 8: Update(Serialize(block)) with no field changes        *)
(* succeeds ...                                                          *)
RoundTripSucceeds == phase = "updated" /\ writes = 0 => err = "nil"

(* ... and reproduces the block exactly.                                 *)
RoundTripPreserves == phase = "updated" /\ writes = 0 => accounts = snapshot

(* Spec section 4.2 / 6: the wire layout.  A duplicate record is 8 bytes *)
(* (index, 7 reserved); a primary is 0xFF, 3 flags, 4 reserved, key,     *)
(* owner, lamports, data length (88 bytes to here), data, ReallocSpace   *)
(* plus padding to the next 8-byte boundary, rent epoch; then the        *)
(* instruction data length, instruction data and program id.            *)
RECURSIVE ABILength(_, _)
ABILength(accs, off) ==
    IF accs = <<>> THEN off
    ELSE LET a == Head(accs)
             end == off + 88 + Len(a.data)
         IN  IF a.isDuplicate THEN ABILength(Tail(accs), off + 8)
             ELSE ABILength(Tail(accs), end + ReallocSpace + ((8 - (end % 8)) % 8) + 8)

SerializeLayout ==
    phase = "serialized" /\ writes = 0 =>
        Len(buf) = ABILength(accounts, 8) + 8 + Len(data) + 32

(* Spec section 4.2: Serialize records as each primary's Padding the     *)
(* size of a realloc region that makes ReallocSpace room and brings the  *)
(* offset after the account's data up to the next 8-byte boundary.       *)
PaddingAligned ==
    phase # "idle" =>
        \A k \in DOMAIN snapshot :
            LET end == ABILength(SubSeq(snapshot, 1, k - 1), 8) + 88
                       + Len(snapshot[k].data)
            IN  ~snapshot[k].isDuplicate =>
                    /\ snapshot[k].padding - ReallocSpace \in 0..ReallocAlign - 1
                    /\ (end + snapshot[k].padding) % ReallocAlign = 0
=============================================================================

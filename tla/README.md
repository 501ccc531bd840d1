# TLA+ models of tpuproxy's base58 and sealevel codecs

The repository's code under `src/pkg/base58/base58.go` is made of two Go packages:

* **base58** (lines 1-558): the radix codec ported from Firedancer.
  * `Encode32` and `Encode64` turn a 32- or 64-byte value into base58 text.
  * `Decode32` and `Decode64` turn the text back into bytes.
  * `Encode` dispatches on the input length.

  The conversion goes through an "intermediate" base 58^5 and 32-bit limbs. It uses precomputed tables (`encTable*`, `decTable*`), uint64 accumulators that are reduced by carry loops, and a skip of leading zero digits. Decode validates each character through `inverseLUT` and then applies a canonical-form check on the leading '1' characters.
* **sealevel** (lines 559-686): the VM input codec.
  * `Params.Serialize` writes the accounts, the instruction data and the program id into a `bytes.Buffer`.
  * A program running in the VM then rewrites bytes of that buffer.
  * `Params.Update` reads the buffer back into the `Params` through a `bytes.Reader`.

The two packages do not interact. Each is an independent pair of inverse operations. `src/unnamed/part_000` holds the base58 tests: five known-answer vectors per width, checked by `TestEncode32`, `TestDecode32` and `TestEncode64`.

Nothing in the code runs concurrently. The hard part is arithmetic and layout: widths, uint64 carries, off-by-one at array ends, and a writer and a reader that must agree byte for byte while a third party (the VM) changes bytes between them.

## Modules

| module | models | state | actions |
|---|---|---|---|
| `Base58Spec` | what the codec promises | `op`, `arg`, `res` (the last call and its result) | `EncodeCall`, `DecodeCall`, `Return` |
| `Base58` | `Encode32/64`, `Decode32/64`, `Encode` | same | same, computed through the code's steps |
| `MCBase58` | inputs and texts for TLC | | |
| `Base58Wide` | `Encode32/64` and `Decode32/64` at their real width, one loop iteration per step | `phase`, `call`, `input`, `i`, `j`, `inter`, `bin`, `result` | `StartEncode`, `EncAdd`, `MiniReduce`, `EncCarry`, `EncFinish`, `DecodeRejected`, `StartDecode`, `DecAcc`, `DecCarry`, `DecFinish`, `Return` |
| `BigNat` | uint64 (and larger) numbers as base-256 digit sequences | | |
| `Base58Tests` | the tests' vectors and the three test functions, as invariants of Base58Wide | | |
| `MCBase58Wide` | 32- and 64-byte inputs and texts for TLC, the test vectors among them | | |
| `Sealevel` | `Params.Serialize`, `Params.Update`, and the VM between them | `accounts`, `data`, `programID`, `buf`, `phase`, `writes`, `calls`, `err`, `snapshot`, `i`, `pos` | `Serialize`, `VMWrite`, `StartUpdate`, `UpdateAccountsChanged`, `UpdateEOF`, `UpdateOrderChanged`, `UpdateDuplicate`, `UpdateAccount` |
| `MCSealevel` | account lists for TLC | | |

### Base58Spec (abstract)

Encode returns one '1' per leading zero byte, followed by the base58 digits of the value. Decode accepts exactly the canonical texts of N-byte values and returns the value. It rejects every other text and never panics.

The radix conversion `Convert` is the schoolbook one (Horner's rule: a repeated multiply-and-add, `RECURSIVE MulAdd` applied by `RECURSIVE Horner`), so it is a reference definition that shares nothing with the code's tables. When both bases are at most 256 it works two digits at a time (base 65536 in, base 3364 out, or the reverse). This keeps every number below 2^30 and halves the recursion depth, so TLC's worker threads can evaluate it at N=64.

### Base58 (implementation)

Base58 follows the code step by step. Each operator below is named after the loop or helper it stands for:

* `FirstNot`: the leading-zero counting loops.
* `AddRows`: the `intermediate[j+1] += limbs[i]*encTable[i][j]` products.
* `CarryDown`: the right-to-left carry loops, in both directions.
* `MiniReduction`: Encode64's reduction between the two halves.
* `RawDigit`: the split of an intermediate digit into base-58 digits. As in the code, the top digit is not reduced.
* `Skip`: `rawLeading0s - inLeading0s`.
* `LUTIndex`: the index clamp, which applies only from above, as in the code.
* `Canonical`: the leading-'1' check.

`Encode` and `Decode` return `panic` wherever Go would index out of range: a negative uint `skip`, a write past `out`, a digit past the alphabet, or a negative LUT index.

The two modules are connected in two ways. `Base58` contains `Abstract == INSTANCE Base58Spec`, and the property `Implements == Abstract!Spec` checks the refinement. The state is the same in both modules, so the refinement mapping is the identity.

**Scaling.** TLC integers are 32-bit, while the code's accumulators are uint64. The module is therefore generic in `N` (value bytes), `LimbBytes` (bytes per limb), `Group` (base-58 digits per intermediate digit), `InterSz` and `OutSz`.

* The tables are computed from the identities in the code's comments: `2^(32*(7-j)) = sum_k encTable[j][k]*58^(5*(7-k))`, and the analogous identity for decTable.
* An `ASSUME` checks that `InterSz` is the code's `ceil(log_(58^Group)(256^N-1))`.

The two instances keep the structural edge cases of the real code:

* **W3:** N=3, 1-byte limbs, Group=2, InterSz=3. This gives RawSz=6 against OutSz=5. It is the same shape as Encode32's `enc32sz`=45 loop over a 44-byte array, so the bound is only safe because every input leaves a surplus raw leading zero.
* **W8:** N=8, 2-byte limbs, InterSz=6, with `MiniReduce` on. This is Encode64's shape: the table product is split into two halves with a mini-reduction between them.

### Base58Wide (real width)

Base58Wide runs the four functions at N=32 and N=64. Each step is one iteration of a loop of the code:

* `EncAdd`: one `intermediate[j+1] += limbs[i]*encTable[i][j]` step.
* `MiniReduce`: Encode64's reduction after row 7.
* `EncCarry`: one step of the carry loop.
* `DecAcc`: one `acc += intermediate[i]*decTable[i][j]` step.
* `DecCarry`: one step of the carry loop.
* `StartEncode` and `EncodeUnsupported`: the two sides of `Encode`'s switch on the length. The 32/64 case starts the loops, and the default case panics.

The steps before and after the arithmetic are Base58's operators, reached through `B == INSTANCE Base58 WITH LimbBytes <- 4, Group <- 5, ...`. These are the leading-zero count, `EncodeText` (skip, bounds, alphabet), `Precheck` (length and LUT), `DecodeIntermediate`, and `Canonical`.

The accumulators are `BigNat` numbers, exact at any size. The invariant `NoOverflow` says that none ever needs more than 8 bytes.

The tables are the code's literals. decTable entries of 2^31 and above cannot be TLC literals, so they are written `U(hi, lo)`, meaning hi*2^16+lo. Two `ASSUME`s check every row against the identity stated in the comment above its table in the code:

* `2^(32*(BinSz-1-j)) = sum_k encTable[j][k]*58^(5*(InterSz-2-k))`, with entries below 58^5;
* `58^(5*(InterSz-1-j)) = sum_k decTable[j][k]*2^(32*(BinSz-1-k))`.

The ASSUMEs hold for all four tables. Changing any one digit of an entry makes TLC reject the model.

**Refinement.** Base58Wide's state is the code's loop state, not the abstract one. `Abstract == INSTANCE Base58Spec WITH op <- IF Visible THEN call ELSE "none", ...` maps it to the abstract spec. A call is visible only once it is done, and the loop steps are stuttering steps of `Base58Spec`. Base58Spec describes only 32- and 64-byte values, so an Encode of another length is never `Visible` either. Such an Encode panics (`EncodeUnsupported`), the switch's documented default, and the passing runs take that step; no property restates the panic. `Implements == Abstract!Spec` is checked at both widths.

**Why these inputs are enough.** Every term added to an accumulator is non-negative, and each carry is monotone in its operand. Each accumulator is therefore largest for the largest value: all-0xFF bytes for Encode, the longest all-'z' text for Decode. `MCBase58Wide` includes both. Its other values cover leading zero bytes, the zero value, a non-canonical extra '1', a text just above N bytes and a character outside the alphabet.

### Sealevel

`Sealevel` models the buffer as a byte sequence:

* `Serialize` appends the bytes that are actually written. `buf.Grow` writes nothing, so it adds nothing to the buffer.
* `Padding` is recorded in the account, as at line 622.
* `VMWrite` overwrites one byte with a value from `ByteVals`, up to `MaxWrites` times.
* `Update`'s account loop `for i := 0; true; i++` is one action per iteration, with `i` (from 1) and the reader's offset `pos` as state:
  * `StartUpdate` enters the loop.
  * Each of the loop's exits is an action of its own: `UpdateAccountsChanged` (`i >= len(p.Accounts)`), `UpdateEOF` (`ReadByte` at the end), and `UpdateOrderChanged`.
  * `UpdateDuplicate` is the `continue` after a duplicate's index byte.
  * `UpdateAccount` reads a primary's fields (`UpdatePrimary`), writing them into the account as they are read. It then either goes on to the next account or returns the shrink/grow error after those writes.
  * The code after the loop (skip the instruction data, read the program id) cannot be reached and has no action.
* The reads have `bytes.Reader` semantics:
  * `ReadFull`: `binary.Read` reads all of its bytes or fails. A failure leaves the field unchanged but consumes the bytes that remain.
  * `ReadInto`: `Reader.Read` copies whatever bytes are left.
  * A seek may go past the end. A negative seek is ignored.
  * Read errors are ignored, as in the code.

uint64 fields are kept as their 8 little-endian bytes. A data length read back is exact below 2^16. Above that it is `Huge`, which lies above every bound that Update compares it with.

The constant `ReaderSkipsCount` decides where Update's reader starts. Update never reads the count prefix, so the caller must position the reader. TRUE starts the reader after the count prefix, which is the most favourable reading of the code.

### Base58Tests

The test file's `testVector32` and `testVector64` are records of bytes (what `hex.Decode` makes of each hex string) and ASCII codes (the b58 string). The three test functions are invariants over Base58Wide's state: whenever an encode (decode) of a vector's bytes (text) is done, its result is the vector's text (bytes). `MCBase58Wide` adds the vectors to the inputs and texts of `Base58Wide_32` and `Base58Wide_64`, so the tests run through the same loop steps as every other input. The Firedancer vectors were computed independently of this project, so they also check the abstract spec's `Convert` and alphabet, which `Implements` takes as the reference.

## Runs

| run | expect | checks | shows |
|---|---|---|---|
| `Base58_W3` | pass | TypeOK, EncodeInBounds, RoundTrip, Implements | Every 3-byte value over {0,1,57,58,128,255} encodes in bounds and round-trips. Decode agrees with the abstract spec on every text of length 3-4 over 8 characters (the alphabet's ends, 'I' which is missing from the alphabet, '{' which is above it, and '1'), and on longer texts of '1', '2', 'z'. |
| `Base58_W8` | pass | same | The same for 8-byte values with high half over {0,255}^4 and low half over {0,1,255}^4 (the mini-reduction sits between the halves), and texts of length 8, 10, 11 and 12. |
| `Base58Wide_32` | pass | TypeOK, NoOverflow, TestEncode32, TestDecode32, Implements, CallsReturn | At N=32 with the literal tables, no uint64 of Encode32/Decode32 exceeds 64 bits, every call refines Base58Spec and returns, and the package's tests pass on their vectors. |
| `Base58Wide_64` | pass | TypeOK, NoOverflow, TestEncode64, Implements, CallsReturn | The same at N=64 (with TestEncode64, the only 64-byte test). This includes Encode64's mini-reduction and its 90-skip digits written into an 88-byte array. |
| `Base58_BelowSpan` | violation | DecodeTotal | At the scaled width N=3, `Decode` of "000" panics: '0' gives a negative index into `inverseLUT` (finding). At the real widths the same needs a 32-44 character text containing a byte below '1'. |
| `Base58_ZeroVector` | violation | SpecZeroVector | At N=32, 32 zero bytes encode to 32 '1's, not the 34 the spec states (finding). |
| `Sealevel_Update` | pass | DuplicateNeverMutated, UpdateReturns | For six account lists and any one-byte VM overwrite, a duplicate account is never mutated, not even when the VM writes 0xFF over its index byte. Under fairness of its iterations, the condition-less loop always reaches a return. |
| `Sealevel_RoundTripSucceeds` | violation | RoundTripSucceeds | With no VM write, Update of one empty primary reads the account and then returns "number of accounts changed": the loop has no nil return (finding). An account with data fails earlier, with "attempted to grow account too much", because its length is read 4 bytes late. |
| `Sealevel_ShrinkApplied` | violation | ShrinkNeverApplied | With no VM write, an empty primary followed by a primary with 10300 bytes of data: the first account's padding seek lands inside the second account's data, the record parsed there passes the length checks, and `io.ReadAll(io.LimitReader(...))` (line 677) installs the 89 bytes left in the buffer over the 10300 (finding). |
| `Sealevel_RoundTripPreserves` | violation | RoundTripPreserves | With no VM write, Update changes the account. It reads 4 bytes late and jumps Padding bytes past the end (finding). |
| `Sealevel_SerializeLayout` | violation | SerializeLayout | The buffer is shorter than the spec's layout (88 bytes of fixed fields per primary, 8 per duplicate, then the realloc region), because Grow writes nothing (finding). |
| `Sealevel_PaddingAligned` | violation | PaddingAligned | The `Padding` Serialize records is `ReallocSpace + 1 + (len-1)/8` (10252 for an empty primary), not the spec's ReallocSpace plus the bytes to the next 8-byte boundary (finding). |

Each property of a passing run has a mutant in `PROJECT.json`: a plausible bug in one mapped definition that TLC then catches. For example, `CanonicalNoRunEnd` drops the check that the run of '1's ends, and the Implements check catches it. `MiniReductionNoMod` leaves intermediate[16] unreduced, and the W8 RoundTrip check catches it. At real width, three mutants are caught:

* skipping Encode64's mini-reduction (`MiniReduceSkipped`) overflows intermediate[16];
* declaring Decode32's `acc` outside the `j` loop (`DecAccNoReset`) overflows binary_[7];
* reading a group's digits in reverse order (`RawDigitReversed`) breaks the refinement and the encode tests.

In Sealevel, writing Update's exit check as `i > len(p.Accounts)` (`UpdateAccountsChangedLate`) leaves the loop with no enabled step after the last account: Go would panic on `p.Accounts[len]`. `UpdateReturns` catches it. Dropping the `DuplicateIndex` comparison from the order check (`OrderMatchesMarkerOnly`) lets a duplicate whose index byte the VM set to 0xFF be parsed as a primary. `DuplicateNeverMutated` catches it.

**Bounds.** The base58 inputs include the values that produce the edge cases:

* zero bytes, and leading zero bytes;
* 0xFF bytes, which give the longest texts;
* texts that overflow N bytes (all 'z');
* non-canonical texts (an extra leading '1');
* bytes just outside the alphabet.

For Sealevel, one or two accounts are enough, with the real `ReallocSpace` of 10240. After a primary with short data, the stale Padding seek leaves the reader past the end of the buffer, so the next account's marker is read at the end. Only a later account with more than about 10.2 KB of data brings the next marker back inside the buffer. `AccountsLanding` is such a list: its second account's data holds a 0xFF and a length where the reader lands, and `Sealevel_ShrinkApplied` runs it. `AccountsLoop` adds two lists so that `Sealevel_Update` reaches every exit of the loop:

* an empty primary followed by a duplicate, which reaches `UpdateEOF`;
* a list that starts with a duplicate. Nothing in the code forbids one, and it is the only way the reader meets a duplicate's index byte.

`Sealevel_Update` makes one Serialize/VM/Update call, `MaxCalls = 1`. Checking `UpdateReturns` evaluates `ENABLED` on Update's record read in every state. That costs milliseconds per state, which rules out the 340 000 states of two calls.

**Fairness.** Base58Wide states `Fairness == WF_vars(EncAdd \/ MiniReduce \/ EncCarry \/ EncFinish \/ DecAcc \/ DecCarry \/ DecFinish)`. A call runs on the caller's goroutine and waits on nothing, so once it has started its loop steps keep being taken. The caller's own steps get no fairness: `StartEncode`, `StartDecode`, `EncodeUnsupported`, `DecodeRejected` and `Return` model a caller who may stop calling. Under this fairness, `CallsReturn` (`phase \notin {"idle","done"} ~> phase = "done"`) says that every started call returns. A loop whose counter stopped advancing would not deadlock, because its step stays enabled, so the deadlock check alone would miss it. The mutant `EncCarryNoDecrement` (the carry loop without `i--`) is caught by `CallsReturn`.

`BigNat`'s operations are recursive functions, not RECURSIVE operators. TLC does not cache operator arguments when it evaluates `ENABLED` for the fairness condition, so with operators it would re-evaluate shared arguments exponentially often. A function's arguments are values by the time its body is evaluated. For the same reason, `EncodedText` applies Base58's `EncodeText` through a function. The Base58 runs can always start another call, so deadlock is checked there too. Sealevel states `Fairness == WF_vars(UpdateStep)`, the disjunction of the five loop actions. Update, too, runs to its return on the caller's goroutine. `Serialize`, `VMWrite` and `StartUpdate` get no fairness: the caller and the VM may stop. Under this fairness, `UpdateReturns` (`phase = "updating" ~> phase = "updated"`) says that the loop always reaches a return. For `ENABLED`'s sake:

* the reads are applied through the functions `ReadFullAt` and `ReadIntoAt`;
* `UpdateAccount` binds the result of `UpdatePrimary` once, with `\E r \in {...}`.

The Sealevel runs stop when the call bound is reached, and so they use `CHECK_DEADLOCK FALSE`.

## Not modelled / plan

* **Real-width Encode/Decode of arbitrary values.** Base58Wide checks five values and seven texts per width, chosen by the monotonicity argument above. A full round trip over all 2^256 values is out of reach.
* **The benchmarks** in the test file. They time calls on the first vector and change no state.
* **Repeated Serialize/Update calls** (`MaxCalls` > 1). The model allows them, but no run uses them: see Bounds.
* **A reader positioned at the count prefix** (`ReaderSkipsCount = FALSE`). Update would then read the count's low byte as the first marker, and every list would fail the order check. The runs use the favourable reading.
* **A duplicate whose DuplicateIndex is 0xFF.** The comment forbids it, but nothing checks it. Serialize would write it as a primary's marker. The model's inputs respect the comment.

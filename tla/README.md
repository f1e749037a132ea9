# bitcoin-wasm in TLA+

bitcoin-wasm compiles the script interpreter of a bitcoin code base to
WebAssembly. Its own code is a C++ bridge (`src/bridge.cpp`, `src/bridge.h`)
that exports a handful of calls, and a node driver (`run.js`) that shows how a
host uses them. Beside it the repository holds the parts of two vendored
libraries it needs or wants: a fragment of libsecp256k1 (field inversion, field
elements, the public API) and OpenSSL's `crypto/`, for the signature opcodes
that are not built yet (`Makefile:58-63`, `README.md:4`).

This directory models what of that is a state machine or an algorithm with
an interesting invariant, checks it with TLC on small instances, and proves
parts of it with TLAPS for every instance.

## Contents

| module | role | models |
|---|---|---|
| `ScriptCodec` | operators | tokens to script bytes, `GetOp`, rows with a length byte |
| `Bridge` | detailed spec | `bridge.cpp` and the calls of `run.js` |
| `ScriptService` | abstract spec | what the bridge promises its host |
| `BridgeProps`, `MCBridge` | properties, TLC instance | |
| `BridgeProofs` | TLAPS | theorems about `Bridge`, and that it implements `ScriptService` |
| `ModInv` | detailed spec | `modinv64_impl.h`: word batches and matrices |
| `Divsteps` | abstract spec | the divsteps of the same algorithm on whole integers |
| `ModInvProps`, `MCModInv` | properties, TLC instance | |
| `ModInvProofs` | TLAPS | theorems about `ModInv`, and that it implements `Divsteps` |
| `MethodData` | detailed spec | `ecs_lib.c`, `ec_key.c`, `ec_lib.c`: data made on first use by racing threads |
| `MethodCell` | abstract spec | a cell per kind that is set once |
| `MethodDataProps`, `MCMethodData` | properties, TLC instance | |
| `BnCtx` | detailed spec | `bn_ctx.c`: the temporaries of a computation, in frames and bundles |
| `TempFrames` | abstract spec | a stack of frames of distinct numbers |
| `BnCtxProps` (also the TLC instance) | properties | |
| `OpensslProofs` | TLAPS | theorems about `MethodData` and `BnCtx` |
| `EcPoint` | detailed spec | `ecp_smpl.c`, `ecp_mont.c`, `ecp_oct.c`: points in Jacobian coordinates, and their octets |
| `CurveLaw` | abstract spec | affine points by chords and tangents |
| `EcPointProps`, `MCEcPoint` | properties, TLC instance | |
| `EcPointProofs` | TLAPS | theorems about `EcPoint`, and that it implements `CurveLaw` |
| `EcMult` | detailed spec | `ec_mult.c`: sums of multiples by window NAFs and precomputed multiples |
| `EcMultProps`, `MCEcMult` | properties, TLC instance | |
| `EcMultProofs` | TLAPS | theorems about `EcMult` |
| `EcdsaLaw` | operators | the equation of an ECDSA signature |
| `SecpKeys` | detailed spec | `secp256k1.c`: keys, tweaks, signatures and the signing loop |
| `SecpKeysProps`, `MCSecpKeys` | properties, TLC instance | |
| `SecpKeysProofs` | TLAPS | theorems about `SecpKeys` |
| `EcdsaFlow` | detailed spec | `ecs_ossl.c`, `ecs_sign.c`, `ecs_vrf.c`: set-up, signing, verification |
| `EcdsaFlowProps`, `MCEcdsaFlow` | properties, TLC instance | |
| `EcdsaFlowProofs` | TLAPS | theorems about `EcdsaFlow` |
| `Powers` | operators | the powers of two as a recursive function |
| `Arithmetic` | TLAPS | lemmas: induction over a set of numbers, quotients and remainders, powers of two |

Each component follows the same layout: the specification, the properties in a
module that extends it, an MC module with the values for TLC, and the proofs in
a module of their own. A definition whose name ends in `_Something` under a
comment that begins with "Mutant" is a deliberately wrong version of the
definition it is named after; `PROJECT.json` says which property it breaks.

## The system

### Bridge (modelled)

State: `scripts`, a global vector of compiled scripts whose index is the handle
the host gets; the wasm heap, in which every answer is allocated and nothing is
ever freed; and the locals of the call in progress.

| export | what it does |
|---|---|
| `stringCompile` | encodes token after token into a local script, appends it to the table |
| `byteCompile` | appends the bytes as they are |
| `scriptRun` | `EvalScript`, then copies the stack out row by row |
| `decompile` | counts the operations, allocates that many lines, then fills them in a second pass |
| `scriptToString` | `decompile`, then the first line |
| `version`, `getOpName` | change nothing (not modelled) |

The module is one thread: a call runs to its return or takes the module down (an
uncaught `std::out_of_range` or `std::invalid_argument`, or `new` without
memory). What is hard is what a call leaves when it fails half way, the
agreement of the two passes of `decompile`, the three lengths of a row (the
vector's, a `uint8_t`, and the signed byte the host reads), and that the host
keeps views into the heap while later calls run.

### Host driver (modelled)

`run.js` makes the calls and reads the result of `scriptRun` (`extractStack`) as
`Uint8Array` views into the wasm memory. The model lets a host make any call in
any order, not only the one sequence of the script.

### Interpreter (external)

`CScript`, `EvalScript`, `GetOpName` and `CScriptNum` are in another repository
(`Makefile:3,25`). What the bridge uses of the script reader and writer is in
`ScriptCodec`; `EvalScript` may leave any of a set of outcomes. The correctness of
the interpreter is therefore not a subject here.

### Modular inverse (modelled, limb carries abstracted)

`secp256k1_modinv64` (constant time) and `_var` invert `x` modulo a prime with
the divsteps of Bernstein and Yang, in batches: 59 or up to 62 divsteps on one
64-bit word of `f` and `g` yield a 2x2 matrix, and the matrix is applied to `d`,
`e`, `f` and `g`. What is hard is that the words wrap, that several divsteps are
done at once, that `d` and `e` are never reduced but must stay in a range, that
limbs are dropped as the numbers shrink, and that in a release build no check
remains (`VERIFY_CHECK` is compiled out).

### Method data of an EC_KEY (modelled in part)

`ecdsa_check` and `ecdh_check` attach a record to a key on first use. They look
for it under a read lock, make one without a lock, look again and insert under a
write lock, and look a third time to learn whether it went in; the loser of a
race frees its own. The last `EC_KEY_free` frees the list. Threads, failing
allocations and reused addresses make this hard. OpenSSL's files are
in the tree but not in today's build; the model takes them as the code the
project means to enable, with the locking callbacks a threaded program has to
install.

### Temporaries, BN_CTX (modelled)

Every function on big numbers takes its temporaries from a context it is handed:
`BN_CTX_start` opens a frame, `BN_CTX_get` takes a number, `BN_CTX_end` releases
what the frame took. Both memories behind it, the stack of frames and the
bundles of numbers, can fail to grow. Nobody tests what `BN_CTX_start` did, so
after a failure starts and ends are counted, and the counting must meet the
pushing again at the right end.

### Points and their multiples (modelled over prime fields)

`EC_POINT` holds Jacobian coordinates and a flag `Z_is_one` that selects short
cuts; the field elements may be in Montgomery form. Addition has five special
cases and may write into one of its arguments. `ec_wNAF_mul` sums multiples of
several points at once; it cuts the form of the generator's scalar into blocks if
the group holds multiples for it, which may be those of an earlier generator,
and it frees, from one exit, arrays that were filled up to anywhere.

### secp256k1 API (modelled, scalars and points external)

`secp256k1.c` works on keys in the caller's memory: it clears them before it knows
whether it succeeds, and branches on no secret, so that an invalid key runs through
the whole call in disguise. Signing asks a nonce function of the caller until a
nonce works or the function gives up.

### ECDSA of OpenSSL (modelled)

`ecdsa_sign_setup` draws a nonce until `r` is not 0, `ecdsa_do_sign` sets up until `s`
is not 0, unless the caller gave the values. Numbers go from one owner to another
on the way, and every line can fail. Both use the method data of the key.

### How they interact

`ecs_ossl.c` calls the method data (`ecdsa_check`), the temporaries, and
`EC_POINT_mul`, which is `ec_wNAF_mul` on the points of `ecp_smpl.c`. The models
meet at the operators that stand for the part below: `MethodData` is to `EcdsaFlow` a
call that may give nothing, `EcPoint` is to `EcMult` addition in a group, and `EcMult` is
to `EcdsaFlow` the point of a logarithm. What each assumes is what the other's
properties say. `BnCtx` is composed with the one caller that breaks its rule.

### Not modelled

- Magnitudes of the 5x52 field elements: the inner multiplication, on whose bounds
  the discipline turns, is in a file the repository does not hold.
- The shared Montgomery context (`bn_mont.c:525-561`), `EC_KEY_copy` and
  `ECDSA_set_method`: in the plan.
- `version` (bridge.cpp:187) returns the characters of a local string, and `run.js:27`
  reads a length with a width that depends on the emscripten version: neither
  changes a state of the program.
- ECDH is straight-line arithmetic; the methods for binary and NIST fields repeat
  `EcPoint` with other arithmetic.
- Ciphers, digests, ASN.1, PKCS and the rest of OpenSSL are vendored, not built and
  not used by the modelled code. They make up nearly all of the lines of the
  repository.

`PROJECT.json` lists every component with its sources and status, and every hazard
with its line.

## Bridge: model and code

| variable | code |
|---|---|
| `scripts` | `std::vector<CScript> scripts` (bridge.h:17); handle `h` is `scripts[h+1]` |
| `heap` | the blocks of `strvecToSizedCharPtr`, in order; a row pointer is an index |
| `low` | the unused words from address 0 on, written through a null `lines` array |
| `results`, `views` | what the host was given, and what `extractStack` made of it (history) |
| `fn`, `req` | the loop in progress and the call it belongs to; `"abort"` is final, and after `"spoilt"` memory may change at any time |
| `c`, `pc`, `i`, `len`, `cells` | the locals of that loop and the pointer array being filled |
| `path` | history: where the operations met by `scriptCount` start |

Actions are turns of loops: `StringCompile`, `EncodeToken`, `EncodeThrows`,
`CompileReturns` (bridge.cpp:63-107), `ByteCompile` (56-61), `BadHandle`
(`scripts.at`), `ScriptRun`, `CopyRow`, `RunReturns` (12-54), `Decompile`,
`CountOp`, `CountFails`, `CountEnds`, `EmitRow`, `EmitHole`, `Overwrite`, `Spoilt`,
`DecompileReturns`, `ToStringReturns` (109-172), `OutOfMemory` (50) and
`ExtractStack` (run.js:24-37).

A count of -1 makes `malloc` ask for almost 4 GB, which fails; `lines` is null and
`lines[i] = ...` (bridge.cpp:113, 124) writes word `i` of the wasm memory, which wasm
does not trap. That memory is one address space: first `LowWords` words nobody uses
(256 with emscripten's usual layout, whose static data begins at 1024), then static
data, which holds the header of the table `scripts` (bridge.h:17), the stack and the
heap. A store to one of the first words goes to `low`, and `scriptToString` may read
it there. A store past them is `Overwrite`: a pointer lands in static data, the
stack or the heap, the table may become any table and a row any row (`Damage`, over
the bytes of `Garbage`), and the rest of the call, and every call after it, is
undefined (`"spoilt"`, where `Spoilt` goes on damaging). It takes a script that does
not parse and has an operation after the first `LowWords` of them (`Overruns` of
`ScriptService`). `lines[0]` of an empty array is an uninitialized word: it may be the
address of any row or of none.

Abstractions: tokens are records that say how `encodeOp` classifies the string;
`GetOpName` knows the names of the tokens in use; `stackout` and `codeout`
headers are not heap blocks of their own, so memory runs out at rows;
`extractStack`'s `getValue(..., 'i64')` reads 32 bits, as the documented output
shows; emscripten's stack-overflow cookie at address 0, a debug feature, is left
out.

### Run `bridge_calls`

Programs, byte arrays and stacks are chosen at the boundaries: pushes of 75/76
and 255/256 bytes, rows of 127/128 and 255/256/257 bytes, tokens that throw in
the middle of a program, unknown names, a bare `OP_PUSHDATA1`, scripts cut short
in a payload and in a size. `LowWords = 1` stands for the 256: scripts that do not
parse come with one operation, which stays in the unused words, and with two, which
overrun them. The bytes of `Hex5` are chosen so that, without their push, they would be
operations themselves. `MaxScripts = 2` gives a second handle to mix up,
`MaxResults = 3` allows compile, run or decompile, and a later call that could
disturb what the host holds; `HeapCap = 3` lets both a full answer and exhaustion
in mid-call happen. `Garbage` has one string of bytes, different from every row and script.

| property | what would break it |
|---|---|
| `TypeOK` | a row longer than its length byte, a pointer to no row |
| `CodeoutComplete`, `StoresInBounds` | the two passes of `decompile` disagree |
| `LowMemoryClean` | a null `lines` array for a script that parses; memory written over for one that fits the unused words |
| `HandlesAreReturned` | a script in the table that no call returned, after a throw |
| `DecompileUndoesCompile` | an encoding that reads back as other operations |
| `ViewsShowStack` | the host reads bytes nobody wrote, or throws for another size |
| `NothingHeldChanges` | a store through a null array reaches a row or a script the host holds, though no script it compiled overruns |
| `ImplementsService` | the bridge does what `ScriptService` does not |
| `CallsEnd` | the second pass stands still on a failing `GetOp` |

`TypeOK` speaks of handles and pointers given out, `CodeoutComplete`,
`HandlesAreReturned` and `ViewsShowStack` of what the host reads, as long as memory is
the module's own (`Sound`); afterwards the code promises nothing. `LowMemoryClean` and
`NothingHeldChanges` say how it can come to that: only by a script the host compiled
that overruns. A count of -1 for any other script would break them.

`ScriptService` has a table and replies and no memory: a call answers at once, or
the service is down. Its listing is defined by a reference parse; it promises no
listing of a script that does not parse, and once one was listed that overruns
(`Spoil`) its state is undefined and it promises nothing at all. The refinement follows
the pointers of each result.

Fairness is `WF_vars(Step \/ Overwrite)`: the one thread of the module goes on with the
call it is in. Nothing obliges the host to call. `CallsEnd` counts `"spoilt"` as an end:
a call that wrote over the memory it runs on is not described further. Deadlock is
not checked, since an aborted module has no step and `MaxResults` ends a behaviour.

### Run `bridge_tostring`: a divergence

`README.md:30` shows `input script compiled to:  1 2 OP_ADD` for the program
`1 2 OP_ADD`. `scriptToString` returns `lines[0]` (bridge.cpp:136), the row of the
first operation with its length byte. `ScriptToStringShowsScript` states the
documented output and TLC violates it with that program.

### Proofs

`BridgeProofs` proves every safety property of the run and the
refinement, for any tokens, programs, byte strings, outcomes and bounds that
satisfy the assumptions of `Bridge`: tokens are among `ProgramTokens` (what a string of
a wasm program can be; its hex digits number at most `INT_MAX`, an address having 32
bits), programs are sequences of tokens, an interpreter leaves a stack of byte
strings, and garbage is bytes. The number of unused words is any natural number.

| theorem | states |
|---|---|
| `TypeCorrect` | `Spec => []TypeOK` |
| `CodeoutCorrect`, `StoresStayInBounds` | `Spec => []CodeoutComplete`, `Spec => []StoresInBounds` |
| `HeldIsStable` | `Spec => NothingHeldChanges` |
| `ViewsAreStacks` | `Spec => []ViewsShowStack` |
| `HandlesReturned` | `Spec => []HandlesAreReturned` |
| `LowMemoryIsClean` | `Spec => []LowMemoryClean` |
| `DecompileUndoes` | `Spec => []DecompileUndoesCompile` |
| `BridgeImplementsService` | `Spec => ImplementsService` |

None but the type invariant is close to inductive. `TypeInv` adds to `TypeOK` what each
phase of a call knows of its locals and its request (`Frame`), as long as memory is
`Sound`; from it follows that a step of intact memory lets heap, table and results
only grow (`StepGrows`), so that pointers and handles given out stay good
(`OldStaysGood`), and that memory once spoilt stays so (`SpoiltStays`). That only a script
the host compiled can spoil it needs more: every script of the table is one that a
compile returned (`Backed`), and a filling pass with a count of -1 goes through the
operations of its script one by one to the end of its whole parse (`RestInv`), so that
a store past the unused words is an operation of that script past them
(`OverwriteOverruns`); `LowInv` puts these together. For the two passes, `PassInv` says that the
count has left a chain of offsets, each where `GetOp` moves from the one before,
and that the filling pass is at the `i`-th of them with lines `0..i-1` stored. For
the host's view, `ViewInv` says that the rows copied so far are those of the stack,
that every result of `scriptRun` has them all, and that each view was taken of such
a result; `RowShape` says what a row holds. `Numbered` says that each entry of the table
has the one result that returned its handle.

The codec comes first. Pushes of every size read back as one operation (`PushIsOneOp`,
by the width of the length field: 0, 1, 2 or 4 bytes, little endian); so does any
token (`TokenType`); and what `GetOp` does depends only on the bytes it looks at
(`GetOpLocal`). The reference parse of a script is a function defined by its own
equation; it exists because `GetOp` always moves forward (`ParseExists`, an
induction from the end of the script), the chain the count leaves is that parse
(`ChainIsParse`, `ChainFails`), and so the count is its length (`CountIsParse`). A compiled
script is the concatenation of its tokens' bytes (`EncodeInv`, with `Code` for what
the first `n` arguments give); the offsets of the tokens are a chain
(`ChainAppends`, `CompilesCode`), hence the parse has as many operations as
the program has tokens that write any, and they are those (`DecompilesCount`).

For the refinement, `ServiceInv` carries what the abstract replies need: that the table
is the service's, and that a reply is read off memory that no later step of intact
memory writes (`ReplyStays`, `RepliesGrow`). A step that takes the module down is the
service's `Fail`, one that returns is the abstract call of its kind, `Overwrite` is its
`Spoil` (`SpoilImplements`, by `OverwriteOverruns`), what follows is its `Undefined`
(`UndefinedImplements`), all others stutter.

## ModInv: model and code

| variable | code |
|---|---|
| `algo` | which of `secp256k1_modinv64` and `_var` |
| `d`, `e`, `f`, `g` | the four `signed62`, as exact integers |
| `eta` | `zeta` or `eta` |
| `len` | `len`, the limbs of `f` and `g` in use (variable time) |
| `bat` | the locals of `divsteps_59` or `divsteps_62_var`: words, matrix, counter |
| `round`, `pc`, `result` | the batch number, the place in the call, what goes into `x` |

`Divstep` is one turn of the constant-time loop (171-200); `ShiftZeros`,
`SwapAndCancel` and `CancelBits` are the three parts of a turn of the
variable-time loop (235-282); `UpdateConst` and `UpdateVar` apply the matrix
(387-458, 304-381), and the latter drops a limb (553-564); `Normalize` is
normalize_62 (69-137). Words wrap modulo `4*Base` and the `>>` of a
negative number rounds down. The bottom limb of the modulus may be signed, as
that of the field prime is (`-0x1000003D1`). What is abstracted is how one update
is carried from limb to limb.

### Run `modinv`

Limbs of 7 bits instead of 62, three of them, words of 9 bits; a constant-time
batch keeps 3 bits unused, as 62-59 does, and does 4 divsteps; the six bits
`SwapAndCancel` may cancel at once fit a batch of 7. Every `x` is inverted modulo
eight primes up to 1021, which fill one and two limbs. `Rounds = 6` and
`VarRounds = 4` are tight: with one less, `ResultIsInverse` fails.

| property | source |
|---|---|
| `BatchTracks` | the checks of lines 172-174 and 244-247; 212, 293, 316-319: the matrix has the determinant and row sums of its steps |
| `NumbersInRange` | 312-315: `d`, `e` in (-2*modulus, modulus); 479-489, 567-570: `f`, `g` in range, also after a limb is dropped; 198-199, 249: eta bounded |
| `ResultIsInverse` | 496-505 and 566: the batches suffice (its part `RoundsSuffice`), `g = 0` and `f = 1` or `-1` at the end, the result is in [0, modulus), and times `x` it is 1, or both are 0 |
| `ImplementsDivsteps` | words and several bits at once do what divsteps on integers do |
| `CallReturns` | every call ends |

`Divsteps` knows neither words nor matrices: its state is delta, `f`, `g`, and
`d`, `e` modulo the modulus; one of its steps is a batch of divsteps. Fairness is
weak fairness of `Next`: straight-line code on one thread. Deadlock checking is
off because a call that returned is over.

The reason why ten batches of 59 divsteps suffice for 256 bits is a computed bound
on convex hulls, which no small model reproduces; the run shows the
mechanism with its own tight bounds.

### Proofs

`ModInvProofs` proves for every width of a limb and of its unused bits, every number of
limbs and rounds and every odd modulus that fits: `TypeCorrect` (`[]TypeOK`), `MatrixCorrect`
(`[]BatchTracks`) and `RangesKept` (`[]NumbersInRange`). The assumptions are those on the
constants (`WidthAssumption`, `RoundsAssumption`, `ModuliAssumption`).

The inductive invariant `IInv` is the type, the ranges of `d`, `e`, `f`, `g` (`Ranges`), and, in a
batch, `Running`. Its heart is `Tracked`: modulo a word the rows of the matrix take `f0`, `g0` to
the scaled `f`, `g` (`Row`), and the entries, read as signed numbers, have the determinant and
the row sums of the divsteps done (`Fits`), the second row also with the zeros of `g` that
nobody has skipped yet (`ScaleG`): a turn that cancels some bits leaves the sum of a row
no smaller than what the next shift will make up for, and without this allowance the bound is
not inductive. `Lead` (the first row is even once a step was taken) gives the bound of the
last step, `EtaBounded` that of eta. Each action has its lemma: one divstep
(`DivsteppedTracks`), zeros skipped (`ShiftedZerosTracks`), bits cancelled with a multiplier
that is an inverse modulo 16 or 64 (`FourBits`, `SixBits`, `CancelledTracks`). An
update is exact because the row clears the bottom limb (`RowExact`, `UpdatedFGIs`), stays in range
because the row sum is at most 2^W (`UpdatedFGInRange`, `UpdatedDEIs`), and a dropped limb
held only a sign (`ShortenedIs`).

Two more theorems have the hypothesis that the batches of the call suffice,
`[]RoundsSuffice`. `DivstepsImplemented` is the refinement, for every width and every odd
modulus. `InverseStored` is `[]ResultIsInverse`, for prime moduli (`PrimeModuli`), as
the field's and the group's are. Both use `RInv`: `IInv` with three more parts.

- `InStep`: a batch is a run of divsteps. `Iterates` writes divsteps as a function of their
  number. The matrix times the numbers that the batch began with is a power of two times the
  numbers that so many divsteps reach (`Follows`, `Reaches`); the zeros of `g` that
  nobody has skipped yet are divsteps the loop has not counted (`BatchSteps`).
  Divsteps between two swaps come as a run (`RunsOn`), and cancelling bits with a multiplier
  after a swap is such a run (`SwapCancels`). For `d` and `e` all this is modulo the
  modulus, where the power of two cancels because the modulus is odd (`SameUnscaled`).
  `BatchIsDivsteps` puts the update at the end of it, `DivstepsAre` identifies the function with the one
  of `Divsteps`.
- `Unanswered`: there is no result before `Normalize`, whose value is the abstract
  answer's (`NormalizeRefines`).
- `AInv`: `d*x = f` and `e*x = g` modulo the modulus (`Coefficients`); a common odd divisor of `f`
  and `g` divides the modulus and `x`, by the determinant of the matrix
  (`CommonDivisors`, `DividesBefore`); `x = 0` keeps `g = 0` and `d = 0` (`ZeroKept`); what is stored is the
  normalised `d` (`Finished`). With `g = 0` then `f` itself divides the prime, so it is 1 or
  -1, or `x` was 0 (`OneOrAll`), and `Coefficients` makes `d` the inverse.

## MethodData: model and code

| variable | code |
|---|---|
| `method_data` | `key->method_data`, the list of entries [kind, data] |
| `references` | `key->references` |
| `live` | records that `malloc` gave out and nobody freed |
| `holds` | the threads that own a reference |
| `pc`, `kind`, `own` | where each thread is in `ecdsa_check`, for whom, and its `ecdsa_data` |
| `held` | what its last check of each kind returned |
| `failed` | history: an allocation failed in this call |

A section under `CRYPTO_LOCK_EC` is one step; so are `CRYPTO_add` and what a thread
does to memory only it can reach. `Check`, `New`/`NewFails`, `Insert`/
`InsertFails`/`InsertLost` and `Confirm`/`ConfirmFails` are the stages of
`ecdsa_check` (ecs_lib.c:186-225; `ecdh_check` is the same code). `UpRef`, `Free`
and `Destroy` are in ec_key.c:106-138 and 215-228. A thread shares the key with
one that has no reference, and both are then between calls.

Left out: `EC_KEY_copy` and `EC_KEY_dup`, `ECDSA_set_method` and engines, and the
library without locking callbacks.

### Runs `methoddata` and `methoddata_live`

Three threads are the fewest for a race with a third party that looks in the
middle of it; two kinds make a list longer than one; an address more than threads
leaves a choice to `malloc`. Threads and addresses are interchangeable in the safety
run. The liveness run has two threads and no symmetry, which would be unsound
there. Fairness: a thread that is inside a call, or is destroying, goes on; no
thread is obliged to call or to free. Deadlock is off: a freed key ends it.

| property | what would break it |
|---|---|
| `OneOwner` | a leak or a double free, whoever wins the race |
| `HeldIsLive` | a pointer to a freed or another kind's record |
| `KeyOutlivesHolders` | a destroy while somebody holds the key, or two of them |
| `NullMeansNoMemory` | NULL for a lost race |
| `ImplementsCell` | the cell of a kind changes while the key is held |
| `ChecksReturn`, `NothingLeft` | a call that stays, a record that stays |

### Proofs

`OpensslProofs` proves all six safety properties for any sets of threads (finite),
kinds and addresses: `KeyTypeCorrect`, `RecordsHaveOneOwner`, `HeldStaysLive`,
`KeyDiesLast`, `NullOnlyWithoutMemory` and `KeyImplementsCell`. The inductive
invariant is their conjunction with `Phases`, which says what each stage owns: a
record from `New` to the return and none elsewhere. They need each other:
`HeldIsLive` over `Free` needs that a thread that destroys is the only one left,
which needs the count; `OneOwner` over `InsertLost` needs that the loser's record
is not in the list.

## BnCtx: model and code

| variable | code |
|---|---|
| `pool` | `ctx->pool`: `used`, `size`, and `current` as the place of a bundle in the list |
| `stack` | `ctx->stack`: `indexes` up to `depth`, and `size` |
| `used`, `err_stack`, `too_many` | the fields of the same name (bn_ctx.c:142-147) |
| `given`, `marks` | the caller: the numbers it has, and how many it had at each start (history) |

One action per call: `BN_CTX_start` (254-266, with `BN_STACK_push` 330-350),
`BN_CTX_get` (285-305, `BN_POOL_get` 402-434), `BN_CTX_end` (268-283, `BN_POOL_release`
436-448) and `BN_CTX_init` (198-211). Their disjuncts are the ways they go: counted,
pushed or failed; given, failed or blocked. A number is its bundle and its place
there. The caller calls `BN_CTX_get` with a frame open and ends only frames it
started; what is left out is `BN_CTX_free` and the value of a number.

### Runs `bnctx` and `bnctx_precompute`

Bundles of two numbers and a stack that first has room for two frames make both
memories grow twice within six numbers and five frames, and let a release cross the
edge of a bundle. `MaxUsed` and `MaxOpen` bound the state.

| property | what would break it |
|---|---|
| `CtxTypeOK` | a number or a frame beyond the memory there is |
| `FramesMatch` | an end that meets another frame's start, or `current` off the bundle in use |
| `ImplementsFrames` | a number handed out twice, or a context that works again too early or too late |

`bnctx_precompute` adds the one caller that breaks the rule. `ec_wNAF_precompute_mult`
goes to its exit before `BN_CTX_start` if the group has no generator
(ec_mult.c:764-767) and the exit calls `BN_CTX_end` whenever there is a context
(889-890). Given a caller's context it ends the caller's frame.
`UsedCountsAssigned` is the comment of the field `used`, "The number of bignums
currently assigned"; TLC violates it: a number in use is released and will be
handed out again.

### Proofs

`OpensslProofs` proves for bundles and stacks of any size: `Typing` (`[]CtxTypeOK`), `Matching`
(`[]FramesMatch`) and `Implementation` (`ImplementsFrames`). `CtxTypeOK /\ FramesMatch` is
inductive. Its core is arithmetic: a release of `num` numbers moves `current` back
by one bundle for every first slot it passes, which is the difference of two quotients
(`DivMod`, `DivUnique`, `Slots`), and so the next number is one that is not in use
(`TakesFreshNumber`). `BadFrame` maps the two error fields to the outermost frame that
failed.

## EcPoint: model and code

| variable | code |
|---|---|
| `group` | `field`, `a`, `b`, `a_is_minus3` of the `EC_GROUP`, and the radix R of the Montgomery form, 1 for the simple method |
| `pts` | the `EC_POINT` each variable of a caller points to: X, Y, Z, `Z_is_one` |
| `good` | the variables whose last assignment returned 1 |
| `call` | the last call and its arguments (history) |

The operators `add`, `dbl`, `cmp`, `is_on_curve`, `get_affine`, `points_make_affine`,
`set_compressed` and so on have the names and the formulas of the code, branch by
branch; intermediate values have the names of its comments. The actions are the
calls, with any choice of variables, so that a result may overwrite an argument.
`add` takes the case of equal pointers at the call (`Add`). A call that fails loses
its result (`Renew`); `EC_POINTs_make_affine` that fails loses all its points, since
some Z are inverted by then. Octets are sequences of one tag and whole
coordinates; the length in bytes is abstracted, a coordinate of p or more is not.

### Run `ec_point`

Six curves over the fields of 5 and 7 elements: `a = -3` and not, `a = 0`, with and
without a point of order two, in both forms; and a modulus that is refused. Two
variables are enough for every way arguments and results can coincide, and sums of
sums reach points in any coordinates, so the special cases meet each other. All octet
strings of up to two coordinates are read, up to one value above the field.

| property | what would break it |
|---|---|
| `TypeOK` | a coordinate that is not reduced, `Z_is_one` on a point whose Z is not one |
| `AnswersMatch` | points that compare wrongly, octets that do not read back |
| `ImplementsLaw` | a call that is not the chord and tangent law of affine points, octets accepted that are no point's |

`CurveLaw` knows affine points only. Its variables are mapped through `get_affine`;
a variable that is not `good` is undefined.

### Proofs

`EcPointProofs` proves all three properties for every prime field, every curve over it
that `set_curve` and `check_discriminant` accept, both forms of its elements, any
variables and any octets: `TypeCorrect` (`[]TypeOK`), `AnswersCorrect`
(`[]AnswersMatch`) and `PointsImplementLaw` (`ImplementsLaw`). The assumptions are that a
modulus which passes the code's own test (three bits, odd) is prime, as the comment of
`set_curve` demands (ecp_smpl.c:184), that the radix of the Montgomery form is not 0 in the
field, being a power of two (both in `InputsAssumption`), and that the point at infinity is no pair of
numbers (`InfinityAssumption`).

The invariant is `IInv`: the group is one `set_curve` made (`GroupOK`), every variable,
in use or not, has reduced coordinates and an honest flag (`Typed`), and the affine point of
each variable in use is on the curve (`Sound`). The last part is needed to prove the
others' answers: two points of one x are equal or opposite only on the curve (`SameX`),
which is what `add` relies on when it returns infinity.

The argument has three layers.

1. `Means(s, v)`: the field element `s` stands for the number `v`, in either form. Each
   field operation is shown once to mean the operation on numbers (`MeansMul`,
   `MeansAdd`, `MeansHalve`, ...), and so each formula of the code means a polynomial
   (`DblMeans`, `AddMeans`, `CoefficientsMean`).
2. `Stands(P, x, y, z)`: the coordinates of `P` mean x*z^2, y*z^3 and z. The
   coordinates fix the affine point (`AffineUnique`), and every point stands for one
   (`AffineExists`).
3. The polynomials are those of chord and tangent times powers of the new z
   (`ChordAlgebra`, `TangentAlgebra`), and the third point of a line is on the curve:
   the cubic less the line's square is the product of three factors and a linear
   remainder (`LineMeetsCurve`), which vanishes because the line meets the curve twice in
   two points, or is its tangent in one (`ChordOnCurve`, `TangentOnCurve`).

For the octets, the two roots of an equation have different parities (`OtherRoot`,
`ParityDecides`), so whichever root the square root gives, the point is the one whose
string it is (`CompressedIs`, `FromOctetsIs`). That an accepted curve is smooth is
`NoDoubleRoot`: a double root x makes a = -3*x^2 and b = 2*x^3, and the discriminant 0.

## EcMult: model and code

| variable | code |
|---|---|
| `group` | `generator` and the `EC_PRE_COMP` in `extra_data` |
| `req`, `pc` | the call of `ec_wNAF_mul` in progress and its place |
| `loc` | its locals: `numblocks`, `totalnum`, `wNAF` with lengths, `val`, `val_sub`, `max_len`, `i`, `k`, `r_is_inverted`, `r_is_at_infinity` |
| `heap` | the blocks that call has allocated |
| `r` | the result |

A point is its logarithm modulo the order; adding is the subject of `EcPoint`. Actions
are the turns of the loops: `NextNaf` (453-467), the three ways of the generator's
NAF (`SplitNot`, `SplitBegins` and `SplitBlock`, 490-574), `Tables` and its failure after any number of points `TablesFail` (578-642),
`SkipDigit` and `AddDigit` (644-683), `Finish` and `Cleanup` (685-723). The entries
of `wNAF` and `val` are junk, null or a block; freeing goes by the first that is no block.
`PrecomputeMult` is `ec_wNAF_precompute_mult` (745-907), `SetGenerator` may change
the generator under the multiples.

### Run `ec_mult`

The order is 131 (eight bits); windows grow at 4 and 8 bits, blocks are of three
digits and the precomputation has windows of at least two. The order is longer than
two blocks, scalars of eleven bits are longer than all of them, others are shorter
than one. Negative scalars, zero, and sums whose other terms are longer or shorter
than the generator's decide between the ways of splitting.

| property | what would break it |
|---|---|
| `SumsSoFar` | a digit added in the wrong place, sign or block; multiples of an old generator |
| `WnafForm` | the form promised by the comment at ec_mult.c:180-188 |
| `NothingLost` | a block that is not freed, an unwritten entry that is |

### Proofs

`EcMultProofs` proves all three, for every order above 1, every set of generators,
thresholds and calls, windows of any width and blocks of any size over 2:
`SumsAreRight` (`[]SumsSoFar`), `ScalarsAreWnafs` (`[]WnafForm`) and `NothingIsLost`
(`[]NothingLost`). `ParametersAssumption` and `CallsAssumption` say no more than that. They
rest on two results of their own:

- `WnafOfScalar`: `compute_wNAF` gives digits of the promised form and value for every
  integer and every width. At each turn what is left of the number is the window and the
  bits not yet in it (`Rest`, `Fits`, `OneTurn`); a digit that is not zero leaves a window with
  one bit alone, which moves down once a turn until the next digit (`Lone`,
  `Spacing`). The loop ends by the turn after the last bit (`LoopEnds`), so the digits fit the
  `len + 1` bytes allocated for them, and the internal errors for a digit out of bounds and for
  too many of them (ec_mult.c:261, 284) are not met.
- `EcMultInvariant`: `Kept` (what the locals hold at each place, how long the arrays are),
  `Held` (which entries are written and which blocks allocated, with one null entry behind the
  last written one) and `Formed` (the NAFs made so far) are together inductive.

For the sum, `Lined` says what each row of the loop is: the multiples of a term and its
NAF, or those of a power of two times the generator and a part of the generator's NAF.
A turn doubles every row at most and adds one digit (`RowsTurn`), as `r` does up to its
sign (`ResultTurns`). At the end the rows of the blocks are the whole NAF, since each block
continues the one before it (`BlockRowTotal`, `BlocksTotal`), and all of them the sum asked
for (`TotalIs`). The group's multiples are of its own generator because `Begin` compared
them, which is all that is needed of them.

## SecpKeys: model and code

| variable | code |
|---|---|
| `seckey`, `pubkey`, `sig` | the caller's 32 bytes, `secp256k1_pubkey` and `secp256k1_ecdsa_signature` |
| `todo` | operations done to the secret key and not yet to the public key (the client's) |
| `loop` | the locals of `secp256k1_ecdsa_sign_inner` between two nonces |
| `signed`, `call` | history: what `sig` should be, and what the last call returned on each side |

Operators with the names of the code compute what each function writes and returns;
bytes are numbers that may exceed the order, a stored point at infinity is a
value of its own that is not zeros. The actions are a client's: a wallet tweaks and
negates the secret key, and its public side follows in order, by tweaks or by
`pubkey_create` and `pubkey_combine`. The nonce function may return any bytes or give up;
each return is one step (`TryNonce`, `NoNonce`, 489-507). The scalar and point
functions are external: their files are not in the repository. Their contracts are taken from the
calls here and from the comments of `secp256k1.h`.

### Run `secp`

The seven points of y^2 = x^3 + 7 over 13 elements; one x is 0 modulo the order, so
that a nonce fails for its r, others for their s. Bytes go to 9: two values are
above the order. `MaxLag = 2` lets the public side fall two operations behind.

Fairness (`FairSpec`): while `sign` asks for nonces, each one comes at some time. The
default nonce function is a pseudorandom generator that is stepped once more for each
try (425-462, 491); a caller's own function that returned the same bad bytes for ever
would keep the loop going for ever. Nobody is obliged to call, and the function need
not give up.

| property | what would break it |
|---|---|
| `KeysStayPaired` | a failure on one side only, a key left half written or not cleared |
| `SignaturesVerify` | a signature of a wrong or invalid key, a failed one that verifies for anything |
| `SigningEnds` | a key and hash for which no nonce signs: an invalid key used as the 0 it is read as, for a hash that is 0 modulo the order |

### Proofs

`SecpKeysProofs` proves both invariants, for every group of prime order, every size of
the bytes and every lag: `KeysPaired` (`[]KeysStayPaired`) and `SigsVerify`
(`[]SignaturesVerify`). What is assumed is what the code relies on: numbers
below the order have inverses and a point and its opposite share their x
(`OrderAssumption`), x and the parity of y tell points apart (`CurveAssumption`), and
the bytes hold every scalar (`BytesAssumption`).

The invariant `Inv` says how the keys are apart: there is a sequence of keys that
begins with the public key, ends with the secret one, and of which each is what the next
operation in `todo` makes of the one before (`Paired`). A step on the secret side
extends it (`LeadsOn`), one on the public side shortens it (`LeadsFrom`). While a signature
stands, nothing is to be done, and it is correct for the key, be its s high or low
(`Good`); the loop of nonces keeps it by `SignatureMade`. The signature of a failed call
has a 0, with which no equation holds (`FailedVerifiesNowhere`). Of the equation itself
the proofs need that what is made with a nonce is correct (`MadeIsCorrect`), that so is its
opposite (`OppositeIsCorrect`), and that a 0 never is.

## EcdsaFlow: model and code

| variable | code |
|---|---|
| `heap` | allocated objects by address; `malloc` uses freed addresses again, and which one is left to a fixed choice among the free ones (`Address`) |
| `loc` | the pointers: locals of both functions, and the caller's (`kept_kinv`, `kept_r`, the signature) |
| `pc`, `req`, `ret` | the place in the call, the call, what it returned |
| `fault` | history: something was freed that was not allocated |

`CallSetup` to `SetupErr` are `ecdsa_sign_setup` (ecs_ossl.c:90-247) called by a caller or
by signing; `CallSign` to `EndSign` are `ecdsa_do_sign` (249-363); `Verify` is
`ECDSA_verify` with `ecdsa_do_verify` (ecs_vrf.c:86-112, ecs_ossl.c:365-478), which leaves the
heap as it was and is one step. A caller may give both values of a set-up, one or
none. Each stage can fail, with what was allocated by then.

### Runs `ecdsa` and `ecdsa_vrf`

The same curve; bytes of two bits, so that digests of up to three bytes lose a whole
byte and a bit. Signatures from -1 to 8 are verified, in their own encoding,
with octets after it, and in none.

| property | what would break it |
|---|---|
| `NothingLost` | a leak, a double free or a half-kept pair of values on any path |
| `SignaturesCorrect` | a wrong truncation, values mixed from two nonces, a nonce of another length |
| `VerdictsRight` | 1 for anything but a correct signature in its own octets, another answer than 0 to an incorrect one (-1 if its equation leads to infinity), than -1 to other octets or without memory |
| `CallsEnd` | a loop that goes round with the same values |

Fairness: weak of the steps of a call, which is straight-line code on one thread, and
strong of every nonce: a random number generator that is asked again and again
brings each one. Without the latter nothing ends a loop that draws bad nonces
for ever. Nobody is obliged to call.

`ecdsa_vrf` states the comment of `ECDSA_do_verify`, "0: incorrect signature, -1:
error", as a property of correct signatures: none gets a 0. If the method data cannot be
made the function returns 0 (ecs_vrf.c:74-76), and TLC shows that verdict for a correct
signature in its own octets. Whoever treats 0 and -1 alike does not notice.

### Proofs

`EcdsaFlowProofs` proves the three invariants for every group of prime order, key, width
of a byte and set of digests: `HeapKept` (`[]NothingLost`), `SignsCorrectly`
(`[]SignaturesCorrect`) and `VerifiesCorrectly` (`[]VerdictsRight`). The assumptions are
`OrderAssumption` and `KeyAssumption` (the key is below the order, digests are bytes).

The invariant `Inv` has six parts. `Owned` says that the pointers and the objects match one
to one, `Phase` which pointers each place in a call has filled, `~fault` that nothing
was freed twice; these need each other, and allocation (`Allocated`), freeing (`Freed`),
writing (`Written`) and handing over (`Moved`) keep them. That fresh addresses are free
and distinct is `FreshAddresses`, from counting what the pointers hold
(`EnoughFree`). `Nonces` says that the two values of a set-up are those of one nonce,
`Signed` what a sum or a returned signature is, `Asked` what is being
verified. Arithmetic enters in four lemmas: the nonce made longer is one bit longer than
the order and the same modulo it (`NonceFixed`), bytes dropped and bits shifted leave the
leading bits (`TruncatedIsLeading`), what the loop adds and multiplies is the s of the equation
(`SumIsS`), and the verdict is the equation's (`VerdictIsRight`), also where it leads to
infinity (`InfinitePoint`).

## What stays with TLC

Liveness (`CallsEnd` of both components, `CallReturns`, `SigningEnds`, `ChecksReturn`,
`NothingLeft`): the prover has no fairness or ENABLED.

`RoundsSuffice`, a part of `ResultIsInverse` of `ModInv`: that the batches of a call bring `g`
to 0. It is a computed bound on the moduli of the library, and false of other
constants. `DivstepsImplemented` and `InverseStored` take it as their hypothesis; that it can be met
with both algorithms, and tightly, is what the run `modinv` shows.

What a recursion computes needs induction, and the induction theorems of the library
take an operator, which the prover cannot instantiate. The proofs use instead: induction
as a fact about a set of numbers (`SetInduction`), the least number of a set
(`LeastNumber`), and functions with given values exhibited one value after another
(`Built`), by which a function defined through itself is shown to exist and to satisfy
its definition. Modules that are proved about use `Pow2` of `Powers` for `2 ^ n`, which has
no facts in the provers.

## Plan

Done: `Bridge` and its service, `ModInv` and its abstract algorithm, `MethodData` and
its cell, `BnCtx` and its frames, `EcPoint` and the curve's law, `EcMult`, `SecpKeys`
and `EcdsaFlow`; proofs of every safety property and refinement of all of them, those of
`ModInv`'s answer given that the batches suffice.

Next, in this order:

1. `MontCtx`: `BN_MONT_CTX_set_locked` (bn_mont.c:525-561), sharing the abstract cell of
   `MethodData`.
2. `MethodData` extended with `EC_KEY_copy` (ec_key.c:140-213) and `ECDSA_set_method`.

## Running

    tlc -workers 2 -config bridge_calls.cfg MCBridge
    tlc -workers 2 -config modinv.cfg MCModInv
    tlc -workers 2 -config methoddata.cfg MCMethodData
    tlc -workers 2 -config methoddata_live.cfg MCMethodData
    tlc -workers 2 -config bnctx.cfg BnCtxProps
    tlc -workers 2 -config ec_point.cfg MCEcPoint
    tlc -workers 2 -config ec_mult.cfg MCEcMult
    tlc -workers 2 -config secp.cfg MCSecpKeys
    tlc -workers 2 -config ecdsa.cfg MCEcdsaFlow
    tlapm Arithmetic.tla
    tlapm BridgeProofs.tla
    tlapm ModInvProofs.tla
    tlapm OpensslProofs.tla
    tlapm EcPointProofs.tla
    tlapm EcMultProofs.tla
    tlapm SecpKeysProofs.tla
    tlapm EcdsaFlowProofs.tla

`bridge_tostring.cfg` (module `MCBridge`), `bnctx_precompute.cfg` (`BnCtxProps`) and
`ecdsa_vrf.cfg` (`MCEcdsaFlow`) are expected to end in a violation.

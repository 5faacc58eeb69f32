# TLA+ models of the shader constant propagation pass, the Cabinet applet and the quad index shader

This directory holds TLA+ specifications of the parts of the repository that
have state and decisions worth checking, the TLC configurations that check
them, and `PROJECT.json`, which lists components, runs, mutants, the map from
definitions to source lines, findings and hazards.

Run a configuration with `tlc -workers 2 -config <run>.cfg <MC module>`.

## 1. The system

| Part | Source | State | Operations |
|---|---|---|---|
| Constant propagation pass | `src/shader_recompiler/ir_opt/constant_propagation_pass.cpp` | the IR program: instructions with opcode, arguments and flags; blocks as lists of instructions | `ConstantPropagationPass` walks the blocks in reverse post order and calls `ConstantPropagation` on every instruction; the dispatcher calls one folder per opcode (`FoldAdd`, `FoldISub32`, `FoldXmadMultiply`, `FoldBitCast`, ...) |
| Shader IR | not in `src/` | arena of instructions, values, use lists | `Arg`, `SetArg`, `ReplaceUsesWith`, `ReplaceOpcode`, `Resolve`, `InstRecursive`, `IREmitter` |
| Cabinet applet | `src/core/hle/service/am/applets/applet_cabinet.cpp` | `is_complete`, `nfp_device`, the start parameters, the broker's output queue | `Initialize`, `Execute`, `DisplayCompleted` (the frontend's callback), `Cancel` |
| NFP device, frontend, broker | not in `src/` | device state, held callbacks, pushed data | `StartDetection`, `Mount`, `Finalize`, the write operations; tag found or lost by the polling thread |
| Quad index compute shader | `src/video_core/host_shaders/vulkan_quad_indexed.comp` | the packed input index buffer, the output index buffer, the push constants | `main`: one invocation per quad returns early or stores six indices; the invocations of a dispatch run concurrently |
| Android input profile setting | `InputProfileSetting.kt` | none of its own | wrappers around native calls |
| CI and build scripts | `.ci/`, `CMakeModules/` | none | sequential scripts |

How the parts interact. The pass is a function of one program, run by one
thread; what makes it hard is that every fold reads instructions that earlier
folds have rewritten, that it inserts into the list it is iterating, and that
an exception can leave it half way. The applet is called by the AM service
(`Initialize`, `Execute`), by the frontend (the callback, possibly long after
`Execute` returned) and shares the device with the NFC polling thread, which
moves it between its states while `DisplayCompleted` reads that state three
times; `Cancel` and the end of `DisplayCompleted` release the device, set
`is_complete`, push the result and signal the state change in four unlocked
statements that the service thread can run between. The shader is run once for every quad of a draw, in work groups of
1024 the host rounds the dispatch up to, and all invocations store to one
buffer. The three parts do not call each other.

What the parts must guarantee:

* the pass: every instruction keeps its value; definitions stay before uses;
  one traversal reaches a fixed point; instructions with a pseudo-operation
  are not replaced; `LogicError` only for a malformed extract;
* the applet: one result per session; a cancelled session does not touch the
  tag; `Success` is reported for a change that was made; the device is
  acquired before it is used and released before the applet is complete;
  the result is pushed before the state change is signalled; an executed
  applet completes;
* the shader: no access outside a buffer, every quad turned into its two
  triangles for every index size, no store of one invocation over another's.

## 2. Modules

| Module | Models | Notes |
|---|---|---|
| `IR.tla` | the IR operations the pass calls | from the specification, since the classes are outside `src/`. An arena is a sequence of instructions and an instruction's identity is its index. `ReplaceUsesWith(inst, v)` turns the instruction into `Identity(v)`, which is how the IR redirects users; `Resolve` and `InstRecursive` look through identities. |
| `IRSemantics.tla` | the meaning of the opcodes | `Eval(ir, val, env)` evaluates a value in an environment of registers, predicates, constant buffer words and attributes. It is the reference the folds are compared with and is independent of the pass. |
| `ConstantPropagation.tla` | the pass | one operator per function of the source with the same name, the dispatcher as `ConstantPropagation`, the two loops as the actions `Visit*`, `ThrowLogicError`, `NextBlock`, `Return`. |
| `MCConstantPropagation.tla` | families of programs and environments | the inputs of the runs. |
| `Cabinet.tla` | the applet and its environment | `DisplayCompleted` and `Cancel` are sequences of actions, one for every statement that reads or writes what another thread writes or reads; the call of `Cancel` and its return go through a stack of lines. |
| `AppletSession.tla` | what the AM service relies on | the abstract session: `Acquire` the device, `Apply` a change through it, then `Release`, `Complete`, `Push` and `Signal` in this order. `Cabinet` instantiates it with a refinement mapping. |
| `MCCabinet.tla` | the modes | the four known modes and one unknown. |
| `QuadIndexed.tla` | the compute shader and its dispatch | `Return` and `StoreIndex` are the two things an invocation does; the definitions of `main` keep their names. |
| `MCQuadIndexed.tla` | the draws | index lists, index sizes, topologies and base vertices. |

### Correspondence for the pass

* Variables: `insts` (the arena), `blocks` (`post_order_blocks`, each block the
  list of its instructions), `bidx` and `ipos` (the two loop positions),
  `status` (`running`, `done`, `aborted`), `input` (the program as given; a
  history variable the properties compare with).
* One step is one iteration of the inner loop: the whole call of
  `ConstantPropagation` on the current instruction. The cursor then moves to
  the list successor of that instruction, wherever an insertion has moved it.
* Folders return the arena they leave (and the block, for `FoldAdd`, which can
  emit). A folder whose C++ closure runs into undefined behaviour returns the
  set of arenas the builds in use produce.
* Words are `WordBits` wide. The source has 32; the runs take 4, and the
  literal 16 of the XMAD idiom is `WordBits / 2`. All arithmetic wraps at
  `2^WordBits` (`2^(2*WordBits)` for the 64-bit opcodes), so overflow, the
  sign bit and the full-width shift are all reached with small numbers.
* Floats are codes `0..5`: zero, 1/2, 1, 2, infinity, NaN. Multiplication and
  reciprocal are exact on the codes and saturate as IEEE does. A half keeps
  the low `WordBits / 2` bits of a float.
* Undefined shifts (`x << 32`, `x >> 32`) are a choice between masking the
  count to the width and shifting everything out (`ShiftCounts`).

### Correspondence for the applet

* Variables: `applet_mode`, `is_complete`, `nfp_device` (`null` or the device
  state), `normal_out` and `signals` (the broker), `shown` (callbacks the
  frontend holds), `written` (a write operation reached a mounted tag),
  `executes` (bound), `stack` (the line `DisplayCompleted` or `Cancel` is
  at, followed by the line `Cancel` returns to; empty when neither runs) and
  `apply_changes` (the argument of `DisplayCompleted`).
* `Execute` has three outcomes and is three actions: `ExecuteComplete`,
  `ExecuteShow`, `ExecuteUnknown`. It is one step each time: it reads
  `is_complete` once, and `nfp_device`, `applet_mode` and the frontend are
  touched by no other thread at that moment. `Callback` is the frontend
  calling `DisplayCompleted(apply_changes, name)`.
* `DisplayCompleted` is ten actions named after what the statement does,
  with the line of the source on top of `stack`: `Declined` (105),
  `TagAbsent` (109, the left operand of `&&`), `TagNotMounted` (110, the
  right operand and the call of line 111), `MountNeeded` (114), `MountTag`
  (115), `ApplyChanges` (118, the switch), and the four statements `Cancel`
  (158, 163, 165, 166) and the final block (143, 148, 150, 151) have in
  common: `FinalizeDevice`, `SetComplete`, `PushResult`,
  `SignalStateChanged`. `Cancel` and `Completion` list these lines in the
  order of the source; `Onward` goes to the next one and, after the last,
  back to the caller. No statement returns early, as in the source.
* Threads. With a known mode `DisplayCompleted` runs on the frontend's thread
  and `Execute` can be called while it runs; with an unknown mode it runs
  inside `Execute`, so the service thread is busy until it is over
  (`ServiceThreadFree`). The polling thread (`TagArrives`, `TagLeaves`) runs
  between any two actions. A second callback does not start while one runs:
  this is assumed of the frontend, which runs its dialogs on one thread, and
  is not something lines 69-71 enforce.
* Environment actions: `TagArrives`, `TagLeaves`, `FrontendMounts`. The device
  operations are assumptions about `NfpDevice`: `Finalize` leaves the device
  `Unavailable`, `Mount` succeeds only from `TagFound`, the write operations
  succeed only on a mounted device.
* Failures. The applet drops the `Result` of every call it makes on the
  device (lines 77, 78, 115, 122-132, 143). `Failures` names the operations
  that may fail, and `Outcomes` gives a call both of its ends: a
  `StartDetection` that fails leaves the device `Initialized`, where no tag
  is ever found; a `Mount` that fails leaves the tag found and not mounted;
  a write that fails leaves the tag as it was. The applet takes the same
  path after either outcome, which is what the runs show of it.
* Refinement mapping to `AppletSession`: `held` is "the device exists and is
  not `Unavailable`", `complete` is `TransactionComplete`, `results` is
  `normal_out`; `signals` and `written` map to themselves. `ExecuteShow` and
  `ExecuteUnknown` on a null device are `Acquire`, a successful write is
  `Apply`, `FinalizeDevice`, `SetComplete`, `PushResult` and
  `SignalStateChanged` are `Release`, `Complete`, `Push` and `Signal`;
  everything else, the moves of the tag included, is a stuttering step of
  the session. The abstract session allows the state between `Complete` and
  `Push`, in which the applet is complete and the queue empty: a caller has
  to wait for the signal before it pops.

### Correspondence for the shader

* Variables: `draw` (the push constants `base_vertex`, `index_shift`,
  `is_strip` and the indices the host packed), `output_indexes`, `vertex` (the
  loop variable of every invocation, 6 when the invocation is over) and
  `faults` (loads and stores that fell outside a buffer).
* `input_indexes` is the index buffer as the shader sees it: words of
  `2^flipped_shift` indices, the first in the low bits. `Invocations` are the
  values of `gl_GlobalInvocationID.x` for a dispatch rounded up to whole work
  groups. Both are the host's side and are modelled as the environment.
* A `uint` has `WordBits = 16` bits and an index `WordBits / 4 * 2^index_shift`
  bits (4, 8, 16 for the source's 8, 16, 32), so that the three packings and
  the wrap of `index + base_vertex` exist with numbers TLC's integers hold.
* An access outside a buffer is not undefined in the model: a load gives 0, a
  store is dropped, and both are recorded in `faults`, which the run checks
  to be empty.

## 3. Runs

| Run | Inputs | Properties | Result |
|---|---|---|---|
| `cp_arith` | every program of two chained `IAdd32`/`ISub32` over a register (also RZ), two reads of constant buffer words and immediates 0, 5, −4; the same for `IAdd64` | `SemanticsPreserved`, `SecondPassChangesNothing` | pass |
| `cp_peephole` | two logical operations, a conditional branch and a select in a second block; cast chains; composites with two inserts; `FPMul32` that must not be contracted | `TypeOK`, `SemanticsPreserved`, `SecondPassChangesNothing`, `OnlyVisitedInstructionChanges` | pass |
| `cp_immediates` | all comparisons over the edges of the signed and unsigned range; bit field extracts for every shift and count from 0 to the width, also counts known only after a fold; additions with a carry; the XMAD idiom with each literal, factor and opcode also perturbed, factor a also reached through a folded `IAdd32(x, 0)` | `SemanticsPreserved`, `DefsPrecedeUses`, `PseudoOperationKeepsPrimary`, `AbortOnlyOnMalformedExtract` | pass |
| `cp_isub_swap` | `ISub32` whose second operand is an addition | `SemanticsPreserved` | violated |
| `cp_bitfield_ub` | extracts that shift by the full width | `SemanticsPreserved` | violated |
| `cp_float` | `x * a * (1/a)` over all float codes; unpack of pack | `SemanticsPreserved` | violated |
| `cp_pseudo_replaced` | a flagged `ISub32` of equal constant buffer words | `PseudoOperationKeepsPrimary` | violated |
| `cp_second_pass` | an addition that uses a flagged addition of immediates | `SecondPassChangesNothing` | violated |
| `cabinet` | every mode, three calls of `Execute`, the tag arriving, mounted and leaving between any two statements, `StartDetection`, `Mount` and the writes failing or not | `TypeOK`, `CancelledLeavesTag`, `Implements`, `ExecutedCompletes` | pass |
| `cabinet_results` | the same | `OneResult` | violated |
| `cabinet_success` | the same, `Mount` and the writes failing or not | `SuccessMeansApplied` | violated |
| `quad_indexed` | lists of 4, 6 and 12 indices and strips of 4, 5 and 8, three index sizes, index values counting up from 1 and down from the largest, base vertex 0, 1 and `2^WordBits - 1`, work groups of 2 | `TypeOK`, `AccessesInBounds`, `Triangulates`, `StoredOnce`, `BufferFilled` | pass |

### What the violations show

* **`cp_isub_swap`**: `FoldISub32` accepts the addition on either side and
  swaps its locals; `ISub32(c, IAdd32(X, c))`, which is `-X`, is replaced by
  `X`.
* **`cp_bitfield_ub`**: `BitFieldUExtract(base, 0, 32)` passes the range test
  and evaluates `1U << 32`; with the count masked, as x86 and AArch64 do, the
  result folded in is 0 instead of `base`. `BitFieldSExtract` with count 0
  shifts by 32 in the same way.
* **`cp_float`**: the cancellation `x * a * (1/a) -> x` changes the value for
  `a` zero, infinite or NaN and when `x * a` overflows; `Unpack(Pack(v)) -> v`
  skips the rounding to half precision. The first is a recorded trade-off.
  The witness of the second is the model's: a half keeps the low bits of
  the float code, so the codes of infinity and NaN are the ones that do not
  survive packing, where in IEEE half precision they would and values with
  more mantissa or exponent than a half holds would not. The fold is the
  same; only the value that shows it differs.
* **`cp_pseudo_replaced`**: only `FoldWhenAllImmediates` and `FoldAdd` test for
  a pseudo-operation; the other folders replace flagged instructions.
* **`cp_second_pass`**: `IAdd32(5, t)` with `t = IAdd32(0, 0)` flagged becomes
  `IAdd32(0, 5)` and stays; a second traversal folds it to 5.
* **`cabinet_results`**: a declined dialog pushes `Cancel`, `Cancel`,
  `Success`, because `DisplayCompleted` does not return after `Cancel()`.
  `CancelledLeavesTag` holds all the same, and only because `Cancel` finalizes
  the device: the operation that runs afterwards fails on it.
* **`cabinet_success`**: the shortest behaviour is a dialog that is accepted
  while the device is still searching; the tag arrives between lines 105 and
  109, the test for a tag passes, line 114 skips `Mount` because the state is
  `TagFound`, the write operation fails on the unmounted tag, and `Success`
  is pushed. The test of line 114 mounts exactly when mounting cannot
  succeed; a change is applied only when the frontend mounted the tag itself
  and the tag stays until the switch. With the test of line 114 put right
  the property would still fail where `Mount` or the write fails, because
  their `Result`s are dropped as well.

### Mutants

Every property of a passing run is paired in `PROJECT.json` with a variant of
a mapped definition (defined just before it, `Variant:` in its comment) that
makes the property fail: comparing only the binding in `equal_cbuf`, skipping
an instruction after a fold, appending the emitted multiply to the block,
walking blocks in post order, a `Finalize` that is skipped, a `Cancel`
that signals before it pushes, a final block that never sets `is_complete`, a bound test that lets the
invocation after the last quad run, or that stops the one of the last quad, a bit offset counted in indices, an
output laid out four to a quad, and so on.

## 4. Bounds and why they are enough

* `WordBits = 4`. The folds depend on the width only through wrap-around, the
  sign bit, the half width and the shift range, all of which exist at 4 bits.
* Programs have at most ten instructions and two blocks. Every fold looks at
  most three producers deep (XMAD: add, shift, multiply, extract); the
  families build that depth, plus one instruction that is folded first so
  that patterns are also met through an `Identity`.
* Environments give every source two or more values that tell the operands
  apart (for XMAD: four register values and two constant buffer values).
* `MaxExecute = 3` calls of `Execute`: two are needed for a callback to arrive
  after completion, the third shows nothing new happens.
* `Failures` is every operation in `cabinet` and `cabinet_results`, so that
  what holds, holds of a device that fails at any call; in `cabinet_success`
  it leaves out `StartDetection`, after whose failure no tag is found and
  `Success` is never pushed first.
* The shader: `LocalSize = 2` with draws of one and three quads gives
  dispatches with and without invocations past the last quad. Three quads
  put indices in every position of a word for all three index sizes, and a
  strip of 5 indices and a list of 6 leave indices no quad uses. `WordBits =
  16` is the smallest width that keeps the three index sizes apart.

## 5. Fairness

* The pass has no fairness and no liveness property. It is two range-`for`
  loops over lists that only `FoldXmadMultiply` grows, by one instruction
  placed behind the iterator; that it ends is not in question, and what the
  runs check of it are invariants and one action property.
* The applet: `WF_vars(Callback)`, the contract of the frontend that a dialog
  that was shown answers, and `WF_vars(DisplayCompleted)`: a thread inside
  `DisplayCompleted` runs straight code without a wait. Nothing is assumed of
  the tag or of the caller.
* The shader: `WF_vars(Next)`. A dispatch runs every invocation it starts
  to its end, and the loop waits for nothing; with finitely many iterations
  in all, taking one while one is left is enough for every invocation to
  finish, in whatever order the device schedules them. `BufferFilled` is
  checked under it, and with it `Triangulates` is known to speak of states
  that are reached.

Deadlock checking is off for the pass, which ends in `done` or `aborted`, and
for the shader, whose dispatch ends. It is on for the applet, where `Execute`
can always be called again.

## 6. Not modelled

* The IR's use lists and reference counts (replaced by the `Identity` view).
* Opcodes the dispatcher does not handle, except as unchanged instructions.
* The bytes of the applet's parameters and results, logging, the Mii manager.
* `GetStatus`, which returns a constant, and `ExecuteInteractive`, which only
  asserts.
* The lifetime of the applet: the callback captures `this`, and what a
  callback does after the AM service destroyed the applet is outside the
  model, as the applet manager is outside `src/`.
* What `NfpDevice` does inside `Mount`, `Finalize` and the write operations,
  beyond the state it leaves.
* The host code that packs the index buffer and sizes the dispatch; the
  driver's handling of an access outside a buffer.
* `InputProfileSetting.kt`: every method is one call of a native function
  and the class has no field besides the player index.
* The CI and build scripts.

## 7. What a further development would take up

1. The pass: programs with loops of blocks, `SelectF32` and 64-bit selects,
   and composites of four lanes. The folds of these opcodes are modelled and
   mapped; the families of `MCConstantPropagation` reach them with two
   blocks and two lanes.
2. The start parameters of the applet as a queue of the broker, with
   `Initialize` called before the caller pushed them. The caller and the
   broker are outside `src/`, so the order in which they act would be an
   assumption of the model and not a translation of code.

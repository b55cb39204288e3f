# A TLA+ model of arrow-abi-doctor

arrow-abi-doctor tests implementations of the Arrow C Data and C Stream
Interfaces. A *case* (an `.abicase` file) describes a schema, an array and a
sequence of calls. A *worker* process reconstructs the case as real C
structures, hands them to a consumer (an engine such as DuckDB or Arrow C++)
while an *observer* logs every hand-over, move and release, and a *judge* reads
the log and says what the consumer did wrong. A *coordinator* runs one worker
process per consumer, supervises it and merges what it wrote; tools compare the
results.

The project models the parts whose behaviour is hard to test: the order of
calls, hand-overs and releases between three parties that do not trust each
other; what is left after a sequence stops half-way or memory runs out; whether
the judge's verdict, the coordinator's attribution and the differential report
are right about what happened; whether a case survives its file format, and its
data the trip through a consumer; and whether the corpus can tell a consumer that
loses an offset from one that does not.

## Inventory

| Part | State it keeps | Operations | Interacts with | What is hard | What makes it correct |
|---|---|---|---|---|---|
| Judge `libabi/src/lifecycle.c` | one machine per structure kind | `abi_lifecycle_verify` | reads the observer's log | three machines for any number of structures; unlogged moves; truncated logs | the verdict names what happened, and nobody innocent |
| Reconstruction `libabi/src/reconstruct.c` | exported structures, release callbacks, backing buffers, event log, release depth | build, release callbacks, stream callbacks, moves, notes, harness release, free | called by the executor and, through the callbacks, by the consumer | re-entrant releases, ownership that changes hands inside a call, out of memory half-way | every structure released once, buffers outlive their array, log complete |
| Executor `libabi/src/callseq.c` | where structures live, what was handed over, last stream answer | one per op, early stop, cleanup | calls the consumer; notes events | refusals that release or hand back; early stops; pointers that outlive what they point to | the cleanup reaches everything; nobody is blamed for what it was not let do |
| Consumers `adapters/*/`, `refval/` | pointers, storage of their own | ten callbacks | call release callbacks and stream callbacks | each engine's ownership conventions differ | release what they took, once |
| Worker `adapters/common/worker.c` | results file, current case, the two digests of a case | read list, run case, digest what goes and what comes back, write header and result lines | coordinator, by files and exit status | dies at any point; a line may be torn | every line written is flushed; digests compared only where a layout is declared as it is |
| Faulty worker `adapters/faulty/` | - | dies, exits, hangs, is silent, or hands offsets back as zero | as a worker | - | each fault is found by what it is meant for |
| Coordinator `coordinator/src/` | child processes, results per worker | spawn, poll, kill at timeout, classify, collect | worker processes, files | timeout against exit; crash in the middle of a line; stale files | every case gets one status; the suspect is the case that killed the worker |
| Differential report `tools/diff_report.py` | run report, results read again, corpus manifest, documented limits | judge a line, state of a cell, claims, check against what is expected | coordinator's output | two readers of one file; rows that overlap; torn input | a claim is earned, a crash is the worker's, a pass is complete |
| Case format `validate.c`, `encode.c`, `decode.c`, `case.c`, `bytes.c`, `arena.c` | the tree, cursors, budgets | validate, encode, decode | everything that reads cases | limits that differ between the three; 64-bit arithmetic | what encodes decodes to the same case |
| Digest `digest.c`, `sha256.c` | hash state, window of the walk | logical and physical digest of a schema and array | workers | slices of slices, NULL bitmaps, both zeros, NaNs; pieces that straddle blocks | digests agree exactly when the values do, and what lies under NULL struct slots; nothing outside a buffer is read |
| Fill `fill.c` | - | chooses the encoding of a payload, reads one back | encoder, decoder | ties between encodings; counts at their limits | one form for each payload |
| Python adapter `adapters/dataprof/` | case object, capsules outstanding, the session of a case | load, move, export as capsules, run a script, drop, clean up, judge | a Python package; the report, by result lines | references nobody sees; exceptions anywhere; destructors after the result | a reconstruction outlives its capsules; what a consumer broke is never called agreement |
| Corpus generators `tools/gen_corpus.c`, `tools/gen_b1.c`, model `tools/coverage_matrix.py` | ids seen so far | enumerate tuples, build a case per line, write it; write the broken cases and their manifest | everything that runs cases | seven dimensions meeting in one case | every cell's case is sound, is its own, and shows what it is there to show |
| Checkers, command line | - | print, compare (`abicase verify` apart, which `CaseFile` has) | files | - | - |

## Modules

`Lifecycle.tla` is the judge as a pure definition: `MachineOf` is the state of a
kind's machine after each prefix of a log, one predicate per rule says whether an
event breaks it, and `Verify` is the verdict, a set of findings. The C code's
`else if` chain is the disjointness of the predicates.

`Reconstruction.tla` is the producer: `place` says where the live copy of each
structure is (`home`, the reconstruction's own address; `exec`, storage a
MOVE_STRUCT allocated; `own`, storage of the consumer's), `kids` which nodes under
the array still have a release callback, `buffers` whether the backing
allocations exist, `log`/`dropped` the observer. `Walk` is the sequence of events
the release callbacks write, nested as the C functions nest. Three history
variables hold what no C variable holds: who must release each structure, where
it was handed over, and what really went wrong (`sins`); properties compare the
verdict with them.

`Consumers.tla` gives each callback of each shipped worker as a set of
behaviours: the acts it performs in order, whether it refuses, what it remembers.
What a library decides (does this parse, is this valid) is a choice. Two free
consumers stand for any engine: `keeper` releases whatever it holds whenever a
callback runs, `mover` also moves it into storage of its own without telling.

`Callseq.tla` composes them: the executor's ops and its cleanup
(`abi_callseq_run`), then `abi_reconstruction_release_all`, the verdict, the
report and the end of the consumer object (`abi_worker_run_case`, the workers'
loops). Everything is one thread, so control is a program counter: `op`,
`callback` (with the acts still to perform), `handed` (a stream just handed over,
its op still to run), `sweep`, `judged`, `freed`, `gone` or `crashed`. A callback
runs act by act, so every state between two acts is one the properties see.

| Code | Model |
|---|---|
| `Exec.schema/array` (addresses) | `at` |
| `Exec.*_imported` | `handed` |
| `Exec.got_next`, `last_eof` | `gotNext`, `lastEof` |
| `AbiCallseqResult.outcome`, `executed` | `outcome`, `executed` |
| `s->release != NULL` | `IsLive(s)` |
| `AbiReconstruction.has_array`, `stream_mode` | `array`, `stream` |
| `obs.release_depth`, `harness_releasing` | arguments of the walks |
| a call through a NULL pointer | `Crash` |

`Ownership.tla` is the protocol all of this serves: exported, handed over,
perhaps handed back, released once. `Callseq` implements it; the refinement maps
each kind's stage to what the log says (`Stages`).

`Collection.tla` is the reading of a results file as a pure definition
(`collect()` in `run.rs` and the verdict of the summary): which lines count, which
cases are left open (`Holes`), which one is the `Suspect`, and one disjunct of
`Broken` per protocol error. A line is its kind (header, result, an object without
a case, a torn line), its case and status, and whether its characters are whole.

`WorkerProcess.tla` is a worker as the coordinator can know it: it reads the list,
truncates its results file, writes a header and a line per case, and may exit or
die anywhere, because a consumer runs inside it. Long lines reach the file in
pieces (`Spill`), as stdio's buffer makes them. A *shipped* worker is one whose
main() is in `adapters/`; an *alien* one writes any line it likes.

`Coordinator.tla` composes it with `Run::execute()` and `supervise()`: one worker
at a time, poll, clock, kill, wait, collect, publish. Between any two of the
coordinator's steps the worker may move, the clock may run out and a kill may take
effect. The phase is the coordinator's program counter.

| Code | Model |
|---|---|
| `assigned`, `config.workers` | `assigned`, `crew` |
| `<name>.results.jsonl` of each name | `files` |
| `child.try_wait()` | `pc = "ended"`, `fate`; when it fails, phase `abandoned`, in which the worker goes on |
| `started.elapsed() >= timeout` | `expired` |
| `child.kill()`, not yet delivered | `killed` and `Alive` |
| `Supervised.termination` | `term` |
| `workers` of the run report | `reports` |
| what a worker really did | `opened`, `wrote`, `past` (history) |

`Accounting.tla` is what a run promises: one worker at a time, an answer once given
is never lost, a closed account never changes. `Coordinator` implements it for a
directory used for the first time, workers of different names and whole characters.

`DiffReport.tla` is `classify()` as a pure definition: a result line, the cell it
is for and the documented limits give an agreement, a disagreement, a defect or a
crash. `RunReport.tla` extends `Coordinator` with `build()` and `check_expected()`:
it reads run.json (`reports`) and the results files (`files`) once more, and says
which report raises, what state each cell has, what may be claimed and what passes.
It adds definitions and properties and no action, because the tool runs when the
run is over.

| Code (`diff_report.py`) | Model |
|---|---|
| `load_run()` raising on a line it cannot parse | `Raises`, `Loaded` |
| rows of one consumer, later ones replacing earlier ones | `RowsIn`, `Answer` |
| the state of a cell in `build()` | `CellState` |
| `N/N` of the summary | `Claimable` |
| `--expect` with an empty table | `AsExpected` |

`Construct.tla` is the life of a reconstruction before its first call: the plan of
its requests in the order `build_backing()`, `build_schema()` and `build_array()`
make them, `at` how many have been served, `heap` what is allocated, and the
undoing (`Undo`) of one that fails at any of them, block by block.

`PyWorker.tla` composes it with `run_case()` and the case object of
`abicase_py.c`. `Reconstruction`'s entry points are the same C functions; what is
new is who calls them. A consumer may import, discard, release, read the stream,
throw or crash in any order inside a call, and on its way out keep references in
places dropping its objects does not reach (`hidden`).

| Code (`abi_worker.py`, `abicase_py.c`) | Model |
|---|---|
| `CaseObject.capsules_outstanding` | `counted`; the capsules themselves are `capsules` |
| references to the case object, its deallocation | `refs`, `freed` |
| `Session` | `ses`; the call it is in is `call` |
| `run_case()`'s place: load, refusal, ops, drop, collect, judge, `del` | `phase` |
| the result line | `line` |

`Status.tla` is the code's chain of early returns, `Fill.tla` the payload encodings,
`Arena.tla` the bump allocator. `CaseFormat.tla` builds on them: a case as two
trees, a list of allocations and a list of ops; `abi_case_validate()`, the encoder
and the decoder with its budgets, each a sequence of checks of which the first that
fails decides. A tree is the sequence of its nodes in visiting order with their
depths, a file is sections of tokens. `CaseFile.tla` is a case's way: the builder
calls of `case.c` one at a time with their refusals (`AddBuffer`,
`DeclareSchemaChildren`, ...), `WriteFile`, one alteration by somebody else
(`Alter`) and `ReadFile`.

| Code | Model |
|---|---|
| `AbiCase` under construction | `made` |
| the bytes of the file | `file` (tokens in sections) |
| `AbiReader`, `AbiDecoder` budgets | the folds of the decoder's operators |
| `AbiArena` while decoding | `DecArena(result.case)` |

`Sha256.tla` is the block buffering and the padding, with the compression function
taken to tell every two inputs apart: the hash's state is the bytes compressed so
far. `Digest.tla` is the walk of `digest.c` and what it feeds to the two hashes.
`Transport.tla` is the worker's use of it: digest what is sent, let a consumer hand
back anything, or drop the offsets as the faulty worker does, digest that, compare.
`ValuesOf` is the reference: an array's values without its layout, none under a NULL
slot; `BelowNulls` is what a struct's children hold under its NULL slots all the same. `Corpus.tla`
extends it with the generator: `Model` is the set of cells
`coverage_matrix.py` accepts, `BuildCase` what `gen_corpus.c` makes of one, `Emit`
its loop with the check against doubles, and `Deliver` gives the case of a cell to
the faulty worker, which is what `check_digest_divergence.py` does. `BrokenCases.tla` is the other generator,
`gen_b1.c`: one operator per broken case, the table that says which clause each
breaks and what is expected of a worker, the loop that writes case and manifest row,
and the check that gives them to the workers (`check_b1.py`).

| Code | Model |
|---|---|
| the two digests of a result line | `sentDigest`, `gotDigest` |
| the `ArrowArray` handed over, the one that comes back | `sent`, `received` |
| the generator's lines, the ids it has written | `lines`, `seen` |

`MCCallseq`, `MCCoordinator`, `MCCaseFile`, `MCTransport` and `MCAdapter` instantiate
the five compositions for TLC. `ReconstructionProofs`, `CallseqProofs`,
`ShippedProofs`, `CoordinatorProofs`, `AttributionProofs`, `RunReportProofs`,
`Sha256Proofs` and `PyWorkerProofs` hold the theorems.

## Runs

| Run | Question | Result |
|---|---|---|
| `callseq_shipped` | every sequence of at most five ops, a case with or without array, stream, child and dictionary, the four shipped workers | holds, 47,289 states |
| `callseq_free` | sequences of at most four ops, also the two free consumers, `get_schema` may run out of memory | holds, 724,003 states |
| `callseq_late_owner` | is the log read after every owner is gone? | no: arrow-cpp's objects outlive the verdict |
| `callseq_unasked` | is a consumer that was never asked to release never said to have failed to? | no: an accepted sequence without RELEASE_BASE |
| `callseq_misuse` | is RELEASE_CHILD always safe to perform? | no: after RELEASE_BASE it kills the worker |
| `coordinator` | runs of one or two workers over one or two cases, in a fresh or a used directory, every death, hang, torn line and failing call of the coordinator; and what the differential report makes of it | holds, 526,799 states |
| `coordinator_stale` | is a worker that never wrote reported with no result? | no: in a used directory it inherits the earlier run's |
| `coordinator_cut` | is the case a worker died on always named? | no: one cut character empties the file and the first case is named |
| `casefile` | every case of at most five builder calls, written, altered in one place and read | holds, 568,857 states |
| `casefile_budget` | does the decoder read everything the encoder writes? | no: views are counted per node by one and per tree by the other |
| `transport` | every pair of small arrays through the digests; every cell of the bounded model through the generator and the worker that drops offsets | holds, 163,396 states |
| `adapter` | one case in the Python worker, built with memory ending anywhere, under a consumer that does as it likes, judged against every cell and limit | holds, 480,109 states |

What the passing runs show:

- `VerdictExact`: for a complete log, and sequences that ask a stream for one
  schema, the verdict is exactly the set of things that went wrong. With two
  schemas alive at once it is not (one machine judges both), which the comment in
  `lifecycle.h:82-84` concedes; the restriction is in the property, not the model.
- `InnocentNotBlamed`: a shipped worker that was asked to let go after the last
  thing it was given, or whose sequence stopped early, is blamed for nothing but a
  child it was told to release.
- `SweepIsComplete`: at the verdict nothing is left where the harness could still
  release it, wherever the sequence stopped and whatever was moved.
- `BuffersOutliveArray`: a live array has its buffers until the cleanup ends.
- `CrashExplained`: the worker dies of a shipped consumer only by using what it
  was given after a release the sequence asked for, or, once the case is reported,
  of something the verdict had already named.
- `FollowsProtocol`: the log of every run is a behaviour of `Ownership`.
- `CountedExactly`: a report holds exactly the lines its worker completed, whatever
  an earlier run left in the file and wherever the worker died.
- `SuspectWasNext`: a shipped worker that is destroyed has the case it was on named
  (the next one, if it dies between two; none, if it had answered all of them).
- `BlameDeserved`: protocol errors of a shipped worker mean that it exited with 0
  before it was done; a torn line is never held against it.
- `OkIsComplete`: the summary's ok hides no open, doubled or unknown answer, of
  alien workers too.
- `ArtifactsAgree`: the files left in the directory give the report again, so no
  worker wrote after it was collected.
- `RunEnds`: a worker that hangs does not hang the run.
- `FollowsAccounting`: the run implements `Accounting`.
- `ClaimIsEarned`: "N/N" is claimed only of a worker that answered every cell in
  this run, none with an error, and said nothing of a case outside the manifest.
- `CrashIsDeserved`: a crash is filed against the case a shipped worker would have
  done next. The exception, a worker that never opened its file, is in the property.
- `PassIsComplete`: what passes with nothing allowed has an answer to every cell from
  every worker that opened its file. (The worker may have been destroyed after its
  last answer: nothing in the report says so.)
- `LostOnlyToDeath`: the differential report of shipped workers that opened their
  files is lost only to one destroyed in the middle of a line, which the coordinator
  has forgiven.
- `Canonical`: whatever wrote it, a file the decoder accepts is the one this encoder
  writes for what it holds, so `abicase verify` never finds it different. A file has one form, so equal cases have equal ids.
- `RoundTrip`: what is written is read back as it was, except past the decoder's
  budget of views (`casefile_budget`).
- `Buildable`: every view of an accepted case lies in its block, and in the classes
  whose counts are kept the two trees have one shape and every declared slot.
- `ArenaSound`: the blocks a decoded case lives in are disjoint, aligned and whole.
- `LogicalExact`: the logical digests agree exactly when the types, lengths,
  validity and values do: both zeros are one, and all NaNs, and neither the bytes of
  a null slot nor what is outside the window count. One exception is stated in it,
  against `docs/digest.md` §2: what a struct's children hold under its NULL slots
  must agree too (`BelowNulls`), because `dig_node()` walks them there as elsewhere.
- `PhysicalIsFiner`: where the layouts are said to agree the data does.
- `ReadsInside`: the walk never leaves a buffer that is as long as its own array
  says, sliced children and children shorter than their parent's window included.
- `HashedWhole`: pieces of any length hash as their concatenation, padded as FIPS
  180-4 says.
- `CellsDistinct`: no two cells build one case, though the cell is not in it.
- `CasesSound`: every case's buffers are long enough, inside their blocks, apart and
  placed as the cell says, and the digest finds nothing wrong.
- `OffsetVisible`: the digest sees the dropped offset in every cell that has one,
  except where there are no elements, and for a single valid boolean (its value is
  that of the slot below it). The property is an equivalence, so it also says that
  nothing is seen where nothing was dropped.
- `ManifestTrue`: every case written by hand breaks the clause its manifest row names
  and no other; it is to be refused at the level that can see it, and is not judged if
  none can.
- `CleanupExact`: a reconstruction that ran out of memory gives back every block
  once, except the array's when that is half-built; without a table of blocks it
  crashes. Those two are what the code does (see Divergences).
- `CapsuleKeepsCase`: while a capsule lives the case object and its reconstruction do.
- `VerdictDeserved`: a defect is reported only of a consumer that did something.
- `SinsSurface`: what it broke or kept is never reported as an agreement.
- `LateReleaseAnnounced`: a worker that dies of a structure released after its case
  was freed had reported that case as something other than an agreement.
- `HandedOver`: an accepted case that was to hand something over did.

The conditions in these properties (whole characters, the file opened, names that
differ, a list without repetition) are the places where the code gives no such
promise; `coordinator_cut`, `coordinator_stale` and the hazards of `PROJECT.json` say what happens
without the first two.

Bounds. Five ops reach every pair of states two ops can be in plus an import, a
release and what follows; every rule of the judge but `imported-out-of-order`
(which the executor's own guards exclude) is reached within four. Two schemas
show what one machine does with two structures. A log of 16 events is overflowed
by some five-op sequences, so truncation is exercised; ABI_MAX_EVENTS is larger,
and nothing but the comparison with it uses its value. The nodes of an array are
two children and a dictionary, because array_release() visits those three kinds
and no op reaches deeper. `KidSets` takes the array without nodes and one with a
child and a dictionary.

In `coordinator`, a file left by an earlier run is missing, complete, or complete and
torn at its end. `MCCorpora` are the manifest of the list, one with a cell nothing
could be built for, one that lacks a listed case, and one with a case that is no cell.

The limits of the case format are scaled so that a few calls pass each of them: a
count word of one byte (`Word`), patterns of at most two bytes, chunks of four,
blocks of six, trees of two nodes and depth one, one allocation, one op. What the
code compares is compared, at these values. The four payloads of `MCPayloads` make
each encoding win and make two of them tie; the spans fit one block exactly and
another not. Five calls build two nodes with two views, or an allocation with one
view of it and an op. The alteration is one: a field, an element dropped, doubled or
swapped, a section likewise, each sealed by a writer who computes the content hash,
or a byte changed under a seal that tells.

The digest's run has bytes of two bits, blocks of eight bytes, float64 of four bits
(a sign, an exponent, two bits of mantissa: two zeros, two infinities, six NaNs) and
arrays of at most two elements under offset 0 or 1: bitmaps then end inside a byte
and messages inside a block, at its end and after it. The classes of the bounded
model keep their relation to the scaled byte (`MCLengths`, `MCOffsets`: nothing, one,
a byte less one, a byte, a byte and one). The generator's values are those of the
code, float64 apart; `CellsDistinct`, `CasesSound` and `OffsetVisible` range over
every accepted tuple of the seven dimensions. The broken cases are the code's, with
2^31 - 1 scaled to `Int32Max` = 5 and the far offset of 50 to `FarOffset` = 9: both are
still past everything a worker can see in them.

The adapter's run has two cases (all a node may ask for and a child below a child; a
schema alone with no blocks), fourteen scripts with every step and the pairs of steps
that meet each other, and both packages. A log of twelve events overflows. One schema
is enough there, since the reader asks for one.

`casefile`, `transport` and `adapter` have no deadlock check: a case that was read,
compared or reported is at its end, and so is a dead worker.

The coordinator's runs take five setups (`MCSetups`): two shipped workers and two
cases; two workers of one name; one whose text may be cut; a case listed twice; an
alien worker. Two workers show what one leaves to the next, two cases a hole before
and after an answer. An alien worker writes at most `MaxLines` = 4 lines: a header, a
result, its double and a torn line, in every order.

Only the coordinator waits for anything, so only its runs state fairness; the others
are one thread that runs to its end. The coordinator's specification is fair to three
actions: `Supervisor` (the coordinator's own loop, which only sleeps 20 ms at a time),
`Clock` (time passes) and `KilledDies` (SIGKILL cannot be refused; until it takes
effect the worker may still move). Nothing is asked of the worker, which may hang.
`Stopped` stands for a worker, or a run, that is done, so deadlock is checked.

## Proofs

For every number of ops and schemas, every capacity of the log, every set of
consumers and nodes (assumptions: `MaxSchemas`, `MaxOps` positive, `MaxEvents` at
least the two events a new case writes, `MayRunOut` Boolean, consumers and nodes
among those defined):

- `TypeCorrect` (`TypeOK`). `ReconstructionProofs` shows that each entry point
  writes only events the judge can read and keeps the log within its capacity;
  `CallseqProofs` shows that each table of behaviours is well formed, and one
  lemma per group of actions lifts it. `TypeInv` strengthens `TypeOK` with
  `UnderWay`: an op in progress is within the sequence, and what waits after a
  stream's hand-over is a stream op.
- `SweepCompletes` (`SweepIsComplete`). `SweepInv` says where structures can be
  (`Whereabouts`: the executor's pointers lead to one place at a time and
  everything live is there or the consumer's; a stream case never leaves home) and
  how far the cleanup has got (`Swept`). The invariant is needed because the
  property speaks only of the end: nothing before it would rule out a structure
  that the six cleanup steps, which look at four addresses, miss. Every step but
  MOVE_STRUCT only takes structures away from where the harness can reach
  (`Departs`), which one lemma per action shows.
- `BuffersKept` (`BuffersOutliveArray`). No step brings a dead array back, and one
  that frees the buffers has ended the array (`ArrayKept`).
- `VerdictsAreExact` (`VerdictExact`): the judge, who sees only the log, says exactly
  what went wrong. A verdict is defined over whole logs and the proof goes step by
  step, so the last part of `ReconstructionProofs` first shows what one more event adds:
  `MachineOf` is one step of `After` further (`MachineRuns`, `MachinePrefix`; the machine
  over a log is a choice of a run, and `RunsAgree` shows by the least difference that
  there is one run), the findings of a log and its continuation are those of the log and
  those of the continuation (`FoundConcat`), and what a release writes is quiet but for
  one event (`WalkTells`). `ExactInv` has three parts. `ShapeInv` says which structures a
  case has. `GivenInv` says that a consumer uses only what it was handed, and that what
  was not handed over is where the harness thinks it is; without it a shipped consumer
  could release what it never had, which no table of `Consumers` allows but no property
  forbids. `HeardInv` compares: as long as no event was dropped, each kind's machine is
  in the state its structure is in, at the address the judge would compare with, and the
  findings so far are the history `sins` as the judge counts them. One lemma for each
  way a step touches the log (`RecStep`) carries it; at the verdict, what the cleanup did
  not reach is what was never released.

And where memory does not run out (`~MayRunOut`), as in the run that checks them:

- `LogsFollowProtocol` (`FollowsProtocol`): the log of a run that dropped no event is a
  behaviour of `Ownership`, whatever the consumer does. `AnnouncedInv` says that the
  stage the log leaves each kind in is the one its structure is in, and one lemma for
  each way an event is written (`ImportTold`, `ReturnedTold` and their neighbours in
  `ReconstructionProofs`) shows it to be a step of the protocol. Both hypotheses are
  needed: a schema `get_schema()` left half-built is released without having been
  announced, and a log that lost an event shows a release of what it never saw handed
  over.
- `InnocentStays` (`InnocentNotBlamed`) and `CrashesAreExplained` (`CrashExplained`), in
  `ShippedProofs`, for the four shipped workers. `ExactInv` turns a verdict into a
  statement about the history; what is left is that each table of behaviours lets go of
  what it was given. `ShipInv` says so at every act of a callback: what the consumer
  stores is its own (`Ownings`), what it was handed it remembers (`Remembers`), between
  two ops it can still reach all it has (`Holds`), inside RELEASE_BASE the rest of the
  script releases it (`LetsGo`), in any other callback what it owns it releases next,
  can reach later or hands back (`Answers`), and if it dies, it dies in one of two ways
  (`Dies`). A script is taken as the set of its acts, and the lemmas on the tables
  (`ImportScripts`, `LetGoScript`, `CallScripts`) are the only place where the four
  consumers differ. `SinsInv` and `FoundInv` carry the verdict itself: until a sequence
  ends without having asked for a release, nothing but the child it was told to release
  is against the consumer, in the history or in the log. `FoundInv` follows the log on
  its own because a stream's several schemas share one machine, where `VerdictExact`
  says nothing. Memory is assumed not to run out because a half-built schema that a
  consumer rightly releases is heard as released before it was handed over, and blamed
  on it; one it keeps is never heard of, though it can take the worker down.

For every set of cases, every list and crew, whatever was left in the files and
whatever alien workers write (assumptions: a run has at least one case and one
worker, as `real_main()` demands, and files are sequences of lines):

- `CoordinatorTyped` (`TypeOK`), strengthened with: a process that has ended has a
  fate try_wait() can return.
- `OkNeverHidesACase` (`OkIsComplete`). `OkMeansComplete`
  shows it of `Collect` itself: without doubles the answers are as many as their
  cases (a bijection), and the three counts add up to them because no status is
  unknown. The theorem lifts it over the reports of a run.
- `ReportsAreExact` (`CountedExactly`). `FileInv` says what a worker's file holds:
  exactly the completed lines once it is open, then at most one torn line; while
  `pc` is at a place where more is written it is exactly the completed lines. The
  invariant is needed because the property compares the file at collection with a
  history of all the writes. `TornAddsNothing` shows the torn line counts nowhere.
- `FilesGiveTheReports` (`ArtifactsAgree`), for workers with names of their own.
  `TurnInv` says whose turn it is: a live process means that the coordinator is
  polling or waiting, or has abandoned the run, and there are as many reports as finished workers. Without it
  a killed worker that writes on after `wait()` cannot be excluded.
- `TheRightCaseIsNamed` (`SuspectWasNext`) and `NoOneIsBlamedForDying`
  (`BlameDeserved`), for lists without repetition and whole characters. `ShippedInv`
  says what a shipped worker has completed at each place of its loop: a header, then
  the answers of the first cases of the list in order. `TermInv` ties the termination
  the coordinator noted to the way the process ended. From these, `OpenFromNext`
  shows that the open cases are those from the next one on, and
  `InnocentLines` goes through the protocol errors one by one. `FairInv` carries both
  over the reports already made, whose files and histories no longer change.
- `OnlyDeathLosesTheReport` (`LostOnlyToDeath`). `LeftInv` says what each file still
  holds when the run is over: whole lines, torn only at the end and only by a worker
  that was destroyed. Files are read a second time here, so the invariant must last
  past the collection; `FilesGiveTheReports` says they are the files that were
  collected.
- `ARunKeepsItsAccounts` (`FollowsAccounting`): the initial states are
  `Accounting`'s, and every step is one of its steps or leaves what it speaks of alone.
  `AccountsInv` ties the abstract open account to the file of the worker whose turn it is.
- `ClaimsAreEarned`, `PassesAreComplete`, `CrashesAreDeserved`, for every corpus,
  manifest and table of limits. The first row of `classify()` that applies is a minimum
  over a set of rules, which `RunReportProofs` first turns into the rule itself; a claim
  then counts one answer for each cell, and the files are those of this run because of
  `FilesGiveTheReports` and `LeftInv`.

For every block size, length of the length field (smaller than a block), alphabet and
piece:

- `UpdateAppends`: one call of `abi_sha256_update()` appends its piece to what has
  been compressed and what waits, and the open block is never full. With `NewIsOpen`
  it is the step of an induction that TLC stands for (`HashedWhole`).

For every set of cases, scripts and consumers of the Python worker, every cell and table
of limits, and every capacity of the log (assumptions: scripts are sequences of op codes,
`ScriptsAssumption`; a case's trees are sequences of nodes in which a parent comes before
its children, as `build_schema()` and `build_array()` build them, and an array has at
most the root and three nodes the reconstruction tells apart, `ShapesAssumption`):

- `CapsulesKeepTheirCase` (`CapsuleKeepsCase`, and that the case object's count of its
  capsules is right). `CapsuleInv` is the account: one reference for run_case(), one
  for each capsule, and none is freed while one is left. It needs that no structure is
  wrapped twice, which is why it says that a capsule's structure is never at the
  reconstruction's own address: `OthersLeave` and its neighbours show that nothing
  ever comes back there.
- `WorkerIsTyped` (`TypeOK`). What the worker builds from is a sequence of blocks
  (`FlattenType`: sequences put together are a sequence, by the least position where
  they are not), and every step is one of the `Effect`s on the reconstruction, whose
  types `ReconstructionProofs` has.
- `SinsAreReported` (`SinsSurface`) and `DefectsAreDeserved` (`VerdictDeserved`), the two
  directions of the worker's line. They speak of the end, where a line is written from
  a log; `WorkerInv` carries what the line needs through every step. `Standing` says who
  must release what is where: the harness what it can still hand over, the consumer
  what is in a capsule or its own storage, and nobody a schema `get_schema()` left
  half-built. `Control` says what a call has under way. `Heard` compares, as `HeardInv`
  does for the C executor: unless an event was dropped, the machine of each kind is in
  the state its structure is in, and the findings are the history `sins` as the judge
  counts them. At the verdict the harness has released all it could reach, so what the
  judge still hears of is in `Kept` or `HalfBuilt`; and what is kept is heard of.
  `ClassesAre` then reads the rows of `classify()` from the top.
- `LateReleasesAreAnnounced` (`LateReleaseAnnounced`). `Lined` keeps the line true to the
  state after it was written: what the consumer keeps only shrinks, and only a structure
  it kept can take the worker down.
- `AcceptedIsHandedOver` (`HandedOver`). `Handed` follows a session: which of the names it
  has done handed something over, and that one which was not refused does not name a
  schema without an array.

- `UndoingIsExact` (`CleanupExact`), for trees of every shape and size and memory ending
  at any request. `CleanInv` says that until the undoing nothing is lost: the heap is
  what the first `at` requests asked for. `PlanRooted` is about the order of the
  requests: before anything of a node come the private data of all nodes before it and,
  but for its structure, its own. So of the nodes that are armed at any moment every
  parent is (`FreesAll`), the recursion along the parents has one solution, and a release
  from the root goes over every block of its tree; without `has_array` nothing goes over
  the array's, which is what the property excepts. The table of blocks is the first
  request of a case that has blocks, so it is missing only if that one fails.

Model-checked only:

- `RunEnds`: liveness under fairness is out of the prover's reach.
- The same three shipped-worker properties where memory may run out: they do not hold
  there, for the reasons given above, and the run leaves it out too.
- The properties of `casefile` and `transport`: encoder, decoder, digest and generator
  are folds and recursions over a case, and what a recursive definition computes for
  every input is out of the prover's reach.

## Divergences

Six are shown by violation runs and stand in `PROJECT.json`. These were met while
translating the code and are in the modules as the code has them:

- Importing twice, or moving after an import, raises the harness's own
  RuntimeError, which the Python worker records as `rejected`, as if the consumer
  had refused (`abicase_py.c`, against `docs/worker-protocol.md:178-183`). It is an
  exception of `VerdictDeserved`.
- MOVE_STRUCT in a stream case is not refused (against `callseq.h:37-39`): the
  stream's array is moved away and the stream says that it is at its end.
- The second load of a stream case (`abi_worker.py:354`) is outside any try: out of
  memory there ends the worker, though a failure of one case is to be a result line.
- The Python worker and the faulty worker digest every class (`abi_worker.py:343`);
  `worker.c:467-473` does not, because a case may declare buffers it does not have.
- A consumer that keeps a moved-out structure past `del case` releases it into freed
  memory: `LateReleaseAnnounced` says what holds of it.
- `get_schema()` that fails leaves an armed, half-built schema at the consumer's
  address (`reconstruct.c:606`); it is then the consumer's leak, or excused by any
  live capsule (`diff_report.py:133`).
- A capsule the consumer hides makes its case "never released", a defect, although
  `abicase_py.c:39-47` says that nothing leaked.
- The comment at `reconstruct.c:395` holds for schemas, not for arrays: `has_array`
  is set when `build_array()` has succeeded, so a half-built one stays. With
  `alloc_count` set and `alloc_data` NULL, the undoing walks a NULL table.
- Children under a NULL slot of a struct are digested, although `docs/digest.md` §2
  says that the bytes of null slots are ignored: a consumer that rewrites them is said
  to have changed the data. `LogicalExact` states this as its exception; without it
  the run `transport` finds two arrays of equal values and different digests.
- The line a dying worker tore, which the coordinator forgives, makes
  `diff_report.py` raise: the report of every worker of the run is lost
  (`LostOnlyToDeath`).
- A worker destroyed after its last answer has no suspect, and a run with it passes
  `--expect`, whose help says that any crash fails it. Of a worker that was never
  started the first case is filed as a crash.
- An answer with an unknown status counts as an agreement in `classify()`, which
  tests only for `rejected`; protocol errors do not stop a claim; of two answers the
  later counts.
- `docs/coverage-matrix.md` §1.3 says of an offset "passes this class and only this
  class"; the exceptions are those of `OffsetVisible`, which
  `check_digest_divergence.py:18-24` states.

## Not modelled

Inside the modelled parts: the text of details and paths, the trace of executed ops,
timestamps, USE_AFTER_RELEASE in builds that define ABI_ENABLE_USE_AFTER_RELEASE, and
MOVE_STRUCT running out of memory in the C executor (it ends the sequence as an
invalid one). In the coordinator: the exception codes of Windows (they count as
signals), the value of an exit code other than zero, the duration, and a last line
that lacks only its newline, which reads as a whole one. In the differential report: the splits by dimension, the review
list, instruments, an expectations file that is not empty, printing. In the case
format: strings, flags and seeds no rule looks at, out of memory and I/O errors,
which end the call. In the digest: int64 arithmetic (offset and length are small
here; in C their sum overflows for counts near 2^63, which validation does not bound) and the
compression function.

Not at all: `abicase.c` but for verify, which prints; the
checking scripts and the counts `coverage_matrix.py` compares with its document,
which keep no state; vendored nanoarrow, which is outside this program and a choice
of the models; what DuckDB, Arrow C++ and the Python packages do inside.

## Plan

1. Done: `Lifecycle`, `Reconstruction`, `Consumers`, `Callseq`, `Ownership` and
   their proofs.
2. Done: `Collection`, `WorkerProcess`, `Coordinator`, `Accounting`, and the proofs
   of exactness, attribution and agreement.
3. Done: `Construct`, `PyWorker`; `CaseFormat`, `CaseFile`, `Fill`, `Arena`;
   `Digest`, `Sha256`, `Transport`, `Corpus`; `DiffReport`, `RunReport`.
4. Done, proofs: every safety property of the runs on lifecycle, coordinator, report and
   adapter; the refinements of `Ownership` and `Accounting`.
5. Left, models: expectations that are not empty and the splits of the report.

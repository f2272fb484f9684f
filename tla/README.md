# TLA+ models of rocFFT

rocFFT computes discrete Fourier transforms on AMD GPUs. This directory models
the library from the description of a transform to the values its kernels
write: how a plan is built, how it is executed on several devices and ranks at
the same time, how kernels are generated, compiled and tuned, how plans share
device tables, and how the accuracy tests judge the result. The arithmetic of
the kernels is exact (modulo a prime); rounding is not modelled.

File names below without a directory are in `src/library/src/` (headers in its
`include/`, generators in its `device/generator/`).

1. [Inventory](#1-inventory)
2. [Modules](#2-modules)
3. [Runs](#3-runs)
4. [Bounds](#4-bounds)
5. [Fairness](#5-fairness)
6. [Proofs](#6-proofs)
7. [Disagreements with documentation and comments](#7-disagreements-with-documentation-and-comments)
8. [What is not modelled](#8-what-is-not-modelled)
9. [Plan](#9-plan)

## 1. Inventory

| Part | State it keeps | Operations | What makes it correct |
|---|---|---|---|
| Multi-plan (`plan.cpp`, `transform.cpp`) | `multiPlan`, `multiPlanAntecedents`, the sort's recursion | `AddMultiPlanItem`, `AddAntecedent`, `MultiPlanTopologicalSort` | the sort ends with every item once, antecedents first |
| Bricks and fields (`plan.cpp`) | bounds, strides and location of each brick | `rocfft_field_add_brick`, `ValidateFields`, `intersect`, `is_contiguous`, `is_contiguous_in_field`, ... | accepted fields tile the index space; "contiguous" means one copy moves the brick |
| Multi-device plan creation (`plan.cpp`) | the plan, `tempBuffers` and the leases on them | `BuildOptMultiDevicePlan`, `GatherScatterSingleDevicePlan`, `GlobalTransposeA2A`/`P2P`, `TempBufferLease` | every element is transformed once in every dimension and ends in its place; buffers are large enough, allocated, and not reused too early |
| Plan execution (`transform.cpp`, `tree_node.cpp`) | per rank: the loop's position, what has been launched and runs | `Execute`, `ExecuteAsync`, `Wait`, MPI requests | data is ready before it is sent; conflicting items do not overlap; nothing runs after return; no deadlock |
| Table repository (`repo.cpp`) | three forward and three reverse maps, reference counts | `Get...`, `Release...`, `Clear`, destructor | no table is freed in use, none leaks, each node gets the table it asked for |
| Tree decomposition (`node_factory.cpp`, `tree_node_*.cpp`) | the tree of nodes | scheme choice, `BuildTree`, `AssignParams` | the leaves together compute the transform |
| Buffer assignment (`assignment_policy.cpp`, `plan.cpp`) | buffer, array type and strides per leaf | `AssignBuffers`, padding, collapsing, `DetermineBufferMemory` | neighbours agree on the data between them; no leaf overwrites what it has yet to read, or leaves its buffers |
| Kernel fusion (`fuse_shim.cpp`) | the shims of each node | `CheckSchemeFusable`, `ForwardCheck`, `FuseKernels` | the fused kernel does what its parts did |
| Kernel generators (`stockham_gen*.h`, `bluestein_generator.h`, `fftgenerator.h`, `rtc_*_gen.cpp`) | none; the kernels they generate have registers, LDS and buffers | the radix functions, one global function per tiling | the transform, whatever the order of the threads |
| Kernel launch (`powX.cpp`, `rtc_*_kernel.cpp`, `twiddles.cpp`) | pointers and grids per kernel | `TransformPowX`, `get_launch_args`, table creation | a kernel gets the buffers and as many threads as its plan assumes |
| Kernel compilation and its cache (`rtc_cache.cpp`, `rtc_compile.cpp`, `rtc_subprocess.cpp`) | two SQLite databases, prepared statements, the map of pending compiles, the in-process compile lock | `cached_compile`, `get_code_object`, `store_code_object`, `serialize`, `deserialize`, `cleanup_cache` | what is returned is what was asked for; everyone is answered |
| Solution map and tuning (`solution_map.cpp`, `tuning_*.cpp`, `rocfft_offline_tuner.cpp`) | keys with their options, tuning packets | add, merge, convert, look up; the tuner's phases | the library uses what was merged, the tuner exports the best it ran |
| Log streams (`rocfft_ostream.cpp`, `auxiliary.cpp`) | per file a worker with a queue and a thread; per thread a stream | `flush`, worker loop, destructors, `rocfft_setup`, `rocfft_cleanup` | what is flushed is written, in order; no worker is used after it is freed; shutdown ends |
| Library lifecycle (`auxiliary.cpp`) | singletons | `rocfft_setup`, `rocfft_cleanup` | a library that is set up again starts from scratch |
| Accuracy tests (`src/shared/accuracy_test.h`, `fft_params.h`, `array_validator.cpp`) | parameters, buffers, cached CPU data, asynchronous tasks | `validate`, `fft_vs_reference_impl` | a test fails exactly when the transform is wrong |
| Gathering brick parameters (`plan.cpp`), plan description, build-time helpers, other clients, scripts | see section 8 | | |

How they interact. `rocfft_plan_create` validates the fields (**Bricks**),
builds items (**FieldPlan**) through `AddMultiPlanItem` and `AddAntecedent`
(**MultiPlan**), and at the end sorts the items. A transform item is a plan for
one device: a tree of nodes (**TreeBuild**, **RealTree**, **BluesteinTree**),
perhaps the one a solution map prescribes (**SolutionMap**), whose leaves get
buffers (**AssignmentPolicy**) and are fused (**FuseShims**), take tables from
the repository (**Repo**) and get their kernels from the generators
(**StockhamTilings**, **LeafKernels**) through the compilation cache
(**RTCCache**). `rocfft_execute` walks the sorted items on every rank
(**PlanExecute**); the items move and transform the contents of user and temp
buffers (**FieldExec**), for a transform item kernel by kernel (**LeafPlan**,
**StockhamKernel**). All ranks build the same plan from the same gathered
fields, and meet only in the messages of communication items. Threads of one
process meet in the repository, whose mutex makes each call atomic, in the
compilation cache and in the workers of the log files (**LogStream**);
processes meet in the cache file.

What is hard here: items run asynchronously on streams of their own and the
only order between them is what antecedents impose; temp buffers are reused
within a plan on the strength of that order; ranks can be an execution apart
while message tags repeat; a launch may throw on one rank only; bricks can be
uneven, empty, with gaps, or placed anywhere; tables are shared by plans that
threads create and destroy in any order, also when creation fails half-way,
after cleanup and after the program's static objects are gone; log workers
outlive the library's session in threads that never end; the threads of a
kernel share LDS with nothing but barriers between them, in tilings with
partial tiles and idle threads; a kernel that works in place may overwrite what
another of its threads still has to read; a cache is shared by processes of
different versions that may be killed; options of a solution map point to each
other by index while options are added. `PROJECT.json` lists these hazards at
the lines where they bite, with the properties that cover them.

## 2. Modules

```
MultiPlan   <- MultiPlan_proofs
Bricks      <- FieldBuild <- FieldBuild_proofs, MCFieldBuild
Bricks      <- FieldPlan  <- FieldExec <- FieldExec_proofs
FieldExec, Layouts <- MCFieldExec
PlanExecute <- PlanExecute_proofs
PlanExecute, Layouts <- MCPlanExecute
Repo        <- Repo_proofs, MCRepo
Log         <- Log_proofs
Log (instance) <- LogStream
LogStream, Log_proofs (instance) <- LogStream_proofs
RTCCache    <- RTCCache_proofs, MCRTCCache
PlanNode    <- FuseShims <- TreeBuild <- AssignmentPolicy <- PlanBuild <- MCPlanBuild
SolutionMap <- Tuning <- MCTuning
StockhamTilings, KernelArithmetic (instance) <- StockhamKernel <- MCStockhamKernel
KernelArithmetic <- LeafKernels <- BluesteinTree <- RealTree <- LeafPlan <- MCLeafPlan
ArrayValidator <- TestParams <- AccuracyTest <- MCAccuracyTest
```

### Several devices and ranks

**MultiPlan** has `multiPlan` as the count `n`, `multiPlanAntecedents` as a
function from 0-based indices to sequences, and the recursion of
`TopologicalSortDFS` as an explicit stack of frames: the item of the call and
the position of its loop. One action per loop iteration or return. The code does
not look for cycles; that there are none is the callers' doing, who add items
stage by stage and name only items of earlier stages as antecedents - though
not always of lower index (`GlobalTransposeA2A` adds the unpack items before the
all-to-all that they wait for). The ghost variable `stage` records this; that the
plans of FieldPlan have such stages is proved (section 6).

**Bricks** has every operator of `rocfft_brick_t`, with the `int` in which
`empty`, `count_elems` and `offset_in_field` compute as a number of `IntBits`
bits. **FieldBuild** adds bricks to a field one at a time and validates it; its
properties compare the operators with sets of coordinates and offsets.

**FieldPlan** is plan creation for transforms with fields, as a function from a
configuration to a plan: items, antecedents, and the temp buffers: those free at
each location, their sizes and homes, and the leases held. It follows the code
function by function, each taking the plan built so far and returning the longer
one. The sort is there once more, as a function of a plan without cycles: the
search nests no deeper than there are items. The code builds the plan on every rank, with
placeholders for what is on other ranks; the model builds the union of these
plans. A failed creation is a status: `throw`, or `nullptr` where the code
dereferences a null lease. **FieldExec** creates a plan and executes it several
times, each item taking effect in the order of the sort. A buffer cell holds a
symbolic element: its coordinate, the dimensions it has been transformed in,
how often it was scaled and the execution its data came from; reading what was
never written, or transforming elements that do not belong together, gives
garbage that no later step repairs. **Layouts** is the collection of
configurations.

**PlanExecute** is `rocfft_plan_t::Execute` on every rank: `pos` is the
iteration of the loop, `running` what has been launched and has not completed,
`round` the execution. An item completes on a rank at any time after its launch
if what it receives has been sent in the same execution (MPI matches messages of
one source and tag in order, and the tag of an item is the same in every
execution). `Fail` is an exception out of `ExecuteAsync`, before anything of the
item was launched or after some or all of it was: the model does not say which
of its operations were, and lets them all be under way, so that peers may go on
or be left waiting. FieldExec can take the
effects of items one at a time because PlanExecute shows that items that overlap
in time touch no common cell, given what FieldExec's `ConflictsOrdered` checks
of each plan; PlanExecute is run on plans that FieldPlan builds.

### What plans and threads share

**Repo** has the forward maps as one function from keys to entries (address,
the table it was made for, count), a key saying which of the three maps it is
in, and the reverse maps as a function from map and address to key. Leaf nodes
ask for their tables one at a time (chirp, twiddles, large twiddles) and
release them in the destructor's order; `TableFound`, `TableCreated`,
`TableEmpty` and `GetThrows` are the outcomes of a Get, `ReleaseInMaps` the
three branches of a Release. A new table gets any address that no table has:
device memory is reused, so an address in a stale reverse entry may come back.
The ghost variable `old` holds the pointers from before `Clear`.

**Log** is what logging promises: a message is appended whole, once, to its
file before its flush returns, and every flush returns. **LogStream** is how
`rocfft_ostream` does it: thread-local streams with shared pointers to workers,
the map of workers, a worker's queue of tasks with their promises, the empty
task that ends a worker, the destruction of a worker by whoever drops the last
pointer. A thread may end, and its streams drop their workers, at any time, also
while `rocfft_cleanup` clears the map; only calls that log do not overlap with it. It implements Log under a refinement mapping in which a message is
written when the worker has written it and lost when the write failed.

**RTCCache** has threads of several processes that look for kernels: the map of
pending compiles, the mutexes around the prepared statements (a statement holds
the values bound to it between bind and step), the user's and the system's
database, the try-lock for compiling in process and the subprocess that is used
instead, exceptions, a killed process, a cache file that is replaced or
emptied. A compiled object is tagged with the kernel and the version it was
made for, so that `RightCode` can tell.

### One device: trees, buffers, fusion

**PlanNode** has the nodes as records with their children in them, and the
kernels the library has as constants. **FuseShims** has the shims for
transposes, **TreeBuild** the choice of a scheme for complex transforms and the
tree and strides of each, **AssignmentPolicy** the enumeration, ranking and
checking of chains of buffers, padding and collapsing, and **PlanBuild** the
order of it all in `ProcessNode`, with up to three tries. What a plan must do
is stated without reference to a scheme: elements of a buffer are indexed by
digits with a stride and a weight, each kernel transforms or moves digits, and
`ComputesTransform` asks that in the end the output digits of each axis make up
the index in the user's layout, each pair of digits having met its twiddle
factor once. That holds for any values of the data, so the lengths can be real
ones.

**KernelArithmetic** is the device library in the field of integers modulo a
prime `P`: the radix functions (the two copies in the repository, in
`rtc_radix_functions` and `rocfft_butterfly_template.h`, have the same text),
twiddle tables and their steps, real pre- and post-processing, the chirp.
Cosines and sines of multiples of 2 pi / n are elements of the field when 4 and
n divide P - 1, so every identity the butterflies rest on holds exactly, and
an input vector without structure tells a wrong linear map from the right one.

**StockhamTilings** is the program a thread of a generated kernel runs, per
tiling (RR, CC, RC, CR, 2D_SINGLE, single-kernel Bluestein): which element it
loads where, the passes with their LDS reads and writes, and the barriers.
**StockhamKernel** launches such kernels: registers and LDS start as garbage,
the threads of a block interleave in every way the barriers allow, blocks are
dispatched in order with a bounded number resident.

**LeafKernels** has all kernels of a plan as functions from actors (threads, or
blocks where one barrier separates reads from writes) to the slots they read and
what they write: a race is then two actors with a common slot of which one
writes. **BluesteinTree** and **RealTree** build the leaves of Bluestein and
real transforms of up to three dimensions; **LeafPlan** assigns buffers to them
(any chain that the code's checks allow may be taken, whatever its rank),
allocates work memory and executes the plan twice on different input, with what
the first execution left in memory.

### Tuning and tests

**SolutionMap** has the keys, options and pointers between them, the merge, the
conversion of older versions and the look-up with its fall-backs. **Tuning** has
the offline tuner (enumerate, measure each phase, export the winners), the
merging and converting tools, and the plans the library makes afterwards.

**ArrayValidator** is the test that a layout's elements have different
addresses, for any number of dimensions, with the `int` in which it keeps an
offset as a number of `IntBits` bits, and the enumeration its own test compares
it with (`src/clients/tests/validate_length_stride.cpp`). **TestParams** has the
parameters of a test: defaults, validity, buffer sizes, the loops that copy and compare. **AccuracyTest** runs test after test:
the cached CPU data and its key, conversions between precisions, asynchronous
tasks that wait for each other through futures, exceptions with the
destructors in their order, and the copy to the device whose failure nobody
notices until the results are compared. `DirectComparison` is the test of the
validator, which shares no state with the others.

In every module the definitions marked as mutations or as bugs that could be
there are the plausible mistakes the properties were tried against; no
specification uses them.

## 3. Runs

| Run | Shows |
|---|---|
| `multiplan_sort` | `AntecedentsFirst`, `EachItemOnce` and that the sort ends (`SortTerminates`), for every plan of up to 4 items |
| `field_bricks` | `AcceptedIffTiled`: `ValidateFields` accepts exactly the fields that tile the index space; `ContiguousCanBeCopied`: a brick called contiguous, by itself or in its field, can be moved by one copy |
| `field_plans` | for 37 configurations executed twice: `OutputCorrect`, `InputIntact`, `TempsUsable` (allocated, and large enough for what is in them), `ConflictsOrdered`, `CreateSucceeds` |
| `execute_plans` | for an all-to-all, a point-to-point and a gather/scatter plan on two ranks: `DataReadyBeforeSent`, `NoConflict`, `NothingRunsAfterReturn`, `NoStuck`, and `AllReturn` under fairness |
| `repo_tables` | `TablesAvailable`, `TablesAsAsked`, `NothingLeaks` for three nodes in any interleaving, with failures, cleanup and program end |
| `log_streams` | `FreedIsUnused`; `ImplementsLog` (refinement of Log); without write errors `EveryFlushReturns` and `CleanupReturnsNoErrors` |
| `rtc_cache` | `RightCode`: everyone gets the code of the kernel and version asked for; `PendingIsWaitedFor`: a failed compile is forgotten; `EveryoneAnswered` |
| `plan_tree` | `PlanCreated`, `ComputesTransform`, `InPlaceSafe` (no kernel that works in place overwrites what another thread of it may still read), `InsideBuffers` |
| `tuning` | `WinnersAreBest`: what is exported is the fastest that was run; `PlansUseMerged`: for each problem the library finds what was merged last, and the kernels it uses are among those compiled ahead |
| `stockham_kernel` | `OutputCorrect`: the exact transform in every interleaving; `WritesInside`: nothing is written outside LDS, registers and output |
| `leaf_kernels` | `OutputIsTransform`, `KernelsRaceFree`, `InsideBuffers` for every valid chain of buffers |
| `accuracy_tests` | `ValidatorMatchesEnumeration`: `array_valid` agrees with the enumeration of its test, in one to six dimensions, and accepts a transform's layouts iff no two elements collide (section 7 lists layouts for which it does not); `BuffersHold`; `VerdictIsRight`: a test fails iff the GPU's result is wrong or the device never had the input; `CacheAgrees`: cached data is what its key says |

`field_plans` answers the main question about plan creation for several
devices: the output of every execution is, in every brick, the element of its
coordinate, transformed once in every dimension, from the data of this
execution. A packing offset, an antecedent, a lease or a split that is wrong
shows up there or in `ConflictsOrdered`. `plan_tree`, `leaf_kernels` and
`stockham_kernel` answer it for one device, at three distances: plans of real
lengths over symbolic data, plans of small lengths over numbers, and single
kernels over numbers with every interleaving of their threads.

Deadlock checking is on except in `tuning`, where every tool may have run as
often as the bound allows, and in `multiplan_sort`, where the sort returns (that
it gets there is `SortTerminates`). Where another system may come to rest (a plan
executed as often as asked, a rank left waiting by one that threw, a plan that
is built, no more kernels asked for) the MC module adds a stuttering step for
exactly those states. In `MCRepo` nothing rests: nodes come and go for ever.

The type invariants are not among the properties of the runs: those of
MultiPlan, PlanExecute, FieldExec, Repo, RTCCache and LogStream are proved
(section 6), those of the other modules hold when `TypeOK` is added to their cfg.

## 4. Bounds

* `multiplan_sort`: 4 items, at most 2 listed antecedents when an item is
  added, 4 stages. Four items are enough for a diamond, for an antecedent
  reached by two paths of different length, and for an antecedent of a higher
  index. The theorems of section 6 drop the bound.
* `field_bricks`: all bricks of a 2 by 2 index space, reaching out of it by one,
  with inverted bounds and with gaps; up to 3 bricks, so that a hole can be
  hidden by an outlying or empty brick while the counts agree. A brick with
  gaps is alone in its field, as no property relates the strides of two bricks.
* `field_plans`: lengths up to 5, up to 4 bricks, 4 ranks and 2 devices per
  rank, 2 executions. 5 elements split among 2 and 3 among 2 give uneven parts;
  pencils need a transpose through a layout that is neither the input's nor the
  output's; two executions are what it takes to read stale data. `IntBits` is
  16, far from the offsets that occur; the scaled-down overflow is listed in
  section 7.
* `execute_plans`: 2 ranks, 2 executions, so that one rank can be an execution
  ahead; plans of up to 33 items. The theorems drop the bounds.
* `repo_tables`: 3 nodes, 4 addresses, 6 tables (two that differ only in
  `attach_halfN`, a large table, one without elements, a 2D table, a chirp).
  Three nodes let one share a table with a second and be destroyed while a third
  asks for it. A node holds at most three tables, and at most four different
  non-empty tables of those needed exist at once or an address is missing for
  the fifth, which only disables that creation (`GetThrows` remains). Nodes and
  addresses are interchangeable, so symmetry is used; there is no liveness
  property in that run. The theorems drop the bounds.
* `log_streams`: 3 threads, one kind of log, one file besides stderr, one
  message that each thread sends of its own accord (`rocfft_setup` and
  `rocfft_cleanup` send more), 2 sessions, 1 write error. Two sessions let a
  stream of the first keep its worker while the second makes another for the
  same file.
* `rtc_cache`: 2 processes of different versions, 2 threads in one of them,
  2 kernels of which the system cache has one, 1 event (a crash, an emptied or a
  replaced file).
* `plan_tree`: 32 lengths, batches of 1 and 2, in place and out of place, on 3
  architectures; planar, padded and interleaved variants of all of them on
  gfx90a. The lengths, with the subset of the library's kernels, are chosen so
  that every scheme and every shim occurs.
* `tuning`: a 2D transform with two equal rows, that row alone and a real
  transform with the row in it, so that problems share kernels and options
  move; two times a candidate may take, two runs of the tuner; maps that start
  empty or in version 2.
* `stockham_kernel`: lengths up to 17, at most 2 blocks resident; bank shift,
  large-twiddle bases and partial tiles are scaled down with the lengths, so that every case the
  generator distinguishes is launched (threads that divide the
  butterflies or do not, more threads than butterflies, full and partial
  tiles). The primes are 20161 and 29173, which have the roots the radices need.
* `leaf_kernels`: 48 transforms of up to 36 elements, 2 executions; tiles,
  launch bounds and table bases scaled down.
* `accuracy_tests`: 3 tests one after the other, 3 processors,
  `MIN_ITERS_PER_THREAD` 2 and `MAX_PARTITIONS` 2; the third test can find data
  that the first left and the second converted. The layouts of
  `generate_valid_length_stride` have 3 in place of 8; two of five dimensions, with
  strides that interleave, reach `valid_length_stride_generald`, and the offsets of
  one leave the range of an `int` of 10 bits (`IntBits`).

## 5. Fairness

`SortTerminates` assumes that the sort, once called, keeps running.

`AllReturn` assumes, per rank: the host thread goes on when `Wait` has returned;
the user calls `rocfft_execute` on every rank (the computation is distributed
"across all ranks in the communicator", `distributed-transforms.rst:52`); device work completes; a communication
completes once both ends have launched it. It does not assume that a send
completes before it is received (MPI may or may not buffer it), nor that a
launch that can throw will or will not. A rank that throws leaves the others
waiting, and `AllReturn` says nothing about that execution.

`EveryFlushReturns` and `CleanupReturnsNoErrors` assume weak fairness of each
step inside a call, of the thread that makes it and of each worker's loop: these
are threads the system schedules. Nothing makes a thread log, end or clean up.
Both are stated for executions without write errors; section 7 says what an
error does.

`EveryoneAnswered` assumes weak fairness of each task's steps and of the thread
that takes the answer; compilers and helper processes end. A task takes each
mutex once and requests are finite, so weak fairness is enough for a free mutex
to be obtained.

## 6. Proofs

TLAPS proves these for every value of the constants.

**MultiPlan_proofs** - for any number of items, lists of antecedents and stages:
`TypeCorrect`, `SortIsTopological` (`AntecedentsFirst`), `SortIsComplete`
(`EachItemOnce`). `AntecedentsFirst` is not inductive: when a call returns, its
item is appended although it was never checked again that its antecedents are in
the vector. The invariant adds that an active call has visited the antecedents
its loop has passed (`LoopProgress`), that a visited item is in the vector or
on the stack (`VisitedSplit`), and that the stack descends in stages
(`StackDescends`), so that a visited antecedent of the innermost call cannot be
one of the calls around it and must be in the vector. That needs that callers
name antecedents of earlier stages only (`StagesDescend`, kept by the guards
of `AddMultiPlanItem` and `AddAntecedent`).

**PlanExecute_proofs** - for any ranks, plans and number of executions, assuming
that the order of a plan is topological (`OrderAssumption`) and that an item that
sends executes on both ends (`MsgsAssumption`), both of which `PlansExecutable`
below proves of the plans that are created: `ReturnsWhenFinished`, `SendsReadyData`,
`ConflictsExcluded`, `NeverStuck`. The invariant: what runs has been launched by
this rank in this execution (`RunningLaunched`); what a passed item waited for
runs no more (`PassedWaited`); what has been received has been sent
(`ReceivedSent`); nothing runs on a rank that is not executing.
`ConflictsExcluded` has the hypothesis `ConflictsWaited`, which TLC checks of
the plans that are built (`ConflictsOrdered`). `NeverStuck` looks at a rank
behind which there is none, in the earliest execution and of those at the
earliest item: all it can wait for has been launched by the ranks ahead of it.

**Repo_proofs** - for any finite set of nodes and any addresses and tables:
`NotFreedWhileUsed` (`TablesAvailable`), `NoTableLeaks` (`NothingLeaks`),
`RightTable`. The counts are what makes the first inductive:
an entry's count is the number of pointers with its key (`EntriesCounted`), two
entries have different addresses (`AddressesDiffer`), and a reverse entry leads
either to a table at that address or belongs to a pointer from before `Clear`
(`ReverseExplained`), in which case there are no tables at all (`OldAlone`).
`RightTable` says what is left of `TablesAsAsked` when nothing is assumed of the
tables (`AsAskedBut2DHalf`): a 1D table or a chirp is always the one asked for, and
a 2D table has the lengths, precision and radices asked for and can differ in
`attach_halfN` only. It rests on what a key tells apart (`KeysTellApart`). That 2D
tables do differ there is a row of section 7.

**RTCCache_proofs** - for any processes, versions, threads, kernels and contents
of the system's database, with crashes and databases replaced at any time:
`EveryoneGetsRightCode` (`RightCode`), `PendingAlwaysWaitedFor`
(`PendingIsWaitedFor`), `RowsNeverChange` (a row of the user's database may come
and go, but its code never changes) and `MutualExclusion` (one task of a process
compiles in it, one is between bind and step of each statement). `RightCode` is
about what has been answered and what is stored; it is kept because of what is
under way. So the invariant says which task each statement belongs to between
bind and step, and that the key and the code bound to it are that task's
(`SelectIsBound`, `InsertIsBound`), that what has been compiled and not yet stored
is the code of the task's kernel (`CompiledIsRight`), and that whoever shares a
future wants the kernel of the task behind it, in the same process
(`WaitersShare`): a promise answers threads that the task does not know of.
`PendingIsWaitedFor` needs that a task's own thread waits for it
(`TaskIsAwaited`), and that there are pending compiles only in a process whose
cache exists (`PendingInLibrary`).

**Log_proofs** - for any threads and files, what the abstract log means for a
reader of the files (`FilesAreRight`): in each file the messages of a thread are
in the order of its flushes (`Ordered`), no message is there twice or in two
files (`Once`), and a message is in its file before its flush returns
(`WrittenIsThere`). The order needs that a flush is for the thread's last message
and that this message is in no file until it is written (`LastSent`).

**LogStream_proofs** - for any threads, kinds of log, files, sessions and number
of failed writes:

* `NoUseAfterFree` (`FreedIsUnused`). The invariant has three parts. `Ownership`:
  what an entry of the map or a stream points to is alive; a thread that logs has
  a stream to the worker it logs to; a thread that destroys a worker is the last
  to use it; when its empty task is done, the worker's thread has ended and its
  queue is empty. `Promises`: behind every task, queued or taken, there is a
  thread that waits for it, on this worker, with this message, and no thread has
  two - so that when the empty task of a destructor is done no other can be
  left. `Lifecycle`: while rocfft_cleanup clears the map no thread is inside a log
  call, which is where the model uses that cleanup is called when nobody else is
  in the library, and a thread keeps its streams until it ends.
* `StreamsImplementLog` (`ImplementsLog`), the refinement: initial states map to
  initial states, `Send` to `Start`, `Write` to `Append1`, `SetValue` to `Return`,
  `WriteFails` to `Lose`, `Setup` to `Truncate`, and every other step to a stutter.
  `Promises` is what makes it work: the flush a worker's step is about is the one
  of the thread named in its task.
* `LogFilesAreRight`: hence `FilesAreRight` holds of the files rocfft_ostream
  writes.

It assumes that the map's entries and the threads' streams are different things
(`Files` and `Threads \X Streams` are disjoint, in `LogAssumption`), since both
are owners of a worker in one set; TLC checks the assumption for the run. The
invariants of RTCCache and LogStream were checked by TLC on the instances of
`rtc_cache` and `log_streams` before they were proved.

**FieldBuild_proofs** - for any number of dimensions, any lengths and any set of
bricks with elements:

* `FieldsTile` (`AcceptedIffTiled`): `ValidateFields` compares bounds of bricks in
  pairs and adds up element counts, and that is enough to accept exactly the
  fields that tile the index space. `Intersect` is shown to be the set of common
  coordinates (`IntersectIsCommon`), and `count_elems` the number of coordinates
  (`CountCoords`, by induction on the dimensions); disjoint bricks then have as
  many coordinates as the sum of their counts (`CountBricks`, by induction on the
  bricks), and a part of the index space with as many coordinates as the whole has
  no gap. Hypothesis `OverlapsFit`: `empty()` keeps a length in an `int`, which
  must be 0 for no overlap but an empty one. It holds when no brick is 2^IntBits
  long or longer.
* `ContiguousIsCopied` (`ContiguousCanBeCopied`): in a contiguous brick the strides
  below the last dimension longer than one are those of a packed brick, so that
  the elements are one after the other; in a field they start at
  `offset_in_field`. Hypothesis `OffsetsFit`: the offset, accumulated in an `int`,
  is the inner product of lower bound and strides. Section 7 (`WideField`) has a
  field for which it is not.

**FieldExec_proofs** - for any set of transforms, fields of any number of bricks,
any lengths and any number of ranks. `ConfigsAssumption` is all that is assumed:
lengths and fields are sequences, there is a batch dimension, bricks are on ranks
of the communicator, and a user who passes separate output pointers did not ask
for an in-place transform. It is not assumed that the fields tile anything.

* `PlansExecutable`: every plan that is created can be executed. Its items wait
  for each other without a cycle (`Executable`: there are stages, and every item
  waits for items of lower ones, which is what MultiPlan assumes of the callers);
  an item's messages are between ranks that execute it; the sort has every item
  once, after all it waits for (`Orders`); and if the transform is not in place no
  item writes to the user's input (`InputUnwritten`).
* `LaunchOrder`: so at every moment of every execution the vector `Execute` walks
  is such an order, and no rank waits for the event of an item not yet launched.
* `InputKept` (`InputIntact`): executions that are not in place leave the user's
  input alone. The invariant `ExecInv` says that the plan is the one created and
  the order its sort, and that since the execution began the input's cells hold
  what the user put there (`InputHeld`).
* `TypeCorrect`.

TLC agrees with `ExecInv` and `LaunchesInOrder` on the instance of `field_plans`.

The argument about plans goes through the code function by function. A plan is
sound (`SoundPlan`) if there are stages for its items as above and its items are
sound; each function is shown to take a sound plan to a sound one, and to name as
outputs items that are there: a C2C of a field, the point-to-point and the
all-to-all transpose, the layouts between two dimensions, the gather, the root
transform, the scatter (`C2CFieldSound`, `P2PSound`, `A2ASound`, `MovedSound`,
`GatherSound`, `ScatterSound`, then `OptSound`, `GatherScatterSound` and
`CreateSound`). Two of them add antecedents of a higher index: the unpack items of
an all-to-all wait for a communication added after them, and the gather, added
first, for every pack that follows. There the stages leave a gap: items that are
added take the stages between those of the plan so far and the one kept for the
communication (`A2AItemsSound`, and `Around` for the gather and the scatter). That
no item writes the input needs to follow which buffer each function is given:
the output pointers, or temp buffers, never the input's. For the sort the stages
become ranks (`StagedRanks`: the number of items of the same stage or a lower one),
so that a search to depth n reaches everything an item of rank n waits for
(`DFSIsRight`), and continues a topological order to a topological order
(`Continues`).

The library's induction theorems take a predicate as a parameter and cannot be
used here. `SetInduction` says the same of a set of numbers, and follows from
the well-foundedness of the naturals; it is enough for sums, products and the loops
of plan creation, which are recursive functions on 0 .. n.

Only model-checked: every liveness property, the other properties of FieldExec,
and those of PlanBuild, LeafPlan, StockhamKernel, Tuning and AccuracyTest.
PlanBuild, LeafPlan and Tuning are built from recursive operators over trees,
which keep the provers out. StockhamKernel's and FieldExec's `OutputCorrect` say
that what the passes of a kernel or the items of a plan compute, one after the
other, is the transform or the layout asked for; TLC evaluates that for the
kernels and layouts of the runs. `OutputCorrect`, `TempsUsable` and
`CreateSucceeds` of FieldExec do not hold of every configuration (section 7), so
there is no theorem to state without leaving those out one by one;
`ConflictsOrdered`, which PlanExecute's `ConflictsExcluded` takes as a hypothesis,
would need the leases of every buffer followed through the whole plan.

## 7. Disagreements with documentation and comments

Where the code does something else than a line of the repository says, the
configuration that shows it is left out of the runs and kept in the MC module
(or in Layouts). Each row is a change to a cfg and the property that TLC then
finds violated when it is the only one checked.

| cfg | change | property | code | says otherwise |
|---|---|---|---|---|
| `MCFieldExec` | `Configs <- Scaled` | `ScaledOnce`: a plan that transforms dimension by dimension multiplies by the scale factor once per dimension | `plan.cpp:1800` | `rocfft.h:243` |
| `MCFieldExec` | `Configs <- SingleProcess` | `CreateSucceeds`: two devices of one process, split in different dimensions, go to the all-to-all transpose, which throws | `plan.cpp:1927` | `plan.cpp:1924-1925` |
| `MCFieldExec` | `Configs <- TwoPerRank` | `OutputCorrect`: with two bricks on a rank the all-to-all keeps one count and offset per peer and loses data | `plan.cpp:2087` | `distributed-transforms.rst:63-64` |
| `MCFieldExec` | `Configs <- PaddedInput` | `TempsUsable`: temp buffers have no room for the gaps of strided bricks | `plan.cpp:2277` | `rocfft.h:371` |
| `MCFieldExec` | `Configs <- InPlaceNoOutput` | `OnlyPassedPointersUsed`: in-place transforms with fields write through output pointers that are not to be passed | `plan.cpp:1388` | `rocfft.h:201-202` |
| `MCPlanExecute` | `Plans <- MCWorkBufferPlans`, `SPECIFICATION MCSpec` | `NoConflict`: transforms that run at the same time share the user's work buffer | `transform.cpp:424` | `rocfft.h:482-486` |
| `MCRepo` | `Tables <- Tables2D`, `EmptyTables = {}`, `Needs <- Needs2D`, no `SYMMETRY` | `TablesAsAsked`: the key of a 2D table leaves out `attach_halfN1` and `attach_halfN2` | `repo.cpp:207` | `repo.h:34-35` |
| `LogStream` | `MaxSessions = 1`, `PROPERTY CleanupReturns` | after a write error the worker ends and nobody fulfils the promise of the next task: cleanup waits for ever | `rocfft_ostream.cpp:361` | `rocfft_ostream.hpp:149`, `auxiliary.cpp:193` |
| `MCPlanBuild` | `Requests <- PaddedBlockRC` | `ComputesTransform`: 3D_BLOCK_RC ignores gaps in the output | `tree_node_3D.cpp:457-513` | `rocfft.h:292` |
| `MCTuning` | `Bases <- MCBasesV0`, `MaxTunes = 0` | `PlansUseMerged`: converting version 0 takes one from pointers twice, and option 0 wraps around | `solution_map.cpp:334`, `828-890` | `solution_map.h:180` |
| `MCLeafPlan` | `Nodes <- MCOddDistance` | `OutputIsTransform`: an odd distance of real data is halved | `node_factory.cpp:568`, `tree_node_real.cpp:354-365` | `rocfft.h:289` |
| `MCAccuracyTest` | `Tests <- MCScaled`, `MaxTests = 2` | `VerdictIsRight`: the scale factor is not in the key of the cached data | `src/shared/accuracy_test.h:982` | |
| `MCAccuracyTest` | `DirectLayouts <- MCMissed4D`, `MCMissed5D`, or `Tests <- MCMissedBatch` | `ValidatorMatchesEnumeration`: collisions of two dimensions with two others are missed (lengths 2, 2, 2, 2 with strides 5, 6, 7, 8), as the vectors that are compared start with zeros and the bound on offsets has wrapped | `src/shared/array_validator.cpp:265-281`, `136-147` | `src/clients/tests/validate_length_stride.cpp:116` |
| `MCAccuracyTest` | `DirectLayouts <- MCLongOffsets` | `ValidatorMatchesEnumeration`: an offset of 2^31 or more is cut to an `int`, and a collision there is missed | `src/shared/array_validator.cpp:102` | `src/clients/tests/validate_length_stride.cpp:116` |
| `MCAccuracyTest` | `DirectLayouts <- MCLongHappy` | `ValidatorMatchesEnumeration`: the enumeration of the test cuts offsets too, and takes elements 2^32 apart for one | `src/clients/tests/validate_length_stride.cpp:73` | `src/clients/tests/validate_length_stride.cpp:116` |
| `MCAccuracyTest` | `EarlyThrow = TRUE`, `MaxTests = 2` | `CacheAgrees`: data goes back to the cache before its conversion has ended | `src/shared/accuracy_test.h:976-981` | |

The first five take `MaxRounds = 1`. Other values of `Configs`, in Layouts, for
which a property of `field_plans` fails: `OutputCorrect` for `PaddedFirst`,
`PaddedScatter`, `PaddedLine`, `UpperFirst` and, with `IntBits = 4`,
`WideField`; `TempsUsable` for `PaddedGather` and `ScatterReal`;
`CreateSucceeds` for `IdleRank` and `InPlaceOutputField`.

Found by reading only:

* plans: `plan.h:283-285` says the sorted items are traversed in reverse order,
  `transform.cpp:288` traverses them forward; a rank with output bricks only
  overrides a pointer that does not exist (`transform.cpp:404`); a field whose
  other side is a plain real array is gathered into the output buffer
  (`plan.cpp:1559`); `Repo::Clear` leaves the reverse maps although
  `auxiliary.cpp:144-145` wants later plans to "start from scratch";
  `TransformPowX` stores callbacks in the nodes of a plan that several threads
  may execute (`powX.cpp:557-563`);
* trees: 3D_RC of unequal lengths loses `outputLength` when the output has gaps
  (`tree_node_3D.cpp:627-641`); the SBCR trees of real 3D transforms ignore
  `iDist` and `oDist` (`tree_node_real.cpp:1030-1047`, `1653-1687`); the check of
  a kernel that works in place compares strides only
  (`assignment_policy.cpp:404-417`); `search_pool` dereferences the end of the
  lengths when none is large enough (`node_factory.cpp:237`);
  `CheckFuseShimForArch` erases inside a range-for (`plan.cpp:3709-3718`);
* kernels: the edge store of indivisible SBCR tiles has no check against
  `lengths[1]` (`stockham_gen_cr.h:365-385`); 2D_SINGLE with real processing
  lets idle threads take part (`stockham_gen_2d.h:315-322`, `395-402`); SBCC in
  half precision uses half the LDS without direct loads
  (`tree_node_1D.cpp:992-999` and `kernel-generator.py:227` disagree); latent, as
  no kernel of the library is configured so: 2D kernels with equal lengths and
  different factors (`rtc_stockham_gen.cpp:280-289`), twiddles in LDS read
  without a barrier, the diagonal transpose of SBRC;
* tuning: `remove_all_marked` uses a node after erasing it
  (`solution_map.cpp:902-908`); merging into a base of an older version is
  silently ignored (`tuning_helper.cpp:482`); when all candidates are skipped
  candidate 0 is exported;
* tests: the loop over permutations of `valid_length_stride_generald` tests `v`
  in place of `perms[iperm]` (`array_validator.cpp:402`); the
  partitions of `distance` overlap for interleaved data, as they are cut
  column-major and walked row-major (`fft_params.h:2213-2252`, `2663-2742`);
  the check of the gaps between output elements looks at those of the first row
  only (`accuracy_test.h:631-644`); `distribute_input` cuts by
  `length` instead of `ilength` for C2R (`fft_params.h:2161`); the outer strides
  of in-place real transforms are not compared; the key is stored before the
  data when the comparison throws (`accuracy_test.h:1526-1542`).

## 8. What is not modelled

* Several devices: `rocfft_plan_t::sort` and the default strides (the
  configurations have ascending strides and lengths over 1, except for a batch
  of one, for which `sort` changes nothing); `allgather_brick_params_mpi`; which
  of the peer copy, staging copy and MPI paths moves data; the exception of
  `GlobalTransposeA2A` for a rank without a device, which the model throws for
  the plan as a whole although only that rank throws; message tags.
* Repository and lifecycle: device tables' contents in Repo (they are in
  KernelArithmetic); the library used again while plans from before
  `rocfft_cleanup` exist (the comment at `auxiliary.cpp:139` says cleanup is
  "called once in program after end of library use"), except for the streams
  of threads, which do outlive it; the clean-up of HIP streams in `Clear`.
* The plan description's setters and the API's argument checks: sequential, with
  no state beyond what they assign.
* Trees: in LeafPlan the ranking of buffer chains, padding, collapsing, planar
  data, and the shims that put real processing into a Stockham kernel (their
  result is a kernel of StockhamKernel); schemes that a solution map prescribes.
* Kernels: the generator's syntax trees and the printing of source text
  (`generator.h`); rounding and precision; callbacks; load and store operations;
  the packing of kernel arguments; the HIP runtime.
* RTCCache: the text of kernels, SQLite's own locking.
* Tuning: the text of the files, the fall-back to the architecture "any", the
  parameters inside a kernel's configuration.
* Clients: the command line (`CLI11.hpp` is vendored), data generators, the
  benchmark and the tests other than the accuracy test and the one of the
  validator; the check that a transform leaves the gaps of its output alone
  (`check_output_strides`; that it is refused in place is modelled).
* Build-time helpers and scripts: offline programs without state of their own.

## 9. Plan

Done: everything in section 2, with the theorems of section 6. Next:

1. Proofs. FieldExec: `ConflictsOrdered` of the plans that are created, from what
   is proved of their stages and an account of the leases; AccuracyTest:
   `CacheAgrees` and `VerdictIsRight`; Tuning: `WinnersAreBest` of a phase. Repo: an
   abstract specification of a shared table (acquire, use, release) that it
   implements.
2. **AllGather**: the bricks of all ranks after `allgather_brick_params_mpi`;
   the field that FieldPlan starts from as its abstract specification.
3. **sort** and the defaults of strides, as operators in front of `CreatePlan`;
   tag arithmetic (`tree_node.cpp:448`) on small widths.
4. LeafPlan with the ranking of AssignmentPolicy, planar data and the remaining
   shims, so that the two models of one device become one.

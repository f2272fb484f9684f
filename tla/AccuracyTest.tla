---------------------------- MODULE AccuracyTest ----------------------------
(***************************************************************************)
(* The accuracy tests (shared/accuracy_test.h, fft_vs_reference_impl): one *)
(* test after another compares a transform on the GPU with one on the CPU, *)
(* while the last input and output of the CPU are kept for the tests that  *)
(* follow.  The main thread launches asynchronous tasks for what runs on   *)
(* the CPU, and they wait for each other through shared futures.  A HIP    *)
(* call that fails throws, and the destructors of the locals then run in   *)
(* the reverse order of their declarations: the data goes back to the      *)
(* cache before the conversions of its precision are waited for.           *)
(*                                                                         *)
(* The transforms are external.  A value of the input is                   *)
(* <<test, batch, index, precision>>; the transform of a complete batch is *)
(* one value for each index of the output, and anything else is Bad.       *)
(*                                                                         *)
(* The test of the validator of layouts (validate_length_stride.cpp) runs  *)
(* in the same program and shares no state with the others.                *)
(***************************************************************************)
EXTENDS TestParams

CONSTANTS Tests,       \* the parameters the generators of the tests yield
          DirectLayouts, \* the lengths and strides of generate_valid_length_stride
          MaxTests,    \* bound on the tests of one run
          Failures,    \* the places where a HIP call or an allocation may fail
          EarlyThrow   \* whether one may fail that nothing makes wait for the conversions

VARIABLES cache,       \* last_cpu_fft_data
          p,           \* the parameters of the test, after validate
          c,           \* contiguous_params: the layout of the CPU's buffers
          pc,          \* where the main thread is
          host,        \* the locals cpu_input and cpu_output
          gpu,         \* gpu_input_data's device copy and gpu_output
          run_fftw,    \* nothing usable in the cache
          store_to_cache, \* the locals go back to the cache at the end
          task,        \* the asynchronous tasks: "none", "running", "done"
          verdict,     \* what was compared, and with which result
          tests        \* tests run so far

vars == <<cache, p, c, pc, host, gpu, run_fftw, store_to_cache, task, verdict, tests>>

Precisions == <<"half", "single", "double">>
Width(prec) == CHOOSE i \in 1..3 : Precisions[i] = prec

TaskNames == {"convIn", "convOut", "inputNorm", "cpuFFT", "gpuNorm", "compare"}
NoTasks == [t \in TaskNames |-> "none"]
Ended(t) == task[t] # "running"

EmptyCache == [length |-> <<>>, nbatch |-> 0, ttype |-> "c2c", cbs |-> FALSE, prec |-> "single",
               input |-> <<>>, output |-> <<>>]
NoData == [input |-> <<>>, output |-> <<>>]
NoVerdict == [norm |-> "none", output |-> "none", roundTrip |-> "none"]

Init ==
    /\ cache = EmptyCache /\ p = <<>> /\ c = <<>> /\ pc = "idle" /\ host = NoData /\ gpu = NoData
    /\ run_fftw = TRUE /\ store_to_cache = FALSE /\ task = NoTasks /\ verdict = NoVerdict /\ tests = 0
-----------------------------------------------------------------------------
(* What the transforms compute. *)

Kind(q) == [ttype |-> q.ttype, cbs |-> q.cbs, scale |-> q.scale]

\* The result of a transform of kind k for one batch of input values.
TransformOf(k, values, outIndices) ==
    LET v == values[CHOOSE i \in DOMAIN values : \A d \in DOMAIN i : i[d] = 0]
    IN  [o \in outIndices |->
            IF v # Bad /\ \A i \in DOMAIN values : values[i] = <<v[1], v[2], i, v[4]>>
            THEN <<v[1], v[2], o, v[4], k>> ELSE Bad]

\* The inverse gives the input back, scaled.
InverseOf(k, values, outIndices) ==
    LET v == values[CHOOSE i \in DOMAIN values : \A d \in DOMAIN i : i[d] = 0]
    IN  [o \in outIndices |->
            IF v # Bad /\ \A i \in DOMAIN values : values[i] = <<v[1], v[2], i, v[4], k>>
            THEN <<v[1], v[2], o, v[4]>> ELSE Bad]

Batches(vals, nbatch, length) == [b \in 0..(nbatch - 1) |-> [i \in Box(length) |-> vals[<<b, i>>]]]

\* The transform of a buffer in the input layout of q to one in its output layout.
Execute(q, input, inverse) ==
    LET vals == LoadElements(input, q.itype, q.ioffset, q.istride, q.idist, q.nbatch, Box(ilength(q)))
        ins  == Batches(vals, q.nbatch, ilength(q))
        outs == [b \in 0..(q.nbatch - 1) |-> IF inverse = <<>> THEN TransformOf(Kind(q), ins[b], Box(olength(q)))
                                             ELSE InverseOf(inverse, ins[b], Box(olength(q)))]
    IN  StoreElements(Allocate(q.osize), q.otype, q.ooffset, q.ostride, q.odist,
                      [bi \in (0..(q.nbatch - 1)) \X Box(olength(q)) |-> outs[bi[1]][bi[2]]])

\* The input a generator makes for the n-th test, in the layout of p.
GeneratedInput(n) ==
    StoreElements(Allocate(p.isize), p.itype, p.ioffset, p.istride, p.idist,
                  [bi \in (0..(p.nbatch - 1)) \X Box(ilength(p)) |-> <<n, bi[1], bi[2], p.prec>>])

\* narrow_precision_inplace on the first buffer of the vector.
Narrow(bufs, prec) ==
    [n \in DOMAIN bufs |-> [pos \in DOMAIN bufs[n] |->
        IF bufs[n][pos] = Bad THEN Bad ELSE [bufs[n][pos] EXCEPT ![4] = prec]]]
-----------------------------------------------------------------------------
\* The test direct_comparison: the validator's answer for a layout against the
\* enumeration of its elements.
DirectComparison(y) ==
    /\ pc = "idle" /\ tests = 0
    /\ p' = y
    /\ verdict' = [verdict EXCEPT !.output =
                      IF array_valid(y.length, y.stride) = direct_validity_test(y.length, y.stride)
                      THEN "passed" ELSE "failed"]
    /\ pc' = "compared"
    /\ UNCHANGED <<cache, c, host, gpu, run_fftw, store_to_cache, task, tests>>
-----------------------------------------------------------------------------
(* The main thread, up to the launch of the CPU transform. *)

\* The generators fill in the parameters and keep the valid ones.
Generate(t) ==
    /\ pc = "idle" /\ tests < MaxTests
    /\ p' = validate(t)
    /\ c' = contiguous_params(t)
    /\ pc' = "generated"
    /\ tests' = tests + 1
    /\ verdict' = NoVerdict /\ gpu' = NoData
    /\ UNCHANGED <<cache, host, run_fftw, store_to_cache, task>>

Reject ==
    /\ pc = "generated" /\ ~valid(p)
    /\ pc' = "idle"
    /\ UNCHANGED <<cache, p, c, host, gpu, run_fftw, store_to_cache, task, verdict, tests>>

\* A skipped or failed test leaves the function through its destructors.
Throw(place) == /\ place \in Failures
                /\ pc' = "unwind"
                /\ UNCHANGED <<cache, p, c, host, gpu, run_fftw, store_to_cache, task, verdict, tests>>

\* Where the conversions may still be running and no later future waits for them.
ThrowEarly(place) == (EarlyThrow \/ (Ended("convIn") /\ Ended("convOut"))) /\ Throw(place)

\* The plan, its work buffer and the input buffer on the device.
Begin ==
    /\ pc = "generated" /\ valid(p)
    /\ \/ /\ pc' = "lookup" /\ store_to_cache' = FALSE /\ run_fftw' = TRUE /\ host' = NoData
          /\ UNCHANGED <<cache, p, c, gpu, task, verdict, tests>>
       \/ Throw("plan")

\* A bug that could be there: the callbacks are not part of the key.
SameTransformAnyCallbacks == cache.length = p.length /\ cache.ttype = p.ttype

SameTransform == cache.length = p.length /\ cache.ttype = p.ttype /\ cache.cbs = p.cbs

Hit == SameTransform /\ cache.nbatch >= p.nbatch

\* The cached data is taken out, and narrowed when the test is of a narrower
\* precision; the cache's precision is changed at once.
TakeCached ==
    /\ pc = "lookup" /\ Hit
    /\ Width(p.prec) <= Width(cache.prec)
    /\ host' = [input |-> cache.input, output |-> cache.output]
    /\ cache' = [cache EXCEPT !.input = <<>>, !.output = <<>>, !.prec = p.prec]
    /\ run_fftw' = FALSE /\ store_to_cache' = TRUE
    /\ task' = IF p.prec = cache.prec THEN task ELSE [task EXCEPT !["convIn"] = "running", !["convOut"] = "running"]
    /\ pc' = "input"
    /\ UNCHANGED <<p, c, gpu, verdict, tests>>

\* "test ordering is incorrect"
Abort ==
    /\ pc = "lookup" /\ Hit /\ Width(p.prec) > Width(cache.prec)
    /\ pc' = "aborted"
    /\ UNCHANGED <<cache, p, c, host, gpu, run_fftw, store_to_cache, task, verdict, tests>>

\* Another transform empties the cache, a larger batch does not.
Miss ==
    /\ pc = "lookup" /\ ~Hit
    /\ cache' = IF SameTransform THEN cache ELSE EmptyCache
    /\ pc' = "plan_cpu"
    /\ UNCHANGED <<p, c, host, gpu, run_fftw, store_to_cache, task, verdict, tests>>

\* The CPU's plan; a problem that needs too much memory is skipped.
PlanCPU ==
    /\ pc = "plan_cpu"
    /\ \/ /\ host' = [host EXCEPT !.input = Allocate(c.isize)]
          /\ pc' = "input"
          /\ UNCHANGED <<cache, p, c, gpu, run_fftw, store_to_cache, task, verdict, tests>>
       \/ Throw("ram")

NeedsCopy == p.itype # c.itype \/ p.istride # c.istride \/ p.idist # c.idist \/ p.isize # c.isize

\* New input for both sides.  The copy of input generated on the host to the
\* device is not checked: when it fails the test goes on, and the device holds
\* whatever was in its buffer.
MakeInput ==
    /\ pc = "input" /\ run_fftw
    /\ \/ /\ gpu' = [gpu EXCEPT !.input = GeneratedInput(tests)]
          /\ host' = [host EXCEPT !.input = IF NeedsCopy THEN ToContiguous(gpu'.input, host.input, p, c)
                                            ELSE gpu'.input]
          /\ pc' = "norm"
          /\ UNCHANGED <<cache, p, c, run_fftw, store_to_cache, task, verdict, tests>>
       \/ /\ "hcopy" \in Failures
          /\ gpu' = [gpu EXCEPT !.input = Allocate(p.isize)]
          /\ \E input \in {GeneratedInput(tests)} :
                host' = [host EXCEPT !.input = IF NeedsCopy THEN ToContiguous(input, host.input, p, c) ELSE input]
          /\ pc' = "norm"
          /\ UNCHANGED <<cache, p, c, run_fftw, store_to_cache, task, verdict, tests>>
       \/ Throw("icopy")

\* The cached input, once its conversion is over, for the device.
CopyCached ==
    /\ pc = "input" /\ ~run_fftw /\ Ended("convIn")
    /\ \/ /\ gpu' = [gpu EXCEPT !.input = IF NeedsCopy THEN FromContiguous(host.input, Allocate(p.isize), p, c)
                                          ELSE host.input]
          /\ pc' = "norm"
          /\ UNCHANGED <<cache, p, c, host, run_fftw, store_to_cache, task, verdict, tests>>
       \/ ThrowEarly("icopy")

LaunchNorm ==
    /\ pc = "norm"
    /\ task' = [task EXCEPT !["inputNorm"] = "running"]
    /\ pc' = "output"
    /\ UNCHANGED <<cache, p, c, host, gpu, run_fftw, store_to_cache, verdict, tests>>

\* The output buffer on the device, then the transform on the CPU.
LaunchCPU ==
    /\ pc = "output"
    /\ \/ /\ task' = [task EXCEPT !["cpuFFT"] = "running"]
          /\ pc' = "gpu"
          /\ UNCHANGED <<cache, p, c, host, gpu, run_fftw, store_to_cache, verdict, tests>>
       \/ ThrowEarly("oalloc")
-----------------------------------------------------------------------------
(* The asynchronous tasks. *)

\* A conversion that starts after the vector went back to the cache finds it
\* empty, and front() of an empty vector is undefined: the process stops, or
\* something else is overwritten and the data stays as it is.
Convert(t, field) ==
    /\ task[t] = "running"
    /\ task' = [task EXCEPT ![t] = "done"]
    /\ host' = [host EXCEPT ![field] = Narrow(@, p.prec)]
    /\ pc' \in IF host[field] = <<>> THEN {pc, "aborted"} ELSE {pc}
    /\ UNCHANGED <<cache, p, c, gpu, run_fftw, store_to_cache, verdict, tests>>

ConvertInput == Convert("convIn", "input")
ConvertOutput == Convert("convOut", "output")

\* The input of the CPU is complete, of one test and of the precision p asks for.
InputComplete(bufs) ==
    \E n \in 1..tests : \A b \in 0..(c.nbatch - 1), i \in Box(ilength(c)) :
        bufs[1][compute_index(i, c.istride, b * c.idist)] = <<n, b, i, c.prec>>

InputNorm ==
    /\ task["inputNorm"] = "running" /\ Ended("convIn")
    /\ verdict' = [verdict EXCEPT !.norm = IF InputComplete(host.input) THEN "right" ELSE "wrong"]
    /\ task' = [task EXCEPT !["inputNorm"] = "done"]
    /\ UNCHANGED <<cache, p, c, pc, host, gpu, run_fftw, store_to_cache, tests>>

\* A bug that could be there: the copy is made for callbacks only.
CopiesInputCallbacks == p.cbs

\* FFTW overwrites the input of a complex-to-real transform, and the callbacks
\* that of any: these work on a copy.
CopiesInput == p.cbs \/ p.ttype = "c2r"

InputOverwritten == [n \in DOMAIN host.input |-> [pos \in DOMAIN host.input[n] |-> Bad]]

execute_cpu_fft ==
    host' = [input  |-> IF (p.ttype = "c2r" \/ p.cbs) /\ ~CopiesInput THEN InputOverwritten ELSE host.input,
             output |-> Execute(c, host.input, <<>>)]

CpuFFT ==
    /\ task["cpuFFT"] = "running" /\ Ended("inputNorm")
    /\ IF run_fftw THEN execute_cpu_fft ELSE Ended("convOut") /\ UNCHANGED host
    /\ task' = [task EXCEPT !["cpuFFT"] = "done"]
    /\ UNCHANGED <<cache, p, c, pc, gpu, run_fftw, store_to_cache, verdict, tests>>

GpuNorm ==
    /\ task["gpuNorm"] = "running"
    /\ task' = [task EXCEPT !["gpuNorm"] = "done"]
    /\ UNCHANGED <<cache, p, c, pc, host, gpu, run_fftw, store_to_cache, verdict, tests>>

OutputPairs == ComparedPositions(olength(p), p.nbatch, c.otype, c.ostride, c.odist, p.otype, p.ostride, p.odist)

CompareOutput ==
    /\ task["compare"] = "running" /\ Ended("cpuFFT")
    /\ verdict' = [verdict EXCEPT !.output =
                      IF SameElements(host.output, c.otype, gpu.output, p.otype, p.ooffset, OutputPairs)
                      THEN "passed" ELSE "failed"]
    /\ task' = [task EXCEPT !["compare"] = "done"]
    /\ UNCHANGED <<cache, p, c, pc, host, gpu, run_fftw, store_to_cache, tests>>
-----------------------------------------------------------------------------
(* The main thread, from the transform on the GPU. *)

\* The library's result is right, or wrong at one element.
ExecuteGPU ==
    /\ pc = "gpu"
    /\ \/ /\ \E right \in {Execute(p, gpu.input, <<>>)} :
                \E n \in DOMAIN right : \E wrong \in {-1} \union {pos \in DOMAIN right[n] : right[n][pos] # Bad} :
                   gpu' = [gpu EXCEPT !.output = IF wrong = -1 THEN right ELSE [right EXCEPT ![n][wrong] = Bad]]
          /\ pc' = "compare"
          /\ UNCHANGED <<cache, p, c, host, run_fftw, store_to_cache, task, verdict, tests>>
       \/ Throw("gpu")

UpdateCache == ~SameTransform \/ cache.prec # p.prec \/ p.nbatch > cache.nbatch

\* The comparison is launched and the cache's key is set to this test.
LaunchCompare ==
    /\ pc = "compare"
    /\ task' = [task EXCEPT !["gpuNorm"] = "running", !["compare"] = "running"]
    /\ cache' = IF UpdateCache
                THEN [cache EXCEPT !.length = p.length, !.nbatch = p.nbatch, !.ttype = p.ttype,
                                   !.cbs = p.cbs, !.prec = p.prec]
                ELSE cache
    /\ pc' = "wait"
    /\ UNCHANGED <<p, c, host, gpu, run_fftw, store_to_cache, verdict, tests>>

\* The inverse is run when the caller asks for it, for forward transforms only.
WaitCompare ==
    /\ pc = "wait" /\ Ended("compare")
    /\ store_to_cache' = TRUE
    /\ pc' \in IF Forward(p) THEN {"inverse", "unwind"} ELSE {"unwind"}
    /\ UNCHANGED <<cache, p, c, host, gpu, run_fftw, task, verdict, tests>>

Inv == validate(inverse_from_forward(p))

\* The inverse of the GPU's output is compared with the CPU's input.
RoundTrip ==
    /\ pc = "inverse"
    /\ \/ /\ \E back \in {Execute(Inv, gpu.output, Kind(p))} :
                verdict' = [verdict EXCEPT !.roundTrip =
                    IF SameElements(host.input, c.itype, back, Inv.otype, Inv.ooffset,
                                    ComparedPositions(olength(Inv), Inv.nbatch, c.itype, c.istride, c.idist,
                                                      Inv.otype, Inv.ostride, Inv.odist))
                    THEN "passed" ELSE "failed"]
          /\ pc' = "unwind"
          /\ UNCHANGED <<cache, p, c, host, gpu, run_fftw, store_to_cache, task, tests>>
       \/ Throw("inverse")

\* The destructors: first the later futures wait for their tasks, then the
\* locals are exchanged with the cache's data ...
StoreCPUDataToCache ==
    /\ pc = "unwind" /\ \A t \in {"inputNorm", "cpuFFT", "gpuNorm", "compare"} : Ended(t)
    /\ IF store_to_cache
       THEN /\ cache' = [cache EXCEPT !.input = host.input, !.output = host.output]
            /\ host' = [input |-> cache.input, output |-> cache.output]
       ELSE UNCHANGED <<cache, host>>
    /\ pc' = "join"
    /\ UNCHANGED <<p, c, gpu, run_fftw, store_to_cache, task, verdict, tests>>

\* ... and then the futures of the conversions wait for theirs.
EndTest ==
    /\ pc = "join" /\ Ended("convIn") /\ Ended("convOut")
    /\ pc' = "idle"
    /\ task' = NoTasks /\ host' = NoData /\ store_to_cache' = FALSE
    /\ UNCHANGED <<cache, p, c, gpu, run_fftw, verdict, tests>>

\* The last test is over, or the process has stopped.
Finished ==
    /\ pc = "idle" => tests = MaxTests
    /\ pc \in {"idle", "aborted", "compared"}
    /\ UNCHANGED vars

Next ==
    \/ \E y \in DirectLayouts : DirectComparison(y)
    \/ \E t \in Tests : Generate(t)
    \/ Reject \/ Begin \/ TakeCached \/ Abort \/ Miss \/ PlanCPU \/ MakeInput \/ CopyCached
    \/ LaunchNorm \/ LaunchCPU \/ ExecuteGPU \/ LaunchCompare \/ WaitCompare \/ RoundTrip
    \/ /\ pc # "aborted"
       /\ ConvertInput \/ ConvertOutput \/ InputNorm \/ CpuFFT \/ GpuNorm \/ CompareOutput
    \/ StoreCPUDataToCache \/ EndTest
    \/ Finished

Spec == Init /\ [][Next]_vars
-----------------------------------------------------------------------------
\* The layouts of the two sides, as array_valid sees them.
Layout(length, stride, dist) ==
    LET D == Counted(length)
        N == p.nbatch > 1
    IN  [l |-> [i \in 1..Len(D) |-> length[D[i]]] \o (IF N THEN <<p.nbatch>> ELSE <<>>),
         s |-> [i \in 1..Len(D) |-> stride[D[i]]] \o (IF N THEN <<dist>> ELSE <<>>)]

Layouts == {Layout(ilength(p), p.istride, p.idist), Layout(olength(p), p.ostride, p.odist)}

\* array_valid says whether the elements of a layout lie at different
\* addresses, for any number of dimensions: it agrees with the enumeration of
\* the test direct_comparison (EXPECT_EQ(test_val, ref_val)), and for both sides
\* of every transform the generators yield it refuses exactly the layouts in
\* which two elements share an address.
ValidatorMatchesEnumeration ==
    /\ pc = "compared" => verdict.output = "passed"
    /\ pc = "generated" => \A y \in Layouts : array_valid(y.l, y.s) <=> Distinct(y.l, y.s)

\* Every position of a layout lies inside buffers of these sizes (in reals).
LayoutFits(type, offset, length, stride, dist, sizes) ==
    \A n \in 1..nbuffer(type), b \in 0..(p.nbatch - 1), i \in Box(length) :
        (compute_index(i, stride, b * dist) + offset[n] + 1) * VarSize(type) <= sizes[n]

OutputSizes == IF p.place = "in" THEN ibuffer_sizes(p) ELSE obuffer_sizes(p)

\* The input, the output and the output of the inverse stay inside the buffers
\* the test allocates, in place and out of place, and a buffer that is copied
\* as a whole is as large on the host as on the device.
BuffersHold ==
    pc = "lookup" =>
        /\ LayoutFits(p.itype, p.ioffset, ilength(p), p.istride, p.idist, ibuffer_sizes(p))
        /\ LayoutFits(p.otype, p.ooffset, olength(p), p.ostride, p.odist, OutputSizes)
        /\ Forward(p) => LayoutFits(Inv.otype, Inv.ooffset, olength(Inv), Inv.ostride, Inv.odist, ibuffer_sizes(p))
        /\ ~NeedsCopy => \A n \in 1..nbuffer(p.itype) : ibuffer_sizes(p)[n] = c.isize[n] * VarSize(c.itype)

\* The device has a wrong result, or never had the input.
Faulty == gpu.output # Execute(p, gpu.input, <<>>) \/ gpu.input = Allocate(p.isize)

\* A test fails exactly when the GPU's result is wrong or its input was lost,
\* whatever the tests before it left in the cache and whichever way the tasks
\* interleave: the reference is the transform of the input, in its precision, no
\* element is left out of the comparison, and the norm is that of the input.
VerdictIsRight ==
    pc = "unwind" =>
        /\ verdict.norm # "wrong"
        /\ verdict.output # "none" => (verdict.output = "failed" <=> Faulty)
        /\ verdict.roundTrip # "none" => (verdict.roundTrip = "failed" <=> Faulty)

\* Between two tests the cache holds what its key says: the input of one test
\* in the key's precision, for the key's batches, and its transform.
CacheAgrees ==
    pc = "idle" /\ cache.length # <<>> =>
        LET q   == [p EXCEPT !.length = cache.length, !.nbatch = cache.nbatch, !.ttype = cache.ttype,
                             !.cbs = cache.cbs, !.prec = cache.prec]
            k   == contiguous_params(q)
            all == (0..(cache.nbatch - 1)) \X Box(ilength(k))
        IN  \E n \in 1..tests :
                /\ \A bi \in all : ElementAt(cache.input, k.itype, <<0, 0>>, compute_index(bi[2], k.istride, bi[1] * k.idist))
                                   = <<n, bi[1], bi[2], cache.prec>>
                /\ SameElements(Execute(k, cache.input, <<>>), k.otype, cache.output, k.otype, <<0, 0>>,
                                {<<pos, pos>> : pos \in 0..(k.osize[1] - 1)})
=============================================================================

------------------------------ MODULE MCPlanBuild ------------------------------
(***************************************************************************)
(* Plans with a part of the library's kernels (kernel-generator.py and the *)
(* map of node_factory.cpp): every scheme of a complex transform, in place *)
(* and out of place, with packed, padded and interleaved data.             *)
(***************************************************************************)
EXTENDS PlanBuild

\* A map of the function pool.
Table(entries) == [len \in {e[1] : e \in entries} |-> (CHOOSE e \in entries : e[1] = len)[2]]

MCKernels == Table({<<1, 64>>, <<2, 64>>, <<3, 64>>, <<4, 128>>, <<5, 128>>, <<8, 16>>, <<16, 16>>,
                    <<32, 8>>, <<50, 25>>, <<56, 16>>, <<64, 4>>, <<84, 10>>, <<96, 8>>, <<100, 6>>,
                    <<112, 16>>, <<125, 10>>, <<128, 16>>, <<168, 4>>, <<192, 8>>, <<200, 3>>,
                    <<256, 1>>, <<336, 2>>, <<512, 1>>, <<1024, 1>>, <<2048, 1>>, <<4096, 1>>})
MCSBCC == Table({<<50, 51>>, <<64, 32>>, <<84, 42>>, <<96, 21>>, <<100, 8>>, <<112, 16>>, <<125, 16>>,
                 <<128, 16>>, <<168, 6>>, <<192, 16>>, <<200, 16>>, <<256, 16>>, <<336, 16>>, <<512, 16>>})
MCSBRC == Table({<<50, 10>>, <<64, 8>>, <<100, 4>>, <<112, 16>>, <<125, 10>>, <<128, 8>>, <<192, 8>>,
                 <<200, 10>>, <<256, 8>>, <<512, 4>>})
MCSBCR == {56, 100, 200, 336}
MCSingle2D == {<<32, 32>>, <<16, 32>>, <<64, 32>>, <<32, 16>>}
MCDivLength1 == Table({<<8192, 64>>, <<16384, 64>>, <<65536, 256>>, <<262144, 512>>, <<10000, 100>>,
                       <<12288, 192>>, <<40000, 200>>})

------------------------------------------------------------------------------
Up(batch, precision, arch) == [batch |-> batch, precision |-> precision, arch |-> arch]

\* A request for packed, interleaved data.
Packed(length, batch, arch, placement) ==
  [NewNode("NONE", Len(length), length, Up(batch, "single", arch)) EXCEPT
     !.placement = placement,
     !.inStride = PackFrom(1, length), !.outStride = PackFrom(1, length),
     !.iDist = Product(length), !.oDist = Product(length),
     !.inArrayType = "CI", !.outArrayType = "CI"]

\* Another layout of the input or of the output.
InStrides(r, stride, dist) == [r EXCEPT !.inStride = stride, !.iDist = dist]
OutStrides(r, stride, dist) == [r EXCEPT !.outStride = stride, !.oDist = dist]
\* Rows that are pad elements longer than the data.
PaddedRows(length, pad) == <<1>> \o PackFrom(length[1] + pad, Tail(length))
PaddedDist(length, pad) == Product([length EXCEPT ![1] = @ + pad])
PadIn(r, pad) == InStrides(r, PaddedRows(r.length, pad), PaddedDist(r.length, pad))
PadOut(r, pad) == OutStrides(r, PaddedRows(r.length, pad), PaddedDist(r.length, pad))

Placements == {"inplace", "notinplace"}

Lengths == {
  <<64>>, <<8192>>, <<10000>>, <<262144>>, <<524288>>, <<33554432>>, <<14336>>, <<28000>>,
  <<32, 32>>, <<256, 256>>, <<192, 192>>, <<1024, 1024>>, <<8192, 64>>, <<64, 8192>>,
  <<128, 192>>, <<524288, 4>>, <<16, 1024>>,
  <<64, 64, 64>>, <<128, 128, 128>>, <<200, 200, 200>>, <<56, 336, 336>>, <<32, 32, 1024>>,
  <<32, 32, 8192>>, <<256, 256, 1024>>, <<1024, 192, 1024>>, <<128, 192, 96>>, <<84, 84, 84>>,
  <<256, 64, 192>>, <<100, 50, 200>>, <<192, 200, 336>>, <<168, 168, 168>>, <<512, 512, 512>> }
Archs == {"gfx906", "gfx90a", "gfx1030"}

PackedRequests == {Packed(x[1], x[2], x[3], x[4]) : x \in Lengths \X {1, 2} \X Archs \X Placements}

\* Planar data; an in-place transform has the array type of its input for its output.
Planar(r) ==
  {[r EXCEPT !.inArrayType = x[1], !.outArrayType = x[2]] :
     x \in {<<"CP", "CP">>} \cup (IF r.placement = "inplace" THEN {} ELSE {<<"CP", "CI">>, <<"CI", "CP">>})}

\* Rows with gaps, in the input, in the output and in both.
Padded(r) ==
  {PadOut(PadIn(r, 3), 3)}
  \cup (IF r.placement = "inplace" THEN {} ELSE {PadIn(r, 3), PadOut(r, 3), PadOut(PadIn(r, 5), 3)})

\* A batch whose transforms are interleaved: the elements of all transforms at
\* one index are neighbours.
Interleaved(r) ==
  LET s == PackFrom(r.batch, r.length) IN InStrides(OutStrides(r, s, 1), s, 1)

OnMI200 == {Packed(x[1], x[2], "gfx90a", x[3]) : x \in Lengths \X {1, 2} \X Placements}

\* The requests for which gaps in the output do not work: 3D_BLOCK_RC, and
\* 3D_RC of unequal lengths.
Scheme(r) == BuildTree(RootNode(r)).scheme
OutputPadded(r) == r.outStride # PackFrom(1, r.length)
PacksOutput(r) == OutputPadded(r) /\ Scheme(r) = "3D_BLOCK_RC"
LosesOutputLength(r) ==
  OutputPadded(r) /\ Scheme(r) = "3D_RC" /\ Cardinality(ToSet(r.length)) > 1

AllPadded == UNION {Padded(r) : r \in OnMI200}
PlanarRequests == UNION {Planar(r) : r \in OnMI200}
PaddedRequests == {r \in AllPadded : ~PacksOutput(r) /\ ~LosesOutputLength(r)}
InterleavedRequests == {Interleaved(r) : r \in {r \in OnMI200 : r.batch > 1}}

MCRequests == PackedRequests \cup PlanarRequests \cup PaddedRequests \cup InterleavedRequests

\* 3D_BLOCK_RC with gaps in the output.
PaddedBlockRC == {r \in AllPadded : PacksOutput(r)}

------------------------------------------------------------------------------
\* A plan that is made, or cannot be made, stays as it is.
Resting == phase \in {"done", "failed"} /\ UNCHANGED vars
MCSpec == Init /\ [][Next \/ Resting]_vars
===============================================================================

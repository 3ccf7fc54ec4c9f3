----------------------------- MODULE MCMemTester -----------------------------
(***************************************************************************)
(* MemTesterNX on one region of two words a half, with no fault or any one *)
(* fault of each kind, on a bit of the first byte and on the highest bit.  *)
(***************************************************************************)
EXTENDS MemTester

Bits == {7, 63}

\* A bit of every cell stuck at either value, every address of a half that
\* reaches the other cell, and every later word that disturbs an earlier one.
MCFaults ==
    {NoFault}
    \cup {[NoFault EXCEPT !.kind = "stuck", !.cell = c, !.bit = b, !.val = v] :
             c \in Cells, b \in Bits, v \in {0, 1}}
    \cup {[NoFault EXCEPT !.kind = "alias", !.cell = x[1], !.by = x[2]] :
             x \in {y \in Cells \X Cells : y[1] # y[2] /\ y[1][1] = y[2][1]}}
    \cup {[NoFault EXCEPT !.kind = "coupled", !.cell = x[1], !.by = x[2], !.bit = b, !.val = v] :
             x \in {y \in Cells \X Cells : y[1][1] = y[2][1] /\ y[1][2] < y[2][2]},
             b \in Bits, v \in {0, 1}}

\* Two values of rand_ul that disagree on every bit the faults are about.
MCSamples == {{0, 1, 33, 63}, {2, 7, 40}}

\* Every fault on the first heap, one stuck bit on those around the limits.
CONSTANT MainHeap
ASSUME MCHeapsFit == HeapsFit

MCInit == /\ MemTesterInit
          /\ heap # MainHeap =>
                fault = [NoFault EXCEPT !.kind = "stuck", !.bit = 7, !.val = 1]
MCSpec == MCInit /\ [][MemTesterNext]_mtVars /\ Fairness
=============================================================================

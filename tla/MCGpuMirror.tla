----------------------------- MODULE MCGpuMirror -----------------------------
(* Small instances of GpuMirror: cells on a page each or on one page, one    *)
(* word of page bits, and the views and cells of the writers.                *)
EXTENDS GpuMirror

CONSTANTS c1, c2, c3, p1, p2, x1, guest, device, driver

OwnPages == [c \in Cells |-> IF c = c1 THEN p1 ELSE p2]
OnePage  == [c \in Cells |-> p1]
TwoOnOne == [c \in Cells |-> IF c = c3 THEN p2 ELSE p1]
OneWord  == [p \in Pages |-> x1]

\* A session without native access; one whose stores are the guest's native
\* ones; and one where the kernel's devices store as well, which are strict.
StrictView == [Writers -> {"strict"}]
NativeView == [Writers -> {"native"}]
MixedView  == {[w \in Writers |-> IF w = guest THEN "native" ELSE "strict"]}
AnyView    == StrictView \cup NativeView \cup MixedView

AnyCell  == [w \in Writers |-> Cells]

\* A cell each, the guest's native stores on a page of their own.
CellEach == [w \in Writers |-> CASE w = guest  -> {c3}
                                 [] w = device -> {c1}
                                 [] w = driver -> {c2}]

OneCell == {{c} : c \in Cells}
OnlyC2  == {{c2}}

BoundOf1 == [v \in Views |-> 1]
BoundOf2 == [v \in Views |-> 2]

\* guest and device differ in their names only, except with mixed views: the
\* image of such a state is none of the run's, and nothing is identified with it.
Swap == {[w \in Writers |-> w], [w \in Writers |-> IF w = guest THEN device ELSE guest]}
=============================================================================

-------------------------- MODULE MCEvsEnumerator --------------------------
(* A finite instance of EvsEnumerator: the cameras and the displays are    *)
(* independent, and objects of a kind are interchangeable.                 *)
EXTENDS EvsEnumerator, TLC

CONSTANTS rear, lane, c1, c2, c3, d1, d2, d3

Symmetry == Permutations(Camera) \cup Permutations(Display) \cup Permutations(CameraId)
============================================================================

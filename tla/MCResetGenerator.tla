-------------------------- MODULE MCResetGenerator --------------------------
(* ResetGenerator with two packages and one or two fields per pooled struct. *)
EXTENDS ResetGenerator

MCPackages == <<"a", "b">>
Symmetry == Permutations(Structs)

Basic == Leaf("basic")
MCShapes ==
  { <<Basic, Leaf("plain")>>, <<Pointer(Pointer(Basic)), Leaf("slice")>>,
    <<Array(2, Basic), Pointer(Array(2, Leaf("map")))>>, <<Array(2, Pointer(Leaf("resetter")))>>,
    <<Array(2, Leaf("plain"))>>, <<Array(2, Array(2, Basic))>>, <<Array(1, Array(2, Basic))>>,
    <<Array(2, Pointer(Array(1, Basic)))>>, <<Array(2, Pointer(Array(2, Basic)))>> }
=============================================================================

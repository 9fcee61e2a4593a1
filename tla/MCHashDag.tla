------------------------------ MODULE MCHashDag ------------------------------
(* Every graph over three ids, cycles and self loops included. *)
EXTENDS HashDag

CONSTANTS i1, i2, i3
MCIds == {i1, i2, i3}
=============================================================================

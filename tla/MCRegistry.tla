----------------------------- MODULE MCRegistry -----------------------------
(***************************************************************************)
(* Registry with one local and one cached repository: an image that is     *)
(* pushed here and offered by the upstream, an index that is only pushed   *)
(* and lists it, one that is only upstream, and the layer they need.       *)
(***************************************************************************)
EXTENDS Registry

CONSTANTS img, multi, base, b1, l1, c1

OneLayer == [m \in Images |-> {b1}]
IndexOfImg == [x \in Indexes |-> IF x = multi THEN {img} ELSE {}]
BothOffered == [r \in CachedRepos |-> {img, base}]
=============================================================================

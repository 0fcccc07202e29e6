---------------------------- MODULE MCBlobStore ----------------------------
(***************************************************************************)
(* Instances of BlobStore: files of an upstream and published files, with  *)
(* bytes of their own or with the same.                                    *)
(***************************************************************************)
EXTENDS BlobStore, TLC

CONSTANTS s1, s2, u1, u2, u3, l1, l2

\* Every file has the same bytes, so all of them share one Blob row.
OneContent == [f \in Files |-> {s1}]

\* The first file has bytes of its own, the others the same.
MixedContents == [f \in Files |-> IF f = u1 THEN {s1} ELSE {s2}]

\* The upstream may serve other bytes as a file when asked again.
ChangedContent == [f \in Files |-> {s1, s2}]

\* Download tasks are interchangeable.
Symm == Permutations(Fills)
=============================================================================

--------------------------- MODULE MCArtifactFill ---------------------------
(***************************************************************************)
(* Instances of ArtifactFill: two processes, the second with one request,  *)
(* and the answers an upstream may give for a file of one byte.            *)
(***************************************************************************)
EXTENDS ArtifactFill, TLC

CONSTANTS a, b, r1, r2, r3, t1, t2, t3

\* The bytes the row describes.
Good == [declared |-> 1, len |-> 1, good |-> TRUE]

\* Other bytes, and more of them: a peer's reader is promised too little.
Bad == [declared |-> 2, len |-> 2, good |-> FALSE]

\* The same with no Content-Length: every reader is promised too little.
Unannounced == [declared |-> Unknown, len |-> 2, good |-> FALSE]

GoodBody == {Good}
GoodOrBad == {Good, Bad}
LongBody == {Unannounced}

AtOne == [r \in Requests |-> a]
AtTwo == [r \in Requests |-> IF r = r1 THEN a ELSE b]
Together == {AtOne}
Apart == {AtTwo}
Either == {AtOne, AtTwo}

Symm == Permutations(Tokens)
=============================================================================

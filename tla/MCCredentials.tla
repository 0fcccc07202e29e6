--------------------------- MODULE MCCredentials ---------------------------
(* One account, the tokens it makes, one device login, one docker client.    *)
EXTENDS Credentials, TLC
CONSTANTS ann, t1, t2, t3, d1, g1

MCAsks == {{"publish", "docker:push"}, {"admin"}, {"scanner", "read"}}
\* A disabled account, one with no rights of its own, an administrator.
MCStandings == {{}, {"active"}, Flags}

Symmetry == Permutations(Tokens)
=============================================================================

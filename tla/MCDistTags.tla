------------------------------ MODULE MCDistTags ------------------------------
(***************************************************************************)
(* Instances of DistTags: three versions to publish, and rules of every    *)
(* operator over partial versions, tried on the versions around them.      *)
(***************************************************************************)
EXTENDS DistTags

CONSTANTS c1

B == << <<1, 1>> >>     \* the prerelease "-b"

MCVersions ==
    {Release(<<1, 1, 0>>), [rel |-> <<1, 2, 0>>, pre |-> B], Release(<<2, 0, 0>>)}

MCProbes ==
    {[rel |-> r, pre |-> p] : r \in (0..2) \X (0..2) \X (0..1),
                              p \in {<<>>, B, << <<0, 1>> >>, B \o << <<0, 1>> >>}}

Part(rel) == [rel |-> rel, pre |-> <<>>]

Partials ==
    {Part(<<>>), Part(<<0>>), Part(<<1>>), Part(<<0, 1>>), Part(<<1, 1>>),
     Part(<<0, 0, 0>>), Part(<<0, 0, 1>>), Part(<<0, 1, 0>>), Part(<<1, 1, 0>>),
     [rel |-> <<1, 1, 0>>, pre |-> B]}

Single == {[op |-> op, p |-> p] : op \in {"", "~", "^", "<", "<=", ">", ">="}, p \in Partials}

Spans ==
    {[op |-> "-", p |-> p, to |-> q] :
        p \in {Part(<<0, 1>>), Part(<<1, 1, 0>>)}, q \in {Part(<<1>>), Part(<<1, 1, 0>>)}}

\* A rule of one token, a hyphen range, a window of two tokens, and "||".
MCRules ==
    {{{t}} : t \in Single} \cup {{{t}} : t \in Spans}
    \cup {{{[op |-> ">=", p |-> Part(<<1, 1>>)], [op |-> "<", p |-> Part(<<2, 0, 0>>)]}},
          {{[op |-> "", p |-> Part(<<0>>)]}, {[op |-> "", p |-> Part(<<2>>)]}}}
=============================================================================

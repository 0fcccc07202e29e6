-------------------------------- MODULE Semver --------------------------------
(***************************************************************************)
(* Versions and version ranges of npm and cargo (core/semver.py, and the   *)
(* ordering of core/naming.py).  A version is its three numbers and the    *)
(* identifiers of its prerelease; build metadata takes no part in          *)
(* precedence and is left out.  A range is a set of alternatives ("||"),   *)
(* an alternative a set of tokens, a token an operator and a partial       *)
(* version: its numbers up to the first that is absent or an "x".          *)
(***************************************************************************)
EXTENDS Integers, SequencesExt

\* What a version, and a partial one of a range, is made of.
Identifiers == {s \in Seq(Nat) : Len(s) = 2}
SemVers == {v \in [rel : Seq(Nat), pre : Seq(Identifiers)] : Len(v.rel) = 3}
PartialVersions == {p \in [rel : Seq(Nat), pre : Seq(Identifiers)] : Len(p.rel) <= 3}

\* An identifier is <<0, n>> if numeric and <<1, k>> if alphanumeric, k its
\* place among the words in use: numeric identifiers rank below the others.
Release(rel) == [rel |-> rel, pre |-> <<>>]
FirstOf(rel) == [rel |-> rel, pre |-> << <<0, 0>> >>]      \* the "-0" of a bound

IsPrerelease(v) == v.pre # <<>>

Lexicographic(s, t, Less(_, _)) ==
    \/ IsStrictPrefix(s, t)
    \/ \E i \in DOMAIN s \cap DOMAIN t :
           Less(s[i], t[i]) /\ SubSeq(s, 1, i - 1) = SubSeq(t, 1, i - 1)

NumbersBefore(s, t) == Lexicographic(s, t, <)

\* Mutant: a release ranks below its prereleases, as the shorter list.
PreBeforeByLength(p, q) == Lexicographic(p, q, NumbersBefore)

\* _prerelease_key: no prerelease outranks every prerelease.
PreBefore(p, q) == p # <<>> /\ (q = <<>> \/ Lexicographic(p, q, NumbersBefore))

\* SemVer._key
Before(v, w) == NumbersBefore(v.rel, w.rel) \/ (v.rel = w.rel /\ PreBefore(v.pre, w.pre))

------------------------------------------------------------------------------
(* Comparators.                                                            *)

Comparator(op, v) == [op |-> op, bound |-> v]

Test(c, v) ==
    CASE c.op \in {"", "="} -> v = c.bound
      [] c.op = ">"  -> Before(c.bound, v)
      [] c.op = ">=" -> ~Before(v, c.bound)
      [] c.op = "<"  -> Before(v, c.bound)
      [] c.op = "<=" -> ~Before(c.bound, v)

\* ComparatorSet.test: a prerelease needs a bound that is a prerelease of the
\* same release, unless prereleases are included.
TestAll(cs, v, inclusive) ==
    /\ \A c \in cs : Test(c, v)
    /\ IsPrerelease(v) /\ ~inclusive =>
           \E c \in cs : IsPrerelease(c.bound) /\ c.bound.rel = v.rel

------------------------------------------------------------------------------
(* Desugaring.  p is a partial version, full if it has three numbers; the  *)
(* comparator that matches everything is the empty set of comparators.     *)

Full(p) == Len(p.rel) = 3
Padded(p) == [i \in 1..3 |-> IF i <= Len(p.rel) THEN p.rel[i] ELSE 0]
Bump(rel, k) == [i \in 1..3 |-> IF i < k THEN rel[i] ELSE IF i = k THEN rel[i] + 1 ELSE 0]

\* Mutant: an upper bound without its "-0".
BelowRelease(rel, k) == Comparator("<", Release(Bump(rel, k)))

\* Everything from the next value of component k on is out.
BelowNext(rel, k) == Comparator("<", FirstOf(Bump(rel, k)))

From(p, lowest) ==
    Comparator(">=", IF Full(p) /\ p.pre # <<>> THEN p
                     ELSE IF lowest THEN FirstOf(Padded(p)) ELSE Release(Padded(p)))

\* _desugar_tilde
Tilde(p, inclusive) ==
    IF p.rel = <<>> THEN {}
    ELSE {From(p, inclusive), BelowNext(Padded(p), IF Len(p.rel) = 1 THEN 1 ELSE 2)}

\* Mutant: ^ always keeps the major number alone.
PinMajor(p) == 1

\* The component ^ pins: the left-most that is not zero, of those given.
Pinned(p) ==
    LET given == DOMAIN p.rel IN
    CHOOSE k \in given :
        /\ \A j \in 1..(k - 1) : p.rel[j] = 0
        /\ p.rel[k] # 0 \/ k = Len(p.rel)

\* _desugar_caret: a full lower bound above 0.x takes no "-0".
Caret(p, inclusive) ==
    IF p.rel = <<>> THEN {}
    ELSE {From(p, inclusive /\ (Full(p) => p.rel[1] = 0)), BelowNext(Padded(p), Pinned(p))}

\* _desugar_xrange
XRange(op, p, inclusive) ==
    LET k == Len(p.rel)
        rel == Padded(p)
    IN IF k = 0 THEN IF op \in {"<", ">"} THEN {Comparator("<", FirstOf(<<0, 0, 0>>))} ELSE {}
       ELSE IF Full(p) THEN {Comparator(op, p)}
       ELSE CASE op \in {"", "="} -> {From(p, inclusive), BelowNext(rel, k)}
              [] op = ">"  -> {Comparator(">=", Release(Bump(rel, k)))}
              [] op = ">=" -> {Comparator(">=", Release(rel))}
              [] op = "<"  -> {Comparator("<", FirstOf(rel))}
              [] op = "<=" -> {BelowNext(rel, k)}

\* _desugar_hyphen
Hyphen(lo, hi, inclusive) ==
    (IF lo.rel = <<>> THEN {} ELSE {From(lo, inclusive /\ ~Full(lo))})
    \cup (IF hi.rel = <<>> THEN {}
          ELSE IF Full(hi) THEN {Comparator("<=", hi)}
          ELSE {BelowNext(Padded(hi), Len(hi.rel))})

Desugar(token, inclusive) ==
    CASE token.op = "~" -> Tilde(token.p, inclusive)
      [] token.op = "^" -> Caret(token.p, inclusive)
      [] token.op = "-" -> Hyphen(token.p, token.to, inclusive)
      [] OTHER          -> XRange(token.op, token.p, inclusive)

Tokens ==
    [op : {"", "=", "<", ">", "<=", ">=", "~", "^"}, p : PartialVersions]
    \cup [op : {"-"}, p : PartialVersions, to : PartialVersions]

\* _parse_comparator_set
Comparators(tokens, inclusive) == UNION {Desugar(t, inclusive) : t \in tokens}

\* satisfies
Satisfies(v, range, inclusive) ==
    \E tokens \in range : TestAll(Comparators(tokens, inclusive), v, inclusive)

------------------------------------------------------------------------------
(* naming.py                                                               *)

Highest(vs) == CHOOSE v \in vs : \A w \in vs : ~Before(v, w)

\* max_semver: the highest release, or the highest of all if none is one.
MaxSemver(vs) ==
    LET stable == {v \in vs : ~IsPrerelease(v)}
    IN Highest(IF stable = {} THEN vs ELSE stable)
=============================================================================

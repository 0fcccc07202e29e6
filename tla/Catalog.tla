-------------------------------- MODULE Catalog --------------------------------
(***************************************************************************)
(* What Advisories and DistTags are both about: the versions of a package, *)
(* and the requests that work on it.                                       *)
(***************************************************************************)
CONSTANTS
    Versions,    \* the package's versions
    None

\* The state of a request or a job that is not under way.
Idle == [pc |-> "idle"]
=============================================================================

------------------------------ MODULE Principals ------------------------------
(***************************************************************************)
(* Whom Accounts and Credentials are both about.                           *)
(***************************************************************************)
CONSTANTS
    Users,   \* ids of account rows; an id is never given out twice
    None     \* NULL
=============================================================================

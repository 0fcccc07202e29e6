---------------------------- MODULE Credentials ----------------------------
(***************************************************************************)
(* API tokens, the device login of the command line client and the          *)
(* registry tokens of docker clients (api/auth.py, api/cli.py,              *)
(* core/deps.py, docker/auth.py, the /v2 token endpoint).  Every credential *)
(* is made with another one, down to a browser session of Accounts: what    *)
(* matters is that none is worth more than the one it came from.            *)
(*                                                                         *)
(* device_poll and device_approve read their row, wait, and commit without  *)
(* a lock, so each is two actions.  Secrets and signatures are external: a  *)
(* credential is presented by whoever holds it.                             *)
(***************************************************************************)
EXTENDS Principals, Naturals, FiniteSets

CONSTANTS
    Tokens,      \* ApiToken ids
    Devices,     \* device logins
    Grants,      \* registry tokens in circulation
    Asks,        \* the scope sets clients ask for
    Standings,   \* the account flags users may have: subsets of Flags
    MaxFlight    \* bound on device requests in flight

Scopes == {"read", "publish", "docker:push", "admin", "scanner"}
CliScopes == Scopes \ {"scanner"}
Flags == {"active", "admin", "publish"}

ASSUME CredentialsAssumption ==
    /\ Asks \subseteq SUBSET Scopes /\ Standings \subseteq SUBSET Flags
    /\ MaxFlight \in Nat
    /\ None \notin Users \cup Tokens \cup Devices

VARIABLES
    rights,    \* the account flags of Accounts: a subset of active, admin, publish
    token,     \* ApiToken rows
    device,    \* DeviceAuthorization rows
    pending,   \* device requests between their read and their commit
    grant,     \* registry JWTs: the API token behind each and what it grants
    limit,     \* ghost: what the credential that made a token could do
    refused,   \* ghost: device logins someone denied
    handed     \* ghost: <<device login, token>> pairs handed out, with the row read

vars == <<rights, token, device, pending, grant, limit, refused, handed>>

Token == [owner : Users, scopes : SUBSET Scopes, revoked : BOOLEAN, expired : BOOLEAN]
Device == [approved : BOOLEAN, denied : BOOLEAN, user : Users \cup {None},
           plain : Tokens \cup {None}, old : BOOLEAN]
Fresh == [approved |-> FALSE, denied |-> FALSE, user |-> None, plain |-> None, old |-> FALSE]

\* A row is not the absence of one.
ASSUME RowAssumption == None \notin Token \cup Device

Init ==
    /\ rights \in [Users -> {flags \in Standings : "active" \in flags}]
    /\ token = [t \in Tokens |-> None] /\ device = [d \in Devices |-> None]
    /\ pending = {} /\ grant = [g \in Grants |-> None]
    /\ limit = [t \in Tokens |-> {}] /\ refused = {} /\ handed = {}

\* ------------------------------------------------------------- identities

\* A request's identity: a session of its user, an API token, or the account
\* password over HTTP Basic.
BySession(u) == [method |-> "session", user |-> u, token |-> None]
ByToken(t) == [method |-> "token", user |-> token[t].owner, token |-> t]
Password(u) == [method |-> "basic_password", user |-> u, token |-> None]

\* The row checks of _token_identity.
TokenGood(t) ==
    /\ token[t] # None /\ ~token[t].revoked /\ ~token[t].expired
    /\ "active" \in rights[token[t].owner]

Callers ==
    {BySession(u) : u \in {v \in Users : "active" \in rights[v]}}
    \cup {Password(u) : u \in {v \in Users : "active" \in rights[v]}}
    \cup {ByToken(t) : t \in {s \in Tokens : TokenGood(s)}}

\* The admin scope stands for every other one.
Closed(scopes) == IF "admin" \in scopes THEN Scopes ELSE scopes

HasScope(c, scope) ==
    CASE c.method = "basic_password" -> scope = "read"
      [] c.method = "session" -> TRUE
      [] OTHER -> scope \in Closed(token[c.token].scopes)

IsAdmin(c) == "admin" \in rights[c.user]
MayPublish(u) == rights[u] \cap {"admin", "publish"} # {}

RequireAdmin(c) == IsAdmin(c) /\ c.method # "basic_password" /\ HasScope(c, "admin")

\* Mutant: any credential of the account may hand out tokens.
AnyCredential(c) == c.method # "basic_password"

RequirePrimary(c) ==
    /\ c.method # "basic_password"
    /\ c.token # None => HasScope(c, "admin")

\* What an account may put into a token.
Allowed(u) ==
    {"read"} \cup (IF MayPublish(u) THEN {"publish", "docker:push"} ELSE {})
             \cup (IF "admin" \in rights[u] THEN {"admin", "scanner"} ELSE {})

\* What a credential is worth, and with it everything made from it.
Worth(c) == Allowed(c.user) \cap (IF c.token = None THEN Scopes
                                  ELSE Closed(token[c.token].scopes) \cap limit[c.token])

Minted(t, u, scopes) ==
    token' = [token EXCEPT ![t] = [owner |-> u, scopes |-> scopes, revoked |-> FALSE, expired |-> FALSE]]

\* -------------------------------------------------------------- API tokens

CreateToken(c, t, asked) ==
    /\ RequirePrimary(c) /\ token[t] = None
    /\ asked \subseteq Allowed(c.user)
    /\ "scanner" \in asked => asked = {"scanner"}
    /\ Minted(t, c.user, IF asked = {} THEN {"read"} ELSE asked)
    /\ limit' = [limit EXCEPT ![t] = Worth(c)]
    /\ UNCHANGED <<rights, device, pending, grant, refused, handed>>

RevokeToken(c, t) ==
    /\ RequirePrimary(c) /\ token[t] # None /\ ~token[t].revoked
    /\ token[t].owner # c.user => IsAdmin(c) /\ HasScope(c, "admin")
    /\ token' = [token EXCEPT ![t].revoked = TRUE]
    /\ UNCHANGED <<rights, device, pending, grant, limit, refused, handed>>

ExpireToken(t) ==
    /\ token[t] # None /\ ~token[t].expired /\ ~token[t].revoked
    /\ token' = [token EXCEPT ![t].expired = TRUE]
    /\ UNCHANGED <<rights, device, pending, grant, limit, refused, handed>>

\* What Accounts does to the flags.
AccountChanges(u, flags) ==
    /\ rights[u] # flags
    /\ rights' = [rights EXCEPT ![u] = flags]
    /\ UNCHANGED <<token, device, pending, grant, limit, refused, handed>>

\* ------------------------------------------------------------ device login

DeviceStart(d) ==
    /\ device[d] = None
    /\ device' = [e \in Devices |-> CASE e = d -> Fresh
                                      [] device[e] # None /\ device[e].old -> None
                                      [] OTHER -> device[e]]
    /\ refused' = refused \ {d}
    /\ handed' = {h \in handed : h.device # d}
    /\ UNCHANGED <<rights, token, pending, grant, limit>>

\* DEVICE_CODE_TTL passes.
DeviceExpires(d) ==
    /\ device[d] # None /\ ~device[d].old
    /\ device' = [device EXCEPT ![d].old = TRUE]
    /\ UNCHANGED <<rights, token, pending, grant, limit, refused, handed>>

\* device_poll on an expired or denied row: the row goes.
PollEnds(d) ==
    /\ device[d] # None /\ (device[d].old \/ device[d].denied)
    /\ device' = [device EXCEPT ![d] = None]
    /\ UNCHANGED <<rights, token, pending, grant, limit, refused, handed>>

\* Mutant: an approval is looked at before a denial.
PollReadsApproval(d) ==
    /\ device[d] # None /\ ~device[d].old
    /\ device[d].approved /\ device[d].plain # None
    /\ Cardinality(pending) < MaxFlight
    /\ pending' = pending \cup {[kind |-> "poll", device |-> d, token |-> device[d].plain,
                                 denied |-> d \in refused, user |-> None, scopes |-> {}, limit |-> {}]}
    /\ UNCHANGED <<rights, token, device, grant, limit, refused, handed>>

\* device_poll on an approved row: the token it found.
PollReads(d) ==
    /\ device[d] # None /\ ~device[d].old /\ ~device[d].denied
    /\ device[d].approved /\ device[d].plain # None
    /\ Cardinality(pending) < MaxFlight
    /\ pending' = pending \cup {[kind |-> "poll", device |-> d, token |-> device[d].plain,
                                 denied |-> d \in refused, user |-> None, scopes |-> {}, limit |-> {}]}
    /\ UNCHANGED <<rights, token, device, grant, limit, refused, handed>>

\* ... is burnt and answered.  A row deleted meanwhile fails the commit.
PollCommits(f) ==
    /\ f.kind = "poll" /\ pending' = pending \ {f}
    /\ IF device[f.device] = None THEN UNCHANGED <<device, handed>>
       ELSE /\ device' = [device EXCEPT ![f.device].plain = None]
            /\ handed' = handed \cup {[device |-> f.device, token |-> f.token, denied |-> f.denied]}
    /\ UNCHANGED <<rights, token, grant, limit, refused>>

\* device_approve up to its commit: what it would grant, from what it read.
Granted(c, asked) ==
    LET wanted == IF asked \cap CliScopes = {} THEN {"read"} ELSE asked \cap CliScopes
        owned == wanted \cap Allowed(c.user)
        held == IF c.token = None THEN owned ELSE owned \cap token[c.token].scopes
    IN IF held = {} THEN {"read"} ELSE held

Undecided(d) == device[d] # None /\ ~device[d].old /\ ~device[d].approved

ApproveReads(c, d, asked) ==
    /\ RequirePrimary(c) /\ Undecided(d) /\ Cardinality(pending) < MaxFlight
    /\ pending' = pending \cup {[kind |-> "approve", device |-> d, token |-> None, denied |-> FALSE,
                                 user |-> c.user, scopes |-> Granted(c, asked), limit |-> Worth(c)]}
    /\ UNCHANGED <<rights, token, device, grant, limit, refused, handed>>

\* Mutant: the token is stored for the client, the approval is not.
ApproveUnmarked(f, t) ==
    /\ f.kind = "approve" /\ token[t] = None /\ device[f.device] # None
    /\ pending' = pending \ {f}
    /\ Minted(t, f.user, f.scopes)
    /\ limit' = [limit EXCEPT ![t] = f.limit]
    /\ device' = [device EXCEPT ![f.device].plain = t]
    /\ UNCHANGED <<rights, grant, refused, handed>>

ApproveCommits(f, t) ==
    /\ f.kind = "approve" /\ token[t] = None
    /\ pending' = pending \ {f}
    /\ IF device[f.device] = None THEN UNCHANGED <<token, device, limit>>
       ELSE /\ Minted(t, f.user, f.scopes)
            /\ limit' = [limit EXCEPT ![t] = f.limit]
            /\ device' = [device EXCEPT ![f.device].approved = TRUE, ![f.device].user = f.user,
                                        ![f.device].plain = t]
    /\ UNCHANGED <<rights, grant, refused, handed>>

\* device_approve with approve = false, which reads and commits as one.
Deny(c, d) ==
    /\ RequirePrimary(c) /\ Undecided(d)
    /\ device' = [device EXCEPT ![d].denied = TRUE]
    /\ refused' = refused \cup {d}
    /\ UNCHANGED <<rights, token, pending, grant, limit, handed>>

\* --------------------------------------------------------- registry tokens

CanRead(t) == token[t].scopes \cap {"read", "admin", "docker:push", "publish"} # {}

\* push_problem: what the account and the token allow, now.
MayPush(t) == MayPublish(token[t].owner) /\ token[t].scopes \cap {"docker:push", "admin"} # {}

\* The token endpoint; accounts' passwords are not accepted.
RegistryLogin(t, g, actions) ==
    /\ grant[g] = None /\ TokenGood(t)
    /\ grant' = [grant EXCEPT ![g] = [token |-> t,
          actions |-> {a \in actions : IF a = "pull" THEN CanRead(t) ELSE MayPush(t)}]]
    /\ UNCHANGED <<rights, token, device, pending, limit, refused, handed>>

GrantExpires(g) ==
    /\ grant[g] # None
    /\ grant' = [grant EXCEPT ![g] = None]
    /\ UNCHANGED <<rights, token, device, pending, limit, refused, handed>>

\* Mutant: a signed registry token is believed until it expires.
AcceptsSigned(g) == grant[g] # None

\* resolve_registry_identity: the API token is looked up on every request.
Accepts(g) == grant[g] # None /\ TokenGood(grant[g].token)

\* _require: the actions of the registry token, or for a pull the token itself.
Served(g) == IF ~Accepts(g) THEN {}
             ELSE grant[g].actions \cup (IF CanRead(grant[g].token) THEN {"pull"} ELSE {})

Next ==
    \/ \E c \in Callers, t \in Tokens :
          RevokeToken(c, t) \/ \E asked \in Asks : CreateToken(c, t, asked)
    \/ \E t \in Tokens : ExpireToken(t)
    \/ \E u \in Users, flags \in Standings : AccountChanges(u, flags)
    \/ \E d \in Devices :
          \/ DeviceStart(d) \/ DeviceExpires(d) \/ PollEnds(d) \/ PollReads(d)
          \/ \E c \in Callers : Deny(c, d) \/ \E asked \in Asks : ApproveReads(c, d, asked)
    \/ \E f \in pending : PollCommits(f) \/ \E t \in Tokens : ApproveCommits(f, t)
    \/ \E g \in Grants : \/ GrantExpires(g)
                         \/ \E t \in Tokens : RegistryLogin(t, g, {"pull", "push"})

Spec == Init /\ [][Next]_vars

\* ------------------------------------------------------------- properties

\* Rows are well formed, a row that holds a token was approved, and the token
\* it holds exists (device_approve).
TypeOK ==
    /\ rights \in [Users -> Standings]
    /\ token \in [Tokens -> Token \cup {None}]
    /\ device \in [Devices -> Device \cup {None}]
    /\ \A d \in Devices : device[d] # None /\ device[d].plain # None
                             => device[d].approved /\ token[device[d].plain] # None
    /\ \A f \in pending : f.kind \in {"poll", "approve"} /\ f.device \in Devices
    /\ \A g \in Grants : grant[g] # None => token[grant[g].token] # None
    /\ limit \in [Tokens -> SUBSET Scopes]

\* "A token cannot grant scopes it does not hold": no token, made by create_token
\* or by approving a device login, through however many others, holds a scope
\* that a credential it descends from lacked, or that its account lacked then
\* (require_primary_credential, create_token, device_approve).
NoWidening == \A t \in Tokens : token[t] # None => token[t].scopes \subseteq limit[t]

\* A device login someone denied hands out nothing to a client that asks after
\* the denial, even when an approval that had already read the row commits
\* after it (device_poll, device_approve).
DenialStands == \A h \in handed : ~h.denied

\* What the registry serves for a registry token is within what the API token
\* behind it was worth, and nothing once that is revoked or expired or its
\* account disabled: "on the next request rather than at expiry"
\* (resolve_registry_identity, _token, _require).
RegistryWithinToken == \A g \in Grants : Served(g) # {} =>
    LET t == grant[g].token IN
        /\ TokenGood(t)
        /\ "push" \in Served(g) => limit[t] \cap {"docker:push", "admin"} # {}

\* "A token is handed over exactly once" (device_poll).
HandedOnce == \A d \in Devices : Cardinality({h \in handed : h.device = d}) <= 1
=============================================================================

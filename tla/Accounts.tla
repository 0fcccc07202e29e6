------------------------------ MODULE Accounts ------------------------------
(***************************************************************************)
(* Accounts and browser sessions (api/auth.py, core/deps.py, oidc.py, the   *)
(* user handlers of api/admin/management.py).  A session is a signed        *)
(* cookie the server keeps no copy of: what ends one is the version on the  *)
(* account row, or a row naming the cookie.  Local passwords, single        *)
(* sign-on and administrators all rewrite the same row.                     *)
(*                                                                         *)
(* A request is one action unless it holds a value across a wait that the   *)
(* properties are about: a sign-in and a password change read the row, wait *)
(* for the throttle and the audit log, and use the version they read.       *)
(***************************************************************************)
EXTENDS Principals, Naturals, FiniteSets

CONSTANTS
    Persons,     \* subjects of the identity provider
    EmailOf,     \* the address of each account and of each person
    Bootstrap,   \* the administrator the first start creates
    Cookies,     \* the jti values of session cookies
    AutoCreate,  \* oidc_auto_create_users
    Overlap,     \* whether two requests may bump one version from the same value
    MaxVersion,  \* bound on session_version
    Gone

ASSUME AccountsAssumption ==
    /\ Bootstrap \in Users /\ Users \cap Persons = {}
    /\ EmailOf \in [Users \cup Persons -> Users]
    /\ {AutoCreate, Overlap} \subseteq BOOLEAN
    /\ MaxVersion \in Nat
    /\ {None, Gone} \cap (Users \cup Persons \cup Cookies) = {}

VARIABLES
    account,   \* User rows: None before creation, Gone after deletion
    cookie,    \* the cookies in circulation: None, or who, version and how
    revoked,   \* RevokedSession rows
    flight,    \* the request between reading its account and its commit
    ejected,   \* ghost: cookies whose session was ended, in flight included
    decided    \* ghost: accounts an administrator let publish, and not since refused

accountsVars == <<account, cookie, revoked, flight, ejected, decided>>

Account == [active : BOOLEAN, admin : BOOLEAN, publish : BOOLEAN, viaSso : BOOLEAN,
            subject : Persons \cup {None}, version : 0..MaxVersion]
Session == [user : Users, version : 0..MaxVersion, via : {"password", "sso"}]
Request == [kind : {"login", "change"}, user : Users, version : 0..MaxVersion, doomed : BOOLEAN]

\* A row is not the absence of one, nor is its deletion.
ASSUME AccountRows ==
    /\ {None, Gone} \cap (Account \cup Session \cup Request) = {}
    /\ None # Gone

Live(u) == account[u] \notin {None, Gone}

NewAccount(active, admin, publish, subject) ==
    [active |-> active, admin |-> admin, publish |-> publish, viaSso |-> FALSE,
     subject |-> subject, version |-> 0]

AccountsInit ==
    /\ account = [u \in Users |-> IF u = Bootstrap THEN NewAccount(TRUE, TRUE, TRUE, None) ELSE None]
    /\ cookie = [j \in Cookies |-> None]
    /\ revoked = {} /\ flight = None /\ ejected = {} /\ decided = {Bootstrap}

\* The cookie check of resolve_identity, made on every request.
Usable(j) ==
    /\ cookie[j] # None /\ j \notin revoked
    /\ Live(cookie[j].user)
    /\ account[cookie[j].user].active
    /\ account[cookie[j].user].version = cookie[j].version

\* Who a request comes from: a session, or (no cookie) a token of Tokens that
\* carries the admin scope.
CallerIs(u, j) ==
    /\ Live(u) /\ account[u].active
    /\ j # None => Usable(j) /\ cookie[j].user = u

AdminIs(a, j) == CallerIs(a, j) /\ account[a].admin

\* create_session_token and _set_session_cookie: a fresh jti, the version the
\* request holds.
Issued(j, u, version, how) ==
    /\ cookie[j] = None /\ j \notin revoked
    /\ cookie' = [cookie EXCEPT ![j] = [user |-> u, version |-> version, via |-> how]]

SessionsOf(u) == {j \in Cookies : cookie[j] # None /\ cookie[j].user = u}

\* Ending every session of u ends the sign-in that is under way too.
Ejecting(u) == /\ ejected' = ejected \cup SessionsOf(u)
               /\ flight' = IF flight # None /\ flight.user = u /\ flight.kind = "login"
                            THEN [flight EXCEPT !.doomed = TRUE] ELSE flight

Bumped(row) == [row EXCEPT !.version = @ + 1]

\* ------------------------------------------------------------- passwords

\* login up to the password check: an SSO account has no password here.
BeginLogin(u) ==
    /\ flight = None /\ Live(u)
    /\ account[u].subject = None /\ account[u].active
    /\ flight' = [kind |-> "login", user |-> u, version |-> account[u].version, doomed |-> FALSE]
    /\ UNCHANGED <<account, cookie, revoked, ejected, decided>>

\* Mutant: the cookie carries the version the row has by now.
FinishLoginReread(j) ==
    /\ flight # None /\ flight.kind = "login" /\ Live(flight.user)
    /\ Issued(j, flight.user, account[flight.user].version, "password")
    /\ ejected' = IF flight.doomed THEN ejected \cup {j} ELSE ejected
    /\ flight' = None
    /\ UNCHANGED <<account, revoked, decided>>

\* The rest of login: rows are not read again after the commit
\* (expire_on_commit is off).
FinishLogin(j) ==
    /\ flight # None /\ flight.kind = "login" /\ Live(flight.user)
    /\ Issued(j, flight.user, flight.version, "password")
    /\ ejected' = IF flight.doomed THEN ejected \cup {j} ELSE ejected
    /\ flight' = None
    /\ UNCHANGED <<account, revoked, decided>>

\* change_password up to the check of the current password.
BeginChange(u, j) ==
    /\ flight = None /\ CallerIs(u, j)
    /\ account[u].subject = None /\ account[u].version < MaxVersion
    /\ flight' = [kind |-> "change", user |-> u, version |-> account[u].version, doomed |-> FALSE]
    /\ UNCHANGED <<account, cookie, revoked, ejected, decided>>

\* Mutant: the new cookie is ahead of a row that kept its version.
FinishChangeUnbumped(j) ==
    /\ flight # None /\ flight.kind = "change" /\ Live(flight.user)
    /\ Overlap \/ account[flight.user].version = flight.version
    /\ Issued(j, flight.user, flight.version + 1, "password")
    /\ ejected' = ejected \cup SessionsOf(flight.user)
    /\ flight' = None
    /\ UNCHANGED <<account, revoked, decided>>

\* Its commit: the version it read plus one, and a cookie at that version.
FinishChange(j) ==
    /\ flight # None /\ flight.kind = "change" /\ Live(flight.user)
    /\ Overlap \/ account[flight.user].version = flight.version
    /\ account' = [account EXCEPT ![flight.user].version = flight.version + 1]
    /\ Issued(j, flight.user, flight.version + 1, "password")
    /\ ejected' = ejected \cup SessionsOf(flight.user)
    /\ flight' = None
    /\ UNCHANGED <<revoked, decided>>

\* The client went away, or the row the request would update is gone.
Abandon == /\ flight # None
           /\ flight' = None
           /\ UNCHANGED <<account, cookie, revoked, ejected, decided>>

\* ------------------------------------------------------------ signing out

\* logout and _revoke_session_cookie: expired rows are pruned on the way.
Logout(j) ==
    /\ Usable(j)
    /\ revoked' = {k \in revoked : cookie[k] # None} \cup {j}
    /\ ejected' = ejected \cup {j}
    /\ UNCHANGED <<account, cookie, flight, decided>>

LogoutEverywhere(u, j) ==
    /\ CallerIs(u, j) /\ account[u].version < MaxVersion
    /\ account' = [account EXCEPT ![u] = Bumped(@)]
    /\ Ejecting(u)
    /\ UNCHANGED <<cookie, revoked, decided>>

\* The cookie runs out (session_ttl_seconds).
Expire(j) ==
    /\ cookie[j] # None
    /\ cookie' = [cookie EXCEPT ![j] = None]
    /\ ejected' = ejected \ {j}
    /\ UNCHANGED <<account, revoked, flight, decided>>

\* ---------------------------------------------------------- single sign-on

\* The accounts a person's verified address could be linked to.
Candidates(p) == {u \in Users : Live(u) /\ account[u].subject = None /\ EmailOf[u] = EmailOf[p]}

BySubject(p) == {u \in Users : Live(u) /\ account[u].subject = p}

\* Mutant: the sessions opened with the password survive the link.
LinkedOnly(row, p) == [row EXCEPT !.subject = p]

\* From here the provider decides: the password and its sessions go.
Linked(row, p) == [Bumped(row) EXCEPT !.subject = p]

\* Group membership is authoritative; publishing that came only from the admin
\* group goes with it.
Regrouped(row, isAdmin) ==
    IF isAdmin THEN [row EXCEPT !.admin = TRUE, !.publish = TRUE, !.viaSso = @ \/ ~row.publish]
    ELSE [row EXCEPT !.admin = FALSE, !.publish = @ /\ ~row.viaSso, !.viaSso = FALSE]

\* oidc_callback for a person the provider vouches for and is_permitted lets
\* in; isAdmin is membership of oidc_admin_group.
SsoKnown(p, isAdmin, j) == \E u \in BySubject(p) :
    /\ account[u].active
    /\ account' = [account EXCEPT ![u] = Regrouped(@, isAdmin)]
    /\ Issued(j, u, account[u].version, "sso")
    /\ UNCHANGED <<revoked, flight, ejected, decided>>

\* ... the first time, onto the one local account with that verified address.
SsoLink(p, isAdmin, j) == \E u \in Candidates(p) :
    /\ BySubject(p) = {} /\ Candidates(p) = {u}
    /\ account[u].active /\ account[u].version < MaxVersion
    /\ account' = [account EXCEPT ![u] = Regrouped(Linked(@, p), isAdmin)]
    /\ Issued(j, u, account'[u].version, "sso")
    /\ Ejecting(u)
    /\ UNCHANGED <<revoked, decided>>

\* ... and when there is none, or more than one.  An unverified address finds
\* no account.  A single disabled match is refused.
SsoCreate(p, verified, isAdmin, j) == \E u \in Users :
    /\ AutoCreate /\ BySubject(p) = {} /\ account[u] = None
    /\ verified => Cardinality(Candidates(p)) # 1
    /\ account' = [account EXCEPT ![u] = Regrouped(NewAccount(TRUE, FALSE, FALSE, p), isAdmin)]
    /\ Issued(j, u, 0, "sso")
    /\ UNCHANGED <<revoked, flight, ejected, decided>>

SsoLogin(p, isAdmin, j) ==
    \/ SsoKnown(p, isAdmin, j)
    \/ SsoLink(p, isAdmin, j)
    \/ \E verified \in BOOLEAN : SsoCreate(p, verified, isAdmin, j)

\* ---------------------------------------------------------- administrators

CreateUser(a, j, u, admin, publish, active) ==
    /\ AdminIs(a, j) /\ account[u] = None
    /\ account' = [account EXCEPT ![u] = NewAccount(active, admin, publish \/ admin, None)]
    /\ decided' = IF publish \/ admin THEN decided \cup {u} ELSE decided
    /\ UNCHANGED <<cookie, revoked, flight, ejected>>

\* The columns update_user sets: an administrator always may publish, and a
\* changed can_publish is no longer the provider's.
Edited(row, admin, publish, active) ==
    [row EXCEPT !.admin = admin, !.active = active, !.publish = publish \/ admin,
                !.viaSso = @ /\ publish = row.publish]

Withdrawn(row, new) == \/ row.admin /\ ~new.admin
                       \/ row.publish /\ ~new.publish
                       \/ row.active /\ ~new.active

\* _would_orphan_admins, on the pending rows.
WouldOrphan(rows) == ~\E u \in Users :
    rows[u] \notin {None, Gone} /\ rows[u].admin /\ rows[u].active

UpdateUser(a, j, u, admin, publish, active, reset) ==
    LET new == Edited(account[u], admin, publish, active)
        ends == reset \/ Withdrawn(account[u], new)
    IN /\ AdminIs(a, j) /\ Live(u)
       /\ u = a => admin /\ active
       /\ reset => account[u].subject = None
       /\ ends => account[u].version < MaxVersion
       /\ account' = [account EXCEPT ![u] = IF ends THEN Bumped(new) ELSE new]
       /\ ~WouldOrphan(account')
       /\ IF ends THEN Ejecting(u) ELSE UNCHANGED <<ejected, flight>>
       /\ decided' = CASE publish # account[u].publish /\ ~publish -> decided \ {u}
                       [] publish # account[u].publish \/ (admin /\ ~account[u].admin) -> decided \cup {u}
                       [] OTHER -> decided
       /\ IF u = a /\ j # None THEN \E k \in Cookies : Issued(k, u, account'[u].version, cookie[j].via)
          ELSE UNCHANGED cookie
       /\ UNCHANGED revoked

\* delete_user: the id is not used again.
DeleteUser(a, j, u) ==
    /\ AdminIs(a, j) /\ Live(u) /\ u # a
    /\ account' = [account EXCEPT ![u] = Gone]
    /\ ~WouldOrphan(account')
    /\ Ejecting(u)
    /\ UNCHANGED <<cookie, revoked, decided>>

AccountsNext ==
    \/ \E u \in Users : BeginLogin(u)
    \/ \E j \in Cookies : FinishLogin(j) \/ FinishChange(j) \/ Logout(j) \/ Expire(j)
    \/ \E u \in Users, j \in Cookies \cup {None} : BeginChange(u, j) \/ LogoutEverywhere(u, j)
    \/ Abandon
    \/ \E p \in Persons, isAdmin \in BOOLEAN, j \in Cookies : SsoLogin(p, isAdmin, j)
    \/ \E a, u \in Users, j \in Cookies \cup {None} :
          \/ DeleteUser(a, j, u)
          \/ \E admin, publish, active \in BOOLEAN :
                \/ CreateUser(a, j, u, admin, publish, active)
                \/ \E reset \in BOOLEAN : UpdateUser(a, j, u, admin, publish, active, reset)

AccountsSpec == AccountsInit /\ [][AccountsNext]_accountsVars

\* ------------------------------------------------------------- properties

\* Every row, cookie and request in flight is well formed, and a cookie never
\* carries a version its account has not reached (create_session_token).
AccountsTypeOK ==
    /\ account \in [Users -> Account \cup {None, Gone}]
    /\ cookie \in [Cookies -> Session \cup {None}]
    /\ revoked \subseteq Cookies /\ ejected \subseteq Cookies /\ decided \subseteq Users
    /\ flight \in Request \cup {None}
    /\ \A j \in Cookies : cookie[j] # None /\ Live(cookie[j].user)
                             => cookie[j].version <= account[cookie[j].user].version

\* A session ended by its sign-out, a password change or reset, a withdrawn
\* right, the link to SSO or a deletion never works again, and neither does one
\* whose sign-in had checked the password before that and answered after it
\* (resolve_identity, login, change_password, update_user, oidc_callback).
EjectedStaysOut == \A j \in ejected : ~Usable(j)

\* Once an account belongs to the identity provider, no session a password
\* opened still works on it: the provider's groups and its disabling apply to
\* every sign-in (login, oidc_callback).
SsoOnly == \A j \in Cookies :
    Usable(j) /\ account[cookie[j].user].subject # None => cookie[j].via = "sso"

\* "Admins may publish; when that is the only reason this account can, demotion
\* takes it away again" (oidc_callback): a sign-in through the provider that
\* finds an administrator no longer one leaves it publishing only if a local
\* administrator decided that it may, and has not since refused it.
DemotionTakesPublish == [][\A p \in Persons, j \in Cookies : \A u \in BySubject(p) :
    /\ SsoKnown(p, FALSE, j) /\ account[u].admin /\ u \notin decided
    => ~account'[u].publish]_accountsVars
=============================================================================

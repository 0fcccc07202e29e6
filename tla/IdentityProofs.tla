--------------------------- MODULE IdentityProofs ---------------------------
(***************************************************************************)
(* What Credentials and Accounts guarantee, for any number of accounts,    *)
(* tokens, device logins, registry tokens, persons, cookies and requests.  *)
(***************************************************************************)
EXTENDS Credentials, Accounts, TLAPS

-------------------------------------------------------------------------------
(* Credentials.                                                            *)

Flight == [kind : {"poll", "approve"}, device : Devices, token : Tokens \cup {None}, denied : BOOLEAN,
           user : Users \cup {None}, scopes : SUBSET Scopes, limit : SUBSET Scopes]
Grant == [token : Tokens, actions : SUBSET {"pull", "push"}]

\* The worth of a credential that makes others: it reads, and when it
\* administers it does everything.
Whole(scopes) == "read" \in scopes /\ ("admin" \in scopes => scopes = Scopes)

Shape ==
    /\ TypeOK
    /\ pending \subseteq Flight
    /\ grant \in [Grants -> Grant \cup {None}]

\* What a token may do, and an approval between its read and its commit.
Bounded ==
    /\ \A t \in Tokens : token[t] # None => token[t].scopes \subseteq limit[t] /\ Whole(limit[t])
    /\ \A f \in pending : f.kind = "approve" =>
          f.user \in Users /\ f.scopes \subseteq f.limit /\ Whole(f.limit)

\* A denial is on the row for as long as there is one, so a poll that reads the
\* row after it has nothing to hand out.
DenialKept ==
    /\ \A d \in refused : d \in Devices /\ device[d] # None => device[d].denied
    /\ \A f \in pending : f.kind = "poll" => ~f.denied
    /\ DenialStands

\* A registry token that pushes comes from an API token with a scope for it.
PushScoped == \A g \in Grants :
    grant[g] # None /\ "push" \in grant[g].actions
       => token[grant[g].token].scopes \cap {"docker:push", "admin"} # {}

IInv == Shape /\ Bounded /\ DenialKept /\ PushScoped

\* An administrator may put anything into a token, anybody the scope read.
LEMMA AllowedWhole == \A u \in Users : Whole(Allowed(u)) /\ Allowed(u) \subseteq Scopes
BY DEF Whole, Allowed, Scopes, MayPublish

\* A caller that passed the row checks is a session, a password or a token that
\* exists.
LEMMA CallerTyped ==
    ASSUME IInv, NEW c \in Callers
    PROVE  /\ c.user \in Users
           /\ c.token # None => c.token \in Tokens /\ token[c.token] # None
BY CredentialsAssumption, RowAssumption
   DEF Callers, BySession, Password, ByToken, TokenGood, IInv, Shape, TypeOK, Token

\* What a primary credential is worth covers everything its account may put into
\* a token now: require_primary_credential asks a token for the admin scope, and
\* a token with that scope descends from administrators only.
LEMMA PrimaryWorth ==
    ASSUME IInv, NEW c \in Callers, RequirePrimary(c)
    PROVE  Worth(c) = Allowed(c.user) /\ Whole(Worth(c)) /\ Worth(c) \subseteq Scopes
<1>1. c.user \in Users /\ (c.token # None => c.token \in Tokens /\ token[c.token] # None)
  BY CallerTyped
<1>2. CASE c.token = None
  BY <1>1, <1>2, AllowedWhole DEF Worth
<1>3. CASE c.token # None
  <2>1. c.method = "token"
    BY <1>3 DEF Callers, BySession, Password, ByToken
  <2>2. "admin" \in Closed(token[c.token].scopes)
    BY <2>1, <1>3 DEF RequirePrimary, HasScope
  <2>3. "admin" \in token[c.token].scopes
    BY <2>2 DEF Closed
  <2>4. limit[c.token] = Scopes
    BY <1>1, <1>3, <2>3 DEF IInv, Bounded, Whole
  <2>5. Closed(token[c.token].scopes) = Scopes
    BY <2>3 DEF Closed
  <2> QED
    BY <1>1, <1>3, <2>4, <2>5, AllowedWhole DEF Worth
<1> QED
  BY <1>2, <1>3

\* No device has asked, no token has been minted.
LEMMA InitIInv == Init => IInv
BY CredentialsAssumption
   DEF Init, IInv, Shape, TypeOK, Bounded, DenialKept, DenialStands, PushScoped, Scopes

\* Marking a token revoked or expired touches no scope.
LEMMA TokenMarked ==
    ASSUME IInv, NEW t \in Tokens, NEW row \in Token, token[t] # None, row.scopes = token[t].scopes,
           token' = [token EXCEPT ![t] = row],
           UNCHANGED <<rights, device, pending, grant, limit, refused, handed>>
    PROVE  IInv'
<1> USE CredentialsAssumption, RowAssumption
    DEF IInv, Shape, TypeOK, Bounded, DenialKept, DenialStands, PushScoped
<1>1. token' \in [Tokens -> Token \cup {None}]
  OBVIOUS
<1>2. \A s \in Tokens : (token'[s] # None <=> token[s] # None) /\ token'[s].scopes = token[s].scopes
  BY <1>1
<1>3. Shape'
  BY <1>1, <1>2 DEF Device, Grant
<1>4. Bounded'
  BY <1>1, <1>2
<1>5. DenialKept' /\ PushScoped'
  BY <1>1, <1>2 DEF Grant
<1> QED
  BY <1>3, <1>4, <1>5

\* Every handler keeps the invariant.
LEMMA StepIInv ==
    IInv /\ [Next]_vars => IInv'
<1> SUFFICES ASSUME IInv, [Next]_vars PROVE IInv'
  OBVIOUS
<1> USE CredentialsAssumption, RowAssumption
    DEF IInv, Shape, TypeOK, Bounded, DenialKept, DenialStands, PushScoped
<1>1. ASSUME NEW c \in Callers, NEW t \in Tokens, NEW asked \in Asks, CreateToken(c, t, asked) PROVE IInv'
  <2> DEFINE scopes == IF asked = {} THEN {"read"} ELSE asked
  <2>1. RequirePrimary(c) /\ c.user \in Users /\ token[t] = None /\ asked \subseteq Allowed(c.user)
    BY <1>1, CallerTyped DEF CreateToken
  <2>2. Worth(c) = Allowed(c.user) /\ Whole(Worth(c)) /\ Worth(c) \subseteq Scopes
    BY <2>1, PrimaryWorth
  <2>3. scopes \subseteq Worth(c)
    BY <2>1, <2>2 DEF Whole
  <2>4. token' = [token EXCEPT ![t] = [owner |-> c.user, scopes |-> scopes, revoked |-> FALSE, expired |-> FALSE]]
    BY <1>1 DEF CreateToken, Minted
  <2>5. limit' = [limit EXCEPT ![t] = Worth(c)] /\ UNCHANGED <<rights, device, pending, grant, refused, handed>>
    BY <1>1 DEF CreateToken
  <2> HIDE DEF scopes
  <2>6. Shape'
    BY <2>1, <2>2, <2>3, <2>4, <2>5 DEF Token, Device, Flight, Grant
  <2>7. Bounded'
    BY <2>1, <2>2, <2>3, <2>4, <2>5 DEF Token
  <2>8. DenialKept' /\ PushScoped'
    BY <2>1, <2>4, <2>5 DEF Token, Grant
  <2> QED
    BY <2>6, <2>7, <2>8
<1>2. ASSUME NEW c \in Callers, NEW t \in Tokens, RevokeToken(c, t) PROVE IInv'
  <2> DEFINE row == [token[t] EXCEPT !.revoked = TRUE]
  <2>1. token[t] \in Token /\ token[t] # None /\ token' = [token EXCEPT ![t] = row]
    BY <1>2 DEF RevokeToken
  <2>2. row \in Token /\ row.scopes = token[t].scopes
    BY <2>1 DEF Token
  <2> HIDE DEF row
  <2> QED
    BY <1>2, <2>1, <2>2, TokenMarked DEF RevokeToken
<1>3. ASSUME NEW t \in Tokens, ExpireToken(t) PROVE IInv'
  <2> DEFINE row == [token[t] EXCEPT !.expired = TRUE]
  <2>1. token[t] \in Token /\ token[t] # None /\ token' = [token EXCEPT ![t] = row]
    BY <1>3 DEF ExpireToken
  <2>2. row \in Token /\ row.scopes = token[t].scopes
    BY <2>1 DEF Token
  <2> HIDE DEF row
  <2> QED
    BY <1>3, <2>1, <2>2, TokenMarked DEF ExpireToken
<1>4. ASSUME NEW u \in Users, NEW flags \in Standings, AccountChanges(u, flags) PROVE IInv'
  BY <1>4 DEF AccountChanges
<1>5. ASSUME NEW d \in Devices, DeviceStart(d) PROVE IInv'
  BY <1>5 DEF DeviceStart, Fresh, Device
<1>6. ASSUME NEW d \in Devices, DeviceExpires(d) \/ PollEnds(d) PROVE IInv'
  <2>1. CASE DeviceExpires(d)
    <3>1. device[d] \in Device /\ device' = [device EXCEPT ![d] = [device[d] EXCEPT !.old = TRUE]]
      BY <2>1 DEF DeviceExpires
    <3>2. [device[d] EXCEPT !.old = TRUE] \in Device
      BY <3>1 DEF Device
    <3> QED
      BY <2>1, <3>1, <3>2 DEF DeviceExpires
  <2>2. CASE PollEnds(d)
    BY <2>2 DEF PollEnds
  <2> QED
    BY <1>6, <2>1, <2>2
<1>7. ASSUME NEW d \in Devices, PollReads(d) PROVE IInv'
  BY <1>7 DEF PollReads, Device, Flight
<1>8. ASSUME NEW f \in pending, PollCommits(f) PROVE IInv'
  BY <1>8 DEF PollCommits, Device, Flight
<1>9. ASSUME NEW c \in Callers, NEW d \in Devices, NEW asked \in Asks, ApproveReads(c, d, asked) PROVE IInv'
  <2> DEFINE f == [kind |-> "approve", device |-> d, token |-> None, denied |-> FALSE,
                   user |-> c.user, scopes |-> Granted(c, asked), limit |-> Worth(c)]
  <2>1. RequirePrimary(c) /\ c.user \in Users
    BY <1>9, CallerTyped DEF ApproveReads
  <2>2. Worth(c) = Allowed(c.user) /\ Whole(Worth(c)) /\ Worth(c) \subseteq Scopes
    BY <2>1, PrimaryWorth
  <2>3. Granted(c, asked) \subseteq Worth(c)
    BY <2>2 DEF Granted, Whole
  <2>4. f \in Flight
    BY <2>1, <2>2, <2>3 DEF Flight
  <2>5. f.kind = "approve" /\ f.user \in Users /\ f.scopes \subseteq f.limit /\ Whole(f.limit) /\ f.device \in Devices
    BY <2>1, <2>2, <2>3
  <2>6. pending' = pending \cup {f} /\ UNCHANGED <<rights, token, device, grant, limit, refused, handed>>
    BY <1>9 DEF ApproveReads
  <2> QED
    BY <2>4, <2>5, <2>6
<1>10. ASSUME NEW f \in pending, NEW t \in Tokens, ApproveCommits(f, t) PROVE IInv'
  <2>1. CASE device[f.device] = None
    BY <1>10, <2>1 DEF ApproveCommits
  <2>2. CASE device[f.device] # None
    <3>1. /\ f.device \in Devices /\ f.user \in Users
          /\ f.scopes \subseteq f.limit /\ Whole(f.limit) /\ f.limit \subseteq Scopes
      BY <1>10 DEF ApproveCommits, Flight
    <3>2. /\ token[t] = None /\ pending' = pending \ {f}
          /\ token' = [token EXCEPT ![t] = [owner |-> f.user, scopes |-> f.scopes, revoked |-> FALSE, expired |-> FALSE]]
          /\ limit' = [limit EXCEPT ![t] = f.limit]
          /\ device' = [device EXCEPT ![f.device].approved = TRUE, ![f.device].user = f.user,
                                      ![f.device].plain = t]
          /\ UNCHANGED <<rights, grant, refused, handed>>
      BY <1>10, <2>2 DEF ApproveCommits, Minted
    <3>3. Shape'
      <4>1. [owner |-> f.user, scopes |-> f.scopes, revoked |-> FALSE, expired |-> FALSE] \in Token
        BY <3>1 DEF Token
      <4>2. token' \in [Tokens -> Token \cup {None}] /\ limit' \in [Tokens -> SUBSET Scopes]
        BY <3>1, <3>2, <4>1
      <4>3. \A d \in Device : [d EXCEPT !.approved = TRUE, !.user = f.user, !.plain = t] \in Device
        BY <3>1 DEF Device
      <4>4. device' = [device EXCEPT ![f.device] = [device[f.device] EXCEPT !.approved = TRUE, !.user = f.user,
                                                                          !.plain = t]]
        BY <3>2
      <4>5. device' \in [Devices -> Device \cup {None}]
        BY <2>2, <3>1, <4>3, <4>4
      <4>6. \A x \in Tokens : token[x] # None => token'[x] # None
        BY <3>2
      <4>7. token'[t] # None
        BY <3>2, <4>1, RowAssumption
      <4>8. device[f.device] \in Device
        BY <2>2, <3>1
      <4>9. device'[f.device].approved /\ device'[f.device].plain = t
        BY <3>1, <4>4, <4>8 DEF Device
      <4>10. \A d \in Devices : d # f.device => device'[d] = device[d]
        BY <3>2
      <4>11. \A d \in Devices : device'[d] # None /\ device'[d].plain # None
                                => device'[d].approved /\ token'[device'[d].plain] # None
        <5> SUFFICES ASSUME NEW d \in Devices, device'[d] # None, device'[d].plain # None
                     PROVE  device'[d].approved /\ token'[device'[d].plain] # None
          OBVIOUS
        <5>1. CASE d = f.device
          BY <4>7, <4>9, <5>1
        <5>2. CASE d # f.device
          <6>1. device[d].plain \in Tokens
            BY <4>10, <5>2 DEF Device
          <6> QED
            BY <4>6, <4>10, <5>2, <6>1
        <5> QED
          BY <5>1, <5>2
      <4>12. \A g \in Grants : grant'[g] # None => token'[grant'[g].token] # None
        BY <3>2, <4>6 DEF Grant
      <4>13. pending' \subseteq Flight /\ grant' \in [Grants -> Grant \cup {None}] /\ rights' \in [Users -> Standings]
        BY <3>2
      <4>14. \A x \in pending' : x.kind \in {"poll", "approve"} /\ x.device \in Devices
        BY <3>2
      <4> QED
        BY <4>2, <4>5, <4>11, <4>12, <4>13, <4>14
    <3>4. Bounded'
      BY <3>1, <3>2 DEF Token
    <3>5. DenialKept' /\ PushScoped'
      BY <2>2, <3>1, <3>2 DEF Token, Device, Grant
    <3> QED
      BY <3>3, <3>4, <3>5
  <2> QED
    BY <2>1, <2>2
<1>11. ASSUME NEW c \in Callers, NEW d \in Devices, Deny(c, d) PROVE IInv'
  <2>1. /\ device[d] \in Device /\ ~device[d].approved
        /\ device' = [device EXCEPT ![d] = [device[d] EXCEPT !.denied = TRUE]]
    BY <1>11 DEF Deny, Undecided
  <2>2. [device[d] EXCEPT !.denied = TRUE] \in Device
    BY <2>1 DEF Device
  <2> QED
    BY <1>11, <2>1, <2>2 DEF Deny
<1>12. ASSUME NEW g \in Grants, NEW t \in Tokens, RegistryLogin(t, g, {"pull", "push"}) PROVE IInv'
  BY <1>12 DEF RegistryLogin, MayPush, TokenGood, Grant
<1>13. ASSUME NEW g \in Grants, GrantExpires(g) PROVE IInv'
  BY <1>13 DEF GrantExpires
<1>14. CASE UNCHANGED vars
  BY <1>14 DEF vars
<1> QED
  BY <1>1, <1>2, <1>3, <1>4, <1>5, <1>6, <1>7, <1>8, <1>9, <1>10, <1>11, <1>12, <1>13, <1>14 DEF Next

\* So it always holds.
LEMMA Inductive == Spec => []IInv
BY InitIInv, StepIInv, PTL DEF Spec

\* Rows, and with them the device login's one-time copy of a token, are well
\* formed: what a client collects was approved and exists (device_approve).
THEOREM Typed == Spec => []TypeOK
<1>1. IInv => TypeOK
  BY DEF IInv, Shape
<1> QED
  BY <1>1, Inductive, PTL

\* No chain of tokens making tokens, over create_token and device approvals that
\* commit whenever they like, ends in a scope its first credential lacked.
THEOREM TokensNeverWiden == Spec => []NoWidening
<1>1. IInv => NoWidening
  BY DEF IInv, Bounded, NoWidening
<1> QED
  BY <1>1, Inductive, PTL

\* A denial is final for the clients that ask after it, whatever approvals had
\* read the row before it (device_poll).
THEOREM DeniedStaysDenied == Spec => []DenialStands
<1>1. IInv => DenialStands
  BY DEF IInv, DenialKept
<1> QED
  BY <1>1, Inductive, PTL

\* A registry token serves nothing its API token does not allow at that moment,
\* and a push only where the credentials that token descends from could push
\* (resolve_registry_identity, _require).
THEOREM ServedWithinToken == Spec => []RegistryWithinToken
<1>1. ASSUME IInv, NEW g \in Grants, Served(g) # {}
      PROVE  /\ TokenGood(grant[g].token)
             /\ "push" \in Served(g) => limit[grant[g].token] \cap {"docker:push", "admin"} # {}
  <2>1. grant[g] # None /\ TokenGood(grant[g].token)
    BY <1>1 DEF Served, Accepts
  <2>2. grant[g].token \in Tokens
    BY <1>1, <2>1 DEF IInv, Shape, Grant
  <2>3. ASSUME "push" \in Served(g) PROVE limit[grant[g].token] \cap {"docker:push", "admin"} # {}
    <3>1. "push" \in grant[g].actions
      BY <2>3 DEF Served
    <3>2. token[grant[g].token].scopes \cap {"docker:push", "admin"} # {}
      BY <1>1, <2>1, <3>1 DEF IInv, PushScoped
    <3> QED
      BY <1>1, <2>1, <2>2, <3>2 DEF IInv, Bounded, TokenGood
  <2> QED
    BY <2>1, <2>3
<1>2. IInv => RegistryWithinToken
  BY <1>1 DEF RegistryWithinToken
<1> QED
  BY <1>2, Inductive, PTL

-------------------------------------------------------------------------------
(* Accounts, as long as no two requests bump one session_version from the  *)
(* same value (~Overlap).                                                  *)

\* An id in a cookie or a request was given out, and the version with it was
\* one its account had.
Known ==
    /\ \A j \in Cookies : cookie[j] # None => account[cookie[j].user] # None
    /\ flight # None =>
          /\ account[flight.user] # None
          /\ Live(flight.user) => flight.version <= account[flight.user].version
          /\ flight.kind = "change" => flight.version < MaxVersion /\ ~flight.doomed

\* The account has left this version behind.
Behind(u, version) == ~Live(u) \/ version < account[u].version

\* What ends a session is on its account's row or names its cookie.
Ended ==
    /\ \A j \in ejected :
          cookie[j] # None /\ (j \in revoked \/ Behind(cookie[j].user, cookie[j].version))
    /\ flight # None /\ flight.doomed => Behind(flight.user, flight.version)

\* A password opened nothing at the version of an account that is the provider's.
Provided ==
    /\ \A j \in Cookies :
          cookie[j] # None /\ Live(cookie[j].user) /\ account[cookie[j].user].subject # None
          /\ cookie[j].via # "sso"
             => cookie[j].version < account[cookie[j].user].version
    /\ flight # None /\ Live(flight.user) /\ account[flight.user].subject # None
          => flight.version < account[flight.user].version

SessionInv == AccountsTypeOK /\ Known /\ Ended /\ Provided

\* Nobody is signed in, nothing is under way.
LEMMA SessionInit == AccountsInit => SessionInv
BY AccountsAssumption, AccountRows
   DEF AccountsInit, NewAccount, SessionInv, AccountsTypeOK, Known, Ended, Provided, Behind, Live, Account

\* An edit of the flags (update_user) leaves a row with its version and subject.
LEMMA EditedRow ==
    ASSUME NEW row \in Account, NEW admin \in BOOLEAN, NEW publish \in BOOLEAN, NEW active \in BOOLEAN
    PROVE  /\ Edited(row, admin, publish, active) \in Account
           /\ Edited(row, admin, publish, active).version = row.version
           /\ Edited(row, admin, publish, active).subject = row.subject
<1> DEFINE New(c, d) == [row EXCEPT !.admin = admin, !.active = active, !.publish = c, !.viaSso = d]
<1>1. \A c, d \in BOOLEAN :
         New(c, d) \in Account /\ New(c, d).version = row.version /\ New(c, d).subject = row.subject
  BY DEF Account
<1>2. (publish \/ admin) \in BOOLEAN /\ (row.viaSso /\ publish = row.publish) \in BOOLEAN
  OBVIOUS
<1>3. Edited(row, admin, publish, active) = New(publish \/ admin, row.viaSso /\ publish = row.publish)
  BY Zenon DEF Edited
<1> HIDE DEF New
<1> QED
  BY <1>1, <1>2, <1>3, Zenon

\* Rewriting one row, as every handler that has found it does: either the
\* version and the subject stay, or the version moves on (or the row goes) and
\* the sessions before it are ended.  A cookie that comes with it is at the new
\* version, and not a password's on the provider's account.
LEMMA RowRewritten ==
    ASSUME SessionInv, NEW u \in Users, NEW row \in Account \cup {Gone}, Live(u),
           account' = [account EXCEPT ![u] = row],
           \/ /\ row # Gone /\ row.version = account[u].version /\ row.subject = account[u].subject
              /\ ejected' = ejected /\ flight' = flight
           \/ /\ row # Gone => row.version > account[u].version
              /\ \/ Ejecting(u)
                 \/ ejected' = ejected \cup SessionsOf(u) /\ flight' = None,
           \/ cookie' = cookie
           \/ \E j \in Cookies, via \in {"password", "sso"} :
                 row # Gone /\ (row.subject # None => via = "sso") /\ Issued(j, u, row.version, via),
           revoked' = revoked, decided' \subseteq Users
    PROVE  SessionInv'
<1> USE AccountsAssumption, AccountRows
<1>1. /\ account' \in [Users -> Account \cup {None, Gone}] /\ account'[u] = row
      /\ \A v \in Users : v # u => account'[v] = account[v]
  BY DEF SessionInv, AccountsTypeOK
<1>2. \A v \in Users : Live(v) => account[v] \in Account /\ account[v].version \in 0..MaxVersion
  BY DEF SessionInv, AccountsTypeOK, Live, Account
<1>3. row # Gone => row.version \in 0..MaxVersion
  BY DEF Account
<1>4. /\ ejected' \subseteq ejected \cup SessionsOf(u)
      /\ row = Gone \/ row.version > account[u].version \/ (ejected' = ejected /\ flight' = flight)
      /\ row # Gone => row.version >= account[u].version
      /\ row # Gone => row.version > account[u].version \/ row.subject = account[u].subject
  BY <1>2, <1>3 DEF Ejecting
<1>5. \/ flight' = None \/ flight' = flight
      \/ flight' = [flight EXCEPT !.doomed = TRUE] /\ flight \in Request /\ flight.user = u /\ flight.kind = "login"
  BY DEF Ejecting, SessionInv, AccountsTypeOK
<1>6. flight \in Request => LET f == [flight EXCEPT !.doomed = TRUE]
                            IN f \in Request /\ f.user = flight.user /\ f.kind = flight.kind /\ f.version = flight.version
  BY DEF Request
<1>7. /\ flight' \in Request \cup {None}
      /\ flight' # None => /\ flight \in Request /\ flight'.user = flight.user /\ flight'.kind = flight.kind
                           /\ flight'.version = flight.version
                           /\ flight'.doomed # flight.doomed => flight.user = u /\ flight.kind = "login"
  BY <1>5, <1>6 DEF SessionInv, AccountsTypeOK
<1>8. flight' # None /\ flight'.doomed /\ ~flight.doomed => flight'.user = u /\ (row # Gone => row.version > account[u].version)
  BY <1>5, <1>6, <1>7
<1>9. cookie' \in [Cookies -> Session \cup {None}]
  BY <1>3 DEF Issued, SessionInv, AccountsTypeOK, Session
<1>10. \A k \in Cookies :
         \/ cookie'[k] = cookie[k]
         \/ /\ cookie[k] = None /\ cookie'[k].user = u /\ cookie'[k].version = row.version
            /\ row # Gone /\ (row.subject # None => cookie'[k].via = "sso")
  BY DEF Issued, SessionInv, AccountsTypeOK
<1>11. AccountsTypeOK'
  <2>1. \A k \in Cookies : (cookie[k] # None /\ Live(cookie[k].user) => cookie[k].version <= account[cookie[k].user].version)'
    BY <1>1, <1>2, <1>3, <1>4, <1>9, <1>10 DEF Live, SessionInv, AccountsTypeOK, Session
  <2> QED
    BY <1>1, <1>4, <1>7, <1>9, <2>1 DEF SessionInv, AccountsTypeOK, SessionsOf
<1>12. Known'
  <2>1. \A k \in Cookies : (cookie[k] # None => account[cookie[k].user] # None)'
    BY <1>1, <1>9, <1>10 DEF SessionInv, Known, Session, Live
  <2>2. (flight # None =>
          /\ account[flight.user] # None
          /\ Live(flight.user) => flight.version <= account[flight.user].version
          /\ flight.kind = "change" => flight.version < MaxVersion /\ ~flight.doomed)'
    BY <1>1, <1>2, <1>3, <1>4, <1>7 DEF Live, SessionInv, Known, Request
  <2> QED
    BY <2>1, <2>2 DEF Known
<1>13. Ended'
  <2>1. ASSUME NEW k \in ejected' PROVE (cookie[k] # None /\ (k \in revoked \/ Behind(cookie[k].user, cookie[k].version)))'
    <3>1. k \in Cookies /\ cookie[k] # None /\ cookie'[k] = cookie[k] /\ cookie[k] \in Session
      BY <1>4, <1>9, <1>10 DEF SessionInv, AccountsTypeOK, Ended, SessionsOf
    <3>2. CASE k \in ejected
      BY <1>1, <1>2, <1>3, <1>4, <3>1, <3>2 DEF SessionInv, Ended, Behind, Live, Session
    <3>3. CASE k \notin ejected
      <4>1. cookie[k].user = u /\ (row # Gone => row.version > account[u].version)
        BY <1>4, <3>3 DEF SessionsOf
      <4>2. cookie[k].version <= account[u].version
        BY <3>1, <4>1 DEF SessionInv, AccountsTypeOK
      <4> QED
        BY <1>1, <1>2, <1>3, <3>1, <4>1, <4>2 DEF Behind, Live, Session
    <3> QED
      BY <3>2, <3>3
  <2>2. (flight # None /\ flight.doomed => Behind(flight.user, flight.version))'
    BY <1>1, <1>2, <1>3, <1>4, <1>7, <1>8 DEF SessionInv, Known, Ended, Behind, Live, Request
  <2> QED
    BY <2>1, <2>2 DEF Ended
<1>14. Provided'
  <2>1. \A k \in Cookies :
           (cookie[k] # None /\ Live(cookie[k].user) /\ account[cookie[k].user].subject # None /\ cookie[k].via # "sso"
              => cookie[k].version < account[cookie[k].user].version)'
    BY <1>1, <1>2, <1>3, <1>4, <1>9, <1>10 DEF SessionInv, AccountsTypeOK, Provided, Live, Session
  <2>2. (flight # None /\ Live(flight.user) /\ account[flight.user].subject # None
           => flight.version < account[flight.user].version)'
    BY <1>1, <1>2, <1>3, <1>4, <1>7 DEF SessionInv, Known, Provided, Live, Request
  <2> QED
    BY <2>1, <2>2 DEF Provided
<1> QED
  BY <1>11, <1>12, <1>13, <1>14 DEF SessionInv

\* A new row: nobody has a cookie or a request for an id that was never given
\* out, so only the session that comes with it is on it.
LEMMA RowCreated ==
    ASSUME SessionInv, NEW u \in Users, NEW row \in Account, account[u] = None, row.version = 0,
           account' = [account EXCEPT ![u] = row],
           cookie' = cookie \/ \E j \in Cookies : Issued(j, u, 0, "sso"),
           UNCHANGED <<revoked, flight, ejected>>, decided' \subseteq Users
    PROVE  SessionInv'
<1> USE AccountsAssumption, AccountRows DEF SessionInv
<1>1. /\ account' \in [Users -> Account \cup {None, Gone}] /\ account'[u] = row /\ Live(u)'
      /\ \A v \in Users : v # u => account'[v] = account[v]
  BY DEF AccountsTypeOK, Live
<1>2. cookie' \in [Cookies -> Session \cup {None}]
  BY DEF Issued, AccountsTypeOK, Session, Account
<1>3. \A k \in Cookies :
         \/ cookie'[k] = cookie[k] /\ (cookie[k] # None => cookie[k].user # u)
         \/ cookie[k] = None /\ cookie'[k].user = u /\ cookie'[k].version = 0 /\ cookie'[k].via = "sso"
  BY DEF Issued, AccountsTypeOK, Known
<1>4. flight # None => flight.user # u
  BY DEF Known
<1>5. AccountsTypeOK'
  BY <1>1, <1>2, <1>3 DEF AccountsTypeOK, Live, Session
<1>6. Known'
  BY <1>1, <1>2, <1>3, <1>4 DEF AccountsTypeOK, Known, Live, Session, Request
<1>7. Ended'
  BY <1>1, <1>2, <1>3, <1>4 DEF AccountsTypeOK, Ended, Behind, Live, Session, Request
<1>8. Provided'
  BY <1>1, <1>2, <1>3, <1>4 DEF AccountsTypeOK, Provided, Live, Session, Request
<1> QED
  BY <1>5, <1>6, <1>7, <1>8

\* Group membership changes no version and no subject.
LEMMA RegroupedKeeps ==
    ASSUME NEW row \in Account, NEW isAdmin \in BOOLEAN
    PROVE  LET new == Regrouped(row, isAdmin)
           IN new \in Account /\ new.version = row.version /\ new.subject = row.subject
BY DEF Regrouped, Account

\* Every handler keeps the invariant, as long as no two overlap.
LEMMA SessionStep ==
    ASSUME ~Overlap, SessionInv, [AccountsNext]_accountsVars PROVE SessionInv'
<1> USE AccountsAssumption, AccountRows DEF SessionInv
<1>1. ASSUME NEW u \in Users, BeginLogin(u) PROVE SessionInv'
  BY <1>1 DEF BeginLogin, Live, AccountsTypeOK, Known, Ended, Provided, Behind, Account, Request
<1>2. ASSUME NEW j \in Cookies, FinishLogin(j) PROVE SessionInv'
  BY <1>2 DEF FinishLogin, Issued, Live, AccountsTypeOK, Known, Ended, Provided, Behind, Account, Session, Request
<1>3. ASSUME NEW u \in Users, NEW j \in Cookies \cup {None}, BeginChange(u, j) PROVE SessionInv'
  BY <1>3 DEF BeginChange, CallerIs, Live, AccountsTypeOK, Known, Ended, Provided, Behind, Account, Request
<1>4. ASSUME NEW j \in Cookies, FinishChange(j) PROVE SessionInv'
  <2> DEFINE u == flight.user
             row == [account[u] EXCEPT !.version = flight.version + 1]
  <2>1. /\ u \in Users /\ Live(u) /\ account[u] \in Account /\ account[u].version = flight.version
        /\ flight.version + 1 \in 0..MaxVersion
    BY <1>4 DEF FinishChange, AccountsTypeOK, Known, Request, Live
  <2>2. row \in Account /\ row.version = account[u].version + 1 /\ row.subject = account[u].subject
    BY <2>1 DEF Account
  <2>3. account[u].subject = None
    BY <1>4, <2>1 DEF FinishChange, Provided, Account
  <2>4. /\ account' = [account EXCEPT ![u] = row] /\ ejected' = ejected \cup SessionsOf(u) /\ flight' = None
        /\ Issued(j, u, row.version, "password") /\ revoked' = revoked /\ decided' = decided
    BY <1>4, <2>1, <2>2 DEF FinishChange
  <2>5. row.version > account[u].version /\ row # Gone /\ decided' \subseteq Users
    BY <2>1, <2>2, <2>4 DEF AccountsTypeOK, Account
  <2> HIDE DEF u, row
  <2> QED
    BY <2>1, <2>2, <2>3, <2>4, <2>5, RowRewritten
<1>5. CASE Abandon
  BY <1>5 DEF Abandon, AccountsTypeOK, Known, Ended, Provided, Behind, Live
<1>6. ASSUME NEW j \in Cookies, Logout(j) PROVE SessionInv'
  BY <1>6 DEF Logout, Usable, AccountsTypeOK, Known, Ended, Provided, Behind, Live
<1>7. ASSUME NEW u \in Users, NEW j \in Cookies \cup {None}, LogoutEverywhere(u, j) PROVE SessionInv'
  <2>1. /\ Live(u) /\ account[u] \in Account /\ account[u].version < MaxVersion
        /\ account' = [account EXCEPT ![u] = Bumped(account[u])] /\ Ejecting(u)
        /\ UNCHANGED <<cookie, revoked, decided>> /\ decided \subseteq Users
    BY <1>7 DEF LogoutEverywhere, CallerIs, AccountsTypeOK, Live
  <2>2. Bumped(account[u]) \in Account /\ Bumped(account[u]).version > account[u].version
    BY <2>1 DEF Bumped, Account
  <2> QED
    BY <2>1, <2>2, RowRewritten
<1>8. ASSUME NEW j \in Cookies, Expire(j) PROVE SessionInv'
  BY <1>8 DEF Expire, AccountsTypeOK, Known, Ended, Provided, Behind, Live, Session
<1>9. ASSUME NEW p \in Persons, NEW isAdmin \in BOOLEAN, NEW j \in Cookies, SsoKnown(p, isAdmin, j) PROVE SessionInv'
  <2>1. PICK u \in BySubject(p) :
          /\ account' = [account EXCEPT ![u] = Regrouped(account[u], isAdmin)]
          /\ Issued(j, u, account[u].version, "sso") /\ UNCHANGED <<revoked, flight, ejected, decided>>
    BY <1>9 DEF SsoKnown
  <2>2. u \in Users /\ Live(u) /\ account[u] \in Account
    BY <2>1 DEF BySubject, Live, AccountsTypeOK
  <2>3. LET row == Regrouped(account[u], isAdmin)
        IN row \in Account /\ row.version = account[u].version /\ row.subject = account[u].subject
    BY <2>2, RegroupedKeeps
  <2>4. decided' \subseteq Users /\ Regrouped(account[u], isAdmin) # Gone
    BY <2>1, <2>3 DEF AccountsTypeOK
  <2> QED
    BY <2>1, <2>2, <2>3, <2>4, RowRewritten
<1>10. ASSUME NEW p \in Persons, NEW isAdmin \in BOOLEAN, NEW j \in Cookies, SsoLink(p, isAdmin, j) PROVE SessionInv'
  <2>1. PICK u \in Candidates(p) :
          /\ account[u].version < MaxVersion
          /\ account' = [account EXCEPT ![u] = Regrouped(Linked(account[u], p), isAdmin)]
          /\ Issued(j, u, account'[u].version, "sso") /\ Ejecting(u) /\ UNCHANGED <<revoked, decided>>
    BY <1>10 DEF SsoLink
  <2> DEFINE row == Regrouped(Linked(account[u], p), isAdmin)
  <2>2. u \in Users /\ Live(u) /\ account[u] \in Account
    BY <2>1 DEF Candidates, Live, AccountsTypeOK
  <2>3. Linked(account[u], p) \in Account /\ Linked(account[u], p).version = account[u].version + 1
    <3>1. Bumped(account[u]) \in Account /\ Bumped(account[u]).version = account[u].version + 1
      BY <2>1, <2>2 DEF Bumped, Account
    <3> QED
      BY <3>1 DEF Linked, Account
  <2>4. row \in Account /\ row.version = account[u].version + 1
    BY <2>3, RegroupedKeeps
  <2>5. row.version > account[u].version /\ row # Gone /\ decided' \subseteq Users /\ account'[u] = row
    BY <2>1, <2>2, <2>4 DEF AccountsTypeOK, Account
  <2> HIDE DEF row
  <2> QED
    BY <2>1, <2>2, <2>4, <2>5, RowRewritten DEF row
<1>11. ASSUME NEW p \in Persons, NEW verified \in BOOLEAN, NEW isAdmin \in BOOLEAN, NEW j \in Cookies,
              SsoCreate(p, verified, isAdmin, j)
       PROVE  SessionInv'
  <2>1. PICK u \in Users :
          /\ account[u] = None
          /\ account' = [account EXCEPT ![u] = Regrouped(NewAccount(TRUE, FALSE, FALSE, p), isAdmin)]
          /\ Issued(j, u, 0, "sso") /\ UNCHANGED <<revoked, flight, ejected, decided>>
    BY <1>11 DEF SsoCreate
  <2>2. NewAccount(TRUE, FALSE, FALSE, p) \in Account /\ NewAccount(TRUE, FALSE, FALSE, p).version = 0
    BY DEF NewAccount, Account
  <2>3. LET row == Regrouped(NewAccount(TRUE, FALSE, FALSE, p), isAdmin) IN row \in Account /\ row.version = 0
    BY <2>2, RegroupedKeeps
  <2> QED
    BY <2>1, <2>3, RowCreated DEF AccountsTypeOK
<1>12. ASSUME NEW a \in Users, NEW u \in Users, NEW j \in Cookies \cup {None},
              NEW admin \in BOOLEAN, NEW publish \in BOOLEAN, NEW active \in BOOLEAN,
              CreateUser(a, j, u, admin, publish, active)
       PROVE  SessionInv'
  <2> DEFINE row == NewAccount(active, admin, publish \/ admin, None)
  <2>1. /\ account[u] = None /\ account' = [account EXCEPT ![u] = row]
        /\ UNCHANGED <<cookie, revoked, flight, ejected>> /\ decided' \subseteq Users
    BY <1>12 DEF CreateUser, AccountsTypeOK
  <2>2. row \in Account /\ row.version = 0
    BY DEF NewAccount, Account
  <2> HIDE DEF row
  <2> QED
    BY <2>1, <2>2, RowCreated
<1>13. ASSUME NEW a \in Users, NEW u \in Users, NEW j \in Cookies \cup {None},
              NEW admin \in BOOLEAN, NEW publish \in BOOLEAN, NEW active \in BOOLEAN, NEW reset \in BOOLEAN,
              UpdateUser(a, j, u, admin, publish, active, reset)
       PROVE  SessionInv'
  <2> DEFINE new == Edited(account[u], admin, publish, active)
             ends == reset \/ Withdrawn(account[u], new)
             row == IF ends THEN Bumped(new) ELSE new
  <2>1. Live(u) /\ account[u] \in Account /\ decided' \subseteq Users /\ revoked' = revoked
    BY <1>13 DEF UpdateUser, AccountsTypeOK, Live
  <2>2. new \in Account /\ new.version = account[u].version /\ new.subject = account[u].subject
    <3>1. \A r \in Account : /\ Edited(r, admin, publish, active) \in Account
                              /\ Edited(r, admin, publish, active).version = r.version
                              /\ Edited(r, admin, publish, active).subject = r.subject
      BY EditedRow
    <3> QED
      BY <2>1, <3>1
  <2>3. /\ account' = [account EXCEPT ![u] = row] /\ (ends => account[u].version < MaxVersion)
        /\ IF ends THEN Ejecting(u) ELSE ejected' = ejected /\ flight' = flight
    BY <1>13 DEF UpdateUser
  <2>4. /\ row \in Account /\ row # Gone /\ row.subject = account[u].subject /\ account'[u] = row
        /\ row.version = IF ends THEN account[u].version + 1 ELSE account[u].version
    <3>1. CASE ends
      <4>1. Bumped(new) \in Account /\ Bumped(new).version = new.version + 1 /\ Bumped(new).subject = new.subject
        BY <2>1, <2>2, <2>3, <3>1 DEF Bumped, Account
      <4> QED
        BY <2>1, <2>2, <2>3, <3>1, <4>1 DEF AccountsTypeOK
    <3>2. CASE ~ends
      BY <2>1, <2>2, <2>3, <3>2 DEF AccountsTypeOK
    <3> QED
      BY <3>1, <3>2
  <2>5. \/ cookie' = cookie
        \/ \E k \in Cookies, via \in {"password", "sso"} :
             (row.subject # None => via = "sso") /\ Issued(k, u, row.version, via)
    <3>1. CASE u = a /\ j # None
      <4>1. j \in Cookies /\ Usable(j) /\ cookie[j].user = u /\ cookie[j] \in Session
        BY <1>13, <3>1 DEF UpdateUser, AdminIs, CallerIs, Usable, AccountsTypeOK
      <4>2. account[u].subject # None => cookie[j].via = "sso"
        BY <2>1, <4>1 DEF Usable, Provided, Account, Session
      <4>3. \E k \in Cookies : Issued(k, u, row.version, cookie[j].via)
        BY <1>13, <2>4, <3>1 DEF UpdateUser
      <4> QED
        BY <2>4, <4>1, <4>2, <4>3 DEF Session
    <3>2. CASE ~(u = a /\ j # None)
      BY <1>13, <3>2 DEF UpdateUser
    <3> QED
      BY <3>1, <3>2
  <2>6. ends => row.version > account[u].version
    BY <2>1, <2>4 DEF Account
  <2> HIDE DEF row, ends
  <2>7. PICK w \in Account \cup {Gone} : w = row
    BY <2>4
  <2>8. \/ /\ w # Gone /\ w.version = account[u].version /\ w.subject = account[u].subject
           /\ ejected' = ejected /\ flight' = flight
        \/ /\ w # Gone => w.version > account[u].version
           /\ \/ Ejecting(u)
              \/ ejected' = ejected \cup SessionsOf(u) /\ flight' = None
    BY <2>3, <2>4, <2>6, <2>7
  <2>9. \/ cookie' = cookie
        \/ \E k \in Cookies, via \in {"password", "sso"} :
              w # Gone /\ (w.subject # None => via = "sso") /\ Issued(k, u, w.version, via)
    BY <2>4, <2>5, <2>7
  <2>10. account' = [account EXCEPT ![u] = w] /\ revoked' = revoked /\ decided' \subseteq Users /\ Live(u)
    BY <2>1, <2>3, <2>7
  <2> QED
    BY <2>8, <2>9, <2>10, RowRewritten
<1>14. ASSUME NEW a \in Users, NEW u \in Users, NEW j \in Cookies \cup {None}, DeleteUser(a, j, u) PROVE SessionInv'
  <2>1. Live(u) /\ account' = [account EXCEPT ![u] = Gone] /\ Ejecting(u) /\ UNCHANGED <<cookie, revoked, decided>>
    BY <1>14 DEF DeleteUser
  <2> QED
    BY <2>1, RowRewritten DEF AccountsTypeOK
<1>15. CASE UNCHANGED accountsVars
  BY <1>15 DEF accountsVars, AccountsTypeOK, Known, Ended, Provided, Behind, Live
<1> HIDE AccountsAssumption, AccountRows DEF SessionInv
<1>16. ASSUME NEW p \in Persons, NEW isAdmin \in BOOLEAN, NEW j \in Cookies, SsoLogin(p, isAdmin, j) PROVE SessionInv'
  BY <1>9, <1>10, <1>11, <1>16 DEF SsoLogin
<1>17. ASSUME NEW a \in Users, NEW u \in Users, NEW j \in Cookies \cup {None},
              \/ DeleteUser(a, j, u)
              \/ \E admin, publish, active \in BOOLEAN :
                    \/ CreateUser(a, j, u, admin, publish, active)
                    \/ \E reset \in BOOLEAN : UpdateUser(a, j, u, admin, publish, active, reset)
       PROVE  SessionInv'
  <2>1. ASSUME NEW admin \in BOOLEAN, NEW publish \in BOOLEAN, NEW active \in BOOLEAN,
               CreateUser(a, j, u, admin, publish, active)
        PROVE  SessionInv'
    BY <1>12, <2>1, SMT
  <2>2. ASSUME NEW admin \in BOOLEAN, NEW publish \in BOOLEAN, NEW active \in BOOLEAN, NEW reset \in BOOLEAN,
               UpdateUser(a, j, u, admin, publish, active, reset)
        PROVE  SessionInv'
    BY <1>13, <2>2, SMT
  <2> QED
    BY <1>14, <1>17, <2>1, <2>2, Zenon
<1> QED
  BY <1>1, <1>2, <1>3, <1>4, <1>5, <1>6, <1>7, <1>8, <1>15, <1>16, <1>17 DEF AccountsNext

\* So it always holds.
LEMMA SessionInductive == ASSUME ~Overlap PROVE AccountsSpec => []SessionInv
BY SessionInit, SessionStep, PTL DEF AccountsSpec

\* Accounts, cookies and requests are well formed, and no cookie is ahead of its
\* account, so bumping the version ends every session there is.
THEOREM AccountsTyped == ASSUME ~Overlap PROVE AccountsSpec => []AccountsTypeOK
<1>1. SessionInv => AccountsTypeOK
  BY DEF SessionInv
<1> QED
  BY <1>1, SessionInductive, PTL

\* A session once ended never works again, whoever ended it and whatever was
\* under way (resolve_identity).
THEOREM EndedForGood == ASSUME ~Overlap PROVE AccountsSpec => []EjectedStaysOut
<1>1. SessionInv => EjectedStaysOut
  BY DEF SessionInv, AccountsTypeOK, Ended, Behind, EjectedStaysOut, Usable, Live, Account, Session
<1> QED
  BY <1>1, SessionInductive, PTL

\* No password's session works on an account that belongs to the identity
\* provider (oidc_callback).
THEOREM ProviderDecides == ASSUME ~Overlap PROVE AccountsSpec => []SsoOnly
<1>1. SessionInv => SsoOnly
  BY DEF SessionInv, AccountsTypeOK, Provided, SsoOnly, Usable, Live, Account, Session
<1> QED
  BY <1>1, SessionInductive, PTL
=============================================================================

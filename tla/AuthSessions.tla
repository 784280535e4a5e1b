----------------------------- MODULE AuthSessions -----------------------------
(***************************************************************************)
(* The login sessions of a user: the auth_sessions table, the requests     *)
(* that create, rotate and revoke them, and the cookie jar of a browser    *)
(* whose tabs send those requests at the same time.                        *)
(*                                                                         *)
(* A refresh is one READ COMMITTED transaction: it reads the session with  *)
(* no lock, decides, and updates it by id.  What it wrote is its own until *)
(* it commits, and the row is locked meanwhile.  Logins and logouts write  *)
(* with one statement.  The stored hash is represented by the token it was *)
(* computed from: tokens are unique and the hash has no collisions.        *)
(***************************************************************************)
EXTENDS FiniteSets

CONSTANTS
    Sessions,
    Tokens,     \* refresh tokens; one that nobody has any more stands for a new one
    Requests,   \* requests that may be under way at the same time
    None

ASSUME SessionsAssumption == None \notin Sessions \cup Tokens

VARIABLES
    session,    \* the auth_sessions table, as committed
    jar,        \* the refresh cookie of the browser
    bearers,    \* sessions some tab has an unexpired access token of
    req,        \* req[r]: the request r
    tidy        \* history: see Send

vars == <<session, jar, bearers, req, tidy>>

-----------------------------------------------------------------------------
\* revokedAt and expiresAt: whether it is set, and whether it has passed.
AuthSession == [exists : BOOLEAN, hash : Tokens \cup {None},
                revoked : BOOLEAN, expired : BOOLEAN]
NoSession == [exists |-> FALSE, hash |-> None, revoked |-> FALSE, expired |-> FALSE]

\* The claims a browser sends back: sessionId and jti.
Cookie == [id : Sessions, token : Tokens]

Operations == {"login", "refresh", "logout", "logoutAll"}
Phases == {"sent", "created", "read", "written", "committed", "refused"}
Request == [op      : Operations,
            phase   : Phases,
            token   : Tokens \cup {None},    \* the cookie it was sent with
            id      : Sessions \cup {None},  \* the session it is about
            issued  : Tokens \cup {None},    \* the cookie of its answer
            reuse   : BOOLEAN,               \* refresh: the hash read is another one
            targets : SUBSET Sessions,       \* logoutAll: the rows its statement sees
            ended   : BOOLEAN,               \* history: the session had ended when sent
            earlier : SUBSET Sessions,       \* history: the sessions there were when sent
            alone   : BOOLEAN]               \* history: no other request beside it
Idle == [phase |-> "idle"]

Active(r) == req[r].phase # "idle"
Live(s) == session[s].exists /\ ~session[s].revoked /\ ~session[s].expired
Locked(s) == \E r \in Requests : req[r].phase = "written" /\ req[r].id = s
\* A new jti: not the token of any session, browser or request.
Held == IF jar = None THEN {} ELSE {jar.token}
Fresh == Tokens \ (Held \cup {session[s].hash : s \in Sessions}
                   \cup UNION {{req[r].token, req[r].issued} : r \in {q \in Requests : Active(q)}})

Init ==
    /\ session = [s \in Sessions |-> NoSession]
    /\ jar = None
    /\ bearers = {}
    /\ req = [r \in Requests |-> Idle]
    /\ tidy = TRUE

-----------------------------------------------------------------------------
(* A request is sent *)

\* tidy: since the browser's last login that ran alone, no two of its requests were
\* under way together and no answer was lost.
Send(r, op, t, s) ==
    LET alone == \A q \in Requests : ~Active(q) IN
    /\ ~Active(r)
    /\ req' = [q \in Requests |->
                 IF q = r
                 THEN [op |-> op, phase |-> "sent", token |-> t, id |-> s, issued |-> None,
                       reuse |-> FALSE, targets |-> {}, ended |-> op = "refresh" /\ ~Live(s),
                       earlier |-> {e \in Sessions : op = "logoutAll" /\ session[e].exists},
                       alone |-> alone]
                 ELSE IF Active(q) THEN [req[q] EXCEPT !.alone = FALSE] ELSE req[q]]
    /\ tidy' = (tidy /\ alone)
    /\ UNCHANGED <<session, jar, bearers>>

\* JwtAuthGuard looks at the signature and the age of the access token, not at the session.
JwtAuthGuard(s) == s \in bearers

SendLogin(r) == Send(r, "login", None, None)
\* The browser adds the cookie it has when it sends.
SendRefresh(r) == jar # None /\ Send(r, "refresh", jar.token, jar.id)
SendLogout(r, s) == JwtAuthGuard(s) /\ Send(r, "logout", None, s)
SendLogoutAll(r, s) == JwtAuthGuard(s) /\ Send(r, "logoutAll", None, s)

-----------------------------------------------------------------------------
(* Login *)

Refuse(r) == req' = [req EXCEPT ![r].phase = "refused"]

\* Wrong credentials or a user who is not ACTIVE: one answer for all of them.
RefuseLogin(r) ==
    /\ req[r].phase = "sent" /\ req[r].op = "login"
    /\ Refuse(r)
    /\ UNCHANGED <<session, jar, bearers, tidy>>

\* The INSERT with a placeholder and the UPDATE with the hash are one transaction.
createSession(r, s, t) ==
    /\ session' = [session EXCEPT ![s] = [exists |-> TRUE, hash |-> t,
                                          revoked |-> FALSE, expired |-> FALSE]]
    /\ req' = [req EXCEPT ![r] = [@ EXCEPT !.id = s, !.issued = t, !.phase = "created"]]

\* The session is committed when the audit entry of the login is not yet written.
login(r) ==
    /\ req[r].phase = "sent" /\ req[r].op = "login"
    /\ \E s \in Sessions, t \in Fresh :
         /\ ~session[s].exists
         /\ createSession(r, s, t)
    /\ UNCHANGED <<jar, bearers, tidy>>

\* The audit entry has a transaction of its own: when it fails, so does the request.
AuditLogin(r) ==
    /\ req[r].phase = "created"
    /\ \E phase \in {"committed", "refused"} : req' = [req EXCEPT ![r].phase = phase]
    /\ UNCHANGED <<session, jar, bearers, tidy>>

-----------------------------------------------------------------------------
(* Refresh *)

\* Mutant: any token issued for the session will do.
IsReuseMutant(s, t) == FALSE
IsReuse(s, t) == session[s].hash # t

\* Missing, revoked or expired: 401. Otherwise the hash decides, as it is read now.
ReadSession(r) ==
    LET x == req[r] IN
    /\ x.phase = "sent" /\ x.op = "refresh"
    /\ IF Live(x.id)
       THEN req' = [req EXCEPT ![r] = [x EXCEPT !.phase = "read",
                                                !.reuse = IsReuse(x.id, x.token)]]
       ELSE Refuse(r)
    /\ UNCHANGED <<session, jar, bearers, tidy>>

\* The UPDATE by id, of the new hash or of the revocation: waits for another
\* transaction's write of the row.
WriteSession(r) ==
    /\ req[r].phase = "read" /\ req[r].op = "refresh" /\ ~Locked(req[r].id)
    /\ req' = [req EXCEPT ![r].phase = "written"]
    /\ UNCHANGED <<session, jar, bearers, tidy>>

\* Mutant: the row is written back as it was read.
RotatedMutant(row, t) == [row EXCEPT !.hash = t, !.expired = FALSE, !.revoked = FALSE]

\* refreshTokenHash and expiresAt; revokedAt is not among the columns.
Rotated(row, t) == [row EXCEPT !.hash = t, !.expired = FALSE]

CommitRotation(r) ==
    LET x == req[r] IN
    /\ x.phase = "written" /\ ~x.reuse
    /\ \E t \in Fresh :
         /\ session' = [session EXCEPT ![x.id] = Rotated(@, t)]
         /\ req' = [req EXCEPT ![r] = [x EXCEPT !.issued = t, !.phase = "committed"]]
    /\ UNCHANGED <<jar, bearers, tidy>>

\* The exception that refuses a reused token leaves the transaction, which is rolled
\* back with the revocation and its audit entry. Any other failure ends here too.
Rollback(r) ==
    /\ req[r].phase \in {"read", "written"} /\ req[r].op = "refresh"
    /\ Refuse(r)
    /\ UNCHANGED <<session, jar, bearers, tidy>>

-----------------------------------------------------------------------------
(* Logout *)

Revoked(ids) == [s \in Sessions |-> IF s \in ids THEN [session[s] EXCEPT !.revoked = TRUE]
                                    ELSE session[s]]

\* Where revokedAt is null; a row another transaction wrote is waited for.
logout(r) ==
    /\ req[r].phase = "sent" /\ req[r].op = "logout" /\ ~Locked(req[r].id)
    /\ session' = Revoked({req[r].id})
    /\ req' = [req EXCEPT ![r].phase = "committed"]
    /\ UNCHANGED <<jar, bearers, tidy>>

\* Mutant: the statement leaves out the sessions a refresh is rotating.
VisibleSessionsMutant == {s \in Sessions : session[s].exists /\ ~session[s].revoked /\ ~Locked(s)}
VisibleSessions == {s \in Sessions : session[s].exists /\ ~session[s].revoked}

\* The statement sees the sessions committed when it starts, and may then wait.
StartLogoutAll(r) ==
    /\ req[r].phase = "sent" /\ req[r].op = "logoutAll"
    /\ req' = [req EXCEPT ![r] = [@ EXCEPT !.phase = "read", !.targets = VisibleSessions]]
    /\ UNCHANGED <<session, jar, bearers, tidy>>

logoutAll(r) ==
    /\ req[r].phase = "read" /\ req[r].op = "logoutAll"
    /\ \A s \in req[r].targets : ~Locked(s)
    /\ session' = Revoked(req[r].targets)
    /\ req' = [req EXCEPT ![r].phase = "committed"]
    /\ UNCHANGED <<jar, bearers, tidy>>

-----------------------------------------------------------------------------
(* The answer reaches the browser, or does not *)

\* Mutant: the cookie that came with the request is sent back.
setRefreshCookieMutant(r) == jar' = [id |-> req[r].id, token |-> req[r].token]
setRefreshCookie(r) == jar' = [id |-> req[r].id, token |-> req[r].issued]
clearRefreshCookie == jar' = None

\* Mutant: a logout leaves the cookie in the browser.
AnswerMutant(r) ==
    IF req[r].op \in {"login", "refresh"}
    THEN setRefreshCookie(r) /\ bearers' = bearers \cup {req[r].id}
    ELSE UNCHANGED <<jar, bearers>>

\* Whatever cookie the jar has by now is replaced, or removed.
Answer(r) ==
    IF req[r].op \in {"login", "refresh"}
    THEN setRefreshCookie(r) /\ bearers' = bearers \cup {req[r].id}
    ELSE clearRefreshCookie /\ UNCHANGED bearers

Receive(r) ==
    /\ req[r].phase = "committed"
    /\ Answer(r)
    /\ req' = [req EXCEPT ![r] = Idle]
    /\ tidy' = (tidy \/ (req[r].op = "login" /\ req[r].alone))
    /\ UNCHANGED session

\* A 401 or a 500 does not touch the cookie.
ReceiveError(r) ==
    /\ req[r].phase = "refused"
    /\ req' = [req EXCEPT ![r] = Idle]
    /\ UNCHANGED <<session, jar, bearers, tidy>>

Lose(r) ==
    /\ req[r].phase \in {"committed", "refused"}
    /\ req' = [req EXCEPT ![r] = Idle]
    /\ tidy' = FALSE
    /\ UNCHANGED <<session, jar, bearers>>

AccessTokenExpires(s) ==
    /\ s \in bearers
    /\ bearers' = bearers \ {s}
    /\ UNCHANGED <<session, jar, req, tidy>>

SessionExpires(s) ==
    /\ Live(s)
    /\ session' = [session EXCEPT ![s].expired = TRUE]
    /\ UNCHANGED <<jar, bearers, req, tidy>>

-----------------------------------------------------------------------------
Next ==
    \/ \E r \in Requests :
         \/ SendLogin(r) \/ SendRefresh(r)
         \/ \E s \in Sessions : SendLogout(r, s) \/ SendLogoutAll(r, s)
         \/ RefuseLogin(r) \/ login(r) \/ AuditLogin(r)
         \/ ReadSession(r) \/ WriteSession(r) \/ CommitRotation(r) \/ Rollback(r)
         \/ logout(r) \/ StartLogoutAll(r) \/ logoutAll(r)
         \/ Receive(r) \/ ReceiveError(r) \/ Lose(r)
    \/ \E s \in Sessions : AccessTokenExpires(s) \/ SessionExpires(s)

Spec == Init /\ [][Next]_vars

-----------------------------------------------------------------------------
(* Properties *)

\* Every variable has its type.
TypeOK ==
    /\ session \in [Sessions -> AuthSession]
    /\ jar \in Cookie \cup {None}
    /\ bearers \subseteq Sessions
    /\ req \in [Requests -> Request \cup [phase : {"idle"}]]
    /\ tidy \in BOOLEAN

\* A logout lasts: no rotation that was under way, with the session as it was before,
\* brings it back.
RevokedIsFinal ==
    [][\A s \in Sessions : session[s].revoked => session'[s].revoked]_vars

\* A refresh that was sent after its session ended gets no token, not even when an
\* earlier one renews the session between its sending and its reading.
EndedSessionIsNotRenewed ==
    \A r \in Requests :
        Active(r) /\ req[r].op = "refresh" /\ req[r].ended => req[r].phase # "committed"

\* After a logout of all sessions no session from before it was sent is usable, whatever
\* rotations were under way.
LogoutAllIsComplete ==
    \A r \in Requests :
        Active(r) /\ req[r].op = "logoutAll" /\ req[r].phase = "committed" =>
            \A s \in req[r].earlier : ~Live(s)

\* A browser that sends one request at a time and loses no answer always has the
\* current token of its session, if it has one: it is never logged out for a reuse, and
\* after a logout it has no usable cookie.
CookieIsCurrent ==
    tidy /\ (\A r \in Requests : ~Active(r)) =>
        \/ jar = None
        \/ session[jar.id].hash = jar.token /\ ~session[jar.id].revoked

(* The inductive invariant behind them *)

\* A request knows the session it is about, and the token it was sent with or answers.
IsComplete(r) ==
    LET x == req[r] IN
    Active(r) =>
        /\ x.op # "login" => x.id \in Sessions /\ x.phase # "created"
        /\ x.op = "login" => x.phase \in {"sent", "created", "committed", "refused"}
        /\ x.op = "login" /\ x.phase \in {"created", "committed"} => x.id \in Sessions /\ x.issued \in Tokens
        /\ x.op = "refresh" => x.token \in Tokens /\ (x.phase = "committed" => x.issued \in Tokens)
        /\ x.op = "logout" => x.phase \in {"sent", "committed"}
        /\ x.op = "logoutAll" => x.phase \in {"sent", "read", "committed"}

\* A session is never taken for a new one: those that are revoked, that the browser has a
\* token of or that a request is about are there.
SessionsAreThere ==
    /\ \A s \in Sessions : session[s].revoked \/ s \in bearers => session[s].exists
    /\ jar # None => session[jar.id].exists
    /\ \A r \in Requests :
         Active(r) => /\ req[r].id # None => session[req[r].id].exists
                      /\ \A s \in req[r].targets \cup req[r].earlier : session[s].exists

\* Who renews a session that ended also changes its token, so that a refresh that was sent
\* meanwhile finds a session that has ended or another token.
EndedIsRefused(r) ==
    LET x == req[r] IN
    Active(r) /\ x.op = "refresh" /\ x.ended =>
        /\ ~Live(x.id) \/ session[x.id].hash # x.token
        /\ x.phase \in {"read", "written"} => x.reuse
        /\ x.phase # "committed"

\* What a logout of all sessions does not revoke is revoked already.
CoversEarlier(r) ==
    LET x == req[r] IN
    Active(r) /\ x.op = "logoutAll" =>
        /\ x.phase = "read" => \A s \in x.earlier : s \in x.targets \/ session[s].revoked
        /\ x.phase = "committed" => \A s \in x.earlier : session[s].revoked

\* The request that is alone is so, and no other is under way while all is tidy.
AloneIsAlone ==
    \A r \in Requests : Active(r) =>
        /\ req[r].alone => \A q \in Requests \ {r} : ~Active(q)
        /\ tidy => req[r].alone

HasCurrent(s, t) == session[s].hash = t /\ ~session[s].revoked

\* What the answer of a lone login, or of a tidy refresh, puts into the jar is current.
IssuesCurrent(r) ==
    LET x == req[r] IN
    Active(r) /\ x.alone =>
        /\ x.op = "login" /\ x.phase \in {"created", "committed"} => HasCurrent(x.id, x.issued)
        /\ tidy /\ x.op = "refresh" =>
             /\ jar # None /\ jar.id = x.id
             /\ x.phase = "committed" => HasCurrent(x.id, x.issued)

\* And until an answer is on its way, what the jar has is.
JarIsCurrent ==
    tidy /\ (\A r \in Requests : Active(r) => req[r].phase # "committed") =>
        jar = None \/ HasCurrent(jar.id, jar.token)

SessionsInv ==
    /\ \A r \in Requests : IsComplete(r) /\ EndedIsRefused(r) /\ CoversEarlier(r) /\ IssuesCurrent(r)
    /\ SessionsAreThere /\ AloneIsAlone /\ JarIsCurrent

(* What the documentation says and the code does not keep *)

\* A refresh that finds its token reused revokes the session.
ReuseRevokes ==
    [][\A r \in Requests :
          Active(r) /\ req[r].phase = "written" /\ req[r].reuse /\ req'[r].phase = "refused" =>
              session'[req[r].id].revoked]_vars

\* A token that is not the current one of its session is never exchanged.
RotatedTokenIsRefused ==
    [][\A r \in Requests :
          Active(r) /\ req[r].op = "refresh" /\ req[r].phase # "committed"
          /\ req'[r].phase = "committed" => session[req[r].id].hash = req[r].token]_vars
=============================================================================

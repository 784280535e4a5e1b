-------------------------- MODULE AuthSessionsProofs --------------------------
(***************************************************************************)
(* TLAPS proofs about AuthSessions: for any sessions, tokens and requests  *)
(* under way at the same time.                                             *)
(***************************************************************************)
EXTENDS AuthSessions, TLAPS

-----------------------------------------------------------------------------
(* Requests *)

LEMMA RequestFields ==
    ASSUME TypeOK, NEW r \in Requests, Active(r)
    PROVE  req[r] \in Request
  BY DEF TypeOK, Active

(* A step of one request leaves the others. *)
LEMMA OneRequestSteps ==
    ASSUME TypeOK, NEW r \in Requests, NEW x, req' = [req EXCEPT ![r] = x]
    PROVE  \A q \in Requests : req'[q] = IF q = r THEN x ELSE req[q]
  BY DEF TypeOK

LEMMA OneRequestType ==
    ASSUME TypeOK, NEW r \in Requests, NEW x \in Request \cup [phase : {"idle"}],
           req' = [req EXCEPT ![r] = x]
    PROVE  req' \in [Requests -> Request \cup [phase : {"idle"}]]
  BY DEF TypeOK

(* A request that is sent, and what that does to the others. *)
LEMMA SendEffect ==
    ASSUME TypeOK, NEW r \in Requests, NEW op \in Operations, NEW t \in Tokens \cup {None},
           NEW s \in Sessions \cup {None}, Send(r, op, t, s)
    PROVE  /\ ~Active(r)
           /\ req' \in [Requests -> Request \cup [phase : {"idle"}]]
           /\ Active(r)'
           /\ req'[r].op = op /\ req'[r].phase = "sent" /\ req'[r].token = t /\ req'[r].id = s
           /\ req'[r].targets = {} /\ req'[r].ended = (op = "refresh" /\ ~Live(s))
           /\ req'[r].earlier = {e \in Sessions : op = "logoutAll" /\ session[e].exists}
           /\ req'[r].alone = \A q \in Requests : ~Active(q)
           /\ \A q \in Requests \ {r} :
                req'[q] = IF Active(q) THEN [req[q] EXCEPT !.alone = FALSE] ELSE req[q]
           /\ tidy' = (tidy /\ \A q \in Requests : ~Active(q))
           /\ UNCHANGED <<session, jar, bearers>>
  <1> DEFINE alone == \A q \in Requests : ~Active(q)
             x == [op |-> op, phase |-> "sent", token |-> t, id |-> s, issued |-> None,
                   reuse |-> FALSE, targets |-> {}, ended |-> op = "refresh" /\ ~Live(s),
                   earlier |-> {e \in Sessions : op = "logoutAll" /\ session[e].exists},
                   alone |-> alone]
  <1>1. x \in Request
    BY DEF Request, Phases
  <1>2. \A q \in Requests : req'[q] = IF q = r THEN x
                                     ELSE IF Active(q) THEN [req[q] EXCEPT !.alone = FALSE] ELSE req[q]
    BY DEF Send
  <1>3. \A q \in Requests : Active(q) => [req[q] EXCEPT !.alone = FALSE] \in Request
    BY RequestFields DEF Request
  <1>4. req' \in [Requests -> Request \cup [phase : {"idle"}]]
    BY <1>1, <1>3 DEF Send, TypeOK
  <1>5. req'[r] = x
    BY <1>2
  <1>6. /\ req'[r].op = op /\ req'[r].phase = "sent" /\ req'[r].token = t /\ req'[r].id = s
        /\ req'[r].targets = {} /\ req'[r].ended = (op = "refresh" /\ ~Live(s))
        /\ req'[r].earlier = {e \in Sessions : op = "logoutAll" /\ session[e].exists}
        /\ req'[r].alone = alone
    BY <1>5
  <1> HIDE DEF x
  <1> QED
    BY <1>2, <1>4, <1>6 DEF Send, Active

-----------------------------------------------------------------------------
(* Type correctness *)

LEMMA InitType ==
    ASSUME Init
    PROVE  TypeOK
  BY DEF Init, TypeOK, AuthSession, NoSession, Idle

LEMMA FreshType == Fresh \subseteq Tokens
  BY DEF Fresh

LEMMA RevokedType ==
    ASSUME TypeOK, NEW ids
    PROVE  Revoked(ids) \in [Sessions -> AuthSession]
  BY DEF TypeOK, Revoked, AuthSession

LEMMA NextType ==
    ASSUME TypeOK, SessionsInv, [Next]_vars
    PROVE  TypeOK'
  <1>1. \A r \in Requests : IsComplete(r)
    BY DEF SessionsInv
  <1>2. ASSUME NEW r \in Requests, NEW op \in Operations, NEW t \in Tokens \cup {None},
               NEW s \in Sessions \cup {None}, Send(r, op, t, s)
        PROVE  TypeOK'
    BY <1>2, SendEffect DEF TypeOK
  <1>3. ASSUME NEW r \in Requests, SendLogin(r)
        PROVE  TypeOK'
    BY <1>2, <1>3 DEF SendLogin, Operations
  <1>4. ASSUME NEW r \in Requests, SendRefresh(r)
        PROVE  TypeOK'
    <2>1. jar.token \in Tokens /\ jar.id \in Sessions
      BY <1>4 DEF SendRefresh, TypeOK, Cookie
    <2> QED
      BY <1>2, <1>4, <2>1 DEF SendRefresh, Operations
  <1>5. ASSUME NEW r \in Requests, NEW s \in Sessions, SendLogout(r, s) \/ SendLogoutAll(r, s)
        PROVE  TypeOK'
    BY <1>2, <1>5 DEF SendLogout, SendLogoutAll, Operations
  \* A step that changes the phase of a request, and what it knows.
  <1>6. ASSUME NEW r \in Requests, Active(r), NEW phase \in Phases
        PROVE  /\ [req[r] EXCEPT !.phase = phase] \in Request
               /\ \A reuse \in BOOLEAN : [req[r] EXCEPT !.phase = phase, !.reuse = reuse] \in Request
               /\ \A ids \in SUBSET Sessions : [req[r] EXCEPT !.phase = phase, !.targets = ids] \in Request
               /\ \A t \in Tokens : [req[r] EXCEPT !.issued = t, !.phase = phase] \in Request
               /\ \A t \in Tokens, s \in Sessions :
                    [req[r] EXCEPT !.id = s, !.issued = t, !.phase = phase] \in Request
    <2>1. req[r] \in Request
      BY <1>6, RequestFields
    <2> QED
      BY <2>1 DEF Request
  <1>7. ASSUME NEW r \in Requests, RefuseLogin(r) \/ AuditLogin(r) \/ WriteSession(r) \/ Rollback(r)
        PROVE  TypeOK'
    <2>1. Active(r) /\ UNCHANGED <<session, jar, bearers, tidy>>
      BY <1>7 DEF RefuseLogin, AuditLogin, WriteSession, Rollback, Active
    <2>2. \E phase \in Phases : req' = [req EXCEPT ![r] = [req[r] EXCEPT !.phase = phase]]
      BY <1>7 DEF RefuseLogin, AuditLogin, WriteSession, Rollback, Refuse, Phases
    <2>3. req' \in [Requests -> Request \cup [phase : {"idle"}]]
      BY <1>6, <2>1, <2>2, OneRequestType
    <2> QED
      BY <2>1, <2>3 DEF TypeOK
  <1>8. ASSUME NEW r \in Requests, login(r)
        PROVE  TypeOK'
    <2>1. PICK s \in Sessions, t \in Tokens : createSession(r, s, t)
      BY <1>8, FreshType DEF login
    <2>2. session' \in [Sessions -> AuthSession]
      BY <2>1 DEF createSession, TypeOK, AuthSession
    <2>3. Active(r) /\ "created" \in Phases
      BY <1>8 DEF login, Active, Phases
    <2>4. [req[r] EXCEPT !.id = s, !.issued = t, !.phase = "created"] \in Request
      BY <1>6, <2>3
    <2>5. req' \in [Requests -> Request \cup [phase : {"idle"}]]
      BY <2>1, <2>4, OneRequestType DEF createSession
    <2> QED
      BY <1>8, <2>2, <2>5 DEF login, TypeOK
  <1>9. ASSUME NEW r \in Requests, ReadSession(r)
        PROVE  TypeOK'
    <2>1. Active(r) /\ {"read", "refused"} \subseteq Phases
      BY <1>9 DEF ReadSession, Active, Phases
    <2>2. IsReuse(req[r].id, req[r].token) \in BOOLEAN
      BY DEF IsReuse
    <2>3. req' \in [Requests -> Request \cup [phase : {"idle"}]]
      BY <1>6, <1>9, <2>1, <2>2, OneRequestType DEF ReadSession, Refuse
    <2> QED
      BY <1>9, <2>3 DEF ReadSession, TypeOK
  <1>10. ASSUME NEW r \in Requests, CommitRotation(r)
         PROVE  TypeOK'
    <2>1. Active(r) /\ "committed" \in Phases
      BY <1>10 DEF CommitRotation, Active, Phases
    <2>2. PICK t \in Tokens :
            /\ session' = [session EXCEPT ![req[r].id] = Rotated(@, t)]
            /\ req' = [req EXCEPT ![r] = [req[r] EXCEPT !.issued = t, !.phase = "committed"]]
      BY <1>10, FreshType DEF CommitRotation
    <2>3. session' \in [Sessions -> AuthSession]
      BY <2>2 DEF Rotated, TypeOK, AuthSession
    <2>4. req' \in [Requests -> Request \cup [phase : {"idle"}]]
      BY <1>6, <2>1, <2>2, OneRequestType
    <2> QED
      BY <1>10, <2>3, <2>4 DEF CommitRotation, TypeOK
  <1>11. ASSUME NEW r \in Requests, logout(r) \/ logoutAll(r)
         PROVE  TypeOK'
    <2>1. Active(r) /\ "committed" \in Phases
      BY <1>11 DEF logout, logoutAll, Active, Phases
    <2>2. req' \in [Requests -> Request \cup [phase : {"idle"}]]
      BY <1>6, <1>11, <2>1, OneRequestType DEF logout, logoutAll
    <2>3. session' \in [Sessions -> AuthSession]
      BY <1>11, RevokedType DEF logout, logoutAll
    <2> QED
      BY <1>11, <2>2, <2>3 DEF logout, logoutAll, TypeOK
  <1>12. ASSUME NEW r \in Requests, StartLogoutAll(r)
         PROVE  TypeOK'
    <2>1. Active(r) /\ "read" \in Phases /\ VisibleSessions \in SUBSET Sessions
      BY <1>12 DEF StartLogoutAll, Active, Phases, VisibleSessions
    <2>2. req' \in [Requests -> Request \cup [phase : {"idle"}]]
      BY <1>6, <1>12, <2>1, OneRequestType DEF StartLogoutAll
    <2> QED
      BY <1>12, <2>2 DEF StartLogoutAll, TypeOK
  <1>13. ASSUME NEW r \in Requests, Receive(r) \/ ReceiveError(r) \/ Lose(r)
         PROVE  TypeOK'
    <2>1. req' = [req EXCEPT ![r] = Idle] /\ UNCHANGED session
      BY <1>13 DEF Receive, ReceiveError, Lose
    <2>2. req' \in [Requests -> Request \cup [phase : {"idle"}]]
      BY <2>1, OneRequestType DEF Idle
    <2>3. jar' \in Cookie \cup {None} /\ bearers' \subseteq Sessions
      <3>1. CASE Receive(r)
        <4>1. Active(r) /\ req[r].phase = "committed"
          BY <3>1 DEF Receive, Active
        <4>2. CASE req[r].op \in {"login", "refresh"}
          <5>1. req[r].id \in Sessions /\ req[r].issued \in Tokens
            BY <1>1, <4>1, <4>2 DEF IsComplete
          <5> QED
            BY <3>1, <4>2, <5>1 DEF Receive, Answer, setRefreshCookie, TypeOK, Cookie
        <4>3. CASE req[r].op \notin {"login", "refresh"}
          BY <3>1, <4>3 DEF Receive, Answer, clearRefreshCookie, TypeOK
        <4> QED
          BY <4>2, <4>3
      <3>2. CASE ~Receive(r)
        BY <1>13, <3>2 DEF ReceiveError, Lose, TypeOK
      <3> QED
        BY <3>1, <3>2
    <2>4. tidy' \in BOOLEAN
      BY <1>13 DEF Receive, ReceiveError, Lose, TypeOK
    <2> QED
      BY <2>1, <2>2, <2>3, <2>4 DEF TypeOK
  <1>14. ASSUME NEW s \in Sessions, AccessTokenExpires(s) \/ SessionExpires(s)
         PROVE  TypeOK'
    <2>1. session' \in [Sessions -> AuthSession]
      BY <1>14 DEF AccessTokenExpires, SessionExpires, TypeOK, AuthSession
    <2> QED
      BY <1>14, <2>1 DEF AccessTokenExpires, SessionExpires, TypeOK
  <1>15. CASE UNCHANGED vars
    BY <1>15 DEF vars, TypeOK
  <1> QED
    BY <1>3, <1>4, <1>5, <1>7, <1>8, <1>9, <1>10, <1>11, <1>12, <1>13, <1>14, <1>15 DEF Next

-----------------------------------------------------------------------------
(* What a step does to the sessions *)

LEMMA RequestsAreListed ==
    ASSUME TypeOK
    PROVE  req = [r \in Requests |-> req[r]]
  BY DEF TypeOK

LEMMA SessionsAreListed ==
    ASSUME TypeOK
    PROVE  /\ session = [s \in Sessions |-> session[s]]
           /\ \A s \in Sessions : session[s] \in AuthSession
  BY DEF TypeOK

(* A session that is there stays there and revoked, and when it is renewed its token is  *)
(* one that nobody has.                                                                  *)
LEMMA SessionsStay ==
    ASSUME TypeOK, SessionsInv, [Next]_vars, NEW s \in Sessions
    PROVE  /\ session[s].exists => session'[s].exists
           /\ session[s].revoked => session'[s].revoked
           /\ session'[s].revoked => session'[s].exists
           /\ session[s].exists => \/ session'[s].hash = session[s].hash /\ (Live(s)' => Live(s))
                                   \/ session'[s].hash \in Fresh
  <1>1. \A e \in Sessions : session[e].revoked => session[e].exists
    BY DEF SessionsInv, SessionsAreThere
  <1>2. \A r \in Requests : IsComplete(r)
    BY DEF SessionsInv
  <1>3. ASSUME NEW r \in Requests, Active(r)
        PROVE  /\ req[r].op # "login" => req[r].id \in Sessions /\ session[req[r].id].exists
               /\ \A e \in req[r].targets : session[e].exists
    BY <1>2, <1>3, SessionsAssumption DEF IsComplete, SessionsInv, SessionsAreThere
  <1>4. ASSUME NEW ids, session' = Revoked(ids), \A e \in ids : session[e].exists
        PROVE  /\ session[s].exists => session'[s].exists
               /\ session[s].revoked => session'[s].revoked
               /\ session'[s].revoked => session'[s].exists
               /\ session'[s].hash = session[s].hash /\ (Live(s)' => Live(s))
    <2>1. session[s] \in AuthSession
      BY SessionsAreListed
    <2> QED
      BY <1>1, <1>4, <2>1 DEF Revoked, Live, AuthSession
  <1>5. ASSUME NEW r \in Requests, login(r)
        PROVE  /\ session[s].exists => session'[s] = session[s]
               /\ session[s].revoked => session'[s].revoked
               /\ session'[s].revoked => session'[s].exists
    BY <1>1, <1>5, SessionsAreListed DEF login, createSession
  <1>6. ASSUME NEW r \in Requests, CommitRotation(r)
        PROVE  /\ session[s].exists => session'[s].exists
               /\ session[s].revoked => session'[s].revoked
               /\ session'[s].revoked => session'[s].exists
               /\ session'[s] = session[s] \/ session'[s].hash \in Fresh
    <2>1. PICK t \in Fresh : session' = [session EXCEPT ![req[r].id] = Rotated(@, t)]
      BY <1>6 DEF CommitRotation
    <2>2. session[s] \in AuthSession
      BY SessionsAreListed
    <2>3. CASE s # req[r].id
      BY <1>1, <2>1, <2>3, SessionsAreListed
    <2>4. CASE s = req[r].id
      <3>1. session'[s] = [session[s] EXCEPT !.hash = t, !.expired = FALSE]
        BY <2>1, <2>4, SessionsAreListed DEF Rotated
      <3> QED
        BY <1>1, <2>2, <3>1 DEF AuthSession
    <2> QED
      BY <2>3, <2>4
  <1>7. ASSUME NEW r \in Requests, logout(r)
        PROVE  session' = Revoked({req[r].id}) /\ session[req[r].id].exists
    BY <1>3, <1>7 DEF logout, Active
  <1>8. ASSUME NEW r \in Requests, logoutAll(r)
        PROVE  session' = Revoked(req[r].targets) /\ \A e \in req[r].targets : session[e].exists
    BY <1>3, <1>8 DEF logoutAll, Active
  <1>9. ASSUME NEW e \in Sessions, SessionExpires(e)
        PROVE  /\ session'[s].exists = session[s].exists /\ session'[s].revoked = session[s].revoked
               /\ session'[s].hash = session[s].hash /\ (Live(s)' => Live(s))
    <2>1. session[s] \in AuthSession /\ session' = [session EXCEPT ![e].expired = TRUE]
      BY <1>9, SessionsAreListed DEF SessionExpires
    <2> QED
      BY <2>1, SessionsAreListed DEF AuthSession, Live
  <1>10. CASE UNCHANGED session
    BY <1>1, <1>10 DEF Live
  <1>11. \/ \E r \in Requests : login(r) \/ CommitRotation(r) \/ logout(r) \/ logoutAll(r)
         \/ \E e \in Sessions : SessionExpires(e)
         \/ UNCHANGED session
    BY DEF Next, vars, SendLogin, SendRefresh, SendLogout, SendLogoutAll, Send, RefuseLogin,
           AuditLogin, ReadSession, WriteSession, Rollback, StartLogoutAll, Receive,
           ReceiveError, Lose, AccessTokenExpires
  <1>12. CASE \E r \in Requests : login(r)
    BY <1>5, <1>12 DEF Live
  <1>13. ASSUME NEW r \in Requests, CommitRotation(r)
         PROVE  session[s].exists => \/ session'[s].hash = session[s].hash /\ (Live(s)' => Live(s))
                                     \/ session'[s].hash \in Fresh
    <2>1. session'[s] = session[s] \/ session'[s].hash \in Fresh
      BY <1>6, <1>13
    <2>2. session'[s] = session[s] => (Live(s)' => Live(s))
      BY DEF Live
    <2> QED
      BY <2>1, <2>2
  <1>14. CASE \E r \in Requests : logout(r) \/ logoutAll(r)
    <2>1. CASE \E r \in Requests : logout(r)
      <3>1. PICK r \in Requests : session' = Revoked({req[r].id}) /\ session[req[r].id].exists
        BY <1>7, <2>1
      <3> QED
        BY <1>4, <3>1
    <2>2. CASE \E r \in Requests : logoutAll(r)
      <3>1. PICK r \in Requests : /\ session' = Revoked(req[r].targets)
                                 /\ \A e \in req[r].targets : session[e].exists
        BY <1>8, <2>2
      <3> QED
        BY <1>4, <3>1
    <2> QED
      BY <1>14, <2>1, <2>2
  <1>15. CASE \E e \in Sessions : SessionExpires(e)
    BY <1>1, <1>9, <1>15
  <1> QED
    BY <1>6, <1>10, <1>11, <1>12, <1>13, <1>14, <1>15

-----------------------------------------------------------------------------
(* The invariant *)

LEMMA InitInv ==
    ASSUME Init
    PROVE  SessionsInv
  <1>1. \A r \in Requests : ~Active(r)
    BY DEF Init, Active, Idle
  <1>2. jar = None /\ bearers = {} /\ \A s \in Sessions : ~session[s].revoked
    BY DEF Init, NoSession
  <1> QED
    BY <1>1, <1>2 DEF SessionsInv, IsComplete, EndedIsRefused, CoversEarlier, IssuesCurrent,
                      SessionsAreThere, AloneIsAlone, JarIsCurrent

LEMMA HeldIsNotFresh ==
    ASSUME NEW r \in Requests, Active(r)
    PROVE  req[r].token \notin Fresh /\ req[r].issued \notin Fresh
  <1>1. {req[r].token, req[r].issued}
           \in {{req[q].token, req[q].issued} : q \in {p \in Requests : Active(p)}}
    OBVIOUS
  <1>2. {req[r].token, req[r].issued}
           \subseteq UNION {{req[q].token, req[q].issued} : q \in {p \in Requests : Active(p)}}
    BY <1>1
  <1> QED
    BY <1>2 DEF Fresh

(* A request that takes no step is as complete, refused or covered as before; to be not *)
(* alone any more makes no difference.                                                  *)
LEMMA OthersStay ==
    ASSUME TypeOK, SessionsInv, [Next]_vars, NEW q \in Requests, Active(q),
           req'[q] \in {req[q], [req[q] EXCEPT !.alone = FALSE]}
    PROVE  IsComplete(q)' /\ EndedIsRefused(q)' /\ CoversEarlier(q)'
  <1>1. req[q] \in Request /\ IsComplete(q) /\ EndedIsRefused(q) /\ CoversEarlier(q)
    BY RequestFields DEF SessionsInv
  <1>2. /\ Active(q)'
        /\ req'[q].op = req[q].op /\ req'[q].phase = req[q].phase /\ req'[q].token = req[q].token
        /\ req'[q].id = req[q].id /\ req'[q].issued = req[q].issued /\ req'[q].reuse = req[q].reuse
        /\ req'[q].targets = req[q].targets /\ req'[q].ended = req[q].ended
        /\ req'[q].earlier = req[q].earlier
    BY <1>1 DEF Request, Active
  <1>3. IsComplete(q)'
    BY <1>1, <1>2 DEF IsComplete
  <1>4. CoversEarlier(q)'
    BY <1>1, <1>2, SessionsStay DEF CoversEarlier, Request
  <1>5. EndedIsRefused(q)'
    <2> SUFFICES ASSUME req[q].op = "refresh", req[q].ended, NEW s \in Sessions, s = req[q].id
                 PROVE  ~Live(s)' \/ session'[s].hash # req[q].token
      BY <1>1, <1>2 DEF EndedIsRefused, IsComplete, Live
    <2>1. session[s].exists
      BY SessionsAssumption DEF SessionsInv, SessionsAreThere
    <2>2. ~Live(s) \/ session[s].hash # req[q].token
      BY <1>1 DEF EndedIsRefused
    <2>3. req[q].token \notin Fresh
      BY HeldIsNotFresh
    <2> QED
      BY <2>1, <2>2, <2>3, SessionsStay
  <1> QED
    BY <1>3, <1>4, <1>5

(* What a request knows when it takes a step. *)
LEMMA RequestsStay ==
    ASSUME TypeOK, SessionsInv, [Next]_vars
    PROVE  (\A r \in Requests : IsComplete(r) /\ EndedIsRefused(r) /\ CoversEarlier(r))'
  <1> DEFINE Knows(r) == IsComplete(r) /\ EndedIsRefused(r) /\ CoversEarlier(r)
  <1>1. \A r \in Requests : IsComplete(r) /\ EndedIsRefused(r) /\ CoversEarlier(r)
    BY DEF SessionsInv
  <1>2. ASSUME NEW r \in Requests
        PROVE  ~Active(r)' => Knows(r)'
    BY DEF IsComplete, EndedIsRefused, CoversEarlier
  <1>3. ASSUME NEW q \in Requests, req'[q] = req[q]
        PROVE  Knows(q)'
    <2>1. CASE Active(q)
      BY <1>3, <2>1, OthersStay
    <2>2. CASE ~Active(q)
      BY <1>2, <1>3, <2>2 DEF Active
    <2> QED
      BY <2>1, <2>2
  <1>4. ASSUME NEW r \in Requests, NEW x, req' = [req EXCEPT ![r] = x], Knows(r)'
        PROVE  (\A q \in Requests : Knows(q))'
    <2>1. \A q \in Requests \ {r} : req'[q] = req[q]
      BY <1>4, OneRequestSteps
    <2> QED
      BY <1>3, <1>4, <2>1
  <1>5. ASSUME NEW r \in Requests, NEW op \in Operations, NEW t \in Tokens \cup {None},
               NEW s \in Sessions \cup {None}, Send(r, op, t, s),
               op # "login" => s \in Sessions, op = "refresh" => t \in Tokens
        PROVE  (\A q \in Requests : Knows(q))'
    <2>1. \A q \in Requests \ {r} : Knows(q)'
      <3> TAKE q \in Requests \ {r}
      <3>1. CASE Active(q)
        <4>1. req'[q] \in {req[q], [req[q] EXCEPT !.alone = FALSE]}
          BY <1>5, <3>1, SendEffect
        <4> QED
          BY <3>1, <4>1, OthersStay
      <3>2. CASE ~Active(q)
        BY <1>3, <1>5, <3>2, SendEffect
      <3> QED
        BY <3>1, <3>2
    <2>2. /\ req'[r].op = op /\ req'[r].phase = "sent" /\ req'[r].token = t /\ req'[r].id = s
          /\ req'[r].ended = (op = "refresh" /\ ~Live(s)) /\ UNCHANGED session
      <3>1. req'[r].op = op /\ req'[r].phase = "sent"
        BY <1>5 DEF Send
      <3>2. req'[r].token = t /\ req'[r].id = s
        BY <1>5 DEF Send
      <3>3. req'[r].ended = (op = "refresh" /\ ~Live(s))
        BY <1>5 DEF Send
      <3>4. UNCHANGED session
        BY <1>5 DEF Send
      <3> QED
        BY <3>1, <3>2, <3>3, <3>4
    <2>3. IsComplete(r)' /\ CoversEarlier(r)'
      BY <1>5, <2>2 DEF IsComplete, CoversEarlier, Operations
    <2>4. EndedIsRefused(r)'
      BY <2>2 DEF EndedIsRefused, Live
    <2> QED
      BY <2>1, <2>3, <2>4
  <1>6. ASSUME NEW r \in Requests, SendLogin(r)
        PROVE  (\A q \in Requests : Knows(q))'
    BY <1>5, <1>6 DEF SendLogin, Operations
  <1>7. ASSUME NEW r \in Requests, SendRefresh(r)
        PROVE  (\A q \in Requests : Knows(q))'
    <2>1. jar.token \in Tokens /\ jar.id \in Sessions
      BY <1>7 DEF SendRefresh, TypeOK, Cookie
    <2> QED
      BY <1>5, <1>7, <2>1 DEF SendRefresh, Operations
  <1>8. ASSUME NEW r \in Requests, NEW s \in Sessions, SendLogout(r, s) \/ SendLogoutAll(r, s)
        PROVE  (\A q \in Requests : Knows(q))'
    BY <1>5, <1>8 DEF SendLogout, SendLogoutAll, Operations
  \* A request that gets another phase, and keeps what it knows.
  <1>9. ASSUME NEW r \in Requests, Active(r), NEW phase \in Phases,
               req' = [req EXCEPT ![r] = [req[r] EXCEPT !.phase = phase]]
        PROVE  /\ Active(r)' /\ req'[r].phase = phase
               /\ req'[r].op = req[r].op /\ req'[r].token = req[r].token /\ req'[r].id = req[r].id
               /\ req'[r].issued = req[r].issued /\ req'[r].reuse = req[r].reuse
               /\ req'[r].targets = req[r].targets /\ req'[r].ended = req[r].ended
               /\ req'[r].earlier = req[r].earlier
    <2>1. req[r] \in Request
      BY <1>9, RequestFields
    <2> QED
      BY <1>9, <2>1, RequestsAreListed DEF Request, Active, Phases
  <1>10. ASSUME NEW r \in Requests, RefuseLogin(r) \/ AuditLogin(r)
         PROVE  (\A q \in Requests : Knows(q))'
    <2>1. Active(r) /\ (req[r].op = "login" \/ req[r].phase = "created")
      BY <1>10 DEF RefuseLogin, AuditLogin, Active
    <2>2. req[r].op = "login"
      BY <1>1, <2>1 DEF IsComplete
    <2>3. PICK phase \in Phases :
            /\ req' = [req EXCEPT ![r] = [req[r] EXCEPT !.phase = phase]]
            /\ phase = "refused" \/ (phase = "committed" /\ req[r].phase = "created")
      BY <1>10 DEF RefuseLogin, AuditLogin, Refuse, Phases
    <2>4. Knows(r)'
      BY <1>1, <1>9, <2>1, <2>2, <2>3 DEF IsComplete, EndedIsRefused, CoversEarlier
    <2> QED
      BY <1>4, <2>3, <2>4
  <1>11. ASSUME NEW r \in Requests, login(r)
         PROVE  (\A q \in Requests : Knows(q))'
    <2>1. PICK s \in Sessions, t \in Tokens : createSession(r, s, t)
      BY <1>11, FreshType DEF login
    <2>2. req[r] \in Request /\ req[r].op = "login"
      BY <1>11, RequestFields DEF login, Active
    <2>3. req'[r].op = "login" /\ req'[r].phase = "created" /\ req'[r].id = s /\ req'[r].issued = t
      BY <2>1, <2>2, RequestsAreListed DEF createSession, Request
    <2>4. Knows(r)'
      BY <2>3 DEF IsComplete, EndedIsRefused, CoversEarlier
    <2> QED
      BY <1>4, <2>1, <2>4 DEF createSession
  <1>12. ASSUME NEW r \in Requests, ReadSession(r)
         PROVE  (\A q \in Requests : Knows(q))'
    <2>1. /\ Active(r) /\ req[r] \in Request /\ req[r].op = "refresh" /\ req[r].phase = "sent"
          /\ UNCHANGED session
      BY <1>12, RequestFields DEF ReadSession, Active
    <2>2. CASE Live(req[r].id)
      <3>1. req' = [req EXCEPT ![r] = [req[r] EXCEPT !.phase = "read",
                                                    !.reuse = IsReuse(req[r].id, req[r].token)]]
        BY <1>12, <2>2 DEF ReadSession
      <3>2. /\ req'[r].op = "refresh" /\ req'[r].phase = "read"
            /\ req'[r].token = req[r].token /\ req'[r].id = req[r].id
            /\ req'[r].reuse = (session[req[r].id].hash # req[r].token)
            /\ req'[r].ended = req[r].ended
        BY <2>1, <3>1, RequestsAreListed DEF Request, IsReuse
      <3>3. IsComplete(r)' /\ CoversEarlier(r)'
        BY <1>1, <2>1, <3>2 DEF IsComplete, CoversEarlier
      <3>4. EndedIsRefused(r)'
        BY <1>1, <2>1, <2>2, <3>2 DEF EndedIsRefused, Live
      <3> QED
        BY <1>4, <3>1, <3>3, <3>4
    <2>3. CASE ~Live(req[r].id)
      <3>1. req' = [req EXCEPT ![r] = [req[r] EXCEPT !.phase = "refused"]]
        BY <1>12, <2>3 DEF ReadSession, Refuse
      <3>2. Knows(r)'
        BY <1>1, <1>9, <2>1, <3>1 DEF IsComplete, EndedIsRefused, CoversEarlier, Live, Phases
      <3> QED
        BY <1>4, <3>1, <3>2
    <2> QED
      BY <2>2, <2>3
  <1>13. ASSUME NEW r \in Requests, WriteSession(r) \/ Rollback(r)
         PROVE  (\A q \in Requests : Knows(q))'
    <2>1. /\ Active(r) /\ req[r].op = "refresh" /\ UNCHANGED session
          /\ req[r].phase \in {"read", "written"}
      BY <1>13 DEF WriteSession, Rollback, Active
    <2>2. PICK phase \in {"written", "refused"} :
            req' = [req EXCEPT ![r] = [req[r] EXCEPT !.phase = phase]]
      BY <1>13 DEF WriteSession, Rollback, Refuse
    <2>3. phase \in Phases
      BY DEF Phases
    <2>4. Knows(r)'
      BY <1>1, <1>9, <2>1, <2>2, <2>3 DEF IsComplete, EndedIsRefused, CoversEarlier, Live
    <2> QED
      BY <1>4, <2>2, <2>4
  <1>14. ASSUME NEW r \in Requests, CommitRotation(r)
         PROVE  (\A q \in Requests : Knows(q))'
    <2>1. Active(r) /\ req[r] \in Request /\ req[r].phase = "written" /\ ~req[r].reuse
      BY <1>14, RequestFields DEF CommitRotation, Active
    <2>2. req[r].op = "refresh" /\ ~req[r].ended
      <3>1. req[r].op = "refresh"
        BY <1>1, <2>1 DEF IsComplete, Request, Operations
      <3> QED
        BY <1>1, <2>1, <3>1 DEF EndedIsRefused
    <2>3. PICK t \in Tokens :
            req' = [req EXCEPT ![r] = [req[r] EXCEPT !.issued = t, !.phase = "committed"]]
      BY <1>14, FreshType DEF CommitRotation
    <2>4. /\ req'[r].op = "refresh" /\ req'[r].phase = "committed" /\ req'[r].issued = t
          /\ req'[r].id = req[r].id /\ req'[r].token = req[r].token /\ req'[r].ended = req[r].ended
      BY <2>1, <2>2, <2>3, RequestsAreListed DEF Request
    <2>5. Knows(r)'
      BY <1>1, <2>1, <2>2, <2>4 DEF IsComplete, EndedIsRefused, CoversEarlier
    <2> QED
      BY <1>4, <2>3, <2>5
  <1>15. ASSUME NEW r \in Requests, logout(r)
         PROVE  (\A q \in Requests : Knows(q))'
    <2>1. /\ Active(r) /\ req[r].op = "logout" /\ "committed" \in Phases
          /\ req' = [req EXCEPT ![r] = [req[r] EXCEPT !.phase = "committed"]]
      BY <1>15 DEF logout, Active, Phases
    <2>2. Knows(r)'
      BY <1>1, <1>9, <2>1 DEF IsComplete, EndedIsRefused, CoversEarlier
    <2> QED
      BY <1>4, <2>1, <2>2
  <1>16. ASSUME NEW r \in Requests, StartLogoutAll(r)
         PROVE  (\A q \in Requests : Knows(q))'
    <2>1. /\ Active(r) /\ req[r] \in Request /\ req[r].op = "logoutAll" /\ UNCHANGED session
          /\ req' = [req EXCEPT ![r] = [req[r] EXCEPT !.phase = "read", !.targets = VisibleSessions]]
      BY <1>16, RequestFields DEF StartLogoutAll, Active
    <2>2. /\ req'[r].op = "logoutAll" /\ req'[r].phase = "read" /\ req'[r].id = req[r].id
          /\ req'[r].targets = VisibleSessions /\ req'[r].earlier = req[r].earlier
      BY <2>1, RequestsAreListed DEF Request
    <2>3. req[r].earlier \subseteq Sessions /\ \A s \in req[r].earlier : session[s].exists
      BY <2>1 DEF Request, SessionsInv, SessionsAreThere
    <2>4. CoversEarlier(r)'
      BY <2>1, <2>2, <2>3 DEF CoversEarlier, VisibleSessions
    <2>5. IsComplete(r)' /\ EndedIsRefused(r)'
      BY <1>1, <2>1, <2>2 DEF IsComplete, EndedIsRefused
    <2> QED
      BY <1>4, <2>1, <2>4, <2>5
  <1>17. ASSUME NEW r \in Requests, logoutAll(r)
         PROVE  (\A q \in Requests : Knows(q))'
    <2>1. /\ Active(r) /\ req[r] \in Request /\ req[r].op = "logoutAll" /\ req[r].phase = "read"
          /\ req' = [req EXCEPT ![r] = [req[r] EXCEPT !.phase = "committed"]]
          /\ session' = Revoked(req[r].targets) /\ "committed" \in Phases
      BY <1>17, RequestFields DEF logoutAll, Active, Phases
    <2>2. req[r].earlier \subseteq Sessions
      BY <2>1 DEF Request
    <2>3. \A s \in req[r].earlier : session'[s].revoked
      <3> TAKE s \in req[r].earlier
      <3>1. s \in req[r].targets \/ session[s].revoked
        BY <1>1, <2>1 DEF CoversEarlier
      <3>2. session[s] \in AuthSession
        BY <2>2, SessionsAreListed
      <3> QED
        BY <2>1, <2>2, <3>1, <3>2 DEF Revoked, AuthSession
    <2>4. CoversEarlier(r)'
      BY <1>9, <2>1, <2>3 DEF CoversEarlier
    <2>5. IsComplete(r)' /\ EndedIsRefused(r)'
      BY <1>1, <1>9, <2>1 DEF IsComplete, EndedIsRefused
    <2> QED
      BY <1>4, <2>1, <2>4, <2>5
  <1>18. ASSUME NEW r \in Requests, Receive(r) \/ ReceiveError(r) \/ Lose(r)
         PROVE  (\A q \in Requests : Knows(q))'
    <2>1. req' = [req EXCEPT ![r] = Idle]
      BY <1>18 DEF Receive, ReceiveError, Lose
    <2>2. req'[r] = Idle
      BY <2>1, RequestsAreListed
    <2>3. ~Active(r)'
      BY <2>2 DEF Active, Idle
    <2> QED
      BY <1>2, <1>4, <2>1, <2>3
  <1>19. ASSUME UNCHANGED req
         PROVE  (\A q \in Requests : Knows(q))'
    BY <1>3, <1>19
  <1> QED
    BY <1>6, <1>7, <1>8, <1>10, <1>11, <1>12, <1>13, <1>14, <1>15, <1>16, <1>17, <1>18, <1>19
    DEF Next, vars, AccessTokenExpires, SessionExpires

(* The sessions the browser and its requests refer to. *)
LEMMA ThereInv ==
    ASSUME TypeOK, SessionsInv, [Next]_vars
    PROVE  SessionsAreThere'
  <1> DEFINE Refers(r) == Active(r) =>
                            /\ req[r].id # None => session[req[r].id].exists
                            /\ \A s \in req[r].targets \cup req[r].earlier : session[s].exists
             Jar == jar # None => session[jar.id].exists
             Bearers == \A s \in bearers : session[s].exists
  <1>1. \A s \in Sessions : /\ session'[s].revoked => session'[s].exists
                            /\ session[s].exists => session'[s].exists
    BY SessionsStay
  <1>2. /\ \A r \in Requests : Refers(r) /\ IsComplete(r)
        /\ Jar /\ Bearers
    BY DEF SessionsInv, SessionsAreThere, TypeOK
  <1>3. ASSUME NEW r \in Requests, Active(r)
        PROVE  /\ req[r].id \in Sessions \cup {None}
               /\ req[r].targets \subseteq Sessions /\ req[r].earlier \subseteq Sessions
    BY <1>3, RequestFields DEF Request
  <1>4. ASSUME NEW q \in Requests, req'[q] \in {req[q], [req[q] EXCEPT !.alone = FALSE]},
               Active(q)
        PROVE  Refers(q)'
    <2>1. /\ req'[q].id = req[q].id /\ req'[q].targets = req[q].targets
          /\ req'[q].earlier = req[q].earlier
      BY <1>4, RequestFields DEF Request
    <2> QED
      BY <1>1, <1>2, <1>3, <1>4, <2>1
  <1>5. ASSUME NEW q \in Requests, req'[q] = req[q]
        PROVE  Refers(q)'
    BY <1>4, <1>5 DEF Active
  <1>6. ASSUME NEW r \in Requests, NEW x, req' = [req EXCEPT ![r] = x], Refers(r)'
        PROVE  \A q \in Requests : Refers(q)'
    <2>1. \A q \in Requests \ {r} : req'[q] = req[q]
      BY <1>6, OneRequestSteps
    <2> QED
      BY <1>5, <1>6, <2>1
  <1>7. ASSUME UNCHANGED <<jar, bearers>>
        PROVE  Jar' /\ Bearers'
    BY <1>1, <1>2, <1>7 DEF TypeOK, Cookie
  <1>8. ASSUME Jar', Bearers', \A r \in Requests : Refers(r)'
        PROVE  SessionsAreThere'
    BY <1>1, <1>8 DEF SessionsAreThere
  <1>9. ASSUME NEW r \in Requests, NEW op \in Operations, NEW t \in Tokens \cup {None},
               NEW s \in Sessions \cup {None}, Send(r, op, t, s), s # None => session[s].exists
        PROVE  SessionsAreThere'
    <2>1. /\ req'[r].id = s /\ req'[r].targets = {} /\ UNCHANGED <<session, jar, bearers>>
          /\ \A e \in req'[r].earlier : session[e].exists
      <3>1. req'[r].earlier = {e \in Sessions : op = "logoutAll" /\ session[e].exists}
        BY <1>9, SendEffect
      <3>2. req'[r].id = s
        BY <1>9 DEF Send
      <3>3. req'[r].targets = {}
        BY <1>9, SendEffect
      <3>4. UNCHANGED <<session, jar, bearers>>
        BY <1>9, SendEffect
      <3> QED
        BY <3>1, <3>2, <3>3, <3>4
    <2>2. \A q \in Requests \ {r} : Refers(q)'
      <3> TAKE q \in Requests \ {r}
      <3>1. CASE Active(q)
        <4>1. req'[q] \in {req[q], [req[q] EXCEPT !.alone = FALSE]}
          BY <1>9, <3>1, SendEffect
        <4> QED
          BY <1>4, <3>1, <4>1
      <3>2. CASE ~Active(q)
        <4>1. req'[q] = req[q]
          BY <1>9, <3>2 DEF Send
        <4> QED
          BY <3>2, <4>1 DEF Active
      <3> QED
        BY <3>1, <3>2
    <2>3. Refers(r)'
      <3>1. \A e \in req'[r].targets \cup req'[r].earlier : session'[e].exists
        BY <2>1
      <3>2. req'[r].id # None => session'[req'[r].id].exists
        BY <1>9, <2>1
      <3> QED
        BY <3>1, <3>2
    <2> QED
      BY <1>7, <1>8, <2>1, <2>2, <2>3
  <1>10. ASSUME NEW r \in Requests, SendLogin(r)
         PROVE  SessionsAreThere'
    BY <1>9, <1>10 DEF SendLogin, Operations
  <1>11. ASSUME NEW r \in Requests, SendRefresh(r)
         PROVE  SessionsAreThere'
    <2>1. jar.token \in Tokens /\ jar.id \in Sessions /\ session[jar.id].exists
      BY <1>2, <1>11 DEF SendRefresh, TypeOK, Cookie
    <2> QED
      BY <1>9, <1>11, <2>1 DEF SendRefresh, Operations
  <1>12. ASSUME NEW r \in Requests, NEW s \in Sessions, SendLogout(r, s) \/ SendLogoutAll(r, s)
         PROVE  SessionsAreThere'
    <2>1. session[s].exists
      BY <1>2, <1>12 DEF SendLogout, SendLogoutAll, JwtAuthGuard
    <2> QED
      BY <1>9, <1>12, <2>1 DEF SendLogout, SendLogoutAll, Operations
  \* A request that learns nothing of another session.
  <1>13. ASSUME NEW r \in Requests, Active(r), NEW x, req' = [req EXCEPT ![r] = x],
                x.id = req[r].id, x.targets = req[r].targets, x.earlier = req[r].earlier,
                UNCHANGED <<jar, bearers>>
         PROVE  SessionsAreThere'
    <2>1. req'[r] = x
      BY <1>13, RequestsAreListed
    <2>2. Refers(r)'
      BY <1>1, <1>2, <1>3, <1>13, <2>1
    <2> QED
      BY <1>6, <1>7, <1>8, <1>13, <2>2
  <1>14. ASSUME NEW r \in Requests, Active(r), NEW phase \in Phases,
                req' = [req EXCEPT ![r] = [req[r] EXCEPT !.phase = phase]],
                UNCHANGED <<jar, bearers>>
         PROVE  SessionsAreThere'
    <2> DEFINE x == [req[r] EXCEPT !.phase = phase]
    <2>1. x.id = req[r].id /\ x.targets = req[r].targets /\ x.earlier = req[r].earlier
      BY <1>14, RequestFields DEF Request
    <2> HIDE DEF x
    <2> QED
      BY <1>13, <1>14, <2>1 DEF x
  <1>15. ASSUME NEW r \in Requests,
                \/ RefuseLogin(r) \/ AuditLogin(r) \/ WriteSession(r) \/ Rollback(r)
                \/ logout(r) \/ logoutAll(r)
         PROVE  SessionsAreThere'
    <2>1. Active(r) /\ UNCHANGED <<jar, bearers>>
      BY <1>15 DEF RefuseLogin, AuditLogin, WriteSession, Rollback, logout, logoutAll, Active
    <2>2. PICK phase \in Phases : req' = [req EXCEPT ![r] = [req[r] EXCEPT !.phase = phase]]
      BY <1>15 DEF RefuseLogin, AuditLogin, WriteSession, Rollback, logout, logoutAll, Refuse, Phases
    <2> QED
      BY <1>14, <2>1, <2>2
  <1>16. ASSUME NEW r \in Requests, ReadSession(r)
         PROVE  SessionsAreThere'
    <2>1. Active(r) /\ req[r] \in Request /\ UNCHANGED <<jar, bearers>>
      BY <1>16, RequestFields DEF ReadSession, Active
    <2>2. CASE Live(req[r].id)
      <3> DEFINE x == [req[r] EXCEPT !.phase = "read", !.reuse = IsReuse(req[r].id, req[r].token)]
      <3>1. x.id = req[r].id /\ x.targets = req[r].targets /\ x.earlier = req[r].earlier
        BY <2>1 DEF Request
      <3>2. req' = [req EXCEPT ![r] = x]
        BY <1>16, <2>2 DEF ReadSession
      <3> HIDE DEF x
      <3> QED
        BY <1>13, <2>1, <3>1, <3>2
    <2>3. CASE ~Live(req[r].id)
      BY <1>14, <1>16, <2>1, <2>3 DEF ReadSession, Refuse, Phases
    <2> QED
      BY <2>2, <2>3
  <1>21. ASSUME NEW r \in Requests, CommitRotation(r)
         PROVE  SessionsAreThere'
    <2>1. Active(r) /\ req[r] \in Request /\ UNCHANGED <<jar, bearers>>
      BY <1>21, RequestFields DEF CommitRotation, Active
    <2>2. PICK t \in Tokens :
            req' = [req EXCEPT ![r] = [req[r] EXCEPT !.issued = t, !.phase = "committed"]]
      BY <1>21, FreshType DEF CommitRotation
    <2> DEFINE x == [req[r] EXCEPT !.issued = t, !.phase = "committed"]
    <2>3. x.id = req[r].id /\ x.targets = req[r].targets /\ x.earlier = req[r].earlier
      BY <2>1 DEF Request
    <2>4. req' = [req EXCEPT ![r] = x]
      BY <2>2
    <2> HIDE DEF x
    <2> QED
      BY <1>13, <2>1, <2>3, <2>4
  <1>17. ASSUME NEW r \in Requests, StartLogoutAll(r)
         PROVE  SessionsAreThere'
    <2>1. /\ Active(r) /\ req[r] \in Request /\ UNCHANGED <<session, jar, bearers>>
          /\ req' = [req EXCEPT ![r] = [req[r] EXCEPT !.phase = "read", !.targets = VisibleSessions]]
      BY <1>17, RequestFields DEF StartLogoutAll, Active
    <2>2. /\ req'[r].id = req[r].id /\ req'[r].targets = VisibleSessions
          /\ req'[r].earlier = req[r].earlier
      BY <2>1, RequestsAreListed DEF Request
    <2>3. Refers(r)'
      BY <1>2, <2>1, <2>2 DEF VisibleSessions
    <2> QED
      BY <1>6, <1>7, <1>8, <2>1, <2>3
  <1>18. ASSUME NEW r \in Requests, login(r)
         PROVE  SessionsAreThere'
    <2>1. /\ Active(r) /\ req[r] \in Request /\ UNCHANGED <<jar, bearers>>
      BY <1>18, RequestFields DEF login, Active
    <2>2. PICK s \in Sessions, t \in Tokens : createSession(r, s, t)
      BY <1>18, FreshType DEF login
    <2>3. /\ req'[r].id = s /\ req'[r].targets = req[r].targets
          /\ req'[r].earlier = req[r].earlier
      BY <2>1, <2>2, RequestsAreListed DEF createSession, Request
    <2>4. session'[s].exists
      BY <2>2, SessionsAreListed DEF createSession
    <2>5. Refers(r)'
      BY <1>1, <1>2, <1>3, <2>1, <2>3, <2>4
    <2> QED
      BY <1>6, <1>7, <1>8, <2>1, <2>2, <2>5 DEF createSession
  <1>19. ASSUME NEW r \in Requests, Receive(r) \/ ReceiveError(r) \/ Lose(r)
         PROVE  SessionsAreThere'
    <2>1. req' = [req EXCEPT ![r] = Idle] /\ UNCHANGED session
      BY <1>19 DEF Receive, ReceiveError, Lose
    <2>2. req'[r] = Idle
      BY <2>1, RequestsAreListed
    <2>3. Refers(r)'
      BY <2>2 DEF Active, Idle
    <2>4. \A q \in Requests : Refers(q)'
      BY <1>6, <2>1, <2>3
    <2>5. Jar' /\ Bearers'
      <3>1. CASE Receive(r)
        <4>1. Active(r)
          BY <3>1 DEF Receive, Active
        <4>2. CASE req[r].op \in {"login", "refresh"}
          <5>1. req[r].id \in Sessions /\ session[req[r].id].exists
            BY <1>2, <3>1, <4>1, <4>2, SessionsAssumption DEF Receive, IsComplete
          <5> QED
            BY <1>2, <2>1, <3>1, <4>2, <5>1 DEF Receive, Answer, setRefreshCookie
        <4>3. CASE req[r].op \notin {"login", "refresh"}
          BY <1>2, <2>1, <3>1, <4>3 DEF Receive, Answer, clearRefreshCookie
        <4> QED
          BY <4>2, <4>3
      <3>2. CASE ~Receive(r)
        BY <1>7, <1>19, <3>2 DEF ReceiveError, Lose
      <3> QED
        BY <3>1, <3>2
    <2> QED
      BY <1>8, <2>4, <2>5
  <1>20. ASSUME UNCHANGED <<req, jar>>, bearers' \subseteq bearers
         PROVE  SessionsAreThere'
    <2>1. Jar' /\ Bearers'
      BY <1>1, <1>2, <1>20 DEF TypeOK, Cookie
    <2> QED
      BY <1>5, <1>8, <1>20, <2>1
  <1> QED
    BY <1>10, <1>11, <1>12, <1>15, <1>16, <1>17, <1>18, <1>19, <1>20, <1>21
    DEF Next, vars, AccessTokenExpires, SessionExpires

(* Which request is alone, and whether all is tidy. *)
LEMMA AloneInv ==
    ASSUME TypeOK, SessionsInv, [Next]_vars
    PROVE  AloneIsAlone'
  <1>1. \A r \in Requests : Active(r) =>
          /\ req[r].alone => \A q \in Requests \ {r} : ~Active(q)
          /\ tidy => req[r].alone
    BY DEF SessionsInv, AloneIsAlone
  \* A step of a request that was under way, and is as alone as it was, or is over.
  <1>2. ASSUME NEW r \in Requests, Active(r), \A q \in Requests \ {r} : req'[q] = req[q],
               Active(r)' => req'[r].alone = req[r].alone /\ tidy' = tidy,
               tidy' => tidy \/ req[r].alone
        PROVE  AloneIsAlone'
    <2>1. \A q \in Requests \ {r} : Active(q)' <=> Active(q)
      BY <1>2 DEF Active
    <2>2. ASSUME NEW q \in Requests, Active(q)', q # r
          PROVE  ~req'[q].alone /\ ~tidy'
      BY <1>1, <1>2, <2>1, <2>2
    <2>3. ASSUME Active(r)'
          PROVE  /\ req'[r].alone => \A q \in Requests \ {r} : ~Active(q)'
                 /\ tidy' => req'[r].alone
      BY <1>1, <1>2, <2>1, <2>3
    <2> QED
      BY <2>2, <2>3 DEF AloneIsAlone
  <1>3. ASSUME NEW r \in Requests, NEW op \in Operations, NEW t \in Tokens \cup {None},
               NEW s \in Sessions \cup {None}, Send(r, op, t, s)
        PROVE  AloneIsAlone'
    <2>1. /\ req'[r].alone = \A q \in Requests : ~Active(q)
          /\ tidy' = (tidy /\ \A q \in Requests : ~Active(q))
          /\ ~Active(r)
      BY <1>3, SendEffect
    <2>2. \A q \in Requests \ {r} : /\ Active(q) => req'[q] = [req[q] EXCEPT !.alone = FALSE]
                                    /\ ~Active(q) => req'[q] = req[q]
      BY <1>3, SendEffect
    <2>3. \A q \in Requests \ {r} : Active(q)' => Active(q) /\ ~req'[q].alone
      <3> TAKE q \in Requests \ {r}
      <3>1. CASE Active(q)
        BY <2>2, <3>1, RequestFields DEF Request
      <3>2. CASE ~Active(q)
        BY <2>2, <3>2 DEF Active
      <3> QED
        BY <3>1, <3>2
    <2>4. CASE \A q \in Requests : ~Active(q)
      BY <2>1, <2>3, <2>4 DEF AloneIsAlone
    <2>5. CASE ~\A q \in Requests : ~Active(q)
      BY <2>1, <2>3, <2>5 DEF AloneIsAlone
    <2> QED
      BY <2>4, <2>5
  <1>4. ASSUME NEW r \in Requests, SendLogin(r)
        PROVE  AloneIsAlone'
    BY <1>3, <1>4 DEF SendLogin, Operations
  <1>5. ASSUME NEW r \in Requests, SendRefresh(r)
        PROVE  AloneIsAlone'
    <2>1. jar.token \in Tokens /\ jar.id \in Sessions
      BY <1>5 DEF SendRefresh, TypeOK, Cookie
    <2> QED
      BY <1>3, <1>5, <2>1 DEF SendRefresh, Operations
  <1>6. ASSUME NEW r \in Requests, NEW s \in Sessions, SendLogout(r, s) \/ SendLogoutAll(r, s)
        PROVE  AloneIsAlone'
    BY <1>3, <1>6 DEF SendLogout, SendLogoutAll, Operations
  <1>7. ASSUME NEW r \in Requests,
               \/ RefuseLogin(r) \/ login(r) \/ AuditLogin(r) \/ ReadSession(r) \/ WriteSession(r)
               \/ CommitRotation(r) \/ Rollback(r) \/ logout(r) \/ StartLogoutAll(r) \/ logoutAll(r)
        PROVE  AloneIsAlone'
    <2>1. Active(r) /\ UNCHANGED tidy
      BY <1>7 DEF RefuseLogin, login, AuditLogin, ReadSession, WriteSession, CommitRotation,
                  Rollback, logout, StartLogoutAll, logoutAll, Active
    <2>2. req[r] \in Request
      BY <2>1, RequestFields
    <2>3. \A q \in Requests \ {r} : req'[q] = req[q]
      BY <1>7, RequestsAreListed
      DEF RefuseLogin, login, AuditLogin, ReadSession, WriteSession, CommitRotation,
          Rollback, logout, StartLogoutAll, logoutAll, createSession, Refuse
    <2>4. req'[r].alone = req[r].alone
      <3>1. CASE RefuseLogin(r) \/ AuditLogin(r) \/ WriteSession(r) \/ Rollback(r)
        BY <2>2, <3>1, RequestsAreListed
        DEF RefuseLogin, AuditLogin, WriteSession, Rollback, Refuse, Request
      <3>2. CASE logout(r) \/ StartLogoutAll(r) \/ logoutAll(r)
        BY <2>2, <3>2, RequestsAreListed DEF logout, StartLogoutAll, logoutAll, Request
      <3>3. CASE login(r)
        BY <2>2, <3>3, RequestsAreListed DEF login, createSession, Request
      <3>4. CASE ReadSession(r)
        BY <2>2, <3>4, RequestsAreListed DEF ReadSession, Refuse, Request
      <3>5. CASE CommitRotation(r)
        BY <2>2, <3>5, RequestsAreListed DEF CommitRotation, Request
      <3> QED
        BY <1>7, <3>1, <3>2, <3>3, <3>4, <3>5
    <2> QED
      BY <1>2, <2>1, <2>3, <2>4
  <1>8. ASSUME NEW r \in Requests, Receive(r) \/ ReceiveError(r) \/ Lose(r)
        PROVE  AloneIsAlone'
    <2>1. Active(r) /\ req' = [req EXCEPT ![r] = Idle]
      BY <1>8 DEF Receive, ReceiveError, Lose, Active
    <2>2. req'[r] = Idle /\ \A q \in Requests \ {r} : req'[q] = req[q]
      BY <2>1, RequestsAreListed
    <2>3. tidy' => tidy \/ req[r].alone
      BY <1>8 DEF Receive, ReceiveError, Lose
    <2>4. ~Active(r)'
      BY <2>2 DEF Active, Idle
    <2> QED
      BY <1>2, <2>1, <2>2, <2>3, <2>4
  <1>9. CASE UNCHANGED <<req, tidy>>
    BY <1>9 DEF SessionsInv, AloneIsAlone, Active
  <1> QED
    BY <1>4, <1>5, <1>6, <1>7, <1>8, <1>9 DEF Next, vars, AccessTokenExpires, SessionExpires

-----------------------------------------------------------------------------
(* What the browser's cookie is worth *)

LEMMA CurrentInv ==
    ASSUME TypeOK, SessionsInv, [Next]_vars
    PROVE  (\A r \in Requests : IssuesCurrent(r))' /\ JarIsCurrent'
  <1>1. /\ \A r \in Requests : IssuesCurrent(r) /\ IsComplete(r)
        /\ JarIsCurrent /\ SessionsAreThere
        /\ \A r \in Requests : Active(r) =>
              /\ req[r].alone => \A q \in Requests \ {r} : ~Active(q)
              /\ tidy => req[r].alone
    BY DEF SessionsInv, AloneIsAlone
  \* While a request is under way, no other is alone.
  <1>2. ASSUME NEW r \in Requests, Active(r), \A q \in Requests \ {r} : req'[q] = req[q],
               IssuesCurrent(r)'
        PROVE  (\A q \in Requests : IssuesCurrent(q))'
    <2>1. ASSUME NEW q \in Requests, q # r
          PROVE  IssuesCurrent(q)'
      <3>1. Active(q)' => ~req'[q].alone
        BY <1>1, <1>2, <2>1 DEF Active
      <3> QED
        BY <3>1 DEF IssuesCurrent
    <2> QED
      BY <1>2, <2>1
  \* A request that goes on, but not to its end, with the sessions as they are.
  <1>3. ASSUME NEW r \in Requests, Active(r), \A q \in Requests \ {r} : req'[q] = req[q],
               UNCHANGED <<session, jar, tidy>>, req[r].phase # "committed",
               Active(r)' => /\ req'[r].op = req[r].op /\ req'[r].alone = req[r].alone
                             /\ req'[r].id = req[r].id /\ req'[r].phase \notin {"created", "committed"}
        PROVE  (\A q \in Requests : IssuesCurrent(q))' /\ JarIsCurrent'
    <2>1. IssuesCurrent(r)'
      BY <1>1, <1>3 DEF IssuesCurrent
    <2>2. JarIsCurrent'
      <3>1. (\A q \in Requests : Active(q) => req[q].phase # "committed")'
              => \A q \in Requests : Active(q) => req[q].phase # "committed"
        BY <1>3 DEF Active
      <3> QED
        BY <1>1, <1>3, <3>1 DEF JarIsCurrent, HasCurrent
    <2> QED
      BY <1>2, <1>3, <2>1, <2>2
  <1>4. ASSUME NEW r \in Requests, NEW op \in Operations, NEW t \in Tokens \cup {None},
               NEW s \in Sessions \cup {None}, Send(r, op, t, s),
               op = "refresh" => jar # None /\ s = jar.id
        PROVE  (\A q \in Requests : IssuesCurrent(q))' /\ JarIsCurrent'
    <2>1. \A q \in Requests \ {r} : Active(q)' => ~req'[q].alone
      <3> TAKE q \in Requests \ {r}
      <3>1. req'[q] = IF Active(q) THEN [req[q] EXCEPT !.alone = FALSE] ELSE req[q]
        BY <1>4, SendEffect
      <3>2. CASE Active(q)
        BY <3>1, <3>2, RequestFields DEF Request
      <3>3. CASE ~Active(q)
        BY <3>1, <3>3 DEF Active
      <3> QED
        BY <3>2, <3>3
    <2>2. req'[r].op = op /\ req'[r].phase = "sent" /\ req'[r].id = s
      BY <1>4 DEF Send
    <2>3. UNCHANGED <<session, jar>> /\ tidy' = (tidy /\ \A q \in Requests : ~Active(q))
      BY <1>4 DEF Send
    <2>4. IssuesCurrent(r)'
      BY <1>4, <2>2, <2>3 DEF IssuesCurrent
    <2>5. \A q \in Requests \ {r} : IssuesCurrent(q)'
      BY <2>1 DEF IssuesCurrent
    <2>6. JarIsCurrent'
      BY <1>1, <2>3 DEF JarIsCurrent, HasCurrent
    <2> QED
      BY <2>4, <2>5, <2>6
  <1>5. ASSUME NEW r \in Requests, SendLogin(r)
        PROVE  (\A q \in Requests : IssuesCurrent(q))' /\ JarIsCurrent'
    BY <1>4, <1>5 DEF SendLogin, Operations
  <1>6. ASSUME NEW r \in Requests, SendRefresh(r)
        PROVE  (\A q \in Requests : IssuesCurrent(q))' /\ JarIsCurrent'
    <2>1. jar.token \in Tokens /\ jar.id \in Sessions
      BY <1>6 DEF SendRefresh, TypeOK, Cookie
    <2> QED
      BY <1>4, <1>6, <2>1 DEF SendRefresh, Operations
  <1>7. ASSUME NEW r \in Requests, NEW s \in Sessions, SendLogout(r, s) \/ SendLogoutAll(r, s)
        PROVE  (\A q \in Requests : IssuesCurrent(q))' /\ JarIsCurrent'
    BY <1>4, <1>7 DEF SendLogout, SendLogoutAll, Operations
  <1>8. ASSUME NEW r \in Requests, Active(r), NEW phase \in Phases \ {"created", "committed"},
               req' = [req EXCEPT ![r] = [req[r] EXCEPT !.phase = phase]],
               UNCHANGED <<session, jar, tidy>>, req[r].phase # "committed"
        PROVE  (\A q \in Requests : IssuesCurrent(q))' /\ JarIsCurrent'
    <2>1. req[r] \in Request
      BY <1>8, RequestFields
    <2>2. /\ req'[r].op = req[r].op /\ req'[r].alone = req[r].alone
          /\ req'[r].id = req[r].id /\ req'[r].phase = phase
      BY <1>8, <2>1, RequestsAreListed DEF Request
    <2>3. \A q \in Requests \ {r} : req'[q] = req[q]
      BY <1>8, RequestsAreListed
    <2> QED
      BY <1>3, <1>8, <2>2, <2>3
  <1>9. ASSUME NEW r \in Requests, RefuseLogin(r) \/ WriteSession(r) \/ Rollback(r)
        PROVE  (\A q \in Requests : IssuesCurrent(q))' /\ JarIsCurrent'
    <2>1. /\ Active(r) /\ req[r].phase # "committed" /\ UNCHANGED <<session, jar, tidy>>
      BY <1>9 DEF RefuseLogin, WriteSession, Rollback, Active
    <2>2. PICK phase \in {"refused", "written"} :
            req' = [req EXCEPT ![r] = [req[r] EXCEPT !.phase = phase]]
      BY <1>9 DEF RefuseLogin, WriteSession, Rollback, Refuse
    <2>3. phase \in Phases \ {"created", "committed"}
      BY DEF Phases
    <2> QED
      BY <1>8, <2>1, <2>2, <2>3
  <1>10. ASSUME NEW r \in Requests, ReadSession(r) \/ StartLogoutAll(r)
         PROVE  (\A q \in Requests : IssuesCurrent(q))' /\ JarIsCurrent'
    <2>1. /\ Active(r) /\ req[r].phase # "committed" /\ UNCHANGED <<session, jar, tidy>>
      BY <1>10 DEF ReadSession, StartLogoutAll, Active
    <2>2. req[r] \in Request
      BY <2>1, RequestFields
    <2>3. \A q \in Requests \ {r} : req'[q] = req[q]
      BY <1>10, RequestsAreListed DEF ReadSession, StartLogoutAll, Refuse
    <2>4. /\ req'[r].op = req[r].op /\ req'[r].alone = req[r].alone
          /\ req'[r].id = req[r].id /\ req'[r].phase \in {"read", "refused"}
      <3>1. CASE ReadSession(r)
        <4>1. CASE Live(req[r].id)
          <5>1. req' = [req EXCEPT ![r] = [req[r] EXCEPT !.phase = "read",
                                             !.reuse = IsReuse(req[r].id, req[r].token)]]
            BY <3>1, <4>1 DEF ReadSession
          <5>2. req'[r] = [req[r] EXCEPT !.phase = "read",
                                         !.reuse = IsReuse(req[r].id, req[r].token)]
            BY <5>1, RequestsAreListed
          <5> QED
            BY <2>2, <5>2 DEF Request
        <4>2. CASE ~Live(req[r].id)
          <5>1. req' = [req EXCEPT ![r] = [req[r] EXCEPT !.phase = "refused"]]
            BY <3>1, <4>2 DEF ReadSession, Refuse
          <5>2. req'[r] = [req[r] EXCEPT !.phase = "refused"]
            BY <5>1, RequestsAreListed
          <5> QED
            BY <2>2, <5>2 DEF Request
        <4> QED
          BY <4>1, <4>2
      <3>2. CASE StartLogoutAll(r)
        BY <2>2, <3>2, RequestsAreListed DEF StartLogoutAll, Request
      <3> QED
        BY <1>10, <3>1, <3>2
    <2> QED
      BY <1>3, <2>1, <2>3, <2>4
  <1>11. ASSUME NEW r \in Requests, AuditLogin(r)
         PROVE  (\A q \in Requests : IssuesCurrent(q))' /\ JarIsCurrent'
    <2>1. /\ Active(r) /\ req[r] \in Request /\ req[r].phase = "created"
          /\ UNCHANGED <<session, jar, tidy>>
      BY <1>11, RequestFields DEF AuditLogin, Active
    <2>2. CASE req' = [req EXCEPT ![r] = [req[r] EXCEPT !.phase = "refused"]]
      BY <1>8, <2>1, <2>2 DEF Phases
    <2>3. CASE req' = [req EXCEPT ![r] = [req[r] EXCEPT !.phase = "committed"]]
      <3>1. /\ req'[r].op = req[r].op /\ req'[r].alone = req[r].alone
            /\ req'[r].id = req[r].id /\ req'[r].issued = req[r].issued
            /\ req'[r].phase = "committed"
        BY <2>1, <2>3, RequestsAreListed DEF Request
      <3>2. \A q \in Requests \ {r} : req'[q] = req[q]
        BY <2>3, RequestsAreListed
      <3>3. req[r].op = "login"
        BY <1>1, <2>1 DEF IsComplete
      <3>4. IssuesCurrent(r)'
        BY <1>1, <2>1, <3>1, <3>3 DEF IssuesCurrent, HasCurrent
      <3>5. JarIsCurrent'
        BY <3>1 DEF JarIsCurrent, Active
      <3> QED
        BY <1>2, <2>1, <3>2, <3>4, <3>5
    <2> QED
      BY <1>11, <2>2, <2>3 DEF AuditLogin
  <1>12. ASSUME NEW r \in Requests, login(r)
         PROVE  (\A q \in Requests : IssuesCurrent(q))' /\ JarIsCurrent'
    <2>1. /\ Active(r) /\ req[r] \in Request /\ req[r].phase = "sent" /\ req[r].op = "login"
          /\ UNCHANGED <<jar, tidy>>
      BY <1>12, RequestFields DEF login, Active
    <2>2. PICK s \in Sessions, t \in Tokens : ~session[s].exists /\ createSession(r, s, t)
      BY <1>12, FreshType DEF login
    <2>3. /\ req'[r].op = "login" /\ req'[r].id = s /\ req'[r].issued = t
          /\ req'[r].phase = "created"
      BY <2>1, <2>2, RequestsAreListed DEF createSession, Request
    <2>4. \A q \in Requests \ {r} : req'[q] = req[q]
      BY <2>2, RequestsAreListed DEF createSession
    <2>5. /\ session'[s].hash = t /\ ~session'[s].revoked
          /\ \A e \in Sessions \ {s} : session'[e] = session[e]
      BY <2>2, SessionsAreListed DEF createSession
    <2>6. IssuesCurrent(r)'
      BY <2>3, <2>5 DEF IssuesCurrent, HasCurrent
    <2>7. JarIsCurrent'
      <3>1. (\A q \in Requests : Active(q) => req[q].phase # "committed")'
              => \A q \in Requests : Active(q) => req[q].phase # "committed"
        BY <2>1, <2>4 DEF Active
      <3>2. jar # None => jar.id \in Sessions \ {s}
        BY <1>1, <2>2 DEF SessionsAreThere, TypeOK, Cookie
      <3> QED
        BY <1>1, <2>1, <2>5, <3>1, <3>2 DEF JarIsCurrent, HasCurrent
    <2> QED
      BY <1>2, <2>1, <2>4, <2>6, <2>7
  <1>13. ASSUME NEW r \in Requests, CommitRotation(r)
         PROVE  (\A q \in Requests : IssuesCurrent(q))' /\ JarIsCurrent'
    <2>1. /\ Active(r) /\ req[r] \in Request /\ req[r].phase = "written"
          /\ UNCHANGED <<jar, tidy>>
      BY <1>13, RequestFields DEF CommitRotation, Active
    <2>2. PICK t \in Tokens :
            /\ session' = [session EXCEPT ![req[r].id] = Rotated(@, t)]
            /\ req' = [req EXCEPT ![r] = [req[r] EXCEPT !.issued = t, !.phase = "committed"]]
      BY <1>13, FreshType DEF CommitRotation
    <2>3. req[r].op = "refresh" /\ req[r].id \in Sessions
      BY <1>1, <2>1 DEF IsComplete, Request, Operations
    <2>4. /\ req'[r].op = "refresh" /\ req'[r].id = req[r].id /\ req'[r].issued = t
          /\ req'[r].phase = "committed" /\ req'[r].alone = req[r].alone
      BY <2>1, <2>2, <2>3, RequestsAreListed DEF Request
    <2>5. \A q \in Requests \ {r} : req'[q] = req[q]
      BY <2>2, RequestsAreListed
    <2>6. session'[req[r].id].hash = t /\ session'[req[r].id].revoked = session[req[r].id].revoked
      <3>1. session'[req[r].id] = [session[req[r].id] EXCEPT !.hash = t, !.expired = FALSE]
        BY <2>2, <2>3, SessionsAreListed DEF Rotated
      <3> QED
        BY <2>3, <3>1, SessionsAreListed DEF AuthSession
    <2>7. IssuesCurrent(r)'
      <3> SUFFICES ASSUME req[r].alone, tidy
                   PROVE  jar # None /\ jar.id = req[r].id /\ ~session[req[r].id].revoked
        BY <2>1, <2>4, <2>6 DEF IssuesCurrent, HasCurrent
      <3>1. jar # None /\ jar.id = req[r].id
        BY <1>1, <2>1, <2>3 DEF IssuesCurrent
      <3>2. \A q \in Requests : Active(q) => req[q].phase # "committed"
        BY <1>1, <2>1
      <3> QED
        BY <1>1, <3>1, <3>2 DEF JarIsCurrent, HasCurrent
    <2>8. JarIsCurrent'
      BY <2>4 DEF JarIsCurrent, Active
    <2> QED
      BY <1>2, <2>1, <2>5, <2>7, <2>8
  <1>14. ASSUME NEW r \in Requests, logout(r) \/ logoutAll(r)
         PROVE  (\A q \in Requests : IssuesCurrent(q))' /\ JarIsCurrent'
    <2>1. /\ Active(r) /\ req[r] \in Request /\ req[r].op \in {"logout", "logoutAll"}
          /\ req' = [req EXCEPT ![r] = [req[r] EXCEPT !.phase = "committed"]]
      BY <1>14, RequestFields DEF logout, logoutAll, Active
    <2>2. req'[r].op \in {"logout", "logoutAll"} /\ req'[r].phase = "committed"
      BY <2>1, RequestsAreListed DEF Request
    <2>3. \A q \in Requests \ {r} : req'[q] = req[q]
      BY <2>1, RequestsAreListed
    <2>4. IssuesCurrent(r)'
      BY <2>2 DEF IssuesCurrent
    <2>5. JarIsCurrent'
      BY <2>2 DEF JarIsCurrent, Active
    <2> QED
      BY <1>2, <2>1, <2>3, <2>4, <2>5
  <1>15. ASSUME NEW r \in Requests, Receive(r)
         PROVE  (\A q \in Requests : IssuesCurrent(q))' /\ JarIsCurrent'
    <2>1. /\ Active(r) /\ req[r].phase = "committed" /\ Answer(r) /\ UNCHANGED session
          /\ req' = [req EXCEPT ![r] = Idle]
          /\ tidy' = (tidy \/ (req[r].op = "login" /\ req[r].alone))
      BY <1>15 DEF Receive, Active
    <2>2. ~Active(r)' /\ \A q \in Requests \ {r} : req'[q] = req[q]
      <3>1. req'[r] = Idle /\ \A q \in Requests \ {r} : req'[q] = req[q]
        BY <2>1, RequestsAreListed
      <3> QED
        BY <3>1 DEF Active, Idle
    <2>3. IssuesCurrent(r)'
      BY <2>2 DEF IssuesCurrent
    <2>4. JarIsCurrent'
      <3> SUFFICES ASSUME tidy'
                   PROVE  jar' = None \/ HasCurrent(jar.id, jar.token)'
        BY DEF JarIsCurrent
      <3>1. req[r].alone
        BY <1>1, <2>1
      <3>2. CASE req[r].op = "login"
        <4>1. HasCurrent(req[r].id, req[r].issued)
          BY <1>1, <2>1, <3>1, <3>2 DEF IssuesCurrent
        <4> QED
          BY <2>1, <3>2, <4>1 DEF Answer, setRefreshCookie, HasCurrent
      <3>3. CASE req[r].op = "refresh"
        <4>1. HasCurrent(req[r].id, req[r].issued)
          BY <1>1, <2>1, <3>1, <3>3 DEF IssuesCurrent
        <4> QED
          BY <2>1, <3>3, <4>1 DEF Answer, setRefreshCookie, HasCurrent
      <3>4. CASE req[r].op \notin {"login", "refresh"}
        BY <2>1, <3>4 DEF Answer, clearRefreshCookie
      <3> QED
        BY <3>2, <3>3, <3>4
    <2> QED
      BY <1>2, <2>1, <2>2, <2>3, <2>4
  <1>16. ASSUME NEW r \in Requests, ReceiveError(r)
         PROVE  (\A q \in Requests : IssuesCurrent(q))' /\ JarIsCurrent'
    <2>1. /\ Active(r) /\ req[r].phase # "committed" /\ UNCHANGED <<session, jar, tidy>>
          /\ req' = [req EXCEPT ![r] = Idle]
      BY <1>16 DEF ReceiveError, Active
    <2>2. ~Active(r)' /\ \A q \in Requests \ {r} : req'[q] = req[q]
      <3>1. req'[r] = Idle /\ \A q \in Requests \ {r} : req'[q] = req[q]
        BY <2>1, RequestsAreListed
      <3> QED
        BY <3>1 DEF Active, Idle
    <2> QED
      BY <1>3, <2>1, <2>2
  <1>17. ASSUME NEW r \in Requests, Lose(r)
         PROVE  (\A q \in Requests : IssuesCurrent(q))' /\ JarIsCurrent'
    <2>1. Active(r) /\ tidy' = FALSE /\ req' = [req EXCEPT ![r] = Idle]
      BY <1>17 DEF Lose, Active
    <2>2. ~Active(r)' /\ \A q \in Requests \ {r} : req'[q] = req[q]
      <3>1. req'[r] = Idle /\ \A q \in Requests \ {r} : req'[q] = req[q]
        BY <2>1, RequestsAreListed
      <3> QED
        BY <3>1 DEF Active, Idle
    <2>3. IssuesCurrent(r)'
      BY <2>2 DEF IssuesCurrent
    <2> QED
      BY <1>2, <2>1, <2>2, <2>3 DEF JarIsCurrent
  \* A step of nobody's: a session may grow old.
  <1>18. ASSUME UNCHANGED <<req, jar, tidy>>,
                \A s \in Sessions : /\ session'[s].hash = session[s].hash
                                    /\ session'[s].revoked = session[s].revoked
         PROVE  (\A q \in Requests : IssuesCurrent(q))' /\ JarIsCurrent'
    <2>1. \A s \in Sessions : \A t : HasCurrent(s, t)' <=> HasCurrent(s, t)
      BY <1>18 DEF HasCurrent
    <2>2. ASSUME NEW q \in Requests
          PROVE  IssuesCurrent(q)'
      <3>1. Active(q) /\ req[q].op \in {"login", "refresh"} /\ req[q].phase \in {"created", "committed"}
              => req[q].id \in Sessions
        BY <1>1 DEF IsComplete
      <3> QED
        BY <1>1, <1>18, <3>1 DEF IssuesCurrent, Active, HasCurrent
    <2>3. JarIsCurrent'
      <3>1. jar # None => jar.id \in Sessions
        BY DEF TypeOK, Cookie
      <3> QED
        BY <1>1, <1>18, <3>1 DEF JarIsCurrent, Active, HasCurrent
    <2> QED
      BY <2>2, <2>3
  <1>19. ASSUME NEW s \in Sessions, SessionExpires(s)
         PROVE  (\A q \in Requests : IssuesCurrent(q))' /\ JarIsCurrent'
    <2>1. UNCHANGED <<req, jar, tidy>> /\ session' = [session EXCEPT ![s].expired = TRUE]
      BY <1>19 DEF SessionExpires
    <2>2. \A e \in Sessions : /\ session'[e].hash = session[e].hash
                              /\ session'[e].revoked = session[e].revoked
      BY <2>1, SessionsAreListed DEF AuthSession
    <2> QED
      BY <1>18, <2>1, <2>2
  <1>20. CASE UNCHANGED <<req, jar, tidy, session>>
    BY <1>18, <1>20
  <1> QED
    BY <1>5, <1>6, <1>7, <1>9, <1>10, <1>11, <1>12, <1>13, <1>14, <1>15, <1>16, <1>17, <1>19, <1>20
    DEF Next, vars, AccessTokenExpires

LEMMA NextInv ==
    ASSUME TypeOK, SessionsInv, [Next]_vars
    PROVE  SessionsInv'
  BY RequestsStay, ThereInv, AloneInv, CurrentInv DEF SessionsInv

-----------------------------------------------------------------------------
(* The theorems *)

\* Every variable has its type, and the invariant the properties follow from holds.
THEOREM InvariantCorrect == Spec => [](TypeOK /\ SessionsInv)
  <1>1. Init => TypeOK /\ SessionsInv
    BY InitType, InitInv
  <1>2. TypeOK /\ SessionsInv /\ [Next]_vars => (TypeOK /\ SessionsInv)'
    BY NextType, NextInv
  <1> QED
    BY <1>1, <1>2, PTL DEF Spec

\* A logout lasts, whatever rotations were under way.
THEOREM RevocationsAreFinal == Spec => RevokedIsFinal
  <1>1. TypeOK /\ SessionsInv /\ [Next]_vars =>
          [\A s \in Sessions : session[s].revoked => session'[s].revoked]_vars
    BY SessionsStay
  <1> QED
    BY <1>1, InvariantCorrect, PTL DEF Spec, RevokedIsFinal

\* However refreshes overlap, one that was sent after its session ended gets no token.
THEOREM EndedSessionsStayEnded == Spec => []EndedSessionIsNotRenewed
  <1>1. SessionsInv => EndedSessionIsNotRenewed
    BY DEF SessionsInv, EndedIsRefused, EndedSessionIsNotRenewed
  <1> QED
    BY <1>1, InvariantCorrect, PTL

\* However many refreshes are under way when all sessions are logged out, none of the
\* sessions from before is usable afterwards.
THEOREM LogoutsAreComplete == Spec => []LogoutAllIsComplete
  <1>1. SessionsInv => LogoutAllIsComplete
    BY DEF SessionsInv, CoversEarlier, LogoutAllIsComplete, Live
  <1> QED
    BY <1>1, InvariantCorrect, PTL

\* The cookie of a browser that sends one request at a time and loses no answer is the
\* current one of its session.
THEOREM CookiesAreCurrent == Spec => []CookieIsCurrent
  <1>1. SessionsInv => CookieIsCurrent
    BY DEF SessionsInv, JarIsCurrent, HasCurrent, CookieIsCurrent
  <1> QED
    BY <1>1, InvariantCorrect, PTL
=============================================================================

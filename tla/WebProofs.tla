------------------------------- MODULE WebProofs -------------------------------
(***************************************************************************)
(* TLAPS proofs about what a user sees of the web app: the session of the  *)
(* tab, for any sessions and any number of protected requests under way;   *)
(* the inbox, the inbox of the demo and the summary of the first page, for *)
(* any conversations, texts, tabs and tables, and any bounds of the loads, *)
(* writes and visits.                                                      *)
(***************************************************************************)
EXTENDS MCWeb, Sequences, FiniteSetTheorems, TLAPS

-----------------------------------------------------------------------------
(* The session of the tab: each part of the invariant, over every action *)

(* Every variable keeps its type. *)
LEMMA TypeInv ==
    ASSUME TypeOK, TabInv, [Next]_vars
    PROVE  TypeOK'
  <1>0. TypeOK /\ NamesKnown /\ \A k \in Calls : CountsItsEffect(k)
    BY DEF TabInv
  <1>1. CASE Bootstrap
    BY <1>0, <1>1 DEF Bootstrap, TypeOK, refreshAccessToken, api, page, hist
  <1>2. CASE ApiRefreshes
    BY <1>0, <1>2 DEF ApiRefreshes, TypeOK, api, page, hist
  <1>3. CASE RefreshSucceeds
    <2>1. refresh.session \in SessionOrNone
      BY <1>0 DEF TypeOK
    <2>2. \A c \in Calls : [call[c] EXCEPT !.phase = "replayed", !.token = refresh.session] \in Call
      BY <1>0, <2>1 DEF TypeOK, Call
    <2>3. call' \in [Calls -> Call]
      BY <1>0, <1>3, <2>2 DEF RefreshSucceeds, TypeOK
    <2>4. {jar, accessToken, user}' \subseteq SessionOrNone
      BY <1>0, <1>3, <2>1 DEF RefreshSucceeds, TypeOK, page
    <2>5. refresh' \in [phase : {"none", "sent", "granted", "refused"}, session : SessionOrNone]
      BY <1>3 DEF RefreshSucceeds, NoRefresh, SessionOrNone
    <2>6. boot' \in {"start", "refreshing", "me", "done"}
      BY <1>0, <1>3 DEF RefreshSucceeds, TypeOK
    <2> QED
      BY <1>0, <1>3, <2>3, <2>4, <2>5, <2>6 DEF RefreshSucceeds, TypeOK, page, hist
  <1>4. CASE RefreshFails
    <2>1. IdleCall \in Call /\ NoRefresh \in [phase : {"none", "sent", "granted", "refused"}, session : SessionOrNone]
      BY DEF IdleCall, Call, NoRefresh, SessionOrNone
    <2>2. call' \in [Calls -> Call]
      BY <1>0, <1>4, <2>1 DEF RefreshFails, TypeOK
    <2>3. {jar, accessToken, user}' \subseteq SessionOrNone
      BY <1>0, <1>4 DEF RefreshFails, ExpireSession, resetSession, TypeOK, api, SessionOrNone
    <2>4. /\ boot' \in {"start", "refreshing", "me", "done"}
          /\ status' \in {"loading", "authenticated", "unauthenticated"}
          /\ straggler' \in BOOLEAN
      BY <1>0, <1>4 DEF RefreshFails, ExpireSession, resetSession, Outlive, TypeOK
    <2> QED
      BY <1>0, <1>4, <2>1, <2>2, <2>3, <2>4 DEF RefreshFails, TypeOK, api
  <1>5. CASE BootstrapEnds
    BY <1>0, <1>5 DEF BootstrapEnds, TypeOK, api, hist, SessionOrNone
  <1>6. CASE submitLogin
    BY <1>0, <1>6 DEF submitLogin, TypeOK, Done, api, page, hist, Step
  <1>7. CASE LoginSucceeds
    BY <1>0, <1>7 DEF LoginSucceeds, TypeOK, page, Outlive, SessionOrNone, Step
  <1>8. CASE LoginFails
    BY <1>0, <1>8 DEF LoginFails, TypeOK, Done, api, page, hist, SessionOrNone, Step
  <1>9. CASE ProfileEnds
    BY <1>0, <1>9 DEF ProfileEnds, TypeOK, page, Done, api, hist, SessionOrNone, Step
  <1>10. CASE submitLogout
    BY <1>0, <1>10 DEF submitLogout, TypeOK, api, page, hist, Step
  <1>11. CASE LogoutEnds
    BY <1>0, <1>11 DEF LogoutEnds, TypeOK, NamesKnown, resetSession, Done, Outlive,
       SessionOrNone, Step
  <1>12. CASE Reload
    <2>1. /\ IdleCall \in Call /\ Done \in Step
          /\ NoRefresh \in [phase : {"none", "sent", "granted", "refused"}, session : SessionOrNone]
      BY DEF IdleCall, Call, Done, Step, NoRefresh, SessionOrNone
    <2>2. call' \in [Calls -> Call]
      BY <1>12, <2>1 DEF Reload
    <2> QED
      BY <1>0, <1>12, <2>1, <2>2 DEF Reload, TypeOK, SessionOrNone, api
  <1>13. ASSUME NEW c \in Calls, apiFetch(c)
        PROVE  TypeOK'
    BY <1>0, <1>13 DEF apiFetch, TypeOK, api, page, hist, Call
  <1>14. ASSUME NEW c \in Calls, ApiHandles(c)
        PROVE  TypeOK'
    BY <1>0, <1>14 DEF ApiHandles, TypeOK, Answered, api, page, hist, Call
  <1>15. ASSUME NEW c \in Calls, ReceiveResult(c)
        PROVE  TypeOK'
    BY <1>0, <1>15 DEF ReceiveResult, TypeOK, CallEnds, api, page, hist, SessionOrNone, Call,
       IdleCall
  <1>16. ASSUME NEW c \in Calls, NetworkFails(c)
        PROVE  TypeOK'
    BY <1>0, <1>16 DEF NetworkFails, TypeOK, IdleCall, api, page, hist, SessionOrNone, Call
  <1>17. ASSUME NEW c \in Calls, Unauthorized(c)
        PROVE  TypeOK'
    BY <1>0, <1>17 DEF Unauthorized, TypeOK, refreshAccessToken, api, page, hist, Call
  <1>18. ASSUME NEW c \in Calls, UnauthorizedAgain(c)
        PROVE  TypeOK'
    BY <1>0, <1>18 DEF UnauthorizedAgain, TypeOK, ReplayRefused, Outlive, api, SessionOrNone,
       Call, IdleCall, ExpireSession, resetSession
  <1>19. ASSUME NEW s \in Sessions, SessionEnds(s)
        PROVE  TypeOK'
    BY <1>0, <1>19 DEF SessionEnds, TypeOK, page, hist
  <1>20. CASE UNCHANGED vars
    BY <1>0, <1>20 DEF vars, TypeOK, api, page, hist
  <1> QED
    BY <1>1, <1>2, <1>3, <1>4, <1>5, <1>6, <1>7, <1>8, <1>9, <1>10, <1>11, <1>12, <1>13, <1>14,
       <1>15, <1>16, <1>17, <1>18, <1>19, <1>20
    DEF Next, Answers, Progress

(* No session comes from elsewhere than the API. *)
LEMMA NamesInv ==
    ASSUME TypeOK, TabInv, [Next]_vars
    PROVE  NamesKnown'
  <1>0. TypeOK /\ NamesKnown
    BY DEF TabInv
  <1>1. CASE Bootstrap
    BY <1>0, <1>1 DEF Bootstrap, NamesKnown, refreshAccessToken, api, page
  <1>2. CASE ApiRefreshes
    BY <1>0, <1>2 DEF ApiRefreshes, NamesKnown, api, page
  <1>3. CASE RefreshSucceeds
    <2>1. /\ refresh'.session = None /\ jar' = refresh.session /\ accessToken' = refresh.session
          /\ UNCHANGED <<known, user, signIn, signOut>>
      BY <1>3 DEF RefreshSucceeds, NoRefresh, page
    <2> QED
      BY <1>0, <2>1 DEF NamesKnown
  <1>4. CASE RefreshFails
    BY <1>0, <1>4 DEF RefreshFails, NamesKnown, NoRefresh, ExpireSession, api, resetSession
  <1>5. CASE BootstrapEnds
    BY <1>0, <1>5 DEF BootstrapEnds, NamesKnown, api
  <1>6. CASE submitLogin
    BY <1>0, <1>6 DEF submitLogin, NamesKnown, api, page
  <1>7. CASE LoginSucceeds
    BY <1>0, <1>7 DEF LoginSucceeds, NamesKnown, page
  <1>8. CASE LoginFails
    BY <1>0, <1>8 DEF LoginFails, NamesKnown, Done, api, page
  <1>9. CASE ProfileEnds
    BY <1>0, <1>9 DEF ProfileEnds, NamesKnown, page, Done, api
  <1>10. CASE submitLogout
    BY <1>0, <1>10 DEF submitLogout, NamesKnown, api, page
  <1>11. CASE LogoutEnds
    BY <1>0, <1>11 DEF LogoutEnds, NamesKnown, resetSession, Done
  <1>12. CASE Reload
    BY <1>0, <1>12 DEF Reload, NamesKnown, NoRefresh, Done, api
  <1>13. ASSUME NEW c \in Calls, apiFetch(c)
        PROVE  NamesKnown'
    BY <1>0, <1>13 DEF apiFetch, NamesKnown, api, page
  <1>14. ASSUME NEW c \in Calls, ApiHandles(c)
        PROVE  NamesKnown'
    BY <1>0, <1>14 DEF ApiHandles, NamesKnown, api, page
  <1>15. ASSUME NEW c \in Calls, ReceiveResult(c)
        PROVE  NamesKnown'
    BY <1>0, <1>15 DEF ReceiveResult, NamesKnown, api, page
  <1>16. ASSUME NEW c \in Calls, NetworkFails(c)
        PROVE  NamesKnown'
    BY <1>0, <1>16 DEF NetworkFails, NamesKnown, api, page
  <1>17. ASSUME NEW c \in Calls, Unauthorized(c)
        PROVE  NamesKnown'
    BY <1>0, <1>17 DEF Unauthorized, NamesKnown, refreshAccessToken, api, page
  <1>18. ASSUME NEW c \in Calls, UnauthorizedAgain(c)
        PROVE  NamesKnown'
    BY <1>0, <1>18 DEF UnauthorizedAgain, NamesKnown, ReplayRefused, api, ExpireSession,
       resetSession
  <1>19. ASSUME NEW s \in Sessions, SessionEnds(s)
        PROVE  NamesKnown'
    BY <1>0, <1>19 DEF SessionEnds, NamesKnown, page
  <1>20. CASE UNCHANGED vars
    BY <1>0, <1>20 DEF vars, NamesKnown, api, page
  <1> QED
    BY <1>1, <1>2, <1>3, <1>4, <1>5, <1>6, <1>7, <1>8, <1>9, <1>10, <1>11, <1>12, <1>13, <1>14,
       <1>15, <1>16, <1>17, <1>18, <1>19, <1>20
    DEF Next, Answers, Progress

(* A page restores its session before it does anything else. *)
LEMMA LoadsInv ==
    ASSUME TypeOK, TabInv, [Next]_vars
    PROVE  LoadsFirst'
  <1>0. TypeOK /\ LoadsFirst /\ SignsInFromTheForm
    BY DEF TabInv
  <1>1. CASE Bootstrap
    BY <1>0, <1>1 DEF Bootstrap, LoadsFirst, refreshAccessToken, api, page, hist
  <1>2. CASE ApiRefreshes
    BY <1>0, <1>2 DEF ApiRefreshes, LoadsFirst, api, page, hist
  <1>3. CASE RefreshSucceeds
    BY <1>0, <1>3 DEF RefreshSucceeds, LoadsFirst, Waiting, NoRefresh, page, hist
  <1>4. CASE RefreshFails
    BY <1>0, <1>4 DEF RefreshFails, TypeOK, LoadsFirst, ExpireSession, resetSession
  <1>5. CASE BootstrapEnds
    BY <1>0, <1>5 DEF BootstrapEnds, LoadsFirst
  <1>6. CASE submitLogin
    BY <1>0, <1>6 DEF submitLogin, LoadsFirst, LoginFormShown, page
  <1>7. CASE LoginSucceeds
    BY <1>0, <1>7 DEF LoginSucceeds, LoadsFirst, page, Done
  <1>8. CASE LoginFails
    BY <1>0, <1>8 DEF LoginFails, LoadsFirst, Done, page
  <1>9. CASE ProfileEnds
    BY <1>0, <1>9 DEF ProfileEnds, LoadsFirst, page, Done
  <1>10. CASE submitLogout
    BY <1>0, <1>10 DEF submitLogout, LoadsFirst, RequireAuth, page
  <1>11. CASE LogoutEnds
    BY <1>0, <1>11 DEF LogoutEnds, LoadsFirst, resetSession, Done
  <1>12. CASE Reload
    BY <1>0, <1>12 DEF Reload, LoadsFirst, NoRefresh, IdleCall
  <1>13. ASSUME NEW c \in Calls, apiFetch(c)
        PROVE  LoadsFirst'
    BY <1>0, <1>13 DEF apiFetch, LoadsFirst, RequireAuth, page
  <1>14. ASSUME NEW c \in Calls, ApiHandles(c)
        PROVE  LoadsFirst'
    BY <1>0, <1>14 DEF ApiHandles, LoadsFirst, InFlight, page
  <1>15. ASSUME NEW c \in Calls, ReceiveResult(c)
        PROVE  LoadsFirst'
    BY <1>0, <1>15 DEF ReceiveResult, LoadsFirst, page
  <1>16. ASSUME NEW c \in Calls, NetworkFails(c)
        PROVE  LoadsFirst'
    BY <1>0, <1>16 DEF NetworkFails, LoadsFirst, InFlight, page
  <1>17. ASSUME NEW c \in Calls, Unauthorized(c)
        PROVE  LoadsFirst'
    BY <1>0, <1>17 DEF Unauthorized, LoadsFirst, page
  <1>18. ASSUME NEW c \in Calls, UnauthorizedAgain(c)
        PROVE  LoadsFirst'
    BY <1>0, <1>18 DEF UnauthorizedAgain, LoadsFirst, ReplayRefused, ExpireSession, resetSession
  <1>19. ASSUME NEW s \in Sessions, SessionEnds(s)
        PROVE  LoadsFirst'
    BY <1>0, <1>19 DEF SessionEnds, LoadsFirst, page, hist
  <1>20. CASE UNCHANGED vars
    BY <1>0, <1>20 DEF vars, LoadsFirst, api, page, hist
  <1> QED
    BY <1>1, <1>2, <1>3, <1>4, <1>5, <1>6, <1>7, <1>8, <1>9, <1>10, <1>11, <1>12, <1>13, <1>14,
       <1>15, <1>16, <1>17, <1>18, <1>19, <1>20
    DEF Next, Answers, Progress

(* The form stays until the sign-in ends. *)
LEMMA SignsInInv ==
    ASSUME TypeOK, TabInv, [Next]_vars
    PROVE  SignsInFromTheForm'
  <1>0. SignsInFromTheForm /\ LoadsFirst /\ TypeOK
    BY DEF TabInv
  <1>1. CASE Bootstrap
    BY <1>0, <1>1 DEF Bootstrap, SignsInFromTheForm, LoadsFirst
  <1>2. CASE ApiRefreshes
    BY <1>0, <1>2 DEF ApiRefreshes, SignsInFromTheForm, page, LoginFormShown
  <1>3. CASE RefreshSucceeds
    BY <1>0, <1>3 DEF RefreshSucceeds, SignsInFromTheForm, page, LoginFormShown
  <1>4. CASE RefreshFails
    BY <1>0, <1>4 DEF RefreshFails, SignsInFromTheForm, ExpireSession, LoginFormShown,
       resetSession
  <1>5. CASE BootstrapEnds
    BY <1>0, <1>5 DEF BootstrapEnds, SignsInFromTheForm, LoadsFirst
  <1>6. CASE submitLogin
    BY <1>0, <1>6 DEF submitLogin, SignsInFromTheForm, LoginFormShown, page
  <1>7. CASE LoginSucceeds
    BY <1>0, <1>7 DEF LoginSucceeds, SignsInFromTheForm, page, Done, LoginFormShown
  <1>8. CASE LoginFails
    BY <1>0, <1>8 DEF LoginFails, SignsInFromTheForm
  <1>9. CASE ProfileEnds
    BY <1>0, <1>9 DEF ProfileEnds, SignsInFromTheForm
  <1>10. CASE submitLogout
    BY <1>0, <1>10 DEF submitLogout, SignsInFromTheForm, RequireAuth, LoginFormShown
  <1>11. CASE LogoutEnds
    BY <1>0, <1>11 DEF LogoutEnds, SignsInFromTheForm, resetSession, LoginFormShown
  <1>12. CASE Reload
    BY <1>0, <1>12 DEF Reload, SignsInFromTheForm
  <1>13. ASSUME NEW c \in Calls, apiFetch(c)
        PROVE  SignsInFromTheForm'
    BY <1>0, <1>13 DEF apiFetch, SignsInFromTheForm, RequireAuth, LoginFormShown
  <1>14. ASSUME NEW c \in Calls, ApiHandles(c)
        PROVE  SignsInFromTheForm'
    BY <1>0, <1>14 DEF ApiHandles, SignsInFromTheForm, page, LoginFormShown
  <1>15. ASSUME NEW c \in Calls, ReceiveResult(c)
        PROVE  SignsInFromTheForm'
    BY <1>0, <1>15 DEF ReceiveResult, SignsInFromTheForm, page, LoginFormShown
  <1>16. ASSUME NEW c \in Calls, NetworkFails(c)
        PROVE  SignsInFromTheForm'
    BY <1>0, <1>16 DEF NetworkFails, SignsInFromTheForm, page, LoginFormShown
  <1>17. ASSUME NEW c \in Calls, Unauthorized(c)
        PROVE  SignsInFromTheForm'
    BY <1>0, <1>17 DEF Unauthorized, SignsInFromTheForm, page, LoginFormShown
  <1>18. ASSUME NEW c \in Calls, UnauthorizedAgain(c)
        PROVE  SignsInFromTheForm'
    BY <1>0, <1>18 DEF UnauthorizedAgain, SignsInFromTheForm, ReplayRefused, LoginFormShown,
       ExpireSession, resetSession
  <1>19. ASSUME NEW s \in Sessions, SessionEnds(s)
        PROVE  SignsInFromTheForm'
    BY <1>0, <1>19 DEF SessionEnds, SignsInFromTheForm, page, LoginFormShown
  <1>20. CASE UNCHANGED vars
    BY <1>0, <1>20 DEF vars, SignsInFromTheForm, page, LoginFormShown
  <1> QED
    BY <1>1, <1>2, <1>3, <1>4, <1>5, <1>6, <1>7, <1>8, <1>9, <1>10, <1>11, <1>12, <1>13, <1>14,
       <1>15, <1>16, <1>17, <1>18, <1>19, <1>20
    DEF Next, Answers, Progress

(* A session that ends leaves nothing under way, or a straggler. *)
LEMMA FormInv ==
    ASSUME TypeOK, TabInv, [Next]_vars
    PROVE  FormIsQuiet'
  <1>0. TypeOK /\ LoadsFirst /\ SignsInFromTheForm /\ FormIsQuiet
    BY DEF TabInv
  <1>1. CASE Bootstrap
    BY <1>0, <1>1 DEF Bootstrap, LoadsFirst, FormIsQuiet, page, LoginFormShown
  <1>2. CASE ApiRefreshes
    BY <1>0, <1>2 DEF ApiRefreshes, FormIsQuiet, page, hist, LoginFormShown
  <1>3. CASE RefreshSucceeds
    BY <1>0, <1>3 DEF RefreshSucceeds, FormIsQuiet, page, hist, LoginFormShown
  <1>4. CASE RefreshFails
    <2>1. CASE Waiting # {}
      <3>1. /\ accessToken' = None /\ refresh' = NoRefresh /\ UNCHANGED <<signIn, jar>>
            /\ ~straggler' => ~straggler /\ \A c \in Calls : call'[c].phase = "idle"
        BY <1>4, <2>1 DEF RefreshFails, ExpireSession, resetSession, Outlive, NoRefresh, api
      <3>2. ~straggler => signIn = Done
        BY <1>0, <2>1 DEF SignsInFromTheForm, FormIsQuiet, Waiting
      <3> QED
        BY <3>1, <3>2 DEF FormIsQuiet, NoRefresh, Done
    <2>2. CASE Waiting = {} /\ boot = "refreshing"
      <3>1. /\ accessToken' = accessToken /\ refresh' = NoRefresh /\ UNCHANGED <<signIn, jar>>
            /\ \A c \in Calls : call'[c] = call[c]
        BY <1>0, <1>4, <2>2 DEF RefreshFails, TypeOK, api
      <3> QED
        BY <1>0, <2>2, <3>1 DEF FormIsQuiet, LoadsFirst, NoRefresh, Done
    <2>3. CASE Waiting = {} /\ boot # "refreshing"
      <3>1. /\ UNCHANGED <<accessToken, signIn, jar, status, straggler>> /\ refresh' = NoRefresh
            /\ \A c \in Calls : call'[c] = call[c]
        BY <1>0, <1>4, <2>3 DEF RefreshFails, TypeOK, api
      <3> QED
        BY <1>0, <3>1 DEF FormIsQuiet, LoginFormShown, NoRefresh
    <2> QED
      BY <2>1, <2>2, <2>3
  <1>5. CASE BootstrapEnds
    BY <1>0, <1>5 DEF BootstrapEnds, LoadsFirst, FormIsQuiet, Done, LoginFormShown
  <1>6. CASE submitLogin
    BY <1>0, <1>6 DEF submitLogin, FormIsQuiet, Done, hist
  <1>7. CASE LoginSucceeds
    BY <1>0, <1>7 DEF LoginSucceeds, TypeOK, SignsInFromTheForm, FormIsQuiet, Outlive, Done
  <1>8. CASE LoginFails
    BY <1>0, <1>8 DEF LoginFails, SignsInFromTheForm, FormIsQuiet, Done, hist
  <1>9. CASE ProfileEnds
    BY <1>0, <1>9 DEF ProfileEnds, SignsInFromTheForm, FormIsQuiet, Done, hist, LoginFormShown
  <1>10. CASE submitLogout
    BY <1>0, <1>10 DEF submitLogout, FormIsQuiet, RequireAuth, page, LoginFormShown
  <1>11. CASE LogoutEnds
    <2>1. /\ accessToken' = None /\ signIn' = signIn /\ refresh' = refresh /\ jar' \in {None, jar}
          /\ ~straggler' => /\ ~straggler /\ refresh'.phase = "none"
                            /\ \A c \in Calls : call'[c].phase = "idle"
      BY <1>11 DEF LogoutEnds, resetSession, Outlive
    <2>2. boot = "done"
      BY <1>0, <1>11 DEF LogoutEnds, LoadsFirst, TypeOK, Done
    <2>3. CASE RequireAuth
      BY <1>0, <2>1, <2>3 DEF FormIsQuiet, SignsInFromTheForm, RequireAuth, LoginFormShown, Done
    <2>4. CASE LoginFormShown
      BY <1>0, <2>1, <2>4 DEF FormIsQuiet
    <2> QED
      BY <1>0, <2>2, <2>3, <2>4 DEF LoadsFirst, TypeOK, RequireAuth, LoginFormShown
  <1>12. CASE Reload
    BY <1>0, <1>12 DEF Reload, FormIsQuiet, NoRefresh, IdleCall, Done
  <1>13. ASSUME NEW c \in Calls, apiFetch(c)
        PROVE  FormIsQuiet'
    BY <1>0, <1>13 DEF apiFetch, FormIsQuiet, RequireAuth, page, LoginFormShown
  <1>14. ASSUME NEW c \in Calls, ApiHandles(c)
        PROVE  FormIsQuiet'
    BY <1>0, <1>14 DEF ApiHandles, FormIsQuiet, InFlight, page, hist, LoginFormShown
  <1>15. ASSUME NEW c \in Calls, ReceiveResult(c)
        PROVE  FormIsQuiet'
    BY <1>0, <1>15 DEF ReceiveResult, FormIsQuiet, page, hist, LoginFormShown
  <1>16. ASSUME NEW c \in Calls, NetworkFails(c)
        PROVE  FormIsQuiet'
    BY <1>0, <1>16 DEF NetworkFails, FormIsQuiet, InFlight, page, hist, LoginFormShown
  <1>17. ASSUME NEW c \in Calls, Unauthorized(c)
        PROVE  FormIsQuiet'
    BY <1>0, <1>17 DEF Unauthorized, FormIsQuiet, page, hist, LoginFormShown
  <1>18. ASSUME NEW c \in Calls, UnauthorizedAgain(c)
        PROVE  FormIsQuiet'
    <2>1. /\ accessToken' = None /\ UNCHANGED <<signIn, refresh, jar>>
          /\ ~straggler' => /\ ~straggler /\ refresh'.phase = "none"
                            /\ \A k \in Calls : call'[k].phase = "idle"
      BY <1>18 DEF UnauthorizedAgain, ReplayRefused, ExpireSession, resetSession, Outlive, api
    <2>2. ~straggler => signIn = Done
      BY <1>0, <1>18 DEF UnauthorizedAgain, FormIsQuiet, SignsInFromTheForm
    <2> QED
      BY <2>1, <2>2 DEF FormIsQuiet, Done
  <1>19. ASSUME NEW s \in Sessions, SessionEnds(s)
        PROVE  FormIsQuiet'
    BY <1>0, <1>19 DEF SessionEnds, FormIsQuiet, page, hist, LoginFormShown
  <1>20. CASE UNCHANGED vars
    BY <1>0, <1>20 DEF vars, FormIsQuiet, api, page, hist, LoginFormShown
  <1> QED
    BY <1>1, <1>2, <1>3, <1>4, <1>5, <1>6, <1>7, <1>8, <1>9, <1>10, <1>11, <1>12, <1>13, <1>14,
       <1>15, <1>16, <1>17, <1>18, <1>19, <1>20
    DEF Next, Answers, Progress

(* A session that is shown is shown with its own token. *)
LEMMA ShownInv ==
    ASSUME TypeOK, TabInv, [Next]_vars
    PROVE  ShownIsTheirs'
  <1>0. TypeOK /\ LoadsFirst /\ SignsInFromTheForm /\ FormIsQuiet /\ ShownIsTheirs
    BY DEF TabInv
  <1>1. CASE Bootstrap
    BY <1>0, <1>1 DEF Bootstrap, LoadsFirst, ShownIsTheirs, page, RequireAuth
  <1>2. CASE ApiRefreshes
    BY <1>0, <1>2 DEF ApiRefreshes, ShownIsTheirs, api, page, hist, RequireAuth
  <1>3. CASE RefreshSucceeds
    BY <1>0, <1>3 DEF RefreshSucceeds, ShownIsTheirs, NoRefresh, page, hist, RequireAuth
  <1>4. CASE RefreshFails
    BY <1>0, <1>4 DEF RefreshFails, ShownIsTheirs, NoRefresh, ExpireSession, api, RequireAuth,
       resetSession
  <1>5. CASE BootstrapEnds
    BY <1>0, <1>5 DEF BootstrapEnds, LoadsFirst, ShownIsTheirs, api, RequireAuth
  <1>6. CASE submitLogin
    BY <1>0, <1>6 DEF submitLogin, ShownIsTheirs, LoginFormShown, page, RequireAuth
  <1>7. CASE LoginSucceeds
    BY <1>0, <1>7 DEF LoginSucceeds, SignsInFromTheForm, ShownIsTheirs, page, Done,
       LoginFormShown, RequireAuth
  <1>8. CASE LoginFails
    BY <1>0, <1>8 DEF LoginFails, ShownIsTheirs, api, page, hist, RequireAuth
  <1>9. CASE ProfileEnds
    BY <1>0, <1>9 DEF ProfileEnds, SignsInFromTheForm, FormIsQuiet, ShownIsTheirs, page, Done,
       api, hist, RequireAuth
  <1>10. CASE submitLogout
    BY <1>0, <1>10 DEF submitLogout, ShownIsTheirs, api, page, hist
  <1>11. CASE LogoutEnds
    BY <1>0, <1>11 DEF LogoutEnds, ShownIsTheirs, resetSession, RequireAuth
  <1>12. CASE Reload
    BY <1>0, <1>12 DEF Reload, ShownIsTheirs, RequireAuth
  <1>13. ASSUME NEW c \in Calls, apiFetch(c)
        PROVE  ShownIsTheirs'
    BY <1>0, <1>13 DEF apiFetch, ShownIsTheirs, api, page, hist
  <1>14. ASSUME NEW c \in Calls, ApiHandles(c)
        PROVE  ShownIsTheirs'
    BY <1>0, <1>14 DEF ApiHandles, ShownIsTheirs, api, page, hist, RequireAuth
  <1>15. ASSUME NEW c \in Calls, ReceiveResult(c)
        PROVE  ShownIsTheirs'
    BY <1>0, <1>15 DEF ReceiveResult, ShownIsTheirs, api, page, hist, RequireAuth
  <1>16. ASSUME NEW c \in Calls, NetworkFails(c)
        PROVE  ShownIsTheirs'
    BY <1>0, <1>16 DEF NetworkFails, ShownIsTheirs, api, page, hist, RequireAuth
  <1>17. ASSUME NEW c \in Calls, Unauthorized(c)
        PROVE  ShownIsTheirs'
    BY <1>0, <1>17 DEF Unauthorized, ShownIsTheirs, refreshAccessToken, api, page, hist,
       RequireAuth
  <1>18. ASSUME NEW c \in Calls, UnauthorizedAgain(c)
        PROVE  ShownIsTheirs'
    BY <1>0, <1>18 DEF UnauthorizedAgain, ShownIsTheirs, ReplayRefused, RequireAuth,
       ExpireSession, resetSession
  <1>19. ASSUME NEW s \in Sessions, SessionEnds(s)
        PROVE  ShownIsTheirs'
    BY <1>0, <1>19 DEF SessionEnds, ShownIsTheirs, page, hist, RequireAuth
  <1>20. CASE UNCHANGED vars
    BY <1>0, <1>20 DEF vars, ShownIsTheirs, api, page, hist, RequireAuth
  <1> QED
    BY <1>1, <1>2, <1>3, <1>4, <1>5, <1>6, <1>7, <1>8, <1>9, <1>10, <1>11, <1>12, <1>13, <1>14,
       <1>15, <1>16, <1>17, <1>18, <1>19, <1>20
    DEF Next, Answers, Progress

(* A request that is replayed had no effect. *)
LEMMA EffectsInv ==
    ASSUME TypeOK, TabInv, [Next]_vars
    PROVE  \A k \in Calls : CountsItsEffect(k)'
  <1>0. TypeOK /\ \A k \in Calls : CountsItsEffect(k)
    BY DEF TabInv
  <1>1. CASE Bootstrap
    BY <1>0, <1>1 DEF Bootstrap, CountsItsEffect
  <1>2. CASE ApiRefreshes
    BY <1>0, <1>2 DEF ApiRefreshes, CountsItsEffect
  <1>3. CASE RefreshSucceeds
    BY <1>0, <1>3 DEF RefreshSucceeds, TypeOK, CountsItsEffect, Waiting, Call
  <1>4. CASE RefreshFails
    BY <1>0, <1>4 DEF RefreshFails, CountsItsEffect, IdleCall
  <1>5. CASE BootstrapEnds
    BY <1>0, <1>5 DEF BootstrapEnds, CountsItsEffect
  <1>6. CASE submitLogin
    BY <1>0, <1>6 DEF submitLogin, CountsItsEffect
  <1>7. CASE LoginSucceeds
    BY <1>0, <1>7 DEF LoginSucceeds, CountsItsEffect
  <1>8. CASE LoginFails
    BY <1>0, <1>8 DEF LoginFails, CountsItsEffect
  <1>9. CASE ProfileEnds
    BY <1>0, <1>9 DEF ProfileEnds, CountsItsEffect
  <1>10. CASE submitLogout
    BY <1>0, <1>10 DEF submitLogout, CountsItsEffect
  <1>11. CASE LogoutEnds
    BY <1>0, <1>11 DEF LogoutEnds, CountsItsEffect
  <1>12. CASE Reload
    BY <1>0, <1>12 DEF Reload, CountsItsEffect, IdleCall
  <1>13. ASSUME NEW c \in Calls, apiFetch(c)
        PROVE  \A k \in Calls : CountsItsEffect(k)'
    BY <1>0, <1>13 DEF apiFetch, CountsItsEffect
  <1>14. ASSUME NEW c \in Calls, ApiHandles(c)
        PROVE  \A k \in Calls : CountsItsEffect(k)'
    BY <1>0, <1>14 DEF ApiHandles, TypeOK, CountsItsEffect, InFlight, Answered, Call
  <1>15. ASSUME NEW c \in Calls, ReceiveResult(c)
        PROVE  \A k \in Calls : CountsItsEffect(k)'
    BY <1>0, <1>15 DEF ReceiveResult, CountsItsEffect, CallEnds, IdleCall
  <1>16. ASSUME NEW c \in Calls, NetworkFails(c)
        PROVE  \A k \in Calls : CountsItsEffect(k)'
    BY <1>0, <1>16 DEF NetworkFails, CountsItsEffect, IdleCall
  <1>17. ASSUME NEW c \in Calls, Unauthorized(c)
        PROVE  \A k \in Calls : CountsItsEffect(k)'
    BY <1>0, <1>17 DEF Unauthorized, CountsItsEffect
  <1>18. ASSUME NEW c \in Calls, UnauthorizedAgain(c)
        PROVE  \A k \in Calls : CountsItsEffect(k)'
    BY <1>0, <1>18 DEF UnauthorizedAgain, CountsItsEffect, ReplayRefused, IdleCall
  <1>19. ASSUME NEW s \in Sessions, SessionEnds(s)
        PROVE  \A k \in Calls : CountsItsEffect(k)'
    BY <1>0, <1>19 DEF SessionEnds, CountsItsEffect
  <1>20. CASE UNCHANGED vars
    BY <1>0, <1>20 DEF vars, CountsItsEffect
  <1> QED
    BY <1>1, <1>2, <1>3, <1>4, <1>5, <1>6, <1>7, <1>8, <1>9, <1>10, <1>11, <1>12, <1>13, <1>14,
       <1>15, <1>16, <1>17, <1>18, <1>19, <1>20
    DEF Next, Answers, Progress

(* A new tab has no session, no request and nothing on the screen. *)
LEMMA InitInv ==
    ASSUME Init
    PROVE  TypeOK /\ TabInv
  <1>1. TypeOK
    BY DEF Init, TypeOK, SessionOrNone, NoRefresh, IdleCall, Call, Done, Step
  <1>2. NamesKnown
    BY DEF Init, NamesKnown, NoRefresh, Done
  <1>3. LoadsFirst /\ SignsInFromTheForm
    BY DEF Init, LoadsFirst, SignsInFromTheForm, NoRefresh, IdleCall, Done
  <1>4. FormIsQuiet /\ ShownIsTheirs
    BY DEF Init, FormIsQuiet, ShownIsTheirs, LoginFormShown, RequireAuth
  <1>5. \A c \in Calls : CountsItsEffect(c)
    BY DEF Init, CountsItsEffect, IdleCall
  <1> QED
    BY <1>1, <1>2, <1>3, <1>4, <1>5 DEF TabInv

(* Every step of the session keeps the invariant. *)
LEMMA NextInv ==
    ASSUME TypeOK, TabInv, [Next]_vars
    PROVE  (TypeOK /\ TabInv)'
  BY TypeInv, NamesInv, LoadsInv, SignsInInv, FormInv, ShownInv, EffectsInv DEF TabInv

-----------------------------------------------------------------------------
(* The inbox *)

\* Each message carries the id of its conversation.
OfOneConversation(s) == \A i, j \in DOMAIN s : s[i].conversationId = s[j].conversationId

\* Whatever was read or is shown is of one conversation.
InboxInv ==
    /\ Inbox!TypeOK
    /\ \A f \in fetches : f.answer # None => OfOneConversation(f.answer)
    /\ OfOneConversation(messages.data)

(* What is selected is in the list, if anything is. *)
LEMMA SelectedIsKnown ==
    ASSUME Inbox!TypeOK
    PROVE  Inbox!selected \in Conversations \cup {None}
  <1> QED
    BY DEF Inbox!TypeOK, Inbox!selected, Inbox!resolveSelectedConversation, Inbox!ToSet

(* The server answers with messages of the conversation it was asked for. *)
LEMMA PageIsOfOne ==
    ASSUME Inbox!TypeOK, NEW c \in Conversations \cup {None}
    PROVE  Inbox!Page(c) \in Seq(Inbox!Message) /\ OfOneConversation(Inbox!Page(c))
  <1>1. CASE c = None
    <2>1. Inbox!Page(c) = <<>>
      BY <1>1 DEF Inbox!Page
    <2> QED
      BY <2>1 DEF OfOneConversation
  <1>2. CASE c # None
    <2> DEFINE s == thread[c]
    <2>1. s \in Seq(Texts) /\ c \in Conversations
      BY <1>2 DEF Inbox!TypeOK
    <2>2. Inbox!Page(c) = [i \in 1..Len(s) |-> [conversationId |-> c, body |-> s[i]]]
      BY <1>2, <2>1 DEF Inbox!Page
    <2>3. \A i \in 1..Len(s) : [conversationId |-> c, body |-> s[i]] \in Inbox!Message
      BY <2>1 DEF Inbox!Message
    <2>4. Len(s) \in Nat
      BY <2>1
    <2> HIDE DEF s
    <2> QED
      BY <2>2, <2>3, <2>4 DEF OfOneConversation
  <1> QED
    BY <1>1, <1>2

(* Nothing is loaded yet. *)
LEMMA InboxStarts ==
    ASSUME Inbox!Init
    PROVE  InboxInv
  <1>1. /\ thread \in [Conversations -> Seq(Texts)] /\ items \in Seq(Conversations)
        /\ messages \in [state : {"loading", "ready", "error"}, data : Seq(Inbox!Message),
                         conv : Conversations \cup {None}, reloads : 0..nonce, run : 0..MaxFetches]
    BY WebAssumption DEF Inbox!Init, Inbox!NoMessages, Inbox!InboxAssumption
  <1>2. OfOneConversation(messages.data)
    BY DEF Inbox!Init, Inbox!NoMessages, OfOneConversation
  <1> QED
    BY <1>1, <1>2 DEF Inbox!Init, Inbox!NoMessages, Inbox!NoText, Inbox!NoSending, InboxInv, Inbox!TypeOK

(* Every step of the inbox keeps what is fetched and shown of one conversation. *)
LEMMA InboxKeeps ==
    ASSUME InboxInv, [Inbox!Next]_inbox
    PROVE  InboxInv'
  <1> DEFINE Sel == Inbox!selected
  <1>0. /\ Inbox!TypeOK
        /\ \A f \in fetches : f.answer # None => OfOneConversation(f.answer)
        /\ OfOneConversation(messages.data)
        /\ Sel \in Conversations \cup {None}
    BY SelectedIsKnown DEF InboxInv
  <1> HIDE DEF Sel
  <1>1. ASSUME NEW list \in Lists, Inbox!ConversationsLoaded(list)
        PROVE  InboxInv'
    <2>1. list \in Seq(Conversations)
      BY WebAssumption DEF Inbox!InboxAssumption
    <2> QED
      BY <1>0, <1>1, <2>1 DEF Inbox!ConversationsLoaded, InboxInv, Inbox!TypeOK, Inbox!form
  <1>2. ASSUME NEW c \in Conversations, Inbox!selectConversation(c)
        PROVE  InboxInv'
    <2>1. composer' = Inbox!NoText \/ composer' \in [text : Texts, for : Conversations]
      BY <1>0, <1>2 DEF Inbox!selectConversation, Inbox!TypeOK
    <2> QED
      BY <1>0, <1>2, <2>1 DEF Inbox!selectConversation, InboxInv, Inbox!TypeOK
  <1>3. ASSUME Inbox!SyncSelection
        PROVE  InboxInv'
    BY <1>0, <1>3 DEF Inbox!SyncSelection, InboxInv, Inbox!TypeOK, Inbox!form, Sel
  <1>4. ASSUME Inbox!LoadMessages
        PROVE  InboxInv'
    <2>1. messages.run + 1 \in 1..MaxFetches /\ nonce \in 0..nonce
      BY <1>0, <1>4, WebAssumption DEF Inbox!LoadMessages, Inbox!TypeOK, Inbox!InboxAssumption
    <2> DEFINE new == [run |-> messages.run + 1, conv |-> Sel, answer |-> None]
    <2>2. fetches' = fetches \cup {new}
      BY <1>4 DEF Inbox!LoadMessages, Sel
    <2>3. /\ messages' \in [state : {"loading", "ready", "error"}, data : Seq(Inbox!Message),
                    conv : Conversations \cup {None}, reloads : 0..nonce, run : 0..MaxFetches]
          /\ messages'.run = messages.run + 1 /\ messages'.data = messages.data
      <3>1. messages' = [messages EXCEPT !.state = "loading", !.conv = Sel, !.reloads = nonce,
                                         !.run = messages.run + 1]
        BY <1>4 DEF Inbox!LoadMessages, Sel
      <3>2. messages.run + 1 \in 0..MaxFetches
        BY <2>1
      <3>3. \A n \in 0..nonce, r \in 0..MaxFetches :
               LET m == [messages EXCEPT !.state = "loading", !.conv = Sel, !.reloads = n, !.run = r]
               IN  /\ m \in [state : {"loading", "ready", "error"}, data : Seq(Inbox!Message),
                              conv : Conversations \cup {None}, reloads : 0..nonce, run : 0..MaxFetches]
                   /\ m.run = r /\ m.data = messages.data
        BY <1>0 DEF Inbox!TypeOK
      <3> QED
        BY <2>1, <3>1, <3>2, <3>3
    <2>4. fetches' \subseteq [run : 1..messages'.run, conv : Conversations \cup {None},
                          answer : {None} \cup Seq(Inbox!Message)]
      <3>1. new \in [run : 1..messages'.run, conv : Conversations \cup {None},
                          answer : {None} \cup Seq(Inbox!Message)]
        BY <1>0, <2>1, <2>3
      <3>2. 1..messages.run \subseteq 1..messages'.run
        BY <1>0, <2>1, <2>3 DEF Inbox!TypeOK
      <3> HIDE DEF new
      <3> QED
        BY <1>0, <2>2, <3>1, <3>2 DEF Inbox!TypeOK
    <2>5. \A f \in fetches' : f.answer # None => OfOneConversation(f.answer)
      BY <1>0, <2>2
    <2> HIDE DEF new
    <2> QED
      BY <1>0, <1>4, <2>3, <2>4, <2>5 DEF Inbox!LoadMessages, InboxInv, Inbox!TypeOK, Inbox!form
  <1>5. ASSUME NEW f \in fetches, Inbox!ServerReads(f)
        PROVE  InboxInv'
    <2> DEFINE new == [f EXCEPT !.answer = Inbox!Page(f.conv)]
    <2>1. /\ Inbox!Page(f.conv) \in Seq(Inbox!Message)
          /\ OfOneConversation(Inbox!Page(f.conv))
      BY <1>0, PageIsOfOne DEF Inbox!TypeOK
    <2>2. /\ new \in [run : 1..messages.run, conv : Conversations \cup {None},
                          answer : {None} \cup Seq(Inbox!Message)]
          /\ new.answer = Inbox!Page(f.conv)
      BY <1>0, <2>1 DEF Inbox!TypeOK
    <2>3. fetches' = (fetches \ {f}) \cup {new}
      BY <1>5 DEF Inbox!ServerReads
    <2> HIDE DEF new
    <2>4. \A g \in fetches' : g.answer # None => OfOneConversation(g.answer)
      BY <1>0, <2>1, <2>2, <2>3
    <2>5. fetches' \subseteq [run : 1..messages.run, conv : Conversations \cup {None},
                          answer : {None} \cup Seq(Inbox!Message)]
      BY <1>0, <2>2, <2>3 DEF Inbox!TypeOK
    <2> QED
      BY <1>0, <1>5, <2>4, <2>5 DEF Inbox!ServerReads, InboxInv, Inbox!TypeOK, Inbox!form
  <1>6. ASSUME NEW f \in fetches, Inbox!FetchEnds(f)
        PROVE  InboxInv'
    <2>1. f.answer # None => f.answer \in Seq(Inbox!Message) /\ OfOneConversation(f.answer)
      BY <1>0 DEF Inbox!TypeOK
    <2>2. /\ messages' \in [state : {"loading", "ready", "error"}, data : Seq(Inbox!Message),
                    conv : Conversations \cup {None}, reloads : 0..nonce, run : 0..MaxFetches]
          /\ messages'.run = messages.run
          /\ OfOneConversation(messages'.data)
      BY <1>0, <1>6, <2>1 DEF Inbox!FetchEnds, Inbox!TypeOK
    <2> QED
      BY <1>0, <1>6, <2>2 DEF Inbox!FetchEnds, InboxInv, Inbox!TypeOK, Inbox!form
  <1>7. ASSUME NEW text \in Texts, Inbox!Write(text)
        PROVE  InboxInv'
    BY <1>0, <1>7 DEF Inbox!Write, Inbox!MayWrite, InboxInv, Inbox!TypeOK, Sel
  <1>8. ASSUME Inbox!handleSend
        PROVE  InboxInv'
    BY <1>0, <1>8 DEF Inbox!handleSend, Inbox!MaySend, InboxInv, Inbox!TypeOK, Sel
  <1>9. ASSUME Inbox!ServerStores
        PROVE  InboxInv'
    <2>1. sending \in [conv : Conversations, text : Texts, stored : BOOLEAN]
      BY <1>0, <1>9 DEF Inbox!ServerStores, Inbox!TypeOK
    <2>2. thread' \in [Conversations -> Seq(Texts)]
      BY <1>0, <1>9, <2>1 DEF Inbox!ServerStores, Inbox!TypeOK
    <2>3. sending' \in [conv : Conversations, text : Texts, stored : BOOLEAN]
      BY <1>9, <2>1 DEF Inbox!ServerStores
    <2> QED
      BY <1>0, <1>9, <2>2, <2>3 DEF Inbox!ServerStores, InboxInv, Inbox!TypeOK
  <1>10. ASSUME Inbox!SendSucceeds
        PROVE  InboxInv'
    <2>1. nonce' = nonce + 1 /\ 0..nonce \subseteq 0..nonce'
      BY <1>0, <1>10 DEF Inbox!SendSucceeds, Inbox!TypeOK
    <2> QED
      BY <1>0, <1>10, <2>1 DEF Inbox!SendSucceeds, InboxInv, Inbox!TypeOK
  <1>11. ASSUME Inbox!SendFails
        PROVE  InboxInv'
    BY <1>0, <1>11 DEF Inbox!SendFails, InboxInv, Inbox!TypeOK
  <1>12. CASE UNCHANGED inbox
    BY <1>0, <1>12 DEF inbox, InboxInv, Inbox!TypeOK
  <1> QED
    BY <1>1, <1>2, <1>3, <1>4, <1>5, <1>6, <1>7, <1>8, <1>9, <1>10, <1>11, <1>12 DEF Inbox!Next

(* What is shown is of one conversation, and its first message is of the one selected. *)
LEMMA InboxShows ==
    ASSUME InboxInv
    PROVE  Inbox!ShownBelong
  <1>1. messages.data \in Seq(Inbox!Message)
    BY DEF InboxInv, Inbox!TypeOK
  <1> QED
    BY <1>1 DEF InboxInv, Inbox!ShownBelong, Inbox!messagesReady, Inbox!isMessagesDataForConversation, OfOneConversation

-----------------------------------------------------------------------------
(* The inbox of the demo *)

\* Who is attended in a copy of the inbox is assigned.
CopyIsCoherent(copy) ==
    \A c \in DemoConversations :
        copy[c].state = "HUMANO_ATENDENDO" => copy[c].assigned # None

\* The copies of the tabs are inboxes, and in none is a conversation attended by no one.
DemoInv ==
    /\ Demo!TypeOK
    /\ stored # None => CopyIsCoherent(stored)
    /\ \A t \in Tabs : memory[t] # None => CopyIsCoherent(memory[t])

\* What was answered last is what the copy has.
Agrees(copy) ==
    \A c \in DemoConversations :
        /\ copy[c].state = told[c].state /\ copy[c].assigned = told[c].assigned
        /\ copy[c].messages = told[c].messages

\* The only tab: its copy and the stored one are as the user was told.
OnlyTabInv(t) == Agrees(Demo!loadInboxState) /\ Agrees(Demo!inboxState(t))

(* The fixtures are an inbox in order. *)
LEMMA InitialInbox ==
    Demo!inboxInitial \in Demo!Inbox /\ CopyIsCoherent(Demo!inboxInitial)
  <1> DEFINE F == Demo!Fixtures
  <1>0. /\ DemoConversations \subseteq Demo!FixtureIds
        /\ {"demo-user", "demo-agent-bruna"} \subseteq DemoUsers
        /\ None \notin DemoUsers
        /\ MaxDemoTime \in Nat /\ 5 <= MaxDemoTime
    BY WebAssumption DEF Demo!DemoInboxAssumption
  <1>1. ASSUME NEW s \in Demo!States, NEW a \in DemoUsers \cup {None}, NEW k \in Nat, NEW rank \in 0..5
        PROVE  /\ Demo!Fixture(s, a, k, rank) \in Demo!Row
               /\ Demo!Fixture(s, a, k, rank).state = s
               /\ Demo!Fixture(s, a, k, rank).assigned = a
    <2>1. rank \in 0..MaxDemoTime
      BY <1>0
    <2> DEFINE ms == [n \in 1..k |-> [n |-> n, at |-> rank]]
    <2>2. \A n \in 1..k : [n |-> n, at |-> rank] \in Demo!Message
      BY <2>1 DEF Demo!Message
    <2>3. ms \in Seq(Demo!Message)
      BY <2>2
    <2>4. Demo!Fixture(s, a, k, rank) = [state |-> s, assigned |-> a, lastMessageAt |-> rank, updatedAt |-> rank,
            messages |-> ms]
      BY DEF Demo!Fixture
    <2> HIDE DEF ms
    <2> QED
      BY <2>1, <2>3, <2>4 DEF Demo!Row
  <1>2. \A c \in Demo!FixtureIds :
           /\ F[c] \in Demo!Row
           /\ F[c].state = "HUMANO_ATENDENDO" => F[c].assigned # None
    <2> SUFFICES ASSUME NEW c \in Demo!FixtureIds
                 PROVE  /\ F[c] \in Demo!Row
                        /\ F[c].state = "HUMANO_ATENDENDO" => F[c].assigned # None
      OBVIOUS
    <2>1. CASE c = "demo-conv-1"
      BY <2>1, <1>0, <1>1 DEF Demo!Fixtures, Demo!States, Demo!Open
    <2>2. CASE c = "demo-conv-2"
      BY <2>2, <1>0, <1>1 DEF Demo!Fixtures, Demo!States, Demo!Open
    <2>3. CASE c = "demo-conv-3"
      BY <2>3, <1>0, <1>1 DEF Demo!Fixtures, Demo!States, Demo!Open
    <2>4. CASE c = "demo-conv-4"
      BY <2>4, <1>0, <1>1 DEF Demo!Fixtures, Demo!States, Demo!Open
    <2> QED
      BY <2>1, <2>2, <2>3, <2>4 DEF Demo!FixtureIds
  <1>3. Demo!inboxInitial = [c \in DemoConversations |-> F[c]]
    BY DEF Demo!inboxInitial
  <1> HIDE DEF F
  <1> QED
    BY <1>0, <1>2, <1>3 DEF Demo!Inbox, CopyIsCoherent

(* A request that is accepted leaves a row in order. *)
LEMMA ChangedIsRow ==
    ASSUME now \in 0..MaxDemoTime,
           NEW row \in Demo!Row, NEW r \in Demo!Writes, Demo!Accepts(row, r),
           row.state = "HUMANO_ATENDENDO" => row.assigned # None
    PROVE  LET new == Demo!Changed(row, r) IN
           /\ new \in Demo!Row
           /\ new.state = "HUMANO_ATENDENDO" => new.assigned # None
  <1> DEFINE new == Demo!Changed(row, r)
  <1>0. None \notin DemoUsers
    BY WebAssumption DEF Demo!DemoInboxAssumption
  <1>1. CASE r.op = "messages"
    <2> DEFINE ms == Append(row.messages, [n |-> Len(row.messages) + 1, at |-> now])
    <2>1. row.messages \in Seq(Demo!Message)
      BY DEF Demo!Row
    <2>2. [n |-> Len(row.messages) + 1, at |-> now] \in Demo!Message
      BY <2>1 DEF Demo!Message
    <2>3. ms \in Seq(Demo!Message)
      BY <2>1, <2>2
    <2>4. new = [row EXCEPT !.messages = ms, !.lastMessageAt = now, !.updatedAt = now]
      BY <1>1 DEF Demo!Changed, Demo!Post, Demo!Row
    <2> HIDE DEF ms, new
    <2>5. \A m \in Seq(Demo!Message) :
            LET x == [row EXCEPT !.messages = m, !.lastMessageAt = now, !.updatedAt = now]
            IN  /\ x \in Demo!Row
                /\ x.state = row.state /\ x.assigned = row.assigned
      BY DEF Demo!Row
    <2> QED
      BY <2>3, <2>4, <2>5 DEF new
  <1>2. CASE r.op = "state"
    <2>1. r.target \in Demo!States /\ r.target # "HUMANO_ATENDENDO"
      BY <1>2 DEF Demo!Writes, Demo!Accepts, Demo!States, Demo!Open, Demo!INBOX_STATE_TRANSITIONS, Demo!Row
    <2> QED
      BY <1>2, <2>1 DEF Demo!Changed, Demo!Row
  <1>3. CASE r.op = "assign"
    <2>1. r.user \in DemoUsers
      BY <1>3 DEF Demo!Writes
    <2> QED
      BY <1>0, <1>3, <2>1 DEF Demo!Changed, Demo!Row, Demo!States, Demo!Open
  <1>4. CASE r.op = "unassign"
    BY <1>4 DEF Demo!Changed, Demo!unassign, Demo!Row, Demo!States, Demo!Open
  <1> QED
    BY <1>1, <1>2, <1>3, <1>4 DEF Demo!Writes

(* Whatever copy a request is handled on, it is an inbox in order. *)
LEMMA CopiesAreInboxes ==
    ASSUME DemoInv, NEW t \in Tabs
    PROVE  /\ Demo!loadInboxState \in Demo!Inbox /\ CopyIsCoherent(Demo!loadInboxState)
           /\ Demo!inboxState(t) \in Demo!Inbox /\ CopyIsCoherent(Demo!inboxState(t))
  BY InitialInbox DEF DemoInv, Demo!TypeOK, Demo!loadInboxState, Demo!inboxState

(* No tab has a copy of its own yet. *)
LEMMA DemoStarts ==
    ASSUME Demo!Init
    PROVE  DemoInv
  <1>1. queue = [t \in Tabs |-> <<>>] /\ 0 <= MaxQueue /\ 5 \in 0..MaxDemoTime
    BY WebAssumption DEF Demo!Init, Demo!DemoInboxAssumption
  <1> QED
    BY <1>1, InitialInbox DEF Demo!Init, DemoInv, Demo!TypeOK

\* The oldest delayed request is one of the user's, and the rest stays in the queue.
LEMMA HeadIsTaken ==
    ASSUME Demo!TypeOK, NEW t \in Tabs, queue[t] # <<>>
    PROVE  /\ Head(queue[t]) \in Demo!Writes \cup Demo!Reads
           /\ Demo!Taken(t) => /\ queue' \in [Tabs -> Seq(Demo!Writes \cup Demo!Reads)]
                               /\ \A u \in Tabs : Len(queue'[u]) <= MaxQueue
           /\ Head(queue[t]).op # "page" => Head(queue[t]) \in Demo!Writes
           /\ Head(queue[t]).conv \in DemoConversations
  <1> DEFINE R == Demo!Writes \cup Demo!Reads
  <1>1. \A r \in R : r.conv \in DemoConversations /\ (r.op # "page" => r \in Demo!Writes)
    BY DEF Demo!Writes, Demo!Reads
  <1>2. queue \in [Tabs -> Seq(R)] /\ \A u \in Tabs : Len(queue[u]) <= MaxQueue
    BY DEF Demo!TypeOK
  <1> HIDE DEF R
  <1>3. MaxQueue \in Nat
    BY WebAssumption DEF Demo!DemoInboxAssumption
  <1>4. /\ Head(queue[t]) \in R
        /\ Tail(queue[t]) \in Seq(R) /\ Len(Tail(queue[t])) <= MaxQueue
    BY <1>2, <1>3
  <1>5. ASSUME Demo!Taken(t)
        PROVE  queue' \in [Tabs -> Seq(R)] /\ \A u \in Tabs : Len(queue'[u]) <= MaxQueue
    BY <1>2, <1>4, <1>5 DEF Demo!Taken, Demo!TypeOK
  <1> QED
    BY <1>1, <1>4, <1>5 DEF R

(* Every step of any tab keeps the copies in order. *)
LEMMA DemoKeeps ==
    ASSUME DemoInv, [Demo!Next]_<<now, demo>>
    PROVE  DemoInv'
  <1>0. /\ Demo!TypeOK /\ now \in 0..MaxDemoTime
        /\ stored # None => CopyIsCoherent(stored)
        /\ \A t \in Tabs : memory[t] # None => CopyIsCoherent(memory[t])
        /\ MaxQueue \in Nat /\ MaxDemoTime \in Nat
    BY WebAssumption DEF DemoInv, Demo!TypeOK, Demo!DemoInboxAssumption
  <1>1. ASSUME NEW t \in Tabs, Demo!Ask(t)
        PROVE  DemoInv'
    <2>1. /\ queue' \in [Tabs -> Seq(Demo!Writes \cup Demo!Reads)]
          /\ \A u \in Tabs : Len(queue'[u]) <= MaxQueue
      BY <1>0, <1>1 DEF Demo!Ask, Demo!TypeOK
    <2> QED
      BY <1>0, <1>1, <2>1 DEF Demo!Ask, DemoInv, Demo!TypeOK, CopyIsCoherent
  <1>2. ASSUME NEW t \in Tabs, Demo!Write(t)
        PROVE  DemoInv'
    <2> DEFINE r == Head(queue[t])
               copy == Demo!inboxState(t)
               new == Demo!Changed(copy[r.conv], r)
               next == [copy EXCEPT ![r.conv] = new]
    <2>1. r \in Demo!Writes /\ r.conv \in DemoConversations
      BY <1>0, <1>2, HeadIsTaken DEF Demo!Write
    <2>2. copy \in Demo!Inbox /\ CopyIsCoherent(copy)
      BY CopiesAreInboxes
    <2>3. /\ new \in Demo!Row
          /\ new.state = "HUMANO_ATENDENDO" => new.assigned # None
      <3>1. /\ copy[r.conv] \in Demo!Row /\ Demo!Accepts(copy[r.conv], r)
            /\ copy[r.conv].state = "HUMANO_ATENDENDO" => copy[r.conv].assigned # None
        BY <1>2, <2>1, <2>2 DEF Demo!Write, Demo!Inbox, CopyIsCoherent
      <3> HIDE DEF r, copy
      <3> QED
        BY <1>0, <2>1, <3>1, ChangedIsRow
    <2>4. /\ memory' = [memory EXCEPT ![t] = next] /\ stored' = next
          /\ told' = [told EXCEPT ![r.conv] =
                        [new EXCEPT !.messages =
                           IF r.op = "messages" THEN Append(told[r.conv].messages, Demo!Last(new.messages))
                                                ELSE told[r.conv].messages]]
          /\ now' = now + 1 /\ now < MaxDemoTime /\ Demo!Taken(t) /\ queue[t] # <<>>
          /\ r.op = "messages" => new = Demo!Post(copy[r.conv])
      BY <1>2, Zenon DEF Demo!Write, Demo!inboxSave, Demo!Changed
    <2>5. r.op = "messages" => Demo!Last(new.messages) \in Demo!Message
      <3>1. copy[r.conv] \in Demo!Row
        BY <2>1, <2>2 DEF Demo!Inbox
      <3>2. /\ copy[r.conv].messages \in Seq(Demo!Message)
            /\ [n |-> Len(copy[r.conv].messages) + 1, at |-> now] \in Demo!Message
        BY <1>0, <3>1 DEF Demo!Row, Demo!Message
      <3>3. r.op = "messages" =>
              new.messages = Append(copy[r.conv].messages, [n |-> Len(copy[r.conv].messages) + 1, at |-> now])
        BY <2>4, <3>1 DEF Demo!Post, Demo!Row
      <3> HIDE DEF new, copy, r
      <3> QED
        BY <3>2, <3>3 DEF Demo!Last
    <2> HIDE DEF r, copy, new
    <2>6. next \in Demo!Inbox /\ CopyIsCoherent(next)
      BY <2>1, <2>2, <2>3 DEF Demo!Inbox, CopyIsCoherent
    <2>7. told' \in Demo!Inbox
      <3>1. told \in [DemoConversations -> Demo!Row] /\ told[r.conv].messages \in Seq(Demo!Message)
        BY <1>0, <2>1 DEF Demo!TypeOK, Demo!Inbox, Demo!Row
      <3>2. \A ms \in Seq(Demo!Message) : [new EXCEPT !.messages = ms] \in Demo!Row
        BY <2>3 DEF Demo!Row
      <3>3. (IF r.op = "messages" THEN Append(told[r.conv].messages, Demo!Last(new.messages))
                                  ELSE told[r.conv].messages) \in Seq(Demo!Message)
        BY <2>5, <3>1
      <3> QED
        BY <2>4, <3>1, <3>2, <3>3 DEF Demo!Inbox
    <2> HIDE DEF next
    <2>8. /\ memory' \in [Tabs -> Demo!Inbox \cup {None}]
          /\ \A u \in Tabs : memory'[u] # None => CopyIsCoherent(memory'[u])
      BY <1>0, <2>4, <2>6 DEF Demo!TypeOK
    <2>9. now' \in 0..MaxDemoTime
      BY <1>0, <2>4
    <2>10. /\ queue' \in [Tabs -> Seq(Demo!Writes \cup Demo!Reads)]
          /\ \A u \in Tabs : Len(queue'[u]) <= MaxQueue
      BY <1>0, <2>4, HeadIsTaken
    <2>11. stored' \in Demo!Inbox \cup {None} /\ (stored' # None => CopyIsCoherent(stored'))
      BY <2>4, <2>6
    <2>12. Demo!TypeOK'
      BY <1>0, <2>4, <2>7, <2>8, <2>9, <2>10, <2>11 DEF Demo!TypeOK
    <2> QED
      BY <2>8, <2>11, <2>12 DEF DemoInv, CopyIsCoherent
  <1>3. ASSUME NEW t \in Tabs, Demo!Refuse(t) \/ Demo!ReadPage(t)
        PROVE  DemoInv'
    <2>1. /\ memory' = [memory EXCEPT ![t] = Demo!inboxState(t)] /\ Demo!Taken(t)
          /\ queue[t] # <<>> /\ UNCHANGED <<now, stored, told>>
      BY <1>3, Zenon DEF Demo!Refuse, Demo!ReadPage
    <2>2. Demo!inboxState(t) \in Demo!Inbox /\ CopyIsCoherent(Demo!inboxState(t))
      BY CopiesAreInboxes
    <2>3. /\ memory' \in [Tabs -> Demo!Inbox \cup {None}]
          /\ \A u \in Tabs : memory'[u] # None => CopyIsCoherent(memory'[u])
      BY <1>0, <2>1, <2>2 DEF Demo!TypeOK
    <2>4. /\ queue' \in [Tabs -> Seq(Demo!Writes \cup Demo!Reads)]
          /\ \A u \in Tabs : Len(queue'[u]) <= MaxQueue
      BY <1>0, <2>1, HeadIsTaken
    <2> QED
      BY <1>0, <2>1, <2>3, <2>4 DEF DemoInv, Demo!TypeOK, CopyIsCoherent
  <1>4. ASSUME NEW t \in Tabs, Demo!Reload(t) \/ Demo!resetDemo(t)
        PROVE  DemoInv'
    <2>1. /\ memory' = [memory EXCEPT ![t] = None] /\ queue' = [queue EXCEPT ![t] = <<>>]
          /\ UNCHANGED now
          /\ \/ UNCHANGED <<stored, told>>
             \/ stored' = Demo!inboxInitial /\ told' = Demo!inboxInitial
      BY <1>4 DEF Demo!Reload, Demo!resetDemo, Demo!Gone
    <2>2. /\ memory' \in [Tabs -> Demo!Inbox \cup {None}]
          /\ \A u \in Tabs : memory'[u] # None => CopyIsCoherent(memory'[u])
      BY <1>0, <2>1 DEF Demo!TypeOK
    <2>3. /\ queue' \in [Tabs -> Seq(Demo!Writes \cup Demo!Reads)]
          /\ \A u \in Tabs : Len(queue'[u]) <= MaxQueue
      BY <1>0, <2>1 DEF Demo!TypeOK
    <2>4. /\ stored' \in Demo!Inbox \cup {None} /\ told' \in Demo!Inbox
          /\ stored' # None => CopyIsCoherent(stored')
      BY <1>0, <2>1, InitialInbox DEF Demo!TypeOK
    <2> QED
      BY <1>0, <2>1, <2>2, <2>3, <2>4 DEF DemoInv, Demo!TypeOK, CopyIsCoherent
  <1>5. CASE UNCHANGED <<now, demo>>
    BY <1>0, <1>5 DEF demo, DemoInv, Demo!TypeOK, CopyIsCoherent
  <1> QED
    BY <1>1, <1>2, <1>3, <1>4, <1>5 DEF Demo!Next

(* The tab starts from the fixtures, as the user was told. *)
LEMMA OnlyTabStarts ==
    ASSUME Demo!Init, NEW t, Tabs = {t}
    PROVE  OnlyTabInv(t)
  BY DEF Demo!Init, OnlyTabInv, Agrees, Demo!loadInboxState, Demo!inboxState

\* An action of the only tab is answered as its copy has it, and the API's table allows it.
LEMMA WriteOfTheOnlyTab ==
    ASSUME DemoInv, NEW t, Tabs = {t}, OnlyTabInv(t), Demo!Write(t)
    PROVE  OnlyTabInv(t)' /\ Demo!ActsLikeTheApi
  <1> DEFINE r == Head(queue[t])
             copy == Demo!inboxState(t)
             row == copy[r.conv]
             new == Demo!Changed(row, r)
             next == [copy EXCEPT ![r.conv] = new]
             ms == IF r.op = "messages" THEN Append(told[r.conv].messages, Demo!Last(new.messages))
                                        ELSE told[r.conv].messages
  <1>1. t \in Tabs /\ Demo!TypeOK /\ queue[t] # <<>>
    BY DEF DemoInv, Demo!Write
  <1>2. r \in Demo!Writes /\ r.conv \in DemoConversations
    BY <1>1, HeadIsTaken DEF Demo!Write
  <1>3. /\ copy \in Demo!Inbox /\ Agrees(copy) /\ Demo!Accepts(row, r)
        /\ now \in 0..MaxDemoTime /\ told \in Demo!Inbox
        /\ row.state = "HUMANO_ATENDENDO" => row.assigned # None
    BY <1>1, <1>2, CopiesAreInboxes DEF OnlyTabInv, Demo!Write, DemoInv, Demo!TypeOK, CopyIsCoherent
  <1>4. memory' = [memory EXCEPT ![t] = next] /\ stored' = next
        /\ told' = [told EXCEPT ![r.conv] = [new EXCEPT !.messages = ms]]
    BY DEF Demo!Write, Demo!inboxSave
  <1>5. row \in Demo!Row /\ row.messages \in Seq(Demo!Message)
        /\ row.state = told[r.conv].state /\ row.assigned = told[r.conv].assigned
        /\ row.messages = told[r.conv].messages
    BY <1>2, <1>3 DEF Demo!Inbox, Demo!Row, Agrees
  <1>6. new \in Demo!Row
    <2> HIDE DEF r, row
    <2> QED
      BY <1>2, <1>3, <1>5, ChangedIsRow
  <1>7. new.messages = ms
    <2>1. CASE r.op = "messages"
      <3> DEFINE m == [n |-> Len(row.messages) + 1, at |-> now]
      <3>1. new.messages = Append(row.messages, m)
        BY <1>5, <2>1 DEF Demo!Changed, Demo!Post, Demo!Row
      <3>2. m \in Demo!Message
        BY <1>3, <1>5 DEF Demo!Message
      <3> HIDE DEF m, row, r, new
      <3>3. Demo!Last(new.messages) = m
        BY <1>5, <3>1, <3>2 DEF Demo!Last
      <3> QED
        BY <1>5, <2>1, <3>1, <3>3
    <2>2. CASE r.op # "messages"
      <3>1. new.messages = row.messages
        BY <1>2, <1>5, <2>2 DEF Demo!Changed, Demo!unassign, Demo!Row, Demo!Writes
      <3> HIDE DEF row, r, new
      <3> QED
        BY <1>5, <2>2, <3>1
    <2> QED
      BY <2>1, <2>2
  <1>8. \/ new.state = row.state
        \/ r.op = "state" /\ new.state = r.target /\ r.target \in Demo!INBOX_STATE_TRANSITIONS[row.state]
        \/ new.state = "HUMANO_ATENDENDO" /\ row.state \in Demo!Open
        \/ /\ row.assigned # None /\ new.assigned = None
           /\ row.state = "HUMANO_ATENDENDO" /\ new.state = "AGUARDANDO_HUMANO"
    <2>1. CASE r.op = "messages"
      BY <1>5, <2>1 DEF Demo!Changed, Demo!Post, Demo!Row
    <2>2. CASE r.op = "state"
      BY <1>3, <1>5, <2>2 DEF Demo!Changed, Demo!Accepts, Demo!Row
    <2>3. CASE r.op = "assign"
      BY <1>3, <1>5, <2>3 DEF Demo!Changed, Demo!Accepts, Demo!Row, Demo!States
    <2>4. CASE r.op = "unassign"
      BY <1>3, <1>5, <2>4 DEF Demo!Changed, Demo!Accepts, Demo!unassign, Demo!Row
    <2> QED
      BY <1>2, <2>1, <2>2, <2>3, <2>4 DEF Demo!Writes
  <1>9. next \in Demo!Inbox
    <2> HIDE DEF r, copy, new
    <2> QED
      BY <1>2, <1>3, <1>6 DEF Demo!Inbox
  <1>10. \A c \in DemoConversations :
            /\ next[c].state = told'[c].state /\ next[c].assigned = told'[c].assigned
            /\ next[c].messages = told'[c].messages
            /\ c # r.conv => told'[c] = told[c]
            /\ c = r.conv => told'[c].state = new.state /\ told'[c].assigned = new.assigned
    <2>1. LET x == [new EXCEPT !.messages = ms]
          IN  x.state = new.state /\ x.assigned = new.assigned /\ x.messages = ms
      <3> HIDE DEF new, ms
      <3> QED
        BY <1>6 DEF Demo!Row
    <2> HIDE DEF r, copy, new, ms
    <2> QED
      BY <1>2, <1>3, <1>4, <1>7, <2>1 DEF Demo!Inbox, Agrees
  <1>11. OnlyTabInv(t)'
    <2>1. next # None
      BY <1>9, WebAssumption DEF Demo!DemoInboxAssumption
    <2>2. memory'[t] = next
      <3> HIDE DEF next
      <3> QED
        BY <1>1, <1>4 DEF Demo!TypeOK
    <2> HIDE DEF next
    <2>3. Demo!loadInboxState' = next /\ Demo!inboxState(t)' = next
      BY <1>4, <2>1, <2>2 DEF Demo!loadInboxState, Demo!inboxState
    <2> QED
      BY <1>10, <2>3 DEF OnlyTabInv, Agrees
  <1>12. Demo!ActsLikeTheApi
    <2> SUFFICES ASSUME NEW c \in DemoConversations, told[c].state # told'[c].state
                 PROVE  \/ told'[c].state \in Demo!API!ALLOWED_TRANSITIONS[told[c].state]
                        \/ told'[c].state = "HUMANO_ATENDENDO" /\ told[c].state \in Demo!API!Open
                        \/ /\ told[c].assigned # None /\ told'[c].assigned = None
                           /\ told'[c].state = Demo!API!ReleasedState(told[c].state)
      BY DEF Demo!ActsLikeTheApi
    <2>1. c = r.conv
      BY <1>10
    <2>2. told'[c].state = new.state /\ told'[c].assigned = new.assigned
      BY <1>10, <2>1
    <2>3. row.state = told[c].state /\ row.assigned = told[c].assigned
      BY <1>5, <2>1
    <2> HIDE DEF r, copy, row, new
    <2>4. row.state \in Demo!States
      BY <1>5 DEF Demo!Row
    <2>5. \A s \in Demo!States : Demo!INBOX_STATE_TRANSITIONS[s] \subseteq Demo!API!ALLOWED_TRANSITIONS[s]
      BY DEF Demo!States, Demo!Open, Demo!INBOX_STATE_TRANSITIONS, Demo!API!ALLOWED_TRANSITIONS
    <2> QED
      BY <1>8, <2>2, <2>3, <2>4, <2>5 DEF Demo!Open, Demo!API!Open, Demo!API!ReleasedState
  <1> QED
    BY <1>11, <1>12

(* Reloads and resets included, the only tab has what the user was told. *)
LEMMA OnlyTabKeeps ==
    ASSUME DemoInv, NEW t, Tabs = {t}, OnlyTabInv(t), [Demo!Next]_<<now, demo>>
    PROVE  OnlyTabInv(t)' /\ Demo!ActsLikeTheApi
  <1>0. t \in Tabs /\ DOMAIN memory = Tabs
    BY DEF DemoInv, Demo!TypeOK
  <1>1. CASE Demo!Write(t)
    BY <1>1, WriteOfTheOnlyTab
  <1>2. CASE Demo!Ask(t) \/ UNCHANGED <<now, demo>>
    BY <1>2 DEF Demo!Ask, demo, OnlyTabInv, Agrees, Demo!loadInboxState, Demo!inboxState, Demo!ActsLikeTheApi
  <1>3. CASE Demo!Refuse(t) \/ Demo!ReadPage(t)
    <2>1. memory' = [memory EXCEPT ![t] = Demo!inboxState(t)] /\ UNCHANGED <<stored, told>>
      BY <1>3, Zenon DEF Demo!Refuse, Demo!ReadPage
    <2>2. Demo!inboxState(t)' = Demo!inboxState(t) \/ Demo!inboxState(t)' = Demo!loadInboxState
      BY <2>1 DEF Demo!inboxState, Demo!loadInboxState
    <2> QED
      BY <2>1, <2>2 DEF OnlyTabInv, Agrees, Demo!loadInboxState, Demo!ActsLikeTheApi
  <1>4. CASE Demo!Reload(t) \/ Demo!resetDemo(t)
    <2>1. /\ memory' = [memory EXCEPT ![t] = None]
          /\ \/ UNCHANGED <<stored, told>>
             \/ stored' = Demo!inboxInitial /\ told' = Demo!inboxInitial
      BY <1>4 DEF Demo!Reload, Demo!resetDemo, Demo!Gone
    <2>2. memory'[t] = None
      BY <2>1, <1>0
    <2>3. /\ Demo!inboxState(t)' = Demo!loadInboxState'
          /\ \/ UNCHANGED told /\ Demo!loadInboxState' = Demo!loadInboxState
             \/ told' = Demo!inboxInitial /\ Demo!loadInboxState' = Demo!inboxInitial
      BY <2>1, <2>2 DEF Demo!inboxState, Demo!loadInboxState
    <2> QED
      BY <2>3 DEF OnlyTabInv, Agrees, Demo!ActsLikeTheApi
  <1> QED
    BY <1>1, <1>2, <1>3, <1>4 DEF Demo!Next

-----------------------------------------------------------------------------
(* The summary of the first page *)

\* The rows of a table.
Present(table) == Summary!There(table)

\* The tables are typed, have finitely many rows, and a follow-up has its lead.
TablesInv ==
    /\ now \in Summary!Times
    /\ lead \in [Leads -> Summary!Lead \cup {None}]
    /\ followUp \in [FollowUps -> Summary!FollowUp \cup {None}]
    /\ event \in [Events -> Summary!Event \cup {None}]
    /\ \A f \in FollowUps : followUp[f] # None => lead[followUp[f].lead] \in Summary!Lead
    /\ IsFiniteSet(Present(lead)) /\ IsFiniteSet(Present(followUp)) /\ IsFiniteSet(Present(event))

(* The cardinality of the module of the summary is that of the library. *)
LEMMA SameCardinality == \A S : Summary!Cardinality(S) = Cardinality(S)
  BY DEF Cardinality, Summary!Cardinality, IsFiniteSet, Summary!IsFiniteSet

\* One more row at most.
LEMMA OneMoreRow ==
    ASSUME NEW S, NEW V, NEW table \in [S -> V], NEW new \in [S -> V], NEW x,
           \A y \in S : y # x => new[y] = table[y],
           IsFiniteSet(Present(table))
    PROVE  IsFiniteSet(Present(new))
  <1>1. Present(new) \subseteq Present(table) \cup {x}
    BY DEF Present, Summary!There
  <1> QED
    BY <1>1, FS_AddElement, FS_Subset

\* Every write keeps the tables in order.
LEMMA WritesKeepTables ==
    ASSUME TablesInv, Summary!OthersWrite
    PROVE  TablesInv'
  <1> DEFINE L == Summary!Lead
             F == Summary!FollowUp
             E == Summary!Event
  <1>0. /\ now \in Summary!Times /\ UNCHANGED now
        /\ lead \in [Leads -> L \cup {None}]
        /\ followUp \in [FollowUps -> F \cup {None}]
        /\ event \in [Events -> E \cup {None}]
        /\ \A f \in FollowUps : followUp[f] # None => lead[followUp[f].lead] \in L
        /\ IsFiniteSet(Present(lead)) /\ IsFiniteSet(Present(followUp)) /\ IsFiniteSet(Present(event))
    BY DEF TablesInv, Summary!OthersWrite, Summary!Commits
  <1>1. ASSUME NEW l \in Leads, NEW r \in L, lead' = [lead EXCEPT ![l] = r]
        PROVE  /\ lead' \in [Leads -> L \cup {None}] /\ IsFiniteSet(Present(lead'))
               /\ \A k \in Leads : lead[k] \in L => lead'[k] \in L
    <2> HIDE DEF L
    <2>1. /\ lead' \in [Leads -> L \cup {None}]
          /\ \A k \in Leads : lead[k] \in L => lead'[k] \in L
          /\ \A k \in Leads : k # l => lead'[k] = lead[k]
      BY <1>0, <1>1
    <2> QED
      BY <1>0, <2>1, OneMoreRow, Zenon
  <1>2. ASSUME NEW l \in Leads, lead[l] # None, lead' = Summary!Touched(l)
        PROVE  /\ lead' \in [Leads -> L \cup {None}] /\ IsFiniteSet(Present(lead'))
               /\ \A k \in Leads : lead[k] \in L => lead'[k] \in L
    <2>1. lead' = [lead EXCEPT ![l] = [lead[l] EXCEPT !.updatedAt = now]]
      BY <1>2 DEF Summary!Touched
    <2>2. [lead[l] EXCEPT !.updatedAt = now] \in L
      BY <1>0, <1>2 DEF Summary!Lead
    <2> HIDE DEF L
    <2> QED
      BY <1>1, <2>1, <2>2
  <1>3. ASSUME NEW l \in Leads, Summary!createLead(l)
        PROVE  TablesInv'
    <2>1. PICK s \in Summary!Stages :
             lead' = [lead EXCEPT ![l] = [status |-> "OPEN", stage |-> s, createdAt |-> now,
                                          updatedAt |-> now, wonAt |-> None]]
      BY <1>3 DEF Summary!createLead
    <2>2. [status |-> "OPEN", stage |-> s, createdAt |-> now,
           updatedAt |-> now, wonAt |-> None] \in L
      BY <1>0 DEF Summary!Lead
    <2>3. UNCHANGED <<followUp, event>>
      BY <1>3 DEF Summary!createLead
    <2> HIDE DEF L
    <2>4. /\ lead' \in [Leads -> L \cup {None}] /\ IsFiniteSet(Present(lead'))
          /\ \A k \in Leads : lead[k] \in L => lead'[k] \in L
      BY <1>1, <2>1, <2>2
    <2>5. \A f \in FollowUps : followUp'[f] # None => lead'[followUp'[f].lead] \in L
      BY <1>0, <2>3, <2>4 DEF Summary!FollowUp
    <2> QED
      BY <1>0, <2>3, <2>4, <2>5 DEF TablesInv, L, Present
  <1>4. ASSUME NEW l \in Leads, lead[l] # None, UNCHANGED <<followUp, event>>,
               NEW r \in L, lead' = [lead EXCEPT ![l] = r]
        PROVE  TablesInv'
    <2> HIDE DEF L
    <2>1. /\ lead' \in [Leads -> L \cup {None}] /\ IsFiniteSet(Present(lead'))
          /\ \A k \in Leads : lead[k] \in L => lead'[k] \in L
      BY <1>1, <1>4
    <2>2. \A f \in FollowUps : followUp'[f] # None => lead'[followUp'[f].lead] \in L
      BY <1>0, <1>4, <2>1 DEF Summary!FollowUp
    <2> QED
      BY <1>0, <1>4, <2>1, <2>2 DEF TablesInv, L, Present
  <1>5. ASSUME NEW l \in Leads, NEW result \in {"OPEN", "WON", "LOST"}, Summary!updateStatus(l, result)
        PROVE  TablesInv'
    <2> DEFINE won == IF result # "WON" THEN None ELSE IF lead[l].status = "WON" THEN lead[l].wonAt ELSE now
               r == [lead[l] EXCEPT !.updatedAt = now, !.status = result, !.wonAt = won]
    <2>1. lead[l] \in L /\ lead[l] # None
      BY <1>0, <1>5 DEF Summary!updateStatus
    <2>2. r \in L
      <3>1. won \in Summary!Times \cup {None}
        BY <1>0, <2>1 DEF Summary!Lead
      <3> HIDE DEF won
      <3>2. \A w \in Summary!Times \cup {None} :
               [lead[l] EXCEPT !.updatedAt = now, !.status = result, !.wonAt = w] \in L
        BY <1>0, <2>1 DEF Summary!Lead
      <3> QED
        BY <3>1, <3>2, Zenon
    <2>3. lead' = [lead EXCEPT ![l] = r]
      BY <1>0, <1>5, <2>1 DEF Summary!updateStatus, Summary!Touched, Summary!Lead
    <2>4. UNCHANGED <<followUp, event>>
      BY <1>5 DEF Summary!updateStatus
    <2> HIDE DEF L, r
    <2> QED
      BY <1>4, <2>1, <2>2, <2>3, <2>4
  <1>6. ASSUME NEW l \in Leads, NEW s \in Summary!Stages, Summary!moveStage(l, s)
        PROVE  TablesInv'
    <2> DEFINE r == [lead[l] EXCEPT !.updatedAt = now, !.stage = s]
    <2>1. lead[l] \in L /\ lead[l] # None
      BY <1>0, <1>6 DEF Summary!moveStage
    <2>2. r \in L
      BY <1>0, <2>1 DEF Summary!Lead
    <2>3. lead' = [lead EXCEPT ![l] = r]
      BY <1>0, <1>6, <2>1 DEF Summary!moveStage, Summary!Touched, Summary!Lead
    <2>4. UNCHANGED <<followUp, event>>
      BY <1>6 DEF Summary!moveStage
    <2> HIDE DEF L, r
    <2> QED
      BY <1>4, <2>1, <2>2, <2>3, <2>4
  <1>7. ASSUME NEW f \in FollowUps, NEW l \in Leads, NEW t \in Summary!Times, Summary!createFollowUp(f, l, t)
        PROVE  TablesInv'
    <2> DEFINE r == [status |-> "PENDING", lead |-> l, scheduledAt |-> t]
    <2>1. r \in F /\ r.lead = l
      BY DEF Summary!FollowUp
    <2>2. /\ followUp' = [followUp EXCEPT ![f] = r] /\ lead' = Summary!Touched(l)
          /\ lead[l] # None /\ UNCHANGED event
      BY <1>7 DEF Summary!createFollowUp
    <2> HIDE DEF L, F, r
    <2>3. /\ lead' \in [Leads -> L \cup {None}] /\ IsFiniteSet(Present(lead'))
          /\ \A k \in Leads : lead[k] \in L => lead'[k] \in L
      BY <1>2, <2>2
    <2>4. /\ followUp' \in [FollowUps -> F \cup {None}]
          /\ \A g \in FollowUps : g # f => followUp'[g] = followUp[g]
          /\ followUp'[f] = r
      BY <1>0, <2>1, <2>2
    <2>5. IsFiniteSet(Present(followUp'))
      BY <1>0, <2>4, OneMoreRow
    <2>6. \A g \in FollowUps : followUp'[g] # None => lead'[followUp'[g].lead] \in L
      BY <1>0, <2>1, <2>2, <2>3, <2>4 DEF F, Summary!FollowUp
    <2> QED
      BY <1>0, <2>2, <2>3, <2>4, <2>5, <2>6 DEF TablesInv, L, F, Present
  <1>8. ASSUME NEW f \in FollowUps, Summary!completeFollowUp(f)
        PROVE  TablesInv'
    <2> DEFINE r == [followUp[f] EXCEPT !.status = "COMPLETED"]
               l == followUp[f].lead
    <2>1. followUp[f] \in F /\ followUp[f] # None
      BY <1>0, <1>8 DEF Summary!completeFollowUp
    <2>2. r \in F /\ r.lead = l /\ l \in Leads /\ lead[l] \in L
      BY <1>0, <2>1 DEF Summary!FollowUp
    <2>3. /\ followUp' = [followUp EXCEPT ![f] = r] /\ lead' = Summary!Touched(l) /\ UNCHANGED event
      BY <1>8 DEF Summary!completeFollowUp
    <2>4. lead' = [lead EXCEPT ![l] = [lead[l] EXCEPT !.updatedAt = now]]
      BY <2>3 DEF Summary!Touched
    <2>5. [lead[l] EXCEPT !.updatedAt = now] \in L
      BY <1>0, <2>2 DEF Summary!Lead
    <2> HIDE DEF L, F, r, l
    <2>6. /\ lead' \in [Leads -> L \cup {None}] /\ IsFiniteSet(Present(lead'))
          /\ \A k \in Leads : lead[k] \in L => lead'[k] \in L
      BY <1>1, <2>2, <2>4, <2>5
    <2>7. /\ followUp' \in [FollowUps -> F \cup {None}]
          /\ \A g \in FollowUps : g # f => followUp'[g] = followUp[g]
          /\ followUp'[f] = r
      BY <1>0, <2>2, <2>3
    <2>8. IsFiniteSet(Present(followUp'))
      BY <1>0, <2>7, OneMoreRow
    <2>9. \A g \in FollowUps : followUp'[g] # None => lead'[followUp'[g].lead] \in L
      BY <1>0, <2>2, <2>6, <2>7 DEF F, Summary!FollowUp
    <2> QED
      BY <1>0, <2>3, <2>6, <2>7, <2>8, <2>9 DEF TablesInv, L, F, Present
  <1>9. ASSUME NEW e \in Events, NEW r \in E, event' = [event EXCEPT ![e] = r], UNCHANGED <<lead, followUp>>
        PROVE  TablesInv'
    <2> HIDE DEF E
    <2>1. /\ event' \in [Events -> E \cup {None}]
          /\ \A d \in Events : d # e => event'[d] = event[d]
      BY <1>0, <1>9
    <2>2. IsFiniteSet(Present(event'))
      <3>1. /\ event \in [Events -> E \cup {None}] /\ IsFiniteSet(Present(event))
            /\ event' \in [Events -> E \cup {None}]
        BY <1>0, <2>1
      <3> QED
        BY <2>1, <3>1, OneMoreRow, Zenon
    <2> QED
      BY <1>0, <1>9, <2>1, <2>2 DEF TablesInv, E, Present
  <1>10. ASSUME NEW e \in Events, NEW type \in {"MEETING", "CALL"}, NEW t \in Summary!Times,
                Summary!createEvent(e, type, t)
         PROVE  TablesInv'
    <2>1. [status |-> "SCHEDULED", type |-> type, startsAt |-> t] \in E
      BY DEF Summary!Event
    <2> HIDE DEF E
    <2> QED
      BY <1>9, <1>10, <2>1 DEF Summary!createEvent
  <1>11. ASSUME NEW e \in Events, Summary!cancelEvent(e)
         PROVE  TablesInv'
    <2>1. event[e] \in E
      BY <1>0, <1>11 DEF Summary!cancelEvent
    <2>2. [event[e] EXCEPT !.status = "CANCELED"] \in E
      BY <2>1 DEF Summary!Event
    <2> HIDE DEF E
    <2> QED
      BY <1>9, <1>11, <2>2 DEF Summary!cancelEvent
  <1> HIDE DEF L, F, E
  <1> QED
    BY <1>3, <1>5, <1>6, <1>7, <1>8, <1>10, <1>11 DEF Summary!OthersWrite

(* The leads of a stage can be counted. *)
LEMMA CountsAreNumbers ==
    ASSUME TablesInv
    PROVE  Summary!CountByStage \in [Summary!Stages -> Nat]
  <1>1. \A s : Cardinality({l \in Present(lead) : lead[l].stage = s}) \in Nat
    <2> TAKE s
    <2>1. IsFiniteSet({l \in Present(lead) : lead[l].stage = s})
      BY FS_Subset DEF TablesInv
    <2> QED
      BY <2>1, FS_CardinalityType
  <1> QED
    BY <1>1, SameCardinality DEF Summary!CountByStage, Present

\* A card has its rows, at most RowsOfACard; one that is not full has all of them.
LEMMA RowsOfTheCard ==
    ASSUME NEW S, IsFiniteSet(S), NEW at, NEW P \in Summary!FirstRows(S, at)
    PROVE  /\ P \subseteq S /\ Cardinality(P) <= RowsOfACard
           /\ Cardinality(P) < RowsOfACard => P = S
  <1>1. /\ P \in SUBSET S /\ RowsOfACard \in Nat
        /\ Cardinality(P) = IF Cardinality(S) < RowsOfACard THEN Cardinality(S) ELSE RowsOfACard
    BY SameCardinality, WebAssumption DEF Summary!FirstRows, Summary!DashboardAssumption
  <1>2. Cardinality(S) \in Nat /\ (Cardinality(S) = Cardinality(P) => S = P)
    BY <1>1, FS_CardinalityType, FS_Subset
  <1> QED
    BY <1>1, <1>2

-----------------------------------------------------------------------------
\* What is on the card is still to be done; when it is not full, it is all there is to be
\* done on that day.
CardIsExact(card) ==
    /\ \A f \in card : followUp[f].status = "PENDING"
    /\ Cardinality(card) < RowsOfACard =>
         \A f \in Present(followUp) :
             followUp[f].status = "PENDING" /\ Summary!Today(followUp[f].scheduledAt) => f \in card

\* The queries run in their order: n are left.
QueriesLeft(n) ==
    /\ reading.queries \in Seq(Summary!Figures) /\ Len(reading.queries) = n
    /\ \A i \in 1..n : reading.queries[i] = Summary!Queries[8 - n + i]

\* A summary has every figure, cards that are not overfull, and a count for each stage.
IsSummary(s) ==
    /\ s = [figures |-> s.figures, funnel |-> s.funnel, at |-> s.at]
    /\ DOMAIN s.figures = Summary!Figures
    /\ \A q \in {"followUpRows", "agendaRows"} : Cardinality(s.figures[q]) <= RowsOfACard
    /\ s.funnel \in [Summary!Stages -> Nat]

\* Nothing is read: there is nothing of a summary.
NothingIsRead == reading = Summary!NotReading /\ partial = Summary!NoSummary

\* While it is read, the funnel is of a moment since, and what was read while nobody wrote
\* is as the tables are.
ReadingInv ==
    /\ reading \in [at : Summary!Times, queries : {reading.queries}, funnel : {{}, Summary!FunnelQueries},
                    quiet : BOOLEAN]
    /\ \E n \in 0..8 :
         /\ QueriesLeft(n)
         /\ reading.quiet /\ n <= 1 => CardIsExact(partial.figures["followUpRows"])
    /\ Summary!CountByStage \in moments
    /\ reading.funnel = {} => partial.funnel \in moments
    /\ reading.funnel = {} /\ reading.quiet => partial.funnel = Summary!CountByStage

\* The tables, the page, and what it has read so far.
SummaryInv ==
    /\ TablesInv
    /\ state \in {"closed", "loading", "ready", "error"}
    /\ IsSummary(partial) /\ IsSummary(data)
    /\ IF state = "loading" THEN ReadingInv ELSE NothingIsRead

(* So is one of which nothing was read. *)
LEMMA NoSummaryIsSummary ==
    /\ IsSummary(Summary!NoSummary)
    /\ \A t : IsSummary([Summary!NoSummary EXCEPT !.at = t])
  <1>1. /\ Summary!Nothing = [q \in Summary!Figures |-> IF q \in {"followUpRows", "agendaRows"} THEN {} ELSE 0]
        /\ \A q \in {"followUpRows", "agendaRows"} : q \in Summary!Figures
    BY DEF Summary!Nothing, Summary!Figures, Summary!Queries
  <1>2. \A q \in {"followUpRows", "agendaRows"} : Cardinality(Summary!Nothing[q]) <= RowsOfACard
    BY <1>1, FS_EmptySet, WebAssumption DEF Summary!DashboardAssumption
  <1>3. DOMAIN Summary!Nothing = Summary!Figures
    BY <1>1
  <1> QED
    BY <1>2, <1>3 DEF IsSummary, Summary!NoSummary

(* The tables are empty and the page is closed. *)
LEMMA SummaryStarts ==
    ASSUME Summary!Init
    PROVE  SummaryInv
  <1>1. /\ Present(lead) = {} /\ Present(followUp) = {} /\ Present(event) = {}
    BY DEF Summary!Init, Present, Summary!There
  <1>2. IsFiniteSet(Present(lead)) /\ IsFiniteSet(Present(followUp)) /\ IsFiniteSet(Present(event))
    BY <1>1, FS_EmptySet
  <1>3. now \in Summary!Times
    BY WebAssumption DEF Summary!Init, Summary!Times, Summary!DashboardAssumption
  <1>4. TablesInv
    BY <1>2, <1>3 DEF TablesInv, Summary!Init
  <1> QED
    BY <1>4, NoSummaryIsSummary DEF Summary!Init, SummaryInv, NothingIsRead

(* The type invariant of the model follows. *)
LEMMA SummaryTypes ==
    ASSUME SummaryInv
    PROVE  Summary!TypeOK
  BY SameCardinality DEF SummaryInv, TablesInv, IsSummary, Summary!TypeOK

(* When no query is left, what was read while nobody wrote is exact. *)
LEMMA QuietIsExact ==
    ASSUME SummaryInv
    PROVE  Summary!QuietSummaryIsExact
  <1> SUFFICES ASSUME Summary!Ready, reading.quiet
               PROVE  partial.funnel = Summary!CountByStage /\ CardIsExact(partial.figures["followUpRows"])
    BY SameCardinality DEF Summary!QuietSummaryIsExact, CardIsExact, Present
  <1>1. ReadingInv /\ reading.queries = <<>> /\ reading.funnel = {}
    BY DEF SummaryInv, Summary!Ready
  <1>2. PICK n \in 0..8 : QueriesLeft(n) /\ (n <= 1 => CardIsExact(partial.figures["followUpRows"]))
    BY <1>1 DEF ReadingInv
  <1>3. n = 0
    BY <1>1, <1>2 DEF QueriesLeft
  <1> QED
    BY <1>1, <1>2, <1>3 DEF ReadingInv

(* A write of somebody else ends the quiet, and adds a moment to choose from. *)
LEMMA WritesKeepTheReading ==
    ASSUME SummaryInv, Summary!OthersWrite
    PROVE  SummaryInv'
  <1>1. TablesInv'
    BY WritesKeepTables DEF SummaryInv
  <1>2. /\ UNCHANGED <<state, data, partial>>
        /\ moments' = IF state # "loading" THEN moments ELSE moments \cup {Summary!CountByStage'}
        /\ reading' = IF state # "loading" THEN reading ELSE [reading EXCEPT !.quiet = FALSE]
    BY DEF Summary!OthersWrite, Summary!Commits, Summary!page
  <1>3. CASE state # "loading"
    BY <1>1, <1>2, <1>3 DEF SummaryInv, NothingIsRead, IsSummary
  <1>4. CASE state = "loading"
    <2>0. ReadingInv
      BY <1>4 DEF SummaryInv
    <2>1. /\ reading' \in [at : Summary!Times, queries : {reading.queries},
                           funnel : {{}, Summary!FunnelQueries}, quiet : BOOLEAN]
          /\ reading'.queries = reading.queries /\ reading'.funnel = reading.funnel /\ ~reading'.quiet
      BY <1>2, <1>4, <2>0 DEF ReadingInv
    <2>2. \E n \in 0..8 : QueriesLeft(n)'
      BY <2>0, <2>1 DEF ReadingInv, QueriesLeft
    <2>3. ReadingInv'
      BY <1>2, <1>4, <2>0, <2>1, <2>2 DEF ReadingInv
    <2> QED
      BY <1>1, <1>2, <1>4, <2>3 DEF SummaryInv, IsSummary
  <1> QED
    BY <1>3, <1>4

(* Every step of the page, of a query and of the others keeps the invariant. *)
LEMMA SummaryKeeps ==
    ASSUME SummaryInv, [Summary!Next]_<<now, summary>>
    PROVE  SummaryInv'
  <1>0. /\ TablesInv /\ state \in {"closed", "loading", "ready", "error"}
        /\ IsSummary(partial) /\ IsSummary(data)
        /\ IF state = "loading" THEN ReadingInv ELSE NothingIsRead
    BY DEF SummaryInv
  <1>1. CASE Summary!OthersWrite
    BY <1>1, WritesKeepTheReading
  <1>2. CASE Summary!Tick \/ UNCHANGED <<now, summary>>
    <2>1. /\ UNCHANGED <<lead, followUp, event, reading, partial, moments, state, data>>
          /\ now' \in Summary!Times
      BY <1>0, <1>2, WebAssumption DEF Summary!Tick, Summary!tables, Summary!transaction, Summary!page, summary,
                        TablesInv, Summary!Times, Summary!DashboardAssumption
    <2> QED
      BY <1>0, <2>1 DEF SummaryInv, TablesInv, Present, ReadingInv, NothingIsRead, IsSummary,
                        QueriesLeft, CardIsExact, Summary!CountByStage, Summary!Today
  <1>3. ASSUME UNCHANGED <<now, lead, followUp, event>>
        PROVE  TablesInv' /\ Summary!CountByStage' = Summary!CountByStage
    BY <1>0, <1>3 DEF TablesInv, Present, Summary!CountByStage
  <1>4. CASE Summary!Asks
    <2>1. /\ UNCHANGED <<now, lead, followUp, event>> /\ UNCHANGED data
          /\ reading' = [at |-> now, queries |-> Summary!Queries, funnel |-> Summary!FunnelQueries,
                         quiet |-> TRUE]
          /\ partial' = [Summary!NoSummary EXCEPT !.at = now]
          /\ moments' = {Summary!CountByStage} /\ state' = "loading"
      BY <1>4 DEF Summary!Asks, Summary!tables
    <2>2. QueriesLeft(8)'
      <3>1. \A i \in 1..8 : Summary!Queries[i] \in Summary!Figures
        BY DEF Summary!Figures, Summary!Queries
      <3>2. Len(Summary!Queries) = 8 /\ DOMAIN Summary!Queries = 1..8
        BY DEF Summary!Queries
      <3>3. Summary!Queries \in Seq(Summary!Figures)
        BY <3>1, <3>2 DEF Summary!Queries
      <3> QED
        BY <2>1, <3>2, <3>3 DEF QueriesLeft
    <2>3. ReadingInv'
      <3>1. reading'.funnel # {}
        BY <2>1 DEF Summary!FunnelQueries
      <3> QED
        BY <1>0, <1>3, <2>1, <2>2, <3>1 DEF ReadingInv, TablesInv
    <2> QED
      BY <1>0, <1>3, <2>1, <2>3, NoSummaryIsSummary DEF SummaryInv, IsSummary
  <1>5. CASE Summary!ClosePage
    <2>1. /\ UNCHANGED <<now, lead, followUp, event>>
          /\ state' = "closed" /\ data' = Summary!NoSummary /\ NothingIsRead'
      BY <1>5 DEF Summary!ClosePage, Summary!tables, NothingIsRead
    <2> QED
      BY <1>0, <1>3, <2>1, NoSummaryIsSummary DEF SummaryInv, IsSummary, NothingIsRead
  <1>6. CASE Summary!Shows \/ Summary!Fails
    <2>1. /\ UNCHANGED <<now, lead, followUp, event>>
          /\ state' \in {"ready", "error"} /\ data' \in {data, partial} /\ NothingIsRead'
      BY <1>6 DEF Summary!Shows, Summary!Fails, Summary!Leaves, Summary!tables, NothingIsRead
    <2> QED
      BY <1>0, <1>3, <2>1, NoSummaryIsSummary DEF SummaryInv, IsSummary, NothingIsRead
  <1>7. CASE Summary!RunQuery
    <2>1. state = "loading" /\ ReadingInv
      <3>1. ~NothingIsRead
        BY <1>7 DEF Summary!RunQuery, NothingIsRead, Summary!NotReading
      <3> QED
        BY <1>0, <3>1
    <2>2. PICK n \in 0..8 : /\ QueriesLeft(n)
                            /\ reading.quiet /\ n <= 1 => CardIsExact(partial.figures["followUpRows"])
      BY <2>1 DEF ReadingInv
    <2>3. n # 0
      BY <1>7, <2>2 DEF Summary!RunQuery, QueriesLeft
    <2>4. PICK q : q = Head(reading.queries)
      OBVIOUS
    <2>5. PICK answer \in Summary!Answers(q) : partial' = [partial EXCEPT !.figures[q] = answer]
      BY <1>7, <2>4 DEF Summary!RunQuery
    <2>6. /\ reading' = [reading EXCEPT !.queries = Tail(reading.queries)]
          /\ UNCHANGED <<now, lead, followUp, event, moments, state, data>>
      BY <1>7 DEF Summary!RunQuery, Summary!tables, Summary!page
    <2>7. q = Summary!Queries[9 - n] /\ QueriesLeft(n - 1)'
      <3>1. q = reading.queries[1]
        BY <2>2, <2>3, <2>4 DEF QueriesLeft
      <3>2. reading'.queries = Tail(reading.queries)
        BY <2>1, <2>6 DEF ReadingInv
      <3>3. /\ Tail(reading.queries) \in Seq(Summary!Figures) /\ Len(Tail(reading.queries)) = n - 1
            /\ \A i \in 1..n-1 : Tail(reading.queries)[i] = reading.queries[i + 1]
        BY <2>2, <2>3 DEF QueriesLeft
      <3>4. q = Summary!Queries[9 - n]
        <4>1. 8 - n + 1 = 9 - n /\ 1 \in 1..n
          BY <2>2, <2>3
        <4> QED
          BY <2>2, <3>1, <4>1 DEF QueriesLeft
      <3>5. \A i \in 1..n-1 : reading'.queries[i] = Summary!Queries[8 - (n - 1) + i]
        <4> TAKE i \in 1..n-1
        <4>1. i + 1 \in 1..n /\ 8 - (n - 1) + i = 8 - n + (i + 1)
          BY <2>2
        <4> QED
          BY <2>2, <3>2, <3>3, <4>1 DEF QueriesLeft
      <3> QED
        BY <3>2, <3>3, <3>4, <3>5 DEF QueriesLeft
    <2>8. /\ reading' \in [at : Summary!Times, queries : {reading'.queries},
                           funnel : {{}, Summary!FunnelQueries}, quiet : BOOLEAN]
          /\ reading'.at = reading.at /\ reading'.quiet = reading.quiet /\ reading'.funnel = reading.funnel
      BY <2>1, <2>6 DEF ReadingInv
    <2>9. /\ q \in Summary!Figures
          /\ n = 2 => q = "followUpRows"
          /\ n = 1 => q = "agendaRows"
      BY <2>2, <2>3, <2>7 DEF Summary!Queries, Summary!Figures
    <2>10. /\ partial'.figures = [partial.figures EXCEPT ![q] = answer]
           /\ partial'.funnel = partial.funnel
           /\ partial' = [figures |-> partial'.figures, funnel |-> partial'.funnel, at |-> partial'.at]
      BY <1>0, <2>5 DEF IsSummary
    <2>11. /\ q = "followUpRows" => answer \subseteq Summary!followUpRows /\ CardIsExact(answer)
           /\ q \in {"followUpRows", "agendaRows"} => Cardinality(answer) <= RowsOfACard
      <3>1. /\ Summary!followUpRows \subseteq Present(followUp) /\ IsFiniteSet(Summary!followUpRows)
            /\ Summary!agendaRows \subseteq Present(event) /\ IsFiniteSet(Summary!agendaRows)
        BY <1>0, FS_Subset DEF TablesInv, Summary!followUpRows, Summary!agendaRows, Present
      <3>2. CASE q = "followUpRows"
        <4>1. answer \in Summary!FirstRows(Summary!followUpRows,
                            [f \in Summary!followUpRows |-> followUp[f].scheduledAt])
          BY <2>5, <3>2 DEF Summary!Answers
        <4>2. /\ answer \subseteq Summary!followUpRows /\ Cardinality(answer) <= RowsOfACard
              /\ Cardinality(answer) < RowsOfACard => answer = Summary!followUpRows
          BY <3>1, <4>1, RowsOfTheCard
        <4> QED
          BY <3>2, <4>2 DEF CardIsExact, Summary!followUpRows, Present
      <3>3. CASE q = "agendaRows"
        <4>1. answer \in Summary!FirstRows(Summary!agendaRows,
                            [e \in Summary!agendaRows |-> event[e].startsAt])
          BY <2>5, <3>3 DEF Summary!Answers
        <4> QED
          BY <3>1, <3>3, <4>1, RowsOfTheCard
      <3> QED
        BY <3>2, <3>3
    <2>12. IsSummary(partial')
      <3>1. DOMAIN partial'.figures = Summary!Figures
        BY <1>0, <2>10 DEF IsSummary
      <3>2. \A p \in {"followUpRows", "agendaRows"} : Cardinality(partial'.figures[p]) <= RowsOfACard
        <4> TAKE p \in {"followUpRows", "agendaRows"}
        <4>1. partial'.figures[p] = IF p = q THEN answer ELSE partial.figures[p]
          BY <1>0, <2>9, <2>10 DEF IsSummary, Summary!Figures, Summary!Queries
        <4> QED
          BY <1>0, <2>11, <4>1 DEF IsSummary
      <3> QED
        BY <1>0, <2>10, <3>1, <3>2 DEF IsSummary
    <2>13. reading.quiet /\ n - 1 <= 1 => CardIsExact(partial'.figures["followUpRows"])
      <3>1. partial'.figures["followUpRows"] =
               IF q = "followUpRows" THEN answer ELSE partial.figures["followUpRows"]
        BY <1>0, <2>9, <2>10 DEF IsSummary, Summary!Figures, Summary!Queries
      <3> QED
        BY <2>2, <2>3, <2>9, <2>11, <3>1
    <2>14. ReadingInv'
      <3>1. \A c : CardIsExact(c) => (CardIsExact(c))'
        BY <2>6, <2>8 DEF CardIsExact, Present, Summary!Today
      <3>2. PICK card : card = partial'.figures["followUpRows"]
        OBVIOUS
      <3>3. PICK k \in 0..8 : k = n - 1
        BY <2>2, <2>3
      <3>4. QueriesLeft(k)'
        BY <2>7, <3>3
      <3>5. reading'.quiet /\ k <= 1 => CardIsExact(partial.figures["followUpRows"])'
        BY <2>8, <2>13, <3>1, <3>2, <3>3 DEF CardIsExact
      <3> QED
        BY <1>3, <2>1, <2>6, <2>8, <2>10, <3>4, <3>5 DEF ReadingInv
    <2> QED
      BY <1>0, <1>3, <2>1, <2>6, <2>12, <2>14 DEF SummaryInv, IsSummary
  <1>8. CASE Summary!buildFunnel
    <2>1. state = "loading" /\ ReadingInv
      <3>1. ~NothingIsRead
        BY <1>8 DEF Summary!buildFunnel, NothingIsRead, Summary!NotReading
      <3> QED
        BY <1>0, <3>1
    <2>2. PICK S \in reading.funnel :
            /\ partial' = [partial EXCEPT !.funnel =
                 [s \in Summary!Stages |-> IF s \in S THEN Summary!CountByStage[s] ELSE partial.funnel[s]]]
            /\ reading' = [reading EXCEPT !.funnel = reading.funnel \ {S}]
      BY <1>8 DEF Summary!buildFunnel
    <2>3. UNCHANGED <<now, lead, followUp, event, moments, state, data>>
      BY <1>8 DEF Summary!buildFunnel, Summary!tables, Summary!page
    <2>4. S = Summary!Stages /\ reading.funnel = {S}
      BY <2>1, <2>2 DEF ReadingInv, Summary!FunnelQueries
    <2>5. [s \in Summary!Stages |-> IF s \in S THEN Summary!CountByStage[s] ELSE partial.funnel[s]]
            = Summary!CountByStage
      BY <1>0, <2>4, CountsAreNumbers
    <2>6. /\ partial'.funnel = Summary!CountByStage /\ partial'.figures = partial.figures
          /\ IsSummary(partial')
      BY <1>0, <2>2, <2>5, CountsAreNumbers DEF IsSummary
    <2>7. /\ reading' \in [at : Summary!Times, queries : {reading'.queries},
                           funnel : {{}, Summary!FunnelQueries}, quiet : BOOLEAN]
          /\ reading'.at = reading.at /\ reading'.quiet = reading.quiet
          /\ reading'.queries = reading.queries
      BY <2>1, <2>2, <2>4 DEF ReadingInv
    <2>8. ReadingInv'
      <3>1. PICK n \in 0..8 : /\ QueriesLeft(n)
                              /\ reading.quiet /\ n <= 1 => CardIsExact(partial.figures["followUpRows"])
        BY <2>1 DEF ReadingInv
      <3>2. QueriesLeft(n)'
        BY <2>7, <3>1 DEF QueriesLeft
      <3>3. reading'.quiet /\ n <= 1 => CardIsExact(partial.figures["followUpRows"])'
        BY <2>3, <2>6, <2>7, <3>1 DEF CardIsExact, Present, Summary!Today
      <3> QED
        BY <1>3, <2>1, <2>3, <2>6, <2>7, <3>2, <3>3 DEF ReadingInv
    <2> QED
      BY <1>0, <1>3, <2>1, <2>3, <2>6, <2>8 DEF SummaryInv, IsSummary
  <1> QED
    BY <1>1, <1>2, <1>4, <1>5, <1>6, <1>7, <1>8 DEF Summary!Next, Summary!OpenPage, Summary!Retry

-----------------------------------------------------------------------------
(* The session of the tab: theorems *)

\* Every variable has its type, and the invariant the properties follow from holds.
THEOREM InvariantCorrect == Spec => [](TypeOK /\ TabInv)
  <1>1. Init => TypeOK /\ TabInv
    BY InitInv
  <1>2. TypeOK /\ TabInv /\ [Next]_vars => (TypeOK /\ TabInv)'
    BY NextInv
  <1> QED
    BY <1>1, <1>2, PTL DEF Spec

\* Through sign-ins, sign-outs, reloads and refreshes that are answered late, the token in
\* memory is of the user on the screen, unless a request outlived the session it was of.
THEOREM TokenIsOfTheUser == Spec => []TokenBelongsToUser
  <1>1. TypeOK /\ TabInv => TokenBelongsToUser
    <2> SUFFICES ASSUME TypeOK, TabInv, ~straggler
                 PROVE  /\ RequireAuth /\ accessToken # None => accessToken = user
                        /\ LoginFormShown /\ signIn.phase # "me" => accessToken = None
      BY DEF TokenBelongsToUser
    <2>1. RequireAuth /\ accessToken # None => accessToken = user
      BY DEF TabInv, ShownIsTheirs
    <2>2. LoginFormShown /\ signIn.phase # "me" => accessToken = None
      BY DEF TabInv, FormIsQuiet
    <2> QED
      BY <2>1, <2>2
  <1> QED
    BY <1>1, InvariantCorrect, PTL

\* However many requests share a refresh, and whatever is refused or lost, none is done twice
\* by the API.
THEOREM EffectsHappenOnce == Spec => []EffectAtMostOnce
  <1>1. TypeOK /\ TabInv => EffectAtMostOnce
    BY DEF TabInv, CountsItsEffect, EffectAtMostOnce
  <1> QED
    BY <1>1, InvariantCorrect, PTL

-----------------------------------------------------------------------------
(* The parts together *)

\* What holds of the part a behaviour is of, and of the session throughout.
WebInv ==
    /\ part = "inbox" => InboxInv
    /\ part = "demo" => DemoInv
    /\ TypeOK /\ TabInv
    /\ part = "summary" => SummaryInv

(* Each part starts as it should. *)
LEMMA WebStarts ==
    ASSUME WebInit
    PROVE  WebInv
  BY InboxStarts, DemoStarts, SummaryStarts, InitInv DEF WebInit, WebInv

(* A step is of one part, and leaves the others alone. *)
LEMMA WebKeeps ==
    ASSUME WebInv, [WebNext]_allVars
    PROVE  WebInv'
  <1>1. UNCHANGED part
    BY DEF WebNext, allVars
  <1>2. [Next]_vars
    BY DEF WebNext, allVars
  <1>3. (TypeOK /\ TabInv)'
    BY <1>2, NextInv DEF WebInv
  <1>4. ASSUME part = "inbox"
        PROVE  InboxInv'
    <2>1. [Inbox!Next]_inbox
      BY <1>4 DEF WebNext, allVars
    <2> QED
      BY <1>4, <2>1, InboxKeeps DEF WebInv
  <1>5. ASSUME part = "demo"
        PROVE  DemoInv'
    <2>1. [Demo!Next]_<<now, demo>>
      BY <1>5 DEF WebNext, allVars
    <2> QED
      BY <1>5, <2>1, DemoKeeps DEF WebInv
  <1>6. ASSUME part = "summary"
        PROVE  SummaryInv'
    <2>1. [Summary!Next]_<<now, summary>>
      BY <1>6 DEF WebNext, allVars
    <2> QED
      BY <1>6, <2>1, SummaryKeeps DEF WebInv
  <1> QED
    BY <1>1, <1>3, <1>4, <1>5, <1>6 DEF WebInv

(* In every state of every behaviour. *)
LEMMA WebInvariant == WebSpec => []WebInv
  BY WebStarts, WebKeeps, PTL DEF WebSpec

\* Every variable of every part has its type; with it, a summary has no more rows on a card
\* than fit on it, and the bounds are kept.
THEOREM WebTypesHold == WebSpec => []WebTypeOK
  <1>1. WebInv => WebTypeOK
    BY SummaryTypes DEF WebInv, WebTypeOK, InboxInv, DemoInv
  <1> QED
    BY <1>1, WebInvariant, PTL

\* InboxView: whatever answers are late, lost or out of order, the messages on the screen are
\* all of the conversation it is headed by, for any conversations and any number of loads.
THEOREM ShownBelongToTheHeading == WebSpec => []ShownBelong
  <1>1. WebInv => ShownBelong
    BY InboxShows DEF WebInv, ShownBelong
  <1> QED
    BY <1>1, WebInvariant, PTL

\* DashboardService: the funnel of a summary is the leads of each stage at one moment since it
\* was asked for, whoever writes meanwhile and however many leads, stages and writes there are;
\* and when nobody wrote, the funnel and the card of follow-ups are those of the tables.
THEOREM SummariesAreCoherent == WebSpec => []SummaryIsCoherent
  <1>1. WebInv => SummaryIsCoherent
    BY QuietIsExact DEF WebInv, SummaryIsCoherent, SummaryInv, ReadingInv, Summary!FunnelIsOfOneMoment
  <1> QED
    BY <1>1, WebInvariant, PTL

\* The demo: in no copy of the inbox does somebody attend a conversation that is assigned to
\* no one, whatever any number of tabs do.
THEOREM AttendedAreAssigned == WebSpec => []AttendedIsAssigned
  <1>1. WebInv => AttendedIsAssigned
    BY CopiesAreInboxes DEF WebInv, AttendedIsAssigned, Demo!AttendedIsAssigned, CopyIsCoherent
  <1> QED
    BY <1>1, WebInvariant, PTL

\* The demo, in a tab that is the only one: every action moves a conversation as the API's
\* table of transitions allows, or takes it over or gives it back along with its agent.
THEOREM OnlyTabMirrorsTheApi ==
    ASSUME NEW t, Tabs = {t}
    PROVE  WebSpec => MirrorsTheApi
  <1> DEFINE Kept == part = "demo" => OnlyTabInv(t)
  <1>1. WebInit => Kept
    BY OnlyTabStarts DEF WebInit
  <1>2. ASSUME WebInv, Kept, [WebNext]_allVars
        PROVE  Kept' /\ [part = "demo" => Demo!ActsLikeTheApi]_allVars
    <2>1. UNCHANGED part
      BY <1>2 DEF WebNext, allVars
    <2>2. ASSUME part = "demo"
          PROVE  OnlyTabInv(t)' /\ Demo!ActsLikeTheApi
      <3>1. [Demo!Next]_<<now, demo>>
        BY <1>2, <2>2 DEF WebNext, allVars
      <3>2. DemoInv /\ OnlyTabInv(t)
        BY <1>2, <2>2 DEF WebInv
      <3> QED
        BY <3>1, <3>2, OnlyTabKeeps
    <2> QED
      BY <2>1, <2>2
  <1> HIDE DEF Kept
  <1> QED
    BY <1>1, <1>2, WebInvariant, PTL DEF WebSpec, MirrorsTheApi
=============================================================================

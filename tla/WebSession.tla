------------------------------ MODULE WebSession ------------------------------
(***************************************************************************)
(* The session of one browser tab: the access token it keeps in memory,    *)
(* the refresh its requests share, and what the screens show, against an   *)
(* API that answers late, refuses, or cannot be reached.                   *)
(*                                                                         *)
(* Every action is what the tab's one thread runs between two awaits: when *)
(* the shared refresh ends, everyone who waits for it continues before any *)
(* other answer is looked at.  A token and a user are represented by the   *)
(* session they belong to.                                                 *)
(***************************************************************************)
EXTENDS Naturals

CONSTANTS
    Sessions,   \* login sessions of the API
    Calls,      \* protected requests that may be under way at the same time
    None

WebSessionAssumption == None \notin Sessions

VARIABLES
    live,         \* API: sessions neither revoked, expired nor rotated by another tab
    known,        \* API: sessions there have been
    jar,          \* browser: the session of the refresh cookie
    accessToken,  \* token-store: the session of the token in memory
    refresh,      \* refreshInFlight
    call,         \* call[c]: an apiFetch
    boot,         \* the bootstrap effect of AuthProvider
    signIn,
    signOut,
    status,       \* AuthProvider: status and user
    user,
    straggler,    \* history: see Outlive
    signedOut     \* history: sessions their user signed out of

api == <<live, known, jar>>
page == <<status, user>>
hist == <<straggler, signedOut>>
vars == <<api, accessToken, refresh, call, boot, signIn, signOut, page, hist>>

-----------------------------------------------------------------------------
SessionOrNone == Sessions \cup {None}
NoRefresh == [phase |-> "none", session |-> None]
Call == [phase : {"idle", "sent", "handled", "unauthorized", "waiting", "replayed",
                  "unauthorizedAgain"},
         token : SessionOrNone, effects : {0, 1, 2}]
IdleCall == [phase |-> "idle", token |-> None, effects |-> 0]
Step == [phase : {"idle", "login", "me", "sent"}, token : SessionOrNone]
Done == [phase |-> "idle", token |-> None]

Init ==
    /\ live = {} /\ known = {} /\ jar = None
    /\ accessToken = None
    /\ refresh = NoRefresh
    /\ call = [c \in Calls |-> IdleCall]
    /\ boot = "start"
    /\ signIn = Done /\ signOut = Done
    /\ status = "loading" /\ user = None
    /\ straggler = FALSE /\ signedOut = {}

\* What is drawn: nothing private before the session is resolved, the login form
\* only without a session.
RequireAuth == status = "authenticated"
LoginFormShown == status = "unauthenticated"

-----------------------------------------------------------------------------
(* The refresh shared by everyone who needs one *)

refreshAccessToken ==
    refresh' = IF refresh.phase = "none" THEN [phase |-> "sent", session |-> jar] ELSE refresh

\* The API rotates the cookie of a live session and refuses any other.
ApiRefreshes ==
    /\ refresh.phase = "sent"
    /\ refresh' = [refresh EXCEPT !.phase =
                     IF refresh.session \in live THEN "granted" ELSE "refused"]
    /\ UNCHANGED <<api, accessToken, call, boot, signIn, signOut, page, hist>>

\* Mutant: the token of a session that is still live is kept.
resetSessionMutant ==
    /\ accessToken' = IF accessToken \in live THEN accessToken ELSE None
    /\ status' = "unauthenticated" /\ user' = None

\* Every trace of the session in the tab, whatever came of the requests.
resetSession ==
    /\ accessToken' = None
    /\ status' = "unauthenticated" /\ user' = None

\* clearAccessToken and the handler that AuthProvider registered.
ExpireSession == resetSession

\* A session starts or ends while a request of the one before is under way.
Outlive ==
    straggler' = (straggler \/ refresh'.phase # "none" \/ \E c \in Calls : call'[c].phase # "idle")

Waiting == {c \in Calls : call[c].phase = "waiting"}

\* The token is stored, refreshInFlight is cleared, the calls that wait replay their
\* request with the new token, and the bootstrap asks for the profile.
RefreshSucceeds ==
    /\ refresh.phase = "granted"
    /\ accessToken' = refresh.session
    /\ jar' = refresh.session
    /\ call' = [c \in Calls |-> IF c \in Waiting
                                THEN [call[c] EXCEPT !.phase = "replayed",
                                                     !.token = refresh.session]
                                ELSE call[c]]
    /\ boot' = IF boot = "refreshing" THEN "me" ELSE boot
    /\ refresh' = NoRefresh
    /\ UNCHANGED <<live, known, signIn, signOut, page, hist>>

\* Refused, unreachable, 429 or 5xx: all of them are null to those who wait. The calls
\* end the session; the bootstrap only shows the login form.
RefreshFails ==
    /\ refresh.phase # "none"
    /\ call' = [c \in Calls |-> IF c \in Waiting THEN IdleCall ELSE call[c]]
    /\ refresh' = NoRefresh
    /\ IF Waiting # {}
       THEN ExpireSession /\ Outlive
       ELSE /\ UNCHANGED straggler
            /\ status' = IF boot = "refreshing" THEN "unauthenticated" ELSE status
            /\ UNCHANGED <<user, accessToken>>
    /\ boot' = IF boot = "refreshing" THEN "done" ELSE boot
    /\ UNCHANGED <<api, signIn, signOut, signedOut>>

-----------------------------------------------------------------------------
(* apiFetch *)

apiFetch(c) ==
    /\ RequireAuth /\ call[c].phase = "idle"
    /\ call' = [call EXCEPT ![c] = [phase |-> "sent", token |-> accessToken, effects |-> 0]]
    /\ UNCHANGED <<api, accessToken, refresh, boot, signIn, signOut, page, hist>>

InFlight(c) == call[c].phase \in {"sent", "replayed"}
Answered(phase) == IF phase = "sent" THEN "unauthorized" ELSE "unauthorizedAgain"

\* The guard refuses a missing or expired token before the handler runs.
ApiHandles(c) ==
    /\ InFlight(c)
    /\ \/ /\ call[c].token # None
          /\ call' = [call EXCEPT ![c].phase = "handled", ![c].effects = @ + 1]
       \/ call' = [call EXCEPT ![c].phase = Answered(@)]
    /\ UNCHANGED <<api, accessToken, refresh, boot, signIn, signOut, page, hist>>

\* Mutant: a request whose answer was lost is taken for unauthorized.
CallEndsMutant(c) ==
    IF call[c].phase = "handled" THEN call' = [call EXCEPT ![c].phase = "waiting"]
    ELSE call' = [call EXCEPT ![c] = IdleCall]

\* The result, the error of the API, or the error of the network: up to the view.
CallEnds(c) == call' = [call EXCEPT ![c] = IdleCall]

ReceiveResult(c) ==
    /\ call[c].phase = "handled" /\ CallEnds(c)
    /\ refresh' = IF call'[c].phase = "waiting" /\ refresh.phase = "none"
                  THEN [phase |-> "sent", session |-> jar] ELSE refresh
    /\ UNCHANGED <<api, accessToken, boot, signIn, signOut, page, hist>>

NetworkFails(c) ==
    /\ InFlight(c)
    /\ call' = [call EXCEPT ![c] = IdleCall]
    /\ UNCHANGED <<api, accessToken, refresh, boot, signIn, signOut, page, hist>>

\* The first 401: wait for a refresh, one that is under way or a new one.
Unauthorized(c) ==
    /\ call[c].phase = "unauthorized"
    /\ call' = [call EXCEPT ![c].phase = "waiting"]
    /\ refreshAccessToken
    /\ UNCHANGED <<api, accessToken, boot, signIn, signOut, page, hist>>

\* Mutant: every 401 refreshes and replays.
ReplayRefusedMutant(c) ==
    /\ call' = [call EXCEPT ![c].phase = "waiting"]
    /\ refreshAccessToken
    /\ UNCHANGED <<accessToken, page>>

\* The second 401 is final.
ReplayRefused(c) ==
    /\ call' = [call EXCEPT ![c] = IdleCall]
    /\ ExpireSession
    /\ UNCHANGED refresh

UnauthorizedAgain(c) ==
    /\ call[c].phase = "unauthorizedAgain"
    /\ ReplayRefused(c)
    /\ Outlive
    /\ UNCHANGED <<api, boot, signIn, signOut, signedOut>>

-----------------------------------------------------------------------------
(* AuthProvider *)

\* Every page load tries once to restore the session of the cookie.
Bootstrap ==
    /\ boot = "start"
    /\ boot' = "refreshing"
    /\ refreshAccessToken
    /\ UNCHANGED <<api, accessToken, call, signIn, signOut, page, hist>>

\* The profile is that of the token fetchMe was sent with, which nothing replaces while
\* the bootstrap runs.
BootstrapEnds ==
    /\ boot = "me"
    /\ \/ status' = "authenticated" /\ user' = accessToken /\ UNCHANGED accessToken
       \/ status' = "unauthenticated" /\ accessToken' = None /\ UNCHANGED user
    /\ boot' = "done"
    /\ UNCHANGED <<api, refresh, call, signIn, signOut, hist>>

submitLogin ==
    /\ LoginFormShown /\ signIn = Done
    /\ signIn' = [phase |-> "login", token |-> None]
    /\ UNCHANGED <<api, accessToken, refresh, call, boot, signOut, page, hist>>

\* The API creates a session; its token is stored and used for the profile.
LoginSucceeds ==
    /\ signIn.phase = "login"
    /\ \E s \in Sessions \ known :
         /\ live' = live \cup {s} /\ known' = known \cup {s} /\ jar' = s
         /\ accessToken' = s
         /\ signIn' = [phase |-> "me", token |-> s]
    /\ UNCHANGED <<refresh, call, boot, signOut, page, signedOut>>
    /\ Outlive

LoginFails ==
    /\ signIn.phase = "login"
    /\ signIn' = Done
    /\ UNCHANGED <<api, accessToken, refresh, call, boot, signOut, page, hist>>

\* A token without a profile is dropped: there is no half-authenticated tab.
ProfileEnds ==
    /\ signIn.phase = "me"
    /\ \/ status' = "authenticated" /\ user' = signIn.token /\ UNCHANGED accessToken
       \/ accessToken' = None /\ UNCHANGED page
    /\ signIn' = Done
    /\ UNCHANGED <<api, refresh, call, boot, signOut, hist>>

submitLogout ==
    /\ RequireAuth /\ signOut = Done
    /\ signOut' = [phase |-> "sent", token |-> accessToken]
    /\ UNCHANGED <<api, accessToken, refresh, call, boot, signIn, page, hist>>

\* Revoked by the API, or refused for an expired token, or never answered: there is no
\* refresh before a logout.
LogoutEnds ==
    /\ signOut.phase = "sent"
    /\ \/ /\ signOut.token # None
          /\ live' = live \ {signOut.token} /\ jar' = None
       \/ UNCHANGED <<live, jar>>
    /\ resetSession
    /\ signOut' = Done
    /\ signedOut' = signedOut \cup ({user} \ {None})
    /\ UNCHANGED <<known, refresh, call, boot, signIn>>
    /\ Outlive

-----------------------------------------------------------------------------
(* The environment *)

\* Expired, revoked from elsewhere, or rotated by another tab.
SessionEnds(s) ==
    /\ live' = live \ {s} /\ s \in live
    /\ UNCHANGED <<known, jar, accessToken, refresh, call, boot, signIn, signOut, page, hist>>

\* The memory of the tab goes; the cookie stays.
Reload ==
    /\ boot = "done"
    /\ accessToken' = None /\ refresh' = NoRefresh
    /\ call' = [c \in Calls |-> IdleCall]
    /\ boot' = "start" /\ signIn' = Done /\ signOut' = Done
    /\ status' = "loading" /\ user' = None
    /\ straggler' = FALSE
    /\ UNCHANGED <<api, signedOut>>

Answers ==
    \/ ApiRefreshes \/ RefreshSucceeds \/ RefreshFails
    \/ Bootstrap \/ BootstrapEnds
    \/ LoginSucceeds \/ LoginFails \/ ProfileEnds \/ LogoutEnds

Progress(c) ==
    \/ ApiHandles(c) \/ ReceiveResult(c) \/ NetworkFails(c)
    \/ Unauthorized(c) \/ UnauthorizedAgain(c)

Next ==
    \/ Answers
    \/ \E c \in Calls : apiFetch(c) \/ Progress(c)
    \/ submitLogin \/ submitLogout \/ Reload
    \/ \E s \in Sessions : SessionEnds(s)

Spec == Init /\ [][Next]_vars

\* The browser answers or fails every request, and runs what waits for it.
Fairness ==
    /\ WF_vars(ApiRefreshes \/ RefreshSucceeds \/ RefreshFails)
    /\ \A c \in Calls : WF_vars(Progress(c))

FairSpec == Spec /\ Fairness

-----------------------------------------------------------------------------
(* Properties *)

\* Every variable has its type.
TypeOK ==
    /\ live \subseteq known /\ known \subseteq Sessions /\ signedOut \subseteq known
    /\ {jar, accessToken, user} \subseteq SessionOrNone
    /\ refresh \in [phase : {"none", "sent", "granted", "refused"}, session : SessionOrNone]
    /\ call \in [Calls -> Call]
    /\ boot \in {"start", "refreshing", "me", "done"}
    /\ signIn \in Step /\ signOut \in Step
    /\ status \in {"loading", "authenticated", "unauthenticated"}
    /\ straggler \in BOOLEAN

\* The token in memory is of the user on the screen, and a tab that shows nobody has no
\* token unless it is signing in: as long as no request outlived the session it was of.
TokenBelongsToUser ==
    ~straggler =>
        /\ RequireAuth /\ accessToken # None => accessToken = user
        /\ LoginFormShown /\ signIn.phase # "me" => accessToken = None

\* Refresh and replay never make the API do a request twice.
EffectAtMostOnce == \A c \in Calls : call[c].effects <= 1

\* Every request comes to an end: refresh and replay do not loop.
CallsEnd == \A c \in Calls : []<>(call[c].phase = "idle")

(* The inductive invariant behind the first two *)

\* Whatever session the tab knows of is one the API has made.
NamesKnown ==
    {jar, accessToken, user, refresh.session, signIn.token, signOut.token} \subseteq known \cup {None}

\* A page that is loading does nothing else: there is no token until the cookie's session
\* is restored, and then it is of that one.
LoadsFirst ==
    /\ boot = "done" <=> status # "loading"
    /\ boot # "done" =>
         /\ user = None /\ signIn = Done /\ signOut = Done /\ ~straggler
         /\ \A c \in Calls : call[c].phase = "idle"
    /\ boot \in {"start", "me"} => refresh.phase = "none"
    /\ boot \in {"start", "refreshing"} => accessToken = None
    /\ boot = "refreshing" /\ refresh.phase # "none" => refresh.session = jar
    /\ boot = "me" => accessToken = jar

\* Nobody signs in over a session that is shown.
SignsInFromTheForm == signIn # Done => LoginFormShown

\* Without a session nothing is under way but the sign-in, and what there is is its own.
FormIsQuiet ==
    LoginFormShown /\ ~straggler =>
        /\ refresh.phase = "none" /\ \A c \in Calls : call[c].phase = "idle"
        /\ accessToken \in {None, signIn.token}
        /\ signIn.phase = "me" => jar \in {None, signIn.token}
        /\ signIn.phase # "me" => signIn.token = None

\* With one, whatever may replace the token is of the same user.
ShownIsTheirs ==
    RequireAuth /\ ~straggler =>
        /\ {accessToken, jar} \subseteq {None, user}
        /\ refresh.phase # "none" => refresh.session \in {None, user}

\* Only a request that was handled has had an effect, and one.
CountsItsEffect(c) == call[c].effects = IF call[c].phase = "handled" THEN 1 ELSE 0

TabInv ==
    /\ NamesKnown /\ LoadsFirst /\ SignsInFromTheForm /\ FormIsQuiet /\ ShownIsTheirs
    /\ \A c \in Calls : CountsItsEffect(c)

(* What the comments say and the code does not keep *)

\* After a sign-out there is no trace of the session in the tab.
NoTraceAfterSignOut ==
    LoginFormShown /\ user = None /\ signIn = Done => accessToken = None

\* The session is expired only when it is gone.
ExpiredMeansGone ==
    [][RequireAuth /\ status' = "unauthenticated" /\ signOut = Done => user \notin live]_vars

\* A session that its user signed out of is not restored.
SignOutLasts == RequireAuth => user \notin signedOut
=============================================================================

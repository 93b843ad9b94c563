----------------------------- MODULE SessionClient -----------------------------
(***************************************************************************)
(* The browser's side of a session, run against RefreshRotation: tabs that   *)
(* keep an access token in memory and share one refresh cookie.  A tab       *)
(* refreshes when its timer fires, when a call is answered 401 and when the  *)
(* page loads, all through one refreshPromise; answers are lost, pages are   *)
(* reloaded and users log out while a refresh is under way.                  *)
(*                                                                         *)
(* Sending and BeginRefresh are one step: the server takes the row lock in   *)
(* a later one, as late as the network likes.  An access token is named by   *)
(* the refresh token issued with it.  How long it lasts is left open: a call *)
(* may be answered 401 at any time.                                          *)
(***************************************************************************)
EXTENDS RefreshRotation

CONSTANTS Tab,       \* browser tabs
          Bare       \* a call sent without a refresh cookie

ASSUME BareAssumption == Bare \notin Request /\ Bare # Nobody

VARIABLES
    cookie,       \* the browser's refresh cookie
    access,       \* access[t]: the token store of tab t
    timer,        \* tabs with a refresh timer pending
    refreshing,   \* refreshing[t]: the call behind refreshPromise
    awaiting,     \* tabs where a call or the page load awaits refreshPromise
    leaving,      \* leaving[t]: the logout call under way
    gone,         \* gone[t]: tab t shows the login page ("clean"; "racing" when a
                  \* refresh was under way as it logged out), or "no"
    troubled      \* sessions with a lost answer or overlapping refreshes

clientVars == <<cookie, access, timer, refreshing, awaiting, leaving, gone, troubled>>
allVars == <<vars, clientVars>>

ClientInit ==
    /\ Init
    /\ cookie = NoToken
    /\ access = [t \in Tab |-> NoToken]
    /\ timer = {}
    /\ refreshing = [t \in Tab |-> Nobody]
    /\ awaiting = {}
    /\ leaving = [t \in Tab |-> Nobody]
    /\ gone = [t \in Tab |-> "clean"]
    /\ troubled = {}

(* The session that call c, if it is one with a cookie, was made for.         *)
SessionOf(c) == IF c \in Request THEN {family[presented[c]]} ELSE {}

(* Calls whose refresh is under way somewhere in the browser.                 *)
InFlight == {refreshing[t] : t \in Tab} \cap Request

(* fetch("/auth/refresh") with the cookie of this moment.                     *)
SendRefresh(t) ==
    \/ /\ cookie = NoToken
       /\ refreshing' = [refreshing EXCEPT ![t] = Bare]
       /\ UNCHANGED vars
    \/ /\ cookie # NoToken
       /\ \E r \in Request : /\ BeginRefresh(r, cookie)
                             /\ refreshing' = [refreshing EXCEPT ![t] = r]

(* The sessions that SendRefresh puts at risk: another tab is presenting the  *)
(* same cookie.                                                               *)
Overlapped == {family[k] : k \in {presented[r] : r \in InFlight} \cap {cookie}}

(* Fault: every caller sends a refresh of its own.                            *)
RefreshEachTime(t) ==
    /\ SendRefresh(t)
    /\ troubled' = troubled \cup
          {family[presented[r]] : r \in {q \in Request : /\ presented[q] = cookie
                                                         /\ \E u \in Tab \ {t} : refreshing[u] = q}}

(* refreshSession(): join the promise that is there, or make one.             *)
RefreshSession(t) ==
    \/ /\ refreshing[t] # Nobody
       /\ UNCHANGED <<vars, refreshing, troubled>>
    \/ /\ refreshing[t] = Nobody
       /\ SendRefresh(t)
       /\ troubled' = troubled \cup Overlapped

(* The timer of scheduleProactiveRefresh runs runRefresh.                     *)
TimerFires(t) ==
    /\ t \in timer
    /\ timer' = timer \ {t}
    /\ RefreshSession(t)
    /\ UNCHANGED <<cookie, access, awaiting, leaving, gone>>

(* apiRequest gets a 401 and calls refreshSession before its one retry.  The  *)
(* login page a tab shows after a logout makes no such calls.                 *)
Unauthorized(t) ==
    /\ gone[t] = "no"
    /\ RefreshSession(t)
    /\ awaiting' = awaiting \cup {t}
    /\ UNCHANGED <<cookie, access, timer, leaving, gone>>

(* Fault: the token is stored and no refresh is scheduled.                    *)
StoreUnscheduled(t, k) ==
    /\ access' = [access EXCEPT ![t] = k]
    /\ UNCHANGED timer

(* setAccessToken; scheduleProactiveRefresh.                                  *)
StoreAccessToken(t, k) ==
    /\ access' = [access EXCEPT ![t] = k]
    /\ timer' = timer \cup {t}

(* A page loads: the script starts afresh, its calls are aborted, and         *)
(* bootstrapSession, which finds no access token, refreshes.                  *)
Reload(t) ==
    /\ access' = [access EXCEPT ![t] = NoToken]
    /\ timer' = timer \ {t}
    /\ leaving' = [leaving EXCEPT ![t] = Nobody]
    /\ gone' = [gone EXCEPT ![t] = "no"]
    /\ troubled' = troubled \cup SessionOf(refreshing[t]) \cup Overlapped
    /\ SendRefresh(t)
    /\ awaiting' = awaiting \cup {t}
    /\ UNCHANGED cookie

(* POST /auth/login or /auth/mfa/verify succeeds: cookie and token are set.   *)
SignIn(t, s, k) ==
    /\ Login(s, k)
    /\ cookie' = k
    /\ StoreAccessToken(t, k)
    /\ gone' = [gone EXCEPT ![t] = "no"]
    /\ UNCHANGED <<refreshing, awaiting, leaving, troubled>>

SettlePromise(t) ==
    /\ refreshing' = [refreshing EXCEPT ![t] = Nobody]
    /\ awaiting' = awaiting \ {t}
    /\ UNCHANGED <<vars, leaving>>

(* The answer 200 arrives: Set-Cookie, the token store and the timer.         *)
RefreshSucceeds(t) ==
    LET r == refreshing[t] IN
    /\ r \in Request
    /\ pc[r] = "200"
    /\ cookie' = replaced_by[presented[r]]
    /\ StoreAccessToken(t, replaced_by[presented[r]])
    /\ SettlePromise(t)
    /\ UNCHANGED <<gone, troubled>>

(* Whoever awaited the promise clears the token.  apiRequest (expireSession)  *)
(* and bootstrapSession (clearSession) stop the timer too and the login page  *)
(* is shown; runRefresh leaves both as they are.                              *)
RefreshRejected(t) ==
    /\ access' = [access EXCEPT ![t] = NoToken]
    /\ timer' = IF t \in awaiting THEN timer \ {t} ELSE timer
    /\ gone' = IF t \in awaiting THEN [gone EXCEPT ![t] = "clean"] ELSE gone
    /\ SettlePromise(t)
    /\ UNCHANGED cookie

(* An error answer.  The cookie stays: the handler deletes it on a response   *)
(* that the exception handler's own response then replaces.                   *)
RefreshFails(t) ==
    /\ \/ refreshing[t] = Bare
       \/ refreshing[t] \in Request /\ pc[refreshing[t]] \in {"401", "500"}
    /\ RefreshRejected(t)
    /\ UNCHANGED troubled

(* The connection is lost; the server may be at work on the call all the same.*)
AnswerLost(t) ==
    /\ refreshing[t] \in Request
    /\ RefreshRejected(t)
    /\ troubled' = troubled \cup SessionOf(refreshing[t])

(* logout(): POST /auth/logout with the cookie of this moment.                *)
SendLogout(t) ==
    /\ leaving[t] = Nobody
    /\ gone[t] = "no"
    /\ \/ /\ cookie = NoToken
          /\ leaving' = [leaving EXCEPT ![t] = Bare]
          /\ UNCHANGED vars
       \/ /\ cookie # NoToken
          /\ \E r \in Request : /\ BeginLogout(r, cookie)
                                /\ leaving' = [leaving EXCEPT ![t] = r]
    /\ UNCHANGED <<cookie, access, timer, refreshing, awaiting, gone, troubled>>

(* Fault: stopRefreshScheduler is not called.                                 *)
ClearTokenOnly(t) ==
    /\ access' = [access EXCEPT ![t] = NoToken]
    /\ UNCHANGED timer

ClearSession(t) ==
    /\ access' = [access EXCEPT ![t] = NoToken]
    /\ timer' = timer \ {t}

(* The logout call ends and clearSession runs, whatever the outcome.  A 204   *)
(* deletes the cookie; an error or a lost answer leaves it.                   *)
LogoutSettles(t) ==
    LET c == leaving[t] IN
    /\ c # Nobody
    /\ \/ /\ c = Bare \/ (c \in Request /\ pc[c] = "204")
          /\ cookie' = NoToken
       \/ /\ c \in Request
          /\ UNCHANGED cookie
    /\ ClearSession(t)
    /\ leaving' = [leaving EXCEPT ![t] = Nobody]
    /\ gone' = [gone EXCEPT ![t] = IF refreshing[t] = Nobody THEN "clean" ELSE "racing"]
    /\ UNCHANGED <<vars, refreshing, awaiting, troubled>>

ServerStep ==
    /\ \/ \E r \in Request : Proceed(r) \/ Abort(r)
       \/ \E s \in Session : LoseMembership(s)
    /\ UNCHANGED clientVars

ClientNext ==
    \/ \E t \in Tab :
          \/ TimerFires(t) \/ Unauthorized(t) \/ Reload(t)
          \/ RefreshSucceeds(t) \/ RefreshFails(t) \/ AnswerLost(t)
          \/ SendLogout(t) \/ LogoutSettles(t)
          \/ \E s \in Session, k \in Token : SignIn(t, s, k)
    \/ ServerStep

ClientSpec == ClientInit /\ [][ClientNext]_allVars
-------------------------------------------------------------------------------
(* With no thief about, a session is revoked for reuse only after an answer   *)
(* of its own was lost, two tabs presented one cookie at the same time, or    *)
(* its user was removed from the organization: the single refreshPromise      *)
(* keeps a tab from racing itself.                                            *)
SessionLossExplained ==
    \A s \in Session : revocation[s] = "refresh_reuse_detected" => s \in troubled \cup orphaned

(* A tab that logged out with no refresh of its own under way stays without   *)
(* an access token until it is reloaded or somebody signs in, whatever other  *)
(* tabs of the browser do to the shared cookie.                               *)
LogoutHolds == \A t \in Tab : gone[t] = "clean" => access[t] = NoToken

(* A tab does not sit on a token that will go stale: who holds one has a      *)
(* timer pending or a refresh under way.                                      *)
TokenKeptFresh ==
    \A t \in Tab : access[t] # NoToken => t \in timer \/ refreshing[t] # Nobody

(* "Logout ... Clear in-memory token": after a logout a tab holds no access   *)
(* token.                                                                     *)
LogoutClearsToken == \A t \in Tab : gone[t] # "no" => access[t] = NoToken

(* What makes these inductive.  A refresh is the call of one tab ...          *)
ClientTypeOK ==
    /\ cookie \in Issued \cup {NoToken}
    /\ access \in [Tab -> Token \cup {NoToken}]
    /\ timer \subseteq Tab
    /\ refreshing \in [Tab -> Request \cup {Nobody, Bare}]
    /\ awaiting \subseteq Tab
    /\ leaving \in [Tab -> Request \cup {Nobody, Bare}]
    /\ gone \in [Tab -> {"no", "clean", "racing"}]
    /\ troubled \subseteq Session

CallsOfTabs ==
    /\ \A t \in Tab : refreshing[t] \in Request =>
          pc[refreshing[t]] \in {"lookup", "locked", "decided", "200", "401", "500"}
    /\ \A t, u \in Tab : refreshing[t] = refreshing[u] /\ refreshing[t] \in Request => t = u

(* ... and unless something went wrong, a tab is waiting for every refresh    *)
(* under way, and no two present the same token.                              *)
Excused == troubled \cup orphaned

OwnCalls ==
    /\ \A r \in Request : pc[r] \in {"lookup", "locked", "decided"} =>
          r \in InFlight \/ family[presented[r]] \in Excused
    /\ \A q, r \in InFlight : presented[q] = presented[r] =>
          q = r \/ family[presented[r]] \in Excused

(* So a refresh presents an unspent token, because the cookie is unspent but  *)
(* for an answer on its way, and what that answer brings is new.              *)
PresentsUnspent ==
    \A r \in Request :
        /\ pc[r] \in {"lookup", "locked"} =>
              presented[r] \notin used \/ family[presented[r]] \in Excused
        /\ pc[r] = "decided" /\ verdict[r] \in {"reuse", "rotateOrphan"} =>
              family[presented[r]] \in Excused

CookieUnspent ==
    cookie \in used => \/ family[cookie] \in Excused
                       \/ \E r \in InFlight : presented[r] = cookie /\ pc[r] = "200"

AnswerIsNews ==
    \A r \in InFlight : pc[r] = "200" =>
        /\ replaced_by[presented[r]] \notin used \cup {cookie}
        /\ \A q \in Request : pc[q] # "idle" => presented[q] # replaced_by[presented[r]]

(* A tab that left cleanly has nothing left that could bring a token.         *)
CleanTabs ==
    \A t \in Tab : gone[t] = "clean" => /\ access[t] = NoToken
                                        /\ t \notin timer /\ refreshing[t] = Nobody

PromiseInv == /\ CallsOfTabs /\ OwnCalls /\ PresentsUnspent /\ CookieUnspent /\ AnswerIsNews
              /\ SessionLossExplained

ClientInv == ClientTypeOK /\ PromiseInv /\ CleanTabs /\ TokenKeptFresh
===============================================================================

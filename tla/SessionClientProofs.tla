-------------------------- MODULE SessionClientProofs --------------------------
(***************************************************************************)
(* Proofs about SessionClient, for any number of tabs: the server inside it   *)
(* behaves as RefreshRotation says, so what is proved there holds here, and   *)
(* on top of it the promises of the browser's side.                           *)
(***************************************************************************)
EXTENDS SessionClient, RefreshRotationProofs

(* Sending a refresh or a logout, and the other client steps, are steps of    *)
(* the server or leave it alone.                                              *)
LEMMA SendIsServerStep ==
  ASSUME ClientTypeOK, NEW t \in Tab, SendRefresh(t)
  PROVE  [Next]_vars
<1>1. CASE cookie = NoToken
  BY <1>1 DEF SendRefresh
<1>2. CASE cookie # NoToken
  <2>1. cookie \in Issued
    BY <1>2 DEF ClientTypeOK
  <2> QED
    BY <1>2, <2>1 DEF SendRefresh, Next, Arrive
<1> QED
  BY <1>1, <1>2

(* Every step of the browser is a step of the server or none of its          *)
(* business.                                                                 *)
LEMMA ClientStepIsServerStep ==
  ASSUME ClientTypeOK, [ClientNext]_allVars
  PROVE  [Next]_vars
<1>1. CASE UNCHANGED allVars
  BY <1>1 DEF allVars
<1>2. ASSUME NEW t \in Tab, RefreshSession(t) PROVE [Next]_vars
  BY <1>2, SendIsServerStep DEF RefreshSession
<1>3. ASSUME NEW t \in Tab, SendLogout(t) PROVE [Next]_vars
  <2>1. cookie # NoToken => cookie \in Issued
    BY DEF ClientTypeOK
  <2> QED
    BY <1>3, <2>1 DEF SendLogout, Next, Arrive
<1>4. ASSUME NEW t \in Tab, UNCHANGED vars PROVE [Next]_vars
  BY <1>4
<1>5. ASSUME NEW t \in Tab, Reload(t) PROVE [Next]_vars
  BY <1>5, SendIsServerStep DEF Reload
<1>6. ASSUME NEW t \in Tab, NEW s \in Session, NEW k \in Token, SignIn(t, s, k) PROVE [Next]_vars
  BY <1>6 DEF SignIn, Next
<1>7. ASSUME ServerStep PROVE [Next]_vars
  BY <1>7 DEF ServerStep, Next
<1>8. ASSUME NEW t \in Tab,
             RefreshSucceeds(t) \/ RefreshFails(t) \/ AnswerLost(t) \/ LogoutSettles(t)
      PROVE  UNCHANGED vars
  BY <1>8 DEF RefreshSucceeds, RefreshFails, AnswerLost, LogoutSettles, RefreshRejected,
              SettlePromise
<1> QED
  BY <1>1, <1>2, <1>3, <1>5, <1>6, <1>7, <1>8 DEF ClientNext, TimerFires, Unauthorized

(* What the server keeps of the past, as the client needs it.                 *)
LEMMA PastOfClient ==
  ASSUME TypeOK, RotationInv, ClientTypeOK, [ClientNext]_allVars
  PROVE  /\ Issued \subseteq Issued' /\ used \subseteq used'
         /\ \A k \in Issued : family'[k] = family[k]
BY ClientStepIsServerStep, HistoryStep DEF PastIsKept

(* What a successful refresh brings is an issued token.                       *)
LEMMA AnswerIsIssued ==
  ASSUME TypeOK, RotationInv, NEW r \in Request, pc[r] = "200"
  PROVE  /\ presented[r] \in used /\ presented[r] \in Issued
         /\ replaced_by[presented[r]] \in Issued
         /\ family[replaced_by[presented[r]]] = family[presented[r]]
BY DEF TypeOK, RotationInv, RotatesUnspent, LinearFamily

(* Sending a refresh gives the tab a promise to wait for.                    *)
LEMMA SendTypes ==
  ASSUME ClientTypeOK, NEW t \in Tab, SendRefresh(t)
  PROVE  refreshing' \in [Tab -> Request \cup {Nobody, Bare}] /\ refreshing'[t] # Nobody
BY SentinelAssumption, BareAssumption DEF ClientTypeOK, SendRefresh

(* What troubles a tab is a session.                                         *)
LEMMA TroubleTypes ==
  ASSUME TypeOK, ClientTypeOK, CallsOfTabs
  PROVE  Overlapped \subseteq Session /\ \A t \in Tab : SessionOf(refreshing[t]) \subseteq Session
<1>1. \A r \in InFlight : presented[r] \in Issued
  BY DEF InFlight, TypeOK, CallsOfTabs
<1>2. Overlapped \subseteq Session
  BY <1>1 DEF Overlapped, TypeOK
<1>3. \A t \in Tab : SessionOf(refreshing[t]) \subseteq Session
  BY DEF SessionOf, TypeOK, CallsOfTabs
<1> QED
  BY <1>2, <1>3

(* Every step of client or server keeps the types of the client.             *)
LEMMA ClientTypeInductive ==
  ASSUME TypeOK, RotationInv, ClientInv, [ClientNext]_allVars
  PROVE  ClientTypeOK'
<1> USE DEF ClientTypeOK
<1>a. ClientTypeOK /\ CallsOfTabs
  BY DEF ClientInv, PromiseInv
<1>b. Issued \subseteq Issued'
  BY <1>a, PastOfClient
<1>c. cookie \in Issued' \cup {NoToken}
  BY <1>a, <1>b
<1>d. Overlapped \subseteq Session /\ \A t \in Tab : SessionOf(refreshing[t]) \subseteq Session
  BY <1>a, TroubleTypes
<1>e. Issued \subseteq Token
  BY DEF TypeOK
<1>1. CASE UNCHANGED allVars
  BY <1>1, <1>a, <1>c DEF allVars, clientVars
<1>2. ASSUME NEW t \in Tab, RefreshSession(t)
      PROVE  refreshing' \in [Tab -> Request \cup {Nobody, Bare}] /\ troubled' \subseteq Session
  BY <1>2, <1>a, <1>d, SendTypes DEF RefreshSession
<1>3. ASSUME NEW t \in Tab, TimerFires(t) PROVE ClientTypeOK'
  BY <1>2, <1>3, <1>a, <1>c DEF TimerFires
<1>4. ASSUME NEW t \in Tab, Unauthorized(t) PROVE ClientTypeOK'
  BY <1>2, <1>4, <1>a, <1>c DEF Unauthorized
<1>5. ASSUME NEW t \in Tab, Reload(t) PROVE ClientTypeOK'
  <2>1. refreshing' \in [Tab -> Request \cup {Nobody, Bare}] /\ troubled' \subseteq Session
    BY <1>5, <1>a, <1>d, SendTypes DEF Reload
  <2> QED
    BY <1>5, <1>a, <1>c, <2>1 DEF Reload
<1>6. ASSUME NEW t \in Tab, RefreshSucceeds(t) PROVE ClientTypeOK'
  <2>1. replaced_by[presented[refreshing[t]]] \in Issued
    BY <1>6, AnswerIsIssued DEF RefreshSucceeds
  <2> QED
    BY <1>6, <1>a, <1>b, <1>e, <2>1 DEF RefreshSucceeds, StoreAccessToken, SettlePromise
<1>7. ASSUME NEW t \in Tab, RefreshRejected(t), troubled' \subseteq Session PROVE ClientTypeOK'
  BY <1>7, <1>a, <1>c DEF RefreshRejected, SettlePromise
<1>8. ASSUME NEW t \in Tab, RefreshFails(t) \/ AnswerLost(t) PROVE ClientTypeOK'
  <2>1. RefreshRejected(t) /\ troubled' \subseteq Session
    BY <1>8, <1>a, <1>d DEF RefreshFails, AnswerLost
  <2> QED
    BY <1>7, <2>1
<1>9. ASSUME NEW t \in Tab, SendLogout(t) PROVE ClientTypeOK'
  BY <1>9, <1>a, <1>c DEF SendLogout
<1>10. ASSUME NEW t \in Tab, LogoutSettles(t) PROVE ClientTypeOK'
  BY <1>10, <1>a, <1>c DEF LogoutSettles, ClearSession
<1>11. ASSUME NEW t \in Tab, NEW s \in Session, NEW k \in Token, SignIn(t, s, k) PROVE ClientTypeOK'
  <2>1. k \in Issued'
    BY <1>11, AddTokenEffect DEF SignIn, Login
  <2> QED
    BY <1>11, <1>a, <2>1 DEF SignIn, StoreAccessToken
<1>12. ASSUME ServerStep PROVE ClientTypeOK'
  BY <1>12, <1>a, <1>c DEF ServerStep, clientVars
<1> QED
  BY <1>1, <1>3, <1>4, <1>5, <1>6, <1>8, <1>9, <1>10, <1>11, <1>12 DEF ClientNext

-------------------------------------------------------------------------------
(* The page: a tab that left cleanly stays empty, and one with a token will   *)
(* renew it.                                                                  *)
LEMMA TabsInductive ==
  ASSUME ClientTypeOK, CleanTabs, TokenKeptFresh, [ClientNext]_allVars
  PROVE  CleanTabs' /\ TokenKeptFresh'
<1> USE SentinelAssumption, BareAssumption
<1> USE DEF ClientTypeOK, CleanTabs, TokenKeptFresh
<1>1. CASE UNCHANGED allVars
  BY <1>1 DEF allVars, clientVars
<1>2. ASSUME NEW t \in Tab, RefreshSession(t)
      PROVE  /\ refreshing'[t] # Nobody
             /\ \A u \in Tab \ {t} : refreshing'[u] = refreshing[u]
  BY <1>2 DEF RefreshSession, SendRefresh
<1>3. ASSUME NEW t \in Tab, TimerFires(t) PROVE CleanTabs' /\ TokenKeptFresh'
  BY <1>2, <1>3 DEF TimerFires
<1>4. ASSUME NEW t \in Tab, Unauthorized(t) PROVE CleanTabs' /\ TokenKeptFresh'
  BY <1>2, <1>4 DEF Unauthorized
<1>5. ASSUME NEW t \in Tab, Reload(t) PROVE CleanTabs' /\ TokenKeptFresh'
  BY <1>5 DEF Reload, SendRefresh
<1>6. ASSUME NEW t \in Tab, RefreshSucceeds(t) PROVE CleanTabs' /\ TokenKeptFresh'
  BY <1>6 DEF RefreshSucceeds, StoreAccessToken, SettlePromise
<1>7. ASSUME NEW t \in Tab, RefreshFails(t) \/ AnswerLost(t) PROVE CleanTabs' /\ TokenKeptFresh'
  <2>1. RefreshRejected(t) /\ refreshing[t] # Nobody
    BY <1>7 DEF RefreshFails, AnswerLost
  <2> QED
    BY <2>1 DEF RefreshRejected, SettlePromise
<1>8. ASSUME NEW t \in Tab, SendLogout(t) PROVE CleanTabs' /\ TokenKeptFresh'
  BY <1>8 DEF SendLogout
<1>9. ASSUME NEW t \in Tab, LogoutSettles(t) PROVE CleanTabs' /\ TokenKeptFresh'
  BY <1>9 DEF LogoutSettles, ClearSession
<1>10. ASSUME NEW t \in Tab, NEW s \in Session, NEW k \in Token, SignIn(t, s, k)
       PROVE  CleanTabs' /\ TokenKeptFresh'
  BY <1>10 DEF SignIn, StoreAccessToken
<1>11. ASSUME ServerStep PROVE CleanTabs' /\ TokenKeptFresh'
  BY <1>11 DEF ServerStep, clientVars
<1> QED
  BY <1>1, <1>3, <1>4, <1>5, <1>6, <1>7, <1>8, <1>9, <1>10, <1>11 DEF ClientNext

-------------------------------------------------------------------------------
(* The promise.  A tab sends a refresh with the cookie of the moment; where   *)
(* another one presents it already, or the tab gives up one of its own, the   *)
(* session is troubled.                                                       *)
LEMMA SendKeepsPromise ==
  ASSUME TypeOK, RotationInv, ClientTypeOK, PromiseInv, NEW t \in Tab, SendRefresh(t),
         UNCHANGED cookie, troubled \subseteq troubled',
         Overlapped \subseteq troubled', SessionOf(refreshing[t]) \subseteq troubled'
  PROVE  PromiseInv'
<1> USE SentinelAssumption, BareAssumption
<1> USE DEF TypeOK, ClientTypeOK, PromiseInv, CallsOfTabs
<1>1. CASE cookie = NoToken
  <2>1. refreshing' = [refreshing EXCEPT ![t] = Bare] /\ UNCHANGED vars
    BY <1>1 DEF SendRefresh
  <2>2. UNCHANGED <<family, used, replaced_by, revocation, orphaned, pc, presented, verdict>>
        /\ Issued' = Issued
    BY <2>1 DEF vars, Issued
  <2>3. Excused \subseteq Excused'
    BY <2>2 DEF Excused
  <2>4. InFlight' \subseteq InFlight
        /\ \A r \in InFlight \ InFlight' : r = refreshing[t] /\ r \in Request
    BY <2>1 DEF InFlight
  <2>5. \A r \in InFlight \ InFlight' : family[presented[r]] \in Excused'
    BY <2>4 DEF SessionOf, Excused
  <2>6. CallsOfTabs'
    BY <2>1, <2>2
  <2>7. OwnCalls'
    BY <2>2, <2>3, <2>4, <2>5 DEF OwnCalls
  <2>8. PresentsUnspent' /\ SessionLossExplained'
    BY <2>2, <2>3 DEF PresentsUnspent, SessionLossExplained, Excused
  <2>9. CookieUnspent'
    BY <1>1, <2>2 DEF CookieUnspent
  <2>10. AnswerIsNews'
    BY <2>2, <2>4 DEF AnswerIsNews
  <2> QED
    BY <2>6, <2>7, <2>8, <2>9, <2>10
<1>2. CASE cookie # NoToken
  <2>1. PICK r \in Request : BeginRefresh(r, cookie) /\ refreshing' = [refreshing EXCEPT ![t] = r]
    BY <1>2 DEF SendRefresh
  <2>2. /\ pc[r] = "idle" /\ pc' = [pc EXCEPT ![r] = "lookup"]
        /\ presented' = [presented EXCEPT ![r] = cookie]
        /\ UNCHANGED <<family, used, replaced_by, revocation, orphaned, verdict>>
        /\ Issued' = Issued /\ cookie \in Issued
    BY <1>2, <2>1 DEF BeginRefresh, tokenVars, Issued
  <2>3. Excused \subseteq Excused'
    BY <2>2 DEF Excused
  <2>4. r \notin InFlight
    BY <2>2 DEF InFlight
  <2>5. /\ r \in InFlight' /\ InFlight' \subseteq InFlight \cup {r}
        /\ \A q \in InFlight \ InFlight' : q = refreshing[t] /\ q \in Request
    BY <2>1 DEF InFlight
  <2>6. \A q \in InFlight \ InFlight' : family[presented[q]] \in Excused'
    BY <2>5 DEF SessionOf, Excused
  <2>7. \A q \in InFlight : presented[q] = cookie => family[cookie] \in Excused'
    BY DEF Overlapped, Excused
  <2>8. CallsOfTabs'
    BY <2>1, <2>2
  <2>9. OwnCalls'
    <3>1. \A q \in Request : pc'[q] \in {"lookup", "locked", "decided"} =>
             q \in InFlight' \/ family[presented'[q]] \in Excused'
      BY <2>2, <2>3, <2>5, <2>6 DEF OwnCalls
    <3>2. \A p, q \in InFlight' : presented'[p] = presented'[q] =>
             p = q \/ family[presented'[q]] \in Excused'
      <4> SUFFICES ASSUME NEW p \in InFlight', NEW q \in InFlight', presented'[p] = presented'[q],
                          p # q
                   PROVE  family[presented'[q]] \in Excused'
        OBVIOUS
      <4>1. p \in Request /\ q \in Request
        BY <2>5 DEF InFlight
      <4>2. CASE p = r \/ q = r
        BY <2>2, <2>5, <2>7, <4>1, <4>2
      <4>3. CASE p # r /\ q # r
        BY <2>2, <2>3, <2>5, <4>1, <4>3 DEF OwnCalls
      <4> QED
        BY <4>2, <4>3
    <3> QED
      BY <2>2, <3>1, <3>2 DEF OwnCalls
  <2>10. cookie \in used => family[cookie] \in Excused'
    BY <2>3, <2>7 DEF CookieUnspent
  <2>11. PresentsUnspent'
    BY <2>2, <2>3, <2>10 DEF PresentsUnspent
  <2>12. CookieUnspent'
    BY <2>2, <2>10 DEF CookieUnspent
  <2>13. AnswerIsNews'
    <3> SUFFICES ASSUME NEW q \in InFlight', pc'[q] = "200"
                 PROVE  /\ replaced_by[presented'[q]] \notin used \cup {cookie}
                        /\ \A p \in Request : pc'[p] # "idle" => presented'[p] # replaced_by[presented'[q]]
      BY <2>2 DEF AnswerIsNews
    <3>1. q # r /\ q \in InFlight /\ pc[q] = "200" /\ presented'[q] = presented[q]
      BY <2>2, <2>5 DEF InFlight
    <3> QED
      BY <2>2, <3>1 DEF AnswerIsNews
  <2>14. SessionLossExplained'
    BY <2>2 DEF SessionLossExplained
  <2> QED
    BY <2>8, <2>9, <2>11, <2>12, <2>13, <2>14
<1> QED
  BY <1>1, <1>2

(* The promise is rejected: by an answer, or because there will be none, and  *)
(* then the session is troubled.                                              *)
LEMMA RejectKeepsPromise ==
  ASSUME TypeOK, ClientTypeOK, PromiseInv, NEW t \in Tab, RefreshFails(t) \/ AnswerLost(t)
  PROVE  PromiseInv'
<1> USE SentinelAssumption, BareAssumption
<1> USE DEF TypeOK, ClientTypeOK, PromiseInv, CallsOfTabs
<1>1. refreshing' = [refreshing EXCEPT ![t] = Nobody] /\ UNCHANGED <<vars, cookie>>
      /\ troubled \subseteq troubled'
  BY DEF RefreshFails, AnswerLost, RefreshRejected, SettlePromise
<1>2. UNCHANGED <<family, used, replaced_by, revocation, orphaned, pc, presented, verdict>>
      /\ Issued' = Issued
  BY <1>1 DEF vars, Issued
<1>3. Excused \subseteq Excused'
  BY <1>1, <1>2 DEF Excused
<1>4. InFlight' \subseteq InFlight
      /\ \A r \in InFlight \ InFlight' : r = refreshing[t] /\ r \in Request
  BY <1>1 DEF InFlight
<1>5. \A r \in InFlight \ InFlight' : pc[r] \in {"401", "500"} \/ family[presented[r]] \in Excused'
  BY <1>4 DEF SessionOf, Excused, RefreshFails, AnswerLost
<1>6. CallsOfTabs'
  BY <1>1, <1>2
<1>7. OwnCalls'
  BY <1>2, <1>3, <1>4, <1>5 DEF OwnCalls
<1>8. PresentsUnspent' /\ SessionLossExplained'
  BY <1>2, <1>3 DEF PresentsUnspent, SessionLossExplained, Excused
<1>9. CookieUnspent'
  BY <1>1, <1>2, <1>3, <1>5 DEF CookieUnspent
<1>10. AnswerIsNews'
  BY <1>1, <1>2, <1>4 DEF AnswerIsNews
<1> QED
  BY <1>6, <1>7, <1>8, <1>9, <1>10

(* The promise is fulfilled: the cookie becomes what the answer brought, which *)
(* nobody has presented yet and no other answer brings.                       *)
LEMMA SucceedKeepsPromise ==
  ASSUME TypeOK, RotationInv, ClientTypeOK, PromiseInv, NEW t \in Tab, RefreshSucceeds(t)
  PROVE  PromiseInv'
<1> USE SentinelAssumption, BareAssumption
<1> USE DEF TypeOK, ClientTypeOK, PromiseInv, CallsOfTabs
<1> DEFINE r == refreshing[t]
           k == replaced_by[presented[r]]
<1>1. /\ r \in Request /\ pc[r] = "200" /\ cookie' = k
      /\ refreshing' = [refreshing EXCEPT ![t] = Nobody]
      /\ UNCHANGED <<vars, troubled>>
  BY DEF RefreshSucceeds, SettlePromise
<1>2. UNCHANGED <<family, used, replaced_by, revocation, orphaned, pc, presented, verdict>>
      /\ Issued' = Issued /\ Excused' = Excused
  BY <1>1 DEF vars, Issued, Excused
<1>3. r \in InFlight /\ InFlight' = InFlight \ {r}
  BY <1>1 DEF InFlight
<1>4. k \notin used
  BY <1>1, <1>3 DEF AnswerIsNews
<1>5. \A q \in InFlight' : pc[q] = "200" => replaced_by[presented[q]] # k
  <2> SUFFICES ASSUME NEW q \in InFlight', pc[q] = "200", replaced_by[presented[q]] = k
               PROVE  FALSE
    OBVIOUS
  <2>1. q \in Request /\ q # r
    BY <1>3 DEF InFlight
  <2>2. presented[q] \in used /\ presented[r] \in used
    BY <1>1, <2>1, AnswerIsIssued
  <2>3. presented[q] = presented[r]
    BY <2>2 DEF RotationInv, LinearFamily
  <2> QED
    BY <1>1, <2>1, <2>3 DEF RotationInv, TokenSpentOnce
<1>6. CallsOfTabs'
  BY <1>1, <1>2
<1>7. OwnCalls'
  BY <1>1, <1>2, <1>3 DEF OwnCalls
<1>8. PresentsUnspent' /\ SessionLossExplained'
  BY <1>1, <1>2 DEF PresentsUnspent, SessionLossExplained
<1>9. CookieUnspent'
  BY <1>1, <1>2, <1>4 DEF CookieUnspent
<1>10. AnswerIsNews'
  BY <1>1, <1>2, <1>3, <1>5 DEF AnswerIsNews
<1> QED
  BY <1>6, <1>7, <1>8, <1>9, <1>10

(* Somebody signs in: a session and a token that were not there.              *)
LEMMA SignInKeepsPromise ==
  ASSUME TypeOK, RotationInv, ClientTypeOK, PromiseInv,
         NEW t \in Tab, NEW s \in Session, NEW k \in Token, SignIn(t, s, k)
  PROVE  PromiseInv'
<1> USE SentinelAssumption, BareAssumption
<1> USE DEF TypeOK, ClientTypeOK, PromiseInv, CallsOfTabs
<1>1. /\ k \notin Issued /\ Issued' = Issued \cup {k} /\ cookie' = k
      /\ \A x \in Issued : family'[x] = family[x]
      /\ UNCHANGED <<used, replaced_by, revocation, orphaned, pc, presented, verdict>>
      /\ UNCHANGED <<refreshing, troubled>>
  BY AddTokenEffect DEF SignIn, Login
<1>2. InFlight' = InFlight /\ Excused' = Excused
  BY <1>1 DEF InFlight, Excused
<1>3. \A q \in Request : pc[q] # "idle" => family'[presented[q]] = family[presented[q]]
  BY <1>1
<1>4. \A q \in InFlight : q \in Request /\ pc[q] # "idle"
  BY DEF InFlight
<1>5. CallsOfTabs'
  BY <1>1
<1>6. OwnCalls'
  BY <1>1, <1>2, <1>3, <1>4 DEF OwnCalls
<1>7. PresentsUnspent' /\ SessionLossExplained'
  BY <1>1, <1>2, <1>3 DEF PresentsUnspent, SessionLossExplained
<1>8. CookieUnspent'
  BY <1>1 DEF CookieUnspent
<1>9. AnswerIsNews'
  <2>1. \A q \in InFlight : pc[q] = "200" => replaced_by[presented[q]] # k
    BY <1>1, <1>4, AnswerIsIssued
  <2> QED
    BY <1>1, <1>2, <2>1 DEF AnswerIsNews
<1> QED
  BY <1>5, <1>6, <1>7, <1>8, <1>9

(* A logout takes no part in it, beyond deleting the cookie.                  *)
LEMMA LogoutKeepsPromise ==
  ASSUME TypeOK, RotationInv, ClientTypeOK, PromiseInv, NEW t \in Tab,
         SendLogout(t) \/ LogoutSettles(t)
  PROVE  PromiseInv'
<1> USE SentinelAssumption, BareAssumption
<1> USE DEF TypeOK, ClientTypeOK, PromiseInv, CallsOfTabs
<1>1. CASE UNCHANGED <<vars, refreshing, troubled>> /\ cookie' \in {cookie, NoToken}
  <2>1. UNCHANGED <<family, used, replaced_by, revocation, orphaned, pc, presented, verdict>>
        /\ Issued' = Issued /\ Excused' = Excused /\ InFlight' = InFlight
    BY <1>1 DEF vars, Issued, Excused, InFlight
  <2>2. \A r \in InFlight : r \in Request
    BY DEF InFlight
  <2>3. CallsOfTabs' /\ OwnCalls' /\ PresentsUnspent' /\ SessionLossExplained'
    BY <1>1, <2>1 DEF OwnCalls, PresentsUnspent, SessionLossExplained
  <2>4. CookieUnspent'
    BY <1>1, <2>1 DEF CookieUnspent
  <2>5. AnswerIsNews'
    BY <1>1, <2>1, <2>2, AnswerIsIssued DEF AnswerIsNews
  <2> QED
    BY <2>3, <2>4, <2>5
<1>2. ASSUME NEW r \in Request, BeginLogout(r, cookie), cookie # NoToken,
             UNCHANGED <<cookie, refreshing, troubled>>
      PROVE  PromiseInv'
  <2>1. /\ pc[r] = "idle" /\ pc' = [pc EXCEPT ![r] = "logout"]
        /\ presented' = [presented EXCEPT ![r] = cookie]
        /\ \A q \in Request \ {r} : verdict'[q] = verdict[q]
        /\ UNCHANGED <<family, used, replaced_by, revocation, orphaned>>
        /\ Issued' = Issued /\ Excused' = Excused /\ InFlight' = InFlight
    BY <1>2 DEF BeginLogout, tokenVars, Issued, Excused, InFlight
  <2>2. \A q \in InFlight : q \in Request /\ q # r
    BY <2>1 DEF InFlight
  <2>3. CallsOfTabs'
    BY <1>2, <2>1
  <2>4. OwnCalls'
    BY <2>1, <2>2 DEF OwnCalls
  <2>5. PresentsUnspent' /\ SessionLossExplained'
    BY <1>2, <2>1 DEF PresentsUnspent, SessionLossExplained
  <2>6. CookieUnspent'
    BY <1>2, <2>1, <2>2 DEF CookieUnspent
  <2>7. AnswerIsNews'
    BY <1>2, <2>1, <2>2 DEF AnswerIsNews
  <2> QED
    BY <2>3, <2>4, <2>5, <2>6, <2>7
<1> QED
  BY <1>1, <1>2 DEF SendLogout, LogoutSettles

(* The server reads, locks, decides or gives up: nothing is spent.            *)
LEMMA QuietServerKeepsPromise ==
  ASSUME TypeOK, ClientTypeOK, PromiseInv, UNCHANGED <<cookie, refreshing, troubled>>,
         UNCHANGED <<tokenVars, presented>>, orphaned \subseteq orphaned',
         NEW r \in Request, \A q \in Request \ {r} : pc'[q] = pc[q] /\ verdict'[q] = verdict[q],
         \/ pc'[r] = pc[r] /\ verdict'[r] = verdict[r]
         \/ pc[r] = "lookup" /\ pc'[r] = "locked"
         \/ /\ pc[r] = "locked" /\ pc'[r] = "decided"
            /\ verdict'[r] \in {"reuse", "rotateOrphan"} => family[presented[r]] \in Excused
         \/ pc[r] \in {"lookup", "locked", "decided"} /\ pc'[r] \in {"401", "500"}
         \/ pc[r] = "logout" /\ pc'[r] \in {"204", "500"}
  PROVE  CallsOfTabs' /\ OwnCalls' /\ PresentsUnspent' /\ CookieUnspent' /\ AnswerIsNews'
<1> USE SentinelAssumption, BareAssumption
<1> USE DEF TypeOK, ClientTypeOK, PromiseInv, CallsOfTabs
<1>1. UNCHANGED <<family, used, replaced_by>> /\ Issued' = Issued /\ InFlight' = InFlight
      /\ Excused \subseteq Excused'
  BY DEF tokenVars, Issued, InFlight, Excused
<1>2. \A q \in InFlight : q \in Request /\ (pc[q] = "200" <=> pc'[q] = "200")
  BY DEF InFlight
<1>3. CallsOfTabs'
  BY <1>1
<1>4. OwnCalls'
  BY <1>1, <1>2 DEF OwnCalls
<1>5. PresentsUnspent'
  BY <1>1 DEF PresentsUnspent
<1>6. CookieUnspent'
  BY <1>1, <1>2 DEF CookieUnspent
<1>7. AnswerIsNews'
  BY <1>1, <1>2 DEF AnswerIsNews
<1> QED
  BY <1>3, <1>4, <1>5, <1>6, <1>7

(* The server rotates a token: the one refresh that presented it has its      *)
(* answer on the way.                                                         *)
LEMMA RotateKeepsPromise ==
  ASSUME TypeOK, RotationInv, ClientTypeOK, PromiseInv, UNCHANGED <<cookie, refreshing, troubled>>,
         NEW r \in Request, pc[r] = "decided", verdict[r] \in {"rotate", "rotateOrphan"},
         NEW k2 \in Token, Rotate(presented[r], k2),
         pc' = [pc EXCEPT ![r] = IF verdict[r] = "rotate" THEN "200" ELSE "401"],
         UNCHANGED <<orphaned, presented, verdict>>
  PROVE  PromiseInv'
<1> USE SentinelAssumption, BareAssumption
<1> USE DEF TypeOK, ClientTypeOK, PromiseInv, CallsOfTabs
<1> DEFINE k == presented[r]
<1>1. /\ k2 \notin Issued /\ Issued' = Issued \cup {k2}
      /\ \A x \in Issued : family'[x] = family[x]
      /\ used' = used \cup {k}
      /\ replaced_by' = [replaced_by EXCEPT ![k] = k2]
      /\ UNCHANGED revocation
  BY AddTokenEffect DEF Rotate
<1>2. InFlight' = InFlight /\ Excused' = Excused /\ k \in Issued /\ k \notin used
  BY DEF InFlight, Excused, RotationInv, RotatesUnspent
<1>3. \A q \in Request : pc[q] # "idle" =>
         presented[q] \in Issued /\ family'[presented[q]] = family[presented[q]]
  BY <1>1
<1>4. \A q \in InFlight : q \in Request /\ pc[q] # "idle"
  BY DEF InFlight
<1>5. r \in InFlight \/ family[k] \in Excused
  BY DEF OwnCalls
<1>6. CallsOfTabs'
  BY <1>1
<1>7. OwnCalls'
  BY <1>1, <1>2, <1>3, <1>4 DEF OwnCalls
<1>8. PresentsUnspent'
  <2> SUFFICES ASSUME NEW q \in Request
               PROVE  /\ pc'[q] \in {"lookup", "locked"} =>
                            presented[q] \notin used' \/ family'[presented[q]] \in Excused
                      /\ pc'[q] = "decided" /\ verdict[q] \in {"reuse", "rotateOrphan"} =>
                            family'[presented[q]] \in Excused
    BY <1>2 DEF PresentsUnspent
  <2>1. CASE pc'[q] \in {"lookup", "locked"}
    <3>1. pc[q] = pc'[q] /\ q # r
      BY <2>1
    <3>2. presented[q] = k => family[k] \in Excused
      BY <1>5, <2>1, <3>1 DEF OwnCalls
    <3> QED
      BY <1>1, <1>3, <2>1, <3>1, <3>2 DEF PresentsUnspent
  <2>2. CASE pc'[q] = "decided"
    BY <1>3, <2>2 DEF PresentsUnspent
  <2> QED
    BY <2>1, <2>2
<1>9. CookieUnspent'
  <2>1. cookie # NoToken => family'[cookie] = family[cookie]
    BY <1>1
  <2>2. ASSUME cookie = k PROVE CookieUnspent'
    <3>1. verdict[r] = "rotateOrphan" => family[k] \in Excused
      BY DEF PresentsUnspent
    <3> QED
      BY <1>2, <1>3, <1>5, <2>2, <3>1 DEF CookieUnspent
  <2>3. ASSUME cookie # k PROVE CookieUnspent'
    <3>1. cookie \in used' => cookie \in used
      BY <1>1, <2>3
    <3>2. cookie \in used => cookie # NoToken
      OBVIOUS
    <3>3. \A q \in InFlight : pc[q] = "200" => pc'[q] = "200"
      BY <1>4
    <3> QED
      BY <1>2, <2>1, <3>1, <3>2, <3>3 DEF CookieUnspent
  <2> QED
    BY <2>2, <2>3
<1>10. AnswerIsNews'
  <2> SUFFICES ASSUME NEW q \in InFlight, pc'[q] = "200"
               PROVE  /\ replaced_by'[presented[q]] \notin used' \cup {cookie}
                      /\ \A p \in Request : pc'[p] # "idle" => presented[p] # replaced_by'[presented[q]]
    BY <1>2 DEF AnswerIsNews
  <2>2. CASE q = r
    <3>1. replaced_by'[presented[q]] = k2 /\ k2 \notin used' /\ k2 # cookie
      BY <1>1, <1>2, <2>2
    <3> QED
      BY <1>1, <3>1
  <2>3. CASE q # r
    <3>1. q \in Request /\ pc[q] = "200"
      BY <1>4, <2>3
    <3>2. presented[q] \in used
      BY <3>1, AnswerIsIssued
    <3>3. presented[q] # k /\ replaced_by'[presented[q]] = replaced_by[presented[q]]
      BY <1>1, <1>2, <3>2
    <3>4. replaced_by[presented[q]] # k
      BY <3>1 DEF AnswerIsNews
    <3> QED
      BY <1>1, <3>1, <3>3, <3>4 DEF AnswerIsNews
  <2> QED
    BY <2>2, <2>3
<1>11. SessionLossExplained'
  BY <1>1 DEF SessionLossExplained
<1> QED
  BY <1>6, <1>7, <1>8, <1>9, <1>10, <1>11

(* While the server works on a call, its tab goes on waiting for it.         *)
LEMMA ServerKeepsPromise ==
  ASSUME TypeOK, RotationInv, ClientTypeOK, PromiseInv, ServerStep
  PROVE  PromiseInv'
<1> USE DEF TypeOK
<1>0. UNCHANGED <<cookie, refreshing, troubled>>
  BY DEF ServerStep, clientVars
<1>1. ASSUME NEW r \in Request, LockToken(r) PROVE PromiseInv'
  BY <1>0, <1>1, QuietServerKeepsPromise DEF LockToken, PromiseInv, SessionLossExplained
<1>2. ASSUME NEW r \in Request, Decide(r) PROVE PromiseInv'
  <2>1. RefreshVerdict(r) \in {"reuse", "rotateOrphan"} => family[presented[r]] \in Excused
    BY <1>2 DEF Decide, RefreshVerdict, PromiseInv, PresentsUnspent, Excused
  <2> QED
    BY <1>0, <1>2, <2>1, QuietServerKeepsPromise DEF Decide, PromiseInv, SessionLossExplained
<1>3. ASSUME NEW r \in Request, Abort(r) PROVE PromiseInv'
  BY <1>0, <1>3, QuietServerKeepsPromise DEF Abort, Working, PromiseInv, SessionLossExplained
<1>4. ASSUME NEW r \in Request, CommitLogout(r) PROVE PromiseInv'
  <2>1. UNCHANGED <<tokenVars, presented, verdict, orphaned>> /\ pc[r] = "logout"
        /\ pc' = [pc EXCEPT ![r] = "204"]
    BY <1>4 DEF CommitLogout, Revoke
  <2>2. SessionLossExplained'
    BY <1>0, <1>4, <2>1 DEF CommitLogout, Revoke, PromiseInv, SessionLossExplained
  <2> QED
    BY <1>0, <2>1, <2>2, QuietServerKeepsPromise DEF PromiseInv
<1>5. ASSUME NEW r \in Request, CommitRefresh(r) PROVE PromiseInv'
  <2>1. /\ pc[r] = "decided" /\ UNCHANGED <<orphaned, presented, verdict>>
        /\ pc' = [pc EXCEPT ![r] = IF verdict[r] = "rotate" THEN "200" ELSE "401"]
        /\ presented[r] \in Issued /\ family[presented[r]] \in Session
    BY <1>5 DEF CommitRefresh
  <2>2. CASE verdict[r] \in {"rotate", "rotateOrphan"}
    <3>1. PICK k2 \in Token : Rotate(presented[r], k2)
      BY <1>5, <2>2 DEF CommitRefresh
    <3> QED
      BY <1>0, <2>1, <2>2, <3>1, RotateKeepsPromise
  <2>3. CASE verdict[r] \notin {"rotate", "rotateOrphan"}
    <3>1. UNCHANGED tokenVars /\ pc'[r] = "401"
      BY <1>5, <2>1, <2>3 DEF CommitRefresh, Revoke
    <3>2. verdict[r] = "reuse" => family[presented[r]] \in Excused
      BY <2>1 DEF PromiseInv, PresentsUnspent
    <3>3. \A s \in Session : revocation'[s] = "refresh_reuse_detected" =>
             revocation[s] = "refresh_reuse_detected" \/ s \in Excused
      BY <1>5, <2>1, <2>3, <3>2 DEF CommitRefresh, Revoke
    <3>4. SessionLossExplained'
      BY <1>0, <2>1, <3>3 DEF PromiseInv, SessionLossExplained, Excused
    <3> QED
      BY <1>0, <2>1, <3>1, <3>4, QuietServerKeepsPromise DEF PromiseInv
  <2> QED
    BY <2>2, <2>3
<1>6. ASSUME NEW s \in Session, LoseMembership(s) PROVE PromiseInv'
  <2>1. UNCHANGED <<tokenVars, presented, pc, verdict, revocation>> /\ orphaned \subseteq orphaned'
    BY <1>6 DEF LoseMembership
  <2>2. SessionLossExplained'
    BY <1>0, <2>1 DEF PromiseInv, SessionLossExplained
  <2>3. CASE \E r \in Request : TRUE
    BY <1>0, <2>1, <2>2, <2>3, QuietServerKeepsPromise DEF PromiseInv
  <2>4. CASE ~\E r \in Request : TRUE
    <3>1. InFlight = {} /\ InFlight' = {} /\ family' = family /\ used' = used
          /\ Excused \subseteq Excused'
      BY <1>0, <2>1, <2>4 DEF InFlight, tokenVars, Excused
    <3> QED
      BY <1>0, <2>2, <2>4, <3>1
         DEF PromiseInv, CallsOfTabs, OwnCalls, PresentsUnspent, CookieUnspent, AnswerIsNews
  <2> QED
    BY <2>3, <2>4
<1> QED
  BY <1>1, <1>2, <1>3, <1>4, <1>5, <1>6 DEF ServerStep, Proceed

(* Every step keeps what a refreshPromise stands for.                        *)
LEMMA PromiseInductive ==
  ASSUME TypeOK, RotationInv, ClientInv, [ClientNext]_allVars
  PROVE  PromiseInv'
<1>a. ClientTypeOK /\ PromiseInv
  BY DEF ClientInv
<1>1. ASSUME UNCHANGED <<vars, cookie, refreshing, troubled>> PROVE PromiseInv'
  BY <1>a, <1>1 DEF vars, PromiseInv, CallsOfTabs, OwnCalls, PresentsUnspent, CookieUnspent,
     AnswerIsNews, SessionLossExplained, InFlight, Excused
<1>2. ASSUME NEW t \in Tab, RefreshSession(t), UNCHANGED cookie PROVE PromiseInv'
  <2>1. CASE refreshing[t] # Nobody
    BY <1>1, <1>2, <2>1 DEF RefreshSession
  <2>2. CASE refreshing[t] = Nobody
    <3>1. SessionOf(refreshing[t]) = {}
      BY <2>2, SentinelAssumption DEF SessionOf
    <3> QED
      BY <1>a, <1>2, <2>2, <3>1, SendKeepsPromise DEF RefreshSession
  <2> QED
    BY <2>1, <2>2
<1>3. ASSUME NEW t \in Tab, Reload(t) PROVE PromiseInv'
  BY <1>a, <1>3, SendKeepsPromise DEF Reload
<1>4. CASE UNCHANGED allVars
  BY <1>1, <1>4 DEF allVars, clientVars
<1> QED
  BY <1>a, <1>2, <1>3, <1>4, RejectKeepsPromise, SucceedKeepsPromise, SignInKeepsPromise,
     LogoutKeepsPromise, ServerKeepsPromise
     DEF ClientNext, TimerFires, Unauthorized

-------------------------------------------------------------------------------
(* Server and client together.                                                *)
THEOREM ClientInvariant == ClientSpec => [](TypeOK /\ RotationInv /\ ClientInv)
<1>1. ClientInit => TypeOK /\ RotationInv /\ ClientInv
  <2> SUFFICES ASSUME ClientInit PROVE TypeOK /\ RotationInv /\ ClientInv
    OBVIOUS
  <2>1. TypeOK /\ RotationInv
    BY DEF ClientInit, Init, TypeOK, Issued, Decision, RotationInv, HolderOwnsRow,
       RotatesUnspent, LateIsRejected, OneLiveToken, LinearFamily, ReuseRevokes, TokenSpentOnce
  <2>2. ClientTypeOK /\ CleanTabs /\ TokenKeptFresh
    BY DEF ClientInit, ClientTypeOK, CleanTabs, TokenKeptFresh
  <2>3. InFlight = {}
    BY SentinelAssumption DEF ClientInit, InFlight
  <2>4. PromiseInv
    BY <2>3, SentinelAssumption DEF ClientInit, Init, PromiseInv, CallsOfTabs, OwnCalls,
       PresentsUnspent, CookieUnspent, AnswerIsNews, SessionLossExplained
  <2> QED
    BY <2>1, <2>2, <2>4 DEF ClientInv
<1>2. TypeOK /\ RotationInv /\ ClientInv /\ [ClientNext]_allVars
         => TypeOK' /\ RotationInv' /\ ClientInv'
  <2> SUFFICES ASSUME TypeOK, RotationInv, ClientInv, [ClientNext]_allVars
               PROVE  TypeOK' /\ RotationInv' /\ ClientInv'
    OBVIOUS
  <2>1. ClientTypeOK /\ CleanTabs /\ TokenKeptFresh
    BY DEF ClientInv
  <2>2. [Next]_vars
    BY <2>1, ClientStepIsServerStep
  <2>3. TypeOK' /\ RotationInv'
    BY <2>2, TypeInductive, RotationInductive
  <2> QED
    BY <2>1, <2>3, ClientTypeInductive, PromiseInductive, TabsInductive DEF ClientInv
<1> QED
  BY <1>1, <1>2, PTL DEF ClientSpec

(* The server as its browsers use it implements the server on its own, where  *)
(* anyone may present any token at any time: everything proved of             *)
(* RefreshRotation holds with the client around it.                           *)
THEOREM ClientUsesServer == ClientSpec => Spec
<1>1. ClientInit => Init
  BY DEF ClientInit
<1>2. ClientInv /\ [ClientNext]_allVars => [Next]_vars
  BY ClientStepIsServerStep DEF ClientInv
<1> QED
  BY <1>1, <1>2, ClientInvariant, PTL DEF ClientSpec, Spec

(* With honest tabs only, reuse detection ends a session only after a lost    *)
(* answer, overlapping refreshes of two tabs, or the user's removal.          *)
THEOREM SessionLossIsExplained == ClientSpec => []SessionLossExplained
<1>1. ClientInv => SessionLossExplained
  BY DEF ClientInv, PromiseInv
<1> QED
  BY <1>1, ClientInvariant, PTL

(* After a clean logout nothing brings a tab its access token back.           *)
THEOREM CleanLogoutHolds == ClientSpec => []LogoutHolds
<1>1. ClientInv => LogoutHolds
  BY DEF ClientInv, CleanTabs, LogoutHolds
<1> QED
  BY <1>1, ClientInvariant, PTL

(* A tab with an access token has its renewal scheduled or under way.         *)
THEOREM TokensAreKeptFresh == ClientSpec => []TokenKeptFresh
<1>1. ClientInv => TokenKeptFresh
  BY DEF ClientInv
<1> QED
  BY <1>1, ClientInvariant, PTL
===============================================================================

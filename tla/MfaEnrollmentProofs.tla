-------------------------- MODULE MfaEnrollmentProofs --------------------------
(***************************************************************************)
(* Proofs about MfaEnrollment, for any seeds, codes and requests.             *)
(***************************************************************************)
EXTENDS MfaEnrollment, FiniteSetTheorems, TLAPS

(* The next statement of each plan.                                           *)
LEMMA NextStatements ==
  /\ Following("enroll", "deleteSeed") = "insertSeed"
  /\ Following("enroll", "insertSeed") = "commit"
  /\ Following("confirm", "selectSeed") = "readUser"
  /\ Following("confirm", "readUser") = "findCodes"
  /\ Following("confirm", "findCodes") = "deleteCodes"
  /\ Following("confirm", "deleteCodes") = "commit"
  /\ Following("disable", "deleteSeed") = "findCodes"
  /\ Following("disable", "findCodes") = "deleteCodes"
  /\ Following("disable", "deleteCodes") = "readUser"
  /\ Following("disable", "readUser") = "commit"
  /\ Following("verify", "redeem") = "commit"
<1>1. /\ Following("enroll", "deleteSeed") = "insertSeed"
      /\ Following("enroll", "insertSeed") = "commit"
  <2> DEFINE p == <<"deleteSeed", "insertSeed", "commit">>
  <2>1. Plan("enroll") = p
    BY DEF Plan
  <2>2. Len(p) = 3
    OBVIOUS
  <2>3. /\ (CHOOSE n \in 1..3 : p[n] = "deleteSeed") = 1
        /\ (CHOOSE n \in 1..3 : p[n] = "insertSeed") = 2
    OBVIOUS
  <2> QED
    BY <2>1, <2>2, <2>3 DEF Following
<1>2. /\ Following("confirm", "selectSeed") = "readUser"
      /\ Following("confirm", "readUser") = "findCodes"
      /\ Following("confirm", "findCodes") = "deleteCodes"
      /\ Following("confirm", "deleteCodes") = "commit"
  <2> DEFINE p == <<"selectSeed", "readUser", "findCodes", "deleteCodes", "commit">>
  <2>1. Plan("confirm") = p
    BY DEF Plan
  <2>2. Len(p) = 5
    OBVIOUS
  <2>3. /\ (CHOOSE n \in 1..5 : p[n] = "selectSeed") = 1
        /\ (CHOOSE n \in 1..5 : p[n] = "readUser") = 2
        /\ (CHOOSE n \in 1..5 : p[n] = "findCodes") = 3
        /\ (CHOOSE n \in 1..5 : p[n] = "deleteCodes") = 4
    OBVIOUS
  <2>4. Following("confirm", "selectSeed") = "readUser"
    BY <2>1, <2>2, <2>3 DEF Following
  <2>5. Following("confirm", "readUser") = "findCodes"
    BY <2>1, <2>2, <2>3 DEF Following
  <2>6. Following("confirm", "findCodes") = "deleteCodes"
    BY <2>1, <2>2, <2>3 DEF Following
  <2>7. Following("confirm", "deleteCodes") = "commit"
    BY <2>1, <2>2, <2>3 DEF Following
  <2> QED
    BY <2>4, <2>5, <2>6, <2>7
<1>3. /\ Following("disable", "deleteSeed") = "findCodes"
      /\ Following("disable", "findCodes") = "deleteCodes"
      /\ Following("disable", "deleteCodes") = "readUser"
      /\ Following("disable", "readUser") = "commit"
  <2> DEFINE p == <<"deleteSeed", "findCodes", "deleteCodes", "readUser", "commit">>
  <2>1. Plan("disable") = p
    BY DEF Plan
  <2>2. Len(p) = 5
    OBVIOUS
  <2>3. /\ (CHOOSE n \in 1..5 : p[n] = "deleteSeed") = 1
        /\ (CHOOSE n \in 1..5 : p[n] = "findCodes") = 2
        /\ (CHOOSE n \in 1..5 : p[n] = "deleteCodes") = 3
        /\ (CHOOSE n \in 1..5 : p[n] = "readUser") = 4
    OBVIOUS
  <2>4. Following("disable", "deleteSeed") = "findCodes"
    BY <2>1, <2>2, <2>3 DEF Following
  <2>5. Following("disable", "findCodes") = "deleteCodes"
    BY <2>1, <2>2, <2>3 DEF Following
  <2>6. Following("disable", "deleteCodes") = "readUser"
    BY <2>1, <2>2, <2>3 DEF Following
  <2>7. Following("disable", "readUser") = "commit"
    BY <2>1, <2>2, <2>3 DEF Following
  <2> QED
    BY <2>4, <2>5, <2>6, <2>7
<1>4. /\ Following("verify", "redeem") = "commit"
  <2> DEFINE p == <<"totp", "redeem", "commit">>
  <2>1. Plan("verify") = p
    BY DEF Plan
  <2>2. Len(p) = 3
    OBVIOUS
  <2>3. /\ (CHOOSE n \in 1..3 : p[n] = "redeem") = 2
    OBVIOUS
  <2> QED
    BY <2>1, <2>2, <2>3 DEF Following
<1> QED
  BY <1>1, <1>2, <1>3, <1>4

(* A request goes on, and neither the user nor the codes change.              *)
LEMMA StepKeeps ==
  ASSUME TypeOK, TypeOK', MfaInv, NEW r \in Request,
         \A q \in Request \ {r} : pc'[q] = pc[q] /\ job'[q] = job[q],
         UNCHANGED <<enabled, unused, armed>>, shown \subseteq shown',
         \A c \in Code, q \in Request \ {r} : codeLock[c] = q => codeLock'[c] = q,
         StepInOrder(r)', CodeIsHeld(r)', ReadIsFresh(r)',
         pc'[r] = "ok" => job'[r].kind # "verify",
         job'[r].kind = "verify" => job'[r].code \in shown,
         job'[r].kind = "disable" /\ pc'[r] \in Step => r \in InFlight("disable"),
         job'[r].clean => job[r].clean \/ InFlight("disable") = {}
  PROVE  MfaInv'
<1> USE DEF TypeOK, MfaInv
<1>1. \A q \in Request : StepInOrder(q)' /\ ReadIsFresh(q)'
  BY DEF StepInOrder, ReadIsFresh
<1>2. \A q \in Request : CodeIsHeld(q)'
  BY DEF CodeIsHeld
<1>3. \A q \in Request, c \in Code : Opened(q, c)' => q # r /\ Opened(q, c)
  BY DEF Opened
<1>4. OpenedIsSpent'
  BY <1>3 DEF OpenedIsSpent
<1>5. InFlight("disable")' \subseteq InFlight("disable")
  BY DEF InFlight
<1>6. NoDisabling'
  BY <1>5 DEF NoDisabling
<1> QED
  BY <1>1, <1>2, <1>4, <1>6 DEF ConfirmedMfaHolds

(* A request fails.                                                           *)
LEMMA FailKeeps ==
  ASSUME TypeOK, MfaInv, NEW r \in Request, NEW status \in {"401", "500"}, Fail(r, status)
  PROVE  TypeOK' /\ MfaInv'
<1> USE SentinelAssumption
<1> USE DEF TypeOK
<1>1. /\ pc' = [pc EXCEPT ![r] = status]
      /\ seedLock' = IF seedLock = r THEN Nobody ELSE seedLock
      /\ inserter' = IF inserter = r THEN Nobody ELSE inserter
      /\ codeLock' = [c \in Code |-> IF codeLock[c] = r THEN Nobody ELSE codeLock[c]]
      /\ UNCHANGED <<seed, enabled, unused, job, shown, challenged, stepUp, proven, armed>>
  BY DEF Fail, Goto, Release, rows, tokens
<1>2. TypeOK'
  BY <1>1 DEF Status
<1>3. StepInOrder(r)' /\ CodeIsHeld(r)' /\ ReadIsFresh(r)'
  BY <1>1 DEF StepInOrder, CodeIsHeld, ReadIsFresh
<1>4. job[r].kind = "verify" => job[r].code \in shown
  BY DEF MfaInv, OpenedIsSpent
<1>5. pc'[r] \notin Step /\ pc'[r] # "ok"
  BY <1>1 DEF Step
<1> QED
  BY <1>1, <1>2, <1>3, <1>4, <1>5, StepKeeps

(* Requests arrive.                                                           *)
LEMMA ArrivalKeeps ==
  ASSUME TypeOK, MfaInv, NEW r \in Request,
         \/ BeginEnroll(r) \/ BeginLogin(r)
         \/ \E s \in Seed \cap shown : BeginConfirm(r, s)
         \/ \E code \in shown : BeginVerify(r, code)
  PROVE  TypeOK' /\ MfaInv'
<1> USE SentinelAssumption
<1> USE DEF TypeOK
<1>1. ASSUME BeginEnroll(r) PROVE TypeOK' /\ MfaInv'
  <2>1. /\ pc' = [pc EXCEPT ![r] = "deleteSeed"]
        /\ job' = [job EXCEPT ![r] = [Blank EXCEPT !.kind = "enroll", !.row = seed.id]]
        /\ UNCHANGED <<seed, enabled, unused, seedLock, inserter, codeLock, shown, challenged,
                       stepUp, proven, armed>>
    BY <1>1 DEF BeginEnroll, Goto, Start, rows, locks, tokens
  <2>2. /\ job'[r].kind = "enroll" /\ ~job'[r].clean
        /\ \A q \in Request \ {r} : pc'[q] = pc[q] /\ job'[q] = job[q]
    BY <2>1 DEF Blank
  <2>3. seed.id \in Seed \cup {NoSeed}
    BY DEF Row
  <2>4. TypeOK'
    BY <2>1, <2>3 DEF Blank, Kind, Step
  <2>5. StepInOrder(r)' /\ CodeIsHeld(r)' /\ ReadIsFresh(r)'
    BY <2>1, <2>2 DEF StepInOrder, CodeIsHeld, ReadIsFresh
  <2> QED
    BY <2>1, <2>2, <2>4, <2>5, StepKeeps
<1>2. ASSUME BeginLogin(r) PROVE TypeOK' /\ MfaInv'
  <2>1. /\ pc' = [pc EXCEPT ![r] = IF enabled THEN "challenge" ELSE "commit"]
        /\ job' = [job EXCEPT ![r] = [Blank EXCEPT !.kind = "login"]]
        /\ challenged' = (challenged \/ enabled)
        /\ UNCHANGED <<seed, enabled, unused, seedLock, inserter, codeLock, shown,
                       stepUp, proven, armed>>
    BY <1>2 DEF BeginLogin, Goto, Start, rows, locks
  <2>2. /\ job'[r].kind = "login" /\ ~job'[r].clean
        /\ \A q \in Request \ {r} : pc'[q] = pc[q] /\ job'[q] = job[q]
    BY <2>1 DEF Blank
  <2>4. TypeOK'
    BY <2>1 DEF Blank, Kind, Step, Status
  <2>5. StepInOrder(r)' /\ CodeIsHeld(r)' /\ ReadIsFresh(r)'
    BY <2>1, <2>2 DEF StepInOrder, CodeIsHeld, ReadIsFresh
  <2> QED
    BY <2>1, <2>2, <2>4, <2>5, StepKeeps
<1>3. ASSUME NEW s \in Seed \cap shown, BeginConfirm(r, s) PROVE TypeOK' /\ MfaInv'
  <2>1. /\ pc' = [pc EXCEPT ![r] = IF seed.confirmed \/ seed.id # s THEN "400" ELSE "selectSeed"]
        /\ job' = [job EXCEPT ![r] = [Blank EXCEPT !.kind = "confirm",
                                                   !.clean = InFlight("disable") = {}]]
        /\ proven' \subseteq proven \cup {s}
        /\ UNCHANGED <<seed, enabled, unused, seedLock, inserter, codeLock, shown, challenged,
                       stepUp, armed>>
    BY <1>3 DEF BeginConfirm, Goto, Start, rows, locks, tokens
  <2>2. /\ job'[r].kind = "confirm" /\ (job'[r].clean => InFlight("disable") = {})
        /\ \A q \in Request \ {r} : pc'[q] = pc[q] /\ job'[q] = job[q]
    BY <2>1 DEF Blank
  <2>3. job' \in [Request -> [kind : Kind, code : Seed \cup Code \cup {NoSeed},
                              row : Seed \cup {NoSeed}, was : BOOLEAN,
                              doomed : SUBSET Code, clean : BOOLEAN]]
    <3> DEFINE b == InFlight("disable") = {}
    <3>1. b \in BOOLEAN /\ job' = [job EXCEPT ![r] = [Blank EXCEPT !.kind = "confirm", !.clean = b]]
      BY <2>1
    <3> HIDE DEF b
    <3> QED
      BY <3>1 DEF Blank, Kind
  <2>4. TypeOK'
    BY <2>1, <2>3 DEF Step, Status
  <2>5. StepInOrder(r)' /\ CodeIsHeld(r)' /\ ReadIsFresh(r)'
    BY <2>1, <2>2 DEF StepInOrder, CodeIsHeld, ReadIsFresh
  <2> QED
    BY <2>1, <2>2, <2>4, <2>5, StepKeeps
<1>4. ASSUME NEW code \in shown, BeginVerify(r, code) PROVE TypeOK' /\ MfaInv'
  <2>1. /\ pc' = [pc EXCEPT ![r] = IF enabled THEN "totp" ELSE "401"]
        /\ job' = [job EXCEPT ![r] = [Blank EXCEPT !.kind = "verify", !.code = code]]
        /\ UNCHANGED <<seed, enabled, unused, seedLock, inserter, codeLock, shown, challenged,
                       stepUp, proven, armed>>
    BY <1>4 DEF BeginVerify, Goto, Start, rows, locks, tokens
  <2>2. /\ job'[r].kind = "verify" /\ job'[r].code = code /\ ~job'[r].clean
        /\ \A q \in Request \ {r} : pc'[q] = pc[q] /\ job'[q] = job[q]
    BY <2>1 DEF Blank
  <2>4. TypeOK'
    BY <2>1 DEF Blank, Kind, Step, Status
  <2>5. StepInOrder(r)' /\ CodeIsHeld(r)' /\ ReadIsFresh(r)'
    BY <2>1, <2>2 DEF StepInOrder, CodeIsHeld, ReadIsFresh
  <2> QED
    BY <2>1, <2>2, <2>4, <2>5, StepKeeps
<1> QED
  BY <1>1, <1>2, <1>3, <1>4

(* The statements of the plans.  r stays the request it was.                  *)
LEMMA StatementKeeps ==
  ASSUME TypeOK, MfaInv, NEW r \in Request,
         \/ DeleteSeed(r) \/ SelectSeed(r) \/ ReadUser(r) \/ FindCodes(r) \/ DeleteCodes(r)
         \/ VerifyTotp(r) \/ RedeemForUpdate(r)
         \/ \E s \in Seed : InsertSeed(r, s)
  PROVE  TypeOK' /\ MfaInv'
<1> USE SentinelAssumption
<1> USE DEF TypeOK
<1>a. /\ StepInOrder(r) /\ CodeIsHeld(r) /\ ReadIsFresh(r)
      /\ job[r].kind = "verify" => job[r].code \in shown
  BY DEF MfaInv, OpenedIsSpent
<1>b. pc[r] \in Step /\ (job[r].kind = "disable" => r \in InFlight("disable"))
  BY DEF DeleteSeed, SelectSeed, ReadUser, FindCodes, DeleteCodes, VerifyTotp,
     RedeemForUpdate, InsertSeed, Step, InFlight
<1>1. ASSUME DeleteSeed(r) PROVE TypeOK' /\ MfaInv'
  <2>1. pc[r] = "deleteSeed" /\ job[r].kind \in {"enroll", "disable"}
    BY <1>1, <1>a DEF DeleteSeed, StepInOrder
  <2>2. /\ pc' = [pc EXCEPT ![r] = IF job[r].kind = "enroll" THEN "insertSeed" ELSE "findCodes"]
        /\ seedLock' = IF job[r].row # NoSeed /\ seed.id = job[r].row THEN r ELSE seedLock
        /\ UNCHANGED <<seed, enabled, unused, inserter, codeLock, job, shown, challenged,
                       stepUp, proven, armed>>
    BY <1>1, <2>1, NextStatements DEF DeleteSeed, Continue, Goto, rows, tokens
  <2>3. TypeOK'
    BY <2>2 DEF Step
  <2>4. StepInOrder(r)' /\ CodeIsHeld(r)' /\ ReadIsFresh(r)'
    BY <2>1, <2>2 DEF StepInOrder, CodeIsHeld, ReadIsFresh
  <2> QED
    BY <1>a, <1>b, <2>2, <2>3, <2>4, StepKeeps
<1>2. ASSUME NEW s \in Seed, InsertSeed(r, s) PROVE TypeOK' /\ MfaInv'
  <2>1. pc[r] = "insertSeed" /\ job[r].kind = "enroll"
    BY <1>2, <1>a DEF InsertSeed, StepInOrder
  <2>2. CASE seed.id # NoSeed /\ seedLock # r
    <3>1. Fail(r, "500")
      BY <1>2, <2>2 DEF InsertSeed
    <3> QED
      BY <3>1, FailKeeps
  <2>3. CASE ~(seed.id # NoSeed /\ seedLock # r)
    <3>1. /\ pc' = [pc EXCEPT ![r] = "commit"] /\ inserter' = r
          /\ job' = [job EXCEPT ![r].code = s]
          /\ UNCHANGED <<seed, enabled, unused, seedLock, codeLock, shown, challenged,
                         stepUp, proven, armed>>
      BY <1>2, <2>1, <2>3, NextStatements DEF InsertSeed, Continue, Goto, rows, tokens
    <3>2. /\ job'[r].kind = "enroll" /\ job'[r].code = s /\ job'[r].clean = job[r].clean
          /\ \A q \in Request \ {r} : pc'[q] = pc[q] /\ job'[q] = job[q]
      BY <2>1, <3>1
    <3>3. TypeOK'
      BY <3>1 DEF Step
    <3>4. StepInOrder(r)' /\ CodeIsHeld(r)' /\ ReadIsFresh(r)'
      BY <3>1, <3>2 DEF StepInOrder, CodeIsHeld, ReadIsFresh
    <3> QED
      BY <3>1, <3>2, <3>3, <3>4, StepKeeps
  <2> QED
    BY <2>2, <2>3
<1>3. ASSUME SelectSeed(r) PROVE TypeOK' /\ MfaInv'
  <2>1. pc[r] = "selectSeed" /\ job[r].kind = "confirm"
    BY <1>3, <1>a DEF SelectSeed, StepInOrder
  <2>2. /\ pc' = [pc EXCEPT ![r] = "readUser"]
        /\ job' = [job EXCEPT ![r].row = seed.id]
        /\ UNCHANGED <<seed, enabled, unused, seedLock, inserter, codeLock, shown, challenged,
                       stepUp, proven, armed>>
    BY <1>3, <2>1, NextStatements DEF SelectSeed, Continue, Goto, rows, locks, tokens
  <2>3. /\ job'[r].kind = "confirm" /\ job'[r].clean = job[r].clean
        /\ \A q \in Request \ {r} : pc'[q] = pc[q] /\ job'[q] = job[q]
    BY <2>1, <2>2
  <2>4. TypeOK'
    BY <2>2 DEF Step, Row
  <2>5. StepInOrder(r)' /\ CodeIsHeld(r)' /\ ReadIsFresh(r)'
    BY <2>2, <2>3 DEF StepInOrder, CodeIsHeld, ReadIsFresh
  <2> QED
    BY <2>2, <2>3, <2>4, <2>5, StepKeeps
<1>4. ASSUME ReadUser(r) PROVE TypeOK' /\ MfaInv'
  <2>1. pc[r] = "readUser" /\ job[r].kind \in {"confirm", "disable"}
    BY <1>4, <1>a DEF ReadUser, StepInOrder
  <2>2. /\ pc' = [pc EXCEPT ![r] = IF job[r].kind = "confirm" THEN "findCodes" ELSE "commit"]
        /\ job' = [job EXCEPT ![r].was = enabled]
        /\ UNCHANGED <<seed, enabled, unused, seedLock, inserter, codeLock, shown, challenged,
                       stepUp, proven, armed>>
    BY <1>4, <2>1, NextStatements DEF ReadUser, Continue, Goto, rows, locks, tokens
  <2>3. /\ job'[r].kind = job[r].kind /\ job'[r].clean = job[r].clean /\ job'[r].was = enabled
        /\ \A q \in Request \ {r} : pc'[q] = pc[q] /\ job'[q] = job[q]
    BY <2>2
  <2>4. TypeOK'
    BY <2>2 DEF Step
  <2>5. StepInOrder(r)' /\ CodeIsHeld(r)' /\ ReadIsFresh(r)'
    BY <2>1, <2>2, <2>3 DEF StepInOrder, CodeIsHeld, ReadIsFresh
  <2> QED
    BY <1>b, <2>1, <2>2, <2>3, <2>4, <2>5, StepKeeps
<1>5. ASSUME FindCodes(r) PROVE TypeOK' /\ MfaInv'
  <2>1. pc[r] = "findCodes" /\ job[r].kind \in {"confirm", "disable"}
    BY <1>5, <1>a DEF FindCodes, StepInOrder
  <2>2. /\ pc' = [pc EXCEPT ![r] = "deleteCodes"]
        /\ job' = [job EXCEPT ![r].doomed = unused]
        /\ UNCHANGED <<seed, enabled, unused, seedLock, inserter, codeLock, shown, challenged,
                       stepUp, proven, armed>>
    BY <1>5, <2>1, NextStatements DEF FindCodes, Continue, Goto, rows, locks, tokens
  <2>3. /\ job'[r].kind = job[r].kind /\ job'[r].clean = job[r].clean /\ job'[r].was = job[r].was
        /\ \A q \in Request \ {r} : pc'[q] = pc[q] /\ job'[q] = job[q]
    BY <2>2
  <2>4. TypeOK'
    BY <2>2 DEF Step
  <2>5. StepInOrder(r)' /\ CodeIsHeld(r)' /\ ReadIsFresh(r)'
    BY <1>a, <2>1, <2>2, <2>3 DEF StepInOrder, CodeIsHeld, ReadIsFresh
  <2> QED
    BY <1>b, <2>1, <2>2, <2>3, <2>4, <2>5, StepKeeps
<1>6. ASSUME DeleteCodes(r) PROVE TypeOK' /\ MfaInv'
  <2>1. pc[r] = "deleteCodes" /\ job[r].kind \in {"confirm", "disable"}
    BY <1>6, <1>a DEF DeleteCodes, StepInOrder
  <2>2. /\ pc' = [pc EXCEPT ![r] = IF job[r].kind = "confirm" THEN "commit" ELSE "readUser"]
        /\ codeLock' = [c \in Code |-> IF c \in job[r].doomed \cap unused THEN r ELSE codeLock[c]]
        /\ \A c \in job[r].doomed \cap unused : codeLock[c] = Nobody
        /\ UNCHANGED <<seed, enabled, unused, seedLock, inserter, job, shown, challenged,
                       stepUp, proven, armed>>
    BY <1>6, <2>1, NextStatements DEF DeleteCodes, Continue, Goto, rows, tokens
  <2>3. TypeOK'
    BY <2>2 DEF Step
  <2>4. StepInOrder(r)' /\ CodeIsHeld(r)' /\ ReadIsFresh(r)'
    BY <1>a, <2>1, <2>2 DEF StepInOrder, CodeIsHeld, ReadIsFresh
  <2> QED
    BY <1>a, <1>b, <2>2, <2>3, <2>4, StepKeeps
<1>7. ASSUME VerifyTotp(r) PROVE TypeOK' /\ MfaInv'
  <2>1. pc[r] = "totp" /\ job[r].kind = "verify"
    BY <1>7, <1>a DEF VerifyTotp, StepInOrder
  <2>2. /\ pc' = [pc EXCEPT ![r] = IF seed.confirmed /\ seed.id = job[r].code THEN "commit" ELSE "redeem"]
        /\ UNCHANGED <<seed, enabled, unused, seedLock, inserter, codeLock, job, shown, challenged,
                       stepUp, proven, armed>>
    BY <1>7 DEF VerifyTotp, Goto, rows, locks, tokens
  <2>3. TypeOK'
    BY <2>2 DEF Step
  <2>4. pc'[r] = "commit" => job[r].code \notin Code
    BY <2>2 DEF Row
  <2>5. StepInOrder(r)' /\ CodeIsHeld(r)' /\ ReadIsFresh(r)'
    BY <2>1, <2>2, <2>4 DEF StepInOrder, CodeIsHeld, ReadIsFresh
  <2> QED
    BY <1>a, <2>1, <2>2, <2>3, <2>5, StepKeeps
<1>8. ASSUME RedeemForUpdate(r) PROVE TypeOK' /\ MfaInv'
  <2>1. pc[r] = "redeem" /\ job[r].kind = "verify"
    BY <1>8, <1>a DEF RedeemForUpdate, StepInOrder
  <2>2. CASE job[r].code \notin unused
    <3>1. Fail(r, "401")
      BY <1>8, <2>2 DEF RedeemForUpdate
    <3> QED
      BY <3>1, FailKeeps
  <2>3. CASE job[r].code \in unused
    <3>1. /\ pc' = [pc EXCEPT ![r] = "commit"] /\ codeLock[job[r].code] = Nobody
          /\ codeLock' = [codeLock EXCEPT ![job[r].code] = r]
          /\ UNCHANGED <<seed, enabled, unused, seedLock, inserter, job, shown, challenged,
                         stepUp, proven, armed>>
      BY <1>8, <2>1, <2>3, NextStatements DEF RedeemForUpdate, Continue, Goto, rows, tokens
    <3>2. TypeOK'
      BY <2>3, <3>1 DEF Step
    <3>3. StepInOrder(r)' /\ CodeIsHeld(r)' /\ ReadIsFresh(r)'
      BY <2>1, <3>1 DEF StepInOrder, CodeIsHeld, ReadIsFresh
    <3> QED
      BY <1>a, <2>1, <3>1, <3>2, <3>3, StepKeeps
  <2> QED
    BY <2>2, <2>3
<1> QED
  BY <1>1, <1>2, <1>3, <1>4, <1>5, <1>6, <1>7, <1>8

-------------------------------------------------------------------------------
(* The start of a disabling: nothing counts as confirmed or clean any more.   *)
LEMMA DisableBegins ==
  ASSUME TypeOK, MfaInv, NEW r \in Request, BeginDisable(r)
  PROVE  TypeOK' /\ MfaInv'
<1> USE SentinelAssumption
<1> USE DEF TypeOK
<1> DEFINE d == [Blank EXCEPT !.kind = "disable", !.row = seed.id]
<1>1. /\ pc[r] = "idle" /\ pc' = [pc EXCEPT ![r] = "deleteSeed"] /\ armed' = FALSE
      /\ job' = [p \in Request |-> IF p = r THEN d ELSE [job[p] EXCEPT !.clean = FALSE]]
      /\ UNCHANGED <<seed, enabled, unused, seedLock, inserter, codeLock, shown, challenged,
                     stepUp, proven>>
  BY DEF BeginDisable, Goto, rows, locks, tokens
<1>2. seed.id \in Seed \cup {NoSeed}
  BY DEF Row
<1>3. /\ d \in [kind : Kind, code : Seed \cup Code \cup {NoSeed}, row : Seed \cup {NoSeed},
                was : BOOLEAN, doomed : SUBSET Code, clean : BOOLEAN]
      /\ d.kind = "disable" /\ d.clean = FALSE
  BY <1>2 DEF Blank, Kind
<1> HIDE DEF d
<1>4. /\ job'[r] = d
      /\ \A q \in Request \ {r} : /\ pc'[q] = pc[q]
                                  /\ job'[q].kind = job[q].kind /\ job'[q].code = job[q].code
                                  /\ job'[q].clean = FALSE
  BY <1>1
<1>5. TypeOK'
  BY <1>1, <1>3 DEF Step
<1>6. \A q \in Request : StepInOrder(q)' /\ CodeIsHeld(q)' /\ ReadIsFresh(q)'
  BY <1>1, <1>3, <1>4 DEF MfaInv, StepInOrder, CodeIsHeld, ReadIsFresh
<1>7. \A q \in Request, c \in Code : Opened(q, c)' <=> Opened(q, c)
  BY <1>1, <1>3, <1>4 DEF Opened
<1>8. OpenedIsSpent'
  BY <1>1, <1>3, <1>4, <1>7 DEF MfaInv, OpenedIsSpent
<1>9. NoDisabling' /\ ConfirmedMfaHolds'
  BY <1>1, <1>3, <1>4 DEF NoDisabling, ConfirmedMfaHolds
<1> QED
  BY <1>5, <1>6, <1>8, <1>9 DEF MfaInv

(* The commits.  A session or a seed leaves user and codes alone.             *)
LEMMA SimpleCommitKeeps ==
  ASSUME TypeOK, MfaInv, NEW r \in Request, CommitEnroll(r) \/ CommitLogin(r)
  PROVE  TypeOK' /\ MfaInv'
<1> USE SentinelAssumption
<1> USE DEF TypeOK
<1>1. CASE CommitEnroll(r)
  <2>1. /\ pc[r] = "commit" /\ job[r].kind = "enroll" /\ pc' = [pc EXCEPT ![r] = "ok"]
        /\ seed' = [id |-> job[r].code, confirmed |-> FALSE]
        /\ shown' = shown \cup {job[r].code}
        /\ seedLock' = IF seedLock = r THEN Nobody ELSE seedLock
        /\ inserter' = IF inserter = r THEN Nobody ELSE inserter
        /\ codeLock' = [c \in Code |-> IF codeLock[c] = r THEN Nobody ELSE codeLock[c]]
        /\ UNCHANGED <<enabled, unused, job, challenged, stepUp, proven, armed>>
    BY <1>1 DEF CommitEnroll, Goto, Release, tokens
  <2>2. job[r].code \in Seed
    BY <2>1 DEF MfaInv, StepInOrder
  <2>3. TypeOK'
    BY <2>1, <2>2 DEF Row, Status
  <2>4. StepInOrder(r)' /\ CodeIsHeld(r)' /\ ReadIsFresh(r)'
    BY <2>1 DEF StepInOrder, CodeIsHeld, ReadIsFresh
  <2> QED
    BY <2>1, <2>3, <2>4, StepKeeps
<1>2. CASE CommitLogin(r)
  <2>1. /\ pc[r] = "commit" /\ job[r].kind = "login" /\ pc' = [pc EXCEPT ![r] = "ok"]
        /\ UNCHANGED <<seed, enabled, unused, seedLock, inserter, codeLock, job, shown, challenged,
                       stepUp, proven, armed>>
    BY <1>2 DEF CommitLogin, Goto, rows, locks, tokens
  <2>2. TypeOK'
    BY <2>1 DEF Status
  <2>3. StepInOrder(r)' /\ CodeIsHeld(r)' /\ ReadIsFresh(r)'
    BY <2>1 DEF StepInOrder, CodeIsHeld, ReadIsFresh
  <2> QED
    BY <2>1, <2>2, <2>3, StepKeeps
<1> QED
  BY <1>1, <1>2

(* A verification spends its code, which it has locked.                       *)
LEMMA VerifyKeeps ==
  ASSUME TypeOK, MfaInv, NEW r \in Request, CommitVerify(r)
  PROVE  TypeOK' /\ MfaInv'
<1> USE SentinelAssumption
<1> USE DEF TypeOK
<1> DEFINE code == job[r].code
<1>1. /\ pc[r] = "commit" /\ job[r].kind = "verify" /\ pc' = [pc EXCEPT ![r] = "ok"]
      /\ unused' = unused \ {code}
      /\ seedLock' = IF seedLock = r THEN Nobody ELSE seedLock
      /\ inserter' = IF inserter = r THEN Nobody ELSE inserter
      /\ codeLock' = [c \in Code |-> IF codeLock[c] = r THEN Nobody ELSE codeLock[c]]
      /\ UNCHANGED <<seed, enabled, job, shown, challenged, stepUp, proven, armed>>
  BY DEF CommitVerify, Goto, Release, tokens
<1>2. code \in Code => codeLock[code] = r /\ code \in unused
  BY <1>1 DEF MfaInv, CodeIsHeld
<1>3. TypeOK'
  BY <1>1, <1>2 DEF Status
<1>4. \A q \in Request : StepInOrder(q)' /\ ReadIsFresh(q)'
  BY <1>1 DEF MfaInv, StepInOrder, ReadIsFresh
<1>5. \A q \in Request : CodeIsHeld(q)'
  BY <1>1 DEF MfaInv, CodeIsHeld
<1>6. \A q \in Request, c \in Code : Opened(q, c)' => Opened(q, c) \/ (q = r /\ c = code)
  BY <1>1 DEF Opened
<1>7. \A q \in Request, c \in Code : Opened(q, c) => c # code
  BY <1>2 DEF MfaInv, OpenedIsSpent
<1>8. OpenedIsSpent'
  BY <1>1, <1>6, <1>7 DEF MfaInv, OpenedIsSpent
<1>9. InFlight("disable")' \subseteq InFlight("disable")
  BY <1>1 DEF InFlight, Step
<1>10. NoDisabling' /\ ConfirmedMfaHolds'
  BY <1>1, <1>9 DEF MfaInv, NoDisabling, ConfirmedMfaHolds
<1> QED
  BY <1>3, <1>4, <1>5, <1>8, <1>10 DEF MfaInv

(* A confirmation writes the flag if it read it unset, and what it read when  *)
(* it is clean still holds.                                                   *)
LEMMA ConfirmKeeps ==
  ASSUME TypeOK, MfaInv, NEW r \in Request, NEW c \in Code, CommitConfirm(r, c)
  PROVE  TypeOK' /\ MfaInv'
<1> USE SentinelAssumption
<1> USE DEF TypeOK
<1>1. CASE job[r].row # NoSeed /\ seed.id # job[r].row
  <2>1. Fail(r, "500")
    BY <1>1 DEF CommitConfirm
  <2> QED
    BY <2>1, FailKeeps
<1>2. CASE ~(job[r].row # NoSeed /\ seed.id # job[r].row)
  <2>1. /\ pc[r] = "commit" /\ job[r].kind = "confirm" /\ pc' = [pc EXCEPT ![r] = "ok"]
        /\ c \notin shown
        /\ seed' = IF job[r].row = NoSeed THEN seed ELSE [seed EXCEPT !.confirmed = TRUE]
        /\ enabled' = (~job[r].was \/ enabled)
        /\ unused' = Kept(r) \cup {c}
        /\ shown' = shown \cup {c}
        /\ armed' = (job[r].clean \/ armed)
        /\ seedLock' = IF seedLock = r THEN Nobody ELSE seedLock
        /\ inserter' = IF inserter = r THEN Nobody ELSE inserter
        /\ codeLock' = [x \in Code |-> IF codeLock[x] = r THEN Nobody ELSE codeLock[x]]
        /\ UNCHANGED <<job, challenged, stepUp, proven>>
    BY <1>2 DEF CommitConfirm, UnusedCode, Goto, Release, tokens
  <2>2. Kept(r) \subseteq unused /\ \A x \in unused : codeLock[x] # r => x \in Kept(r)
    BY DEF Kept
  <2>3. seed' \in Row /\ seed'.id = seed.id /\ (seed'.confirmed => seed'.id # NoSeed)
    BY <1>2, <2>1 DEF Row
  <2>4. enabled' \in BOOLEAN /\ armed' \in BOOLEAN
    BY <2>1
  <2>5. TypeOK'
    BY <2>1, <2>2, <2>3, <2>4 DEF Status
  <2>6. enabled => enabled'
    BY <2>1
  <2>7. \A q \in Request : StepInOrder(q)' /\ ReadIsFresh(q)'
    BY <2>1, <2>6 DEF MfaInv, StepInOrder, ReadIsFresh
  <2>8. \A q \in Request : CodeIsHeld(q)'
    BY <2>1 DEF MfaInv, CodeIsHeld
  <2>9. \A q \in Request, x \in Code : Opened(q, x)' => Opened(q, x)
    BY <2>1 DEF Opened
  <2>10. \A q \in Request, x \in Code : Opened(q, x) => x \in shown /\ x \notin unused
    BY DEF Opened, MfaInv, OpenedIsSpent
  <2>11. OpenedIsSpent'
    BY <2>1, <2>2, <2>9, <2>10 DEF MfaInv, OpenedIsSpent
  <2>12. InFlight("disable")' \subseteq InFlight("disable")
    BY <2>1 DEF InFlight, Step
  <2>13. NoDisabling'
    BY <2>1, <2>12 DEF MfaInv, NoDisabling
  <2>14. ConfirmedMfaHolds'
    <3>1. job[r].clean /\ job[r].was => enabled
      BY <2>1 DEF MfaInv, ReadIsFresh
    <3>2. armed => enabled
      BY DEF MfaInv, ConfirmedMfaHolds
    <3> QED
      BY <2>1, <3>1, <3>2 DEF ConfirmedMfaHolds
  <2> QED
    BY <2>5, <2>7, <2>8, <2>11, <2>13, <2>14 DEF MfaInv
<1> QED
  BY <1>1, <1>2

(* A disabling, which cannot meet a confirmation that counts.                 *)
LEMMA DisableKeeps ==
  ASSUME TypeOK, MfaInv, NEW r \in Request, CommitDisable(r)
  PROVE  TypeOK' /\ MfaInv'
<1> USE SentinelAssumption
<1> USE DEF TypeOK
<1>1. /\ pc[r] = "commit" /\ job[r].kind = "disable" /\ pc' = [pc EXCEPT ![r] = "ok"]
      /\ seed' = IF seedLock = r THEN NoRow ELSE seed
      /\ enabled' = (enabled /\ ~job[r].was)
      /\ unused' = Kept(r)
      /\ seedLock' = IF seedLock = r THEN Nobody ELSE seedLock
      /\ inserter' = IF inserter = r THEN Nobody ELSE inserter
      /\ codeLock' = [x \in Code |-> IF codeLock[x] = r THEN Nobody ELSE codeLock[x]]
      /\ UNCHANGED <<job, shown, challenged, stepUp, proven, armed>>
  BY DEF CommitDisable, Goto, Release, tokens
<1>2. Kept(r) \subseteq unused /\ \A x \in unused : codeLock[x] # r => x \in Kept(r)
  BY DEF Kept
<1>3. r \in InFlight("disable")
  BY <1>1 DEF InFlight, Step
<1>4. ~armed /\ \A q \in Request : ~job[q].clean
  BY <1>3 DEF MfaInv, NoDisabling
<1>5. seed' \in Row /\ (seed'.confirmed => seed'.id # NoSeed)
  BY <1>1 DEF Row, NoRow
<1>6. TypeOK'
  BY <1>1, <1>2, <1>5 DEF Status
<1>7. \A q \in Request : StepInOrder(q)' /\ ReadIsFresh(q)'
  BY <1>1, <1>4 DEF MfaInv, StepInOrder, ReadIsFresh
<1>8. \A q \in Request : CodeIsHeld(q)'
  BY <1>1 DEF MfaInv, CodeIsHeld
<1>9. \A q \in Request, x \in Code : Opened(q, x)' => Opened(q, x)
  BY <1>1 DEF Opened
<1>10. OpenedIsSpent'
  BY <1>1, <1>2, <1>9 DEF MfaInv, OpenedIsSpent
<1>11. NoDisabling' /\ ConfirmedMfaHolds'
  BY <1>1, <1>4 DEF NoDisabling, ConfirmedMfaHolds
<1> QED
  BY <1>6, <1>7, <1>8, <1>10, <1>11 DEF MfaInv

(* A step-up changes nothing but the token it issues.                        *)
LEMMA StepUpKeeps ==
  ASSUME TypeOK, MfaInv, StepUp \/ UNCHANGED vars
  PROVE  TypeOK' /\ MfaInv'
<1>1. /\ UNCHANGED <<seed, enabled, unused, seedLock, inserter, codeLock, pc, job, shown,
                     challenged, proven, armed>>
      /\ stepUp' \in {stepUp, TRUE}
  BY DEF StepUp, vars, rows, locks, tokens
<1>2. TypeOK'
  BY <1>1 DEF TypeOK
<1>3. MfaInv'
  BY <1>1 DEF MfaInv, StepInOrder, CodeIsHeld, ReadIsFresh, OpenedIsSpent, Opened,
     NoDisabling, InFlight, ConfirmedMfaHolds
<1> QED
  BY <1>2, <1>3

-------------------------------------------------------------------------------
(* Every reachable state is of its type and keeps the invariant.              *)
THEOREM MfaInvariant == Spec => [](TypeOK /\ MfaInv)
<1>1. Init => TypeOK /\ MfaInv
  <2> SUFFICES ASSUME Init PROVE TypeOK /\ MfaInv
    OBVIOUS
  <2>1. /\ pc = [r \in Request |-> "idle"] /\ job = [r \in Request |-> Blank]
        /\ \A r \in Request : job[r].kind = "none" /\ ~job[r].clean
    BY DEF Init, Blank
  <2>2. /\ unused \subseteq shown /\ unused \subseteq Code /\ shown \subseteq Seed \cup Code
        /\ enabled \in BOOLEAN /\ seed \in Row /\ (seed.confirmed => seed.id # NoSeed)
    <3>1. CASE seed = NoRow /\ enabled = FALSE /\ unused = {} /\ shown = {}
      BY <3>1 DEF Row, NoRow
    <3>2. ASSUME NEW s \in Seed, NEW c \in Code,
                 seed = [id |-> s, confirmed |-> TRUE] /\ enabled = TRUE,
                 unused = {c} /\ shown = {s, c}
          PROVE  /\ unused \subseteq shown /\ unused \subseteq Code
                 /\ shown \subseteq Seed \cup Code
                 /\ enabled \in BOOLEAN /\ seed \in Row /\ seed.id # NoSeed
      <4>1. s # NoSeed
        BY SentinelAssumption
      <4>2. seed \in Row /\ seed.id # NoSeed
        BY <3>2, <4>1 DEF Row
      <4> QED
        BY <3>2, <4>2
    <3> QED
      BY <3>1, <3>2 DEF Init
  <2>3. TypeOK
    <3>1. /\ seedLock = Nobody /\ inserter = Nobody /\ codeLock = [c \in Code |-> Nobody]
          /\ challenged = FALSE /\ stepUp = FALSE
          /\ proven = shown \cap Seed /\ armed = enabled
      BY DEF Init
    <3>2. Blank \in [kind : Kind, code : Seed \cup Code \cup {NoSeed}, row : Seed \cup {NoSeed},
                     was : BOOLEAN, doomed : SUBSET Code, clean : BOOLEAN]
      BY DEF Blank, Kind
    <3>3. job \in [Request -> [kind : Kind, code : Seed \cup Code \cup {NoSeed},
                               row : Seed \cup {NoSeed}, was : BOOLEAN,
                               doomed : SUBSET Code, clean : BOOLEAN]]
      BY <2>1, <3>2
    <3>4. pc \in [Request -> {"idle"} \cup Step \cup Status]
      BY <2>1
    <3>5. /\ codeLock \in [Code -> Request \cup {Nobody}]
          /\ \A c \in Code : codeLock[c] # Nobody => c \in unused
      BY <3>1
    <3>6. proven \subseteq Seed
      BY <3>1
    <3> QED
      BY <2>2, <3>1, <3>3, <3>4, <3>5, <3>6 DEF TypeOK
  <2>4. \A r \in Request : StepInOrder(r) /\ CodeIsHeld(r) /\ ReadIsFresh(r)
    BY <2>1 DEF StepInOrder, CodeIsHeld, ReadIsFresh
  <2>5. OpenedIsSpent
    BY <2>1, <2>2 DEF OpenedIsSpent, Opened
  <2>6. NoDisabling /\ ConfirmedMfaHolds
    BY <2>1 DEF Init, NoDisabling, InFlight, ConfirmedMfaHolds
  <2> QED
    BY <2>3, <2>4, <2>5, <2>6 DEF MfaInv
<1>2. TypeOK /\ MfaInv /\ [Next]_vars => TypeOK' /\ MfaInv'
  <2> SUFFICES ASSUME TypeOK, MfaInv, [Next]_vars PROVE TypeOK' /\ MfaInv'
    OBVIOUS
  <2>1. ASSUME NEW r \in Request, Abort(r) PROVE TypeOK' /\ MfaInv'
    BY <2>1, FailKeeps DEF Abort
  <2> QED
    BY <2>1, ArrivalKeeps, StatementKeeps, DisableBegins, SimpleCommitKeeps, VerifyKeeps,
       ConfirmKeeps, DisableKeeps, StepUpKeeps DEF Next
<1> QED
  BY <1>1, <1>2, PTL DEF Spec

(* A set in which all elements are equal has at most one.                     *)
LEMMA AtMostOne ==
  ASSUME NEW S, \A x, y \in S : x = y
  PROVE  Cardinality(S) <= 1
<1>1. CASE S = {}
  BY <1>1, FS_EmptySet
<1>2. CASE S # {}
  <2>1. PICK x : S = {x}
    BY <1>2
  <2> QED
    BY <2>1, FS_Singleton
<1> QED
  BY <1>1, <1>2

(* A recovery code opens at most one session: redeem_for_update holds its row *)
(* from the check to the commit, and no code ever comes back.                 *)
THEOREM RecoveryCodesOpenOnce == Spec => []RecoveryCodeOnce
<1>1. MfaInv => RecoveryCodeOnce
  <2> SUFFICES ASSUME MfaInv, NEW c \in Code
               PROVE  Cardinality({r \in Request : Opened(r, c)}) <= 1
    BY DEF RecoveryCodeOnce
  <2>1. \A p, q \in {r \in Request : Opened(r, c)} : p = q
    BY DEF MfaInv, OpenedIsSpent
  <2> QED
    BY <2>1, AtMostOne
<1> QED
  BY <1>1, MfaInvariant, PTL

(* While a confirmation counts, mfa_enabled is set: no stale read of it makes *)
(* a later write that was needed go missing, or undoes one.                   *)
THEOREM ConfirmedMfaIsEnabled == Spec => []ConfirmedMfaHolds
<1>1. MfaInv => ConfirmedMfaHolds
  BY DEF MfaInv
<1> QED
  BY <1>1, MfaInvariant, PTL
===============================================================================

----------------------------- MODULE MfaEnrollment -----------------------------
(***************************************************************************)
(* The second factor of one user: TOTP enrollment and its confirmation, the  *)
(* login that needs a code, step-up and disabling (MfaService, the identity  *)
(* use cases, repositories/identity.py).                                     *)
(*                                                                         *)
(* Every request is one READ COMMITTED transaction; its steps are its SQL    *)
(* statements.  A DELETE picks its rows from the snapshot of its start and   *)
(* then waits for their locks; attributes set on loaded rows are written at  *)
(* the last flush, by primary key, and only if they changed.  A TOTP code is *)
(* the seed it was computed from; the ten recovery codes of a batch are one  *)
(* code.  A request refused for an expired token changes nothing and is left  *)
(* out; a verification refused by the rate limiter is a wrong code.          *)
(***************************************************************************)
EXTENDS Naturals, Sequences, FiniteSets

CONSTANTS Seed,      \* TOTP seeds
          Code,      \* batches of recovery codes
          Request,   \* one-shot requests
          NoSeed,    \* no totp_secret row
          Nobody     \* no transaction

ASSUME SentinelAssumption ==
    /\ NoSeed \notin Seed \cup Code /\ Seed \cap Code = {}
    /\ Nobody \notin Request

VARIABLES
    seed,        \* the committed totp_secret row: id and confirmed
    enabled,     \* app_user.mfa_enabled
    unused,      \* committed recovery_code rows with used_at NULL
    seedLock,    \* transaction that deleted the committed seed row
    inserter,    \* transaction that inserted a seed row
    codeLock,    \* codeLock[c]: transaction holding row c
    pc,          \* where each request is, or its HTTP status
    job,         \* each request's input and what it has read
    shown,       \* seeds and recovery codes the user was shown
    challenged,  \* a challenge token was issued
    stepUp,      \* a manage-mfa step-up token was issued
    proven,      \* seeds a valid code was presented for
    armed        \* MFA was confirmed with no disabling around since

rows == <<seed, enabled, unused>>
locks == <<seedLock, inserter, codeLock>>
tokens == <<challenged, stepUp>>
vars == <<rows, locks, pc, job, shown, tokens, proven, armed>>

Row == [id : Seed \cup {NoSeed}, confirmed : BOOLEAN]
NoRow == [id |-> NoSeed, confirmed |-> FALSE]
Kind == {"none", "enroll", "confirm", "disable", "login", "verify"}
Blank == [kind |-> "none", code |-> NoSeed, row |-> NoSeed, was |-> FALSE,
          doomed |-> {}, clean |-> FALSE]

(* The statements of each kind of request, in order.                         *)
Plan(kind) ==
    CASE kind = "enroll"  -> <<"deleteSeed", "insertSeed", "commit">>
      [] kind = "confirm" -> <<"selectSeed", "readUser", "findCodes", "deleteCodes", "commit">>
      [] kind = "disable" -> <<"deleteSeed", "findCodes", "deleteCodes", "readUser", "commit">>
      [] kind = "verify"  -> <<"totp", "redeem", "commit">>
      [] kind = "login"   -> <<"commit">>
Step == {"deleteSeed", "insertSeed", "selectSeed", "readUser", "findCodes", "deleteCodes",
         "totp", "redeem", "commit"}
Status == {"ok", "challenge", "400", "401", "500"}
Following(kind, step) ==
    LET p == Plan(kind) IN p[(CHOOSE n \in 1..Len(p) : p[n] = step) + 1]

(* A user without a second factor, or one who is enrolled and confirmed.     *)
Init ==
    /\ \/ seed = NoRow /\ enabled = FALSE /\ unused = {} /\ shown = {}
       \/ \E s \in Seed, c \in Code :
             /\ seed = [id |-> s, confirmed |-> TRUE]
             /\ enabled = TRUE
             /\ unused = {c}
             /\ shown = {s, c}
    /\ seedLock = Nobody /\ inserter = Nobody
    /\ codeLock = [c \in Code |-> Nobody]
    /\ pc = [r \in Request |-> "idle"]
    /\ job = [r \in Request |-> Blank]
    /\ challenged = FALSE /\ stepUp = FALSE
    /\ proven = shown \cap Seed
    /\ armed = enabled

Goto(r, where) == pc' = [pc EXCEPT ![r] = where]
Continue(r) == Goto(r, Following(job[r].kind, pc[r]))
Start(r, fields) == job' = [job EXCEPT ![r] = fields]
InFlight(kind) == {r \in Request : job[r].kind = kind /\ pc[r] \in Step}

Release(r) ==
    /\ seedLock' = IF seedLock = r THEN Nobody ELSE seedLock
    /\ inserter' = IF inserter = r THEN Nobody ELSE inserter
    /\ codeLock' = [c \in Code |-> IF codeLock[c] = r THEN Nobody ELSE codeLock[c]]

(* An exception: the unit of work rolls back.                                *)
Fail(r, status) ==
    /\ Goto(r, status)
    /\ Release(r)
    /\ UNCHANGED <<rows, job, shown, tokens, proven, armed>>

(* A lost connection, or PostgreSQL choosing the victim of a deadlock.       *)
Abort(r) == pc[r] \in Step /\ Fail(r, "500")

(* POST /auth/mfa/enroll, up to the snapshot of its DELETE.                  *)
BeginEnroll(r) ==
    /\ pc[r] = "idle"
    /\ Start(r, [Blank EXCEPT !.kind = "enroll", !.row = seed.id])
    /\ Goto(r, "deleteSeed")
    /\ UNCHANGED <<rows, locks, shown, tokens, proven, armed>>

(* DELETE /auth/mfa: require_step_up, then the snapshot of the first DELETE.  *)
BeginDisable(r) ==
    /\ pc[r] = "idle"
    /\ stepUp
    /\ job' = [p \in Request |-> IF p = r THEN [Blank EXCEPT !.kind = "disable", !.row = seed.id]
                                          ELSE [job[p] EXCEPT !.clean = FALSE]]
    /\ Goto(r, "deleteSeed")
    /\ armed' = FALSE
    /\ UNCHANGED <<rows, locks, shown, tokens, proven>>

(* totp_secrets.delete_for_user: waits for the row it picked, which may be   *)
(* gone by then.                                                             *)
DeleteSeed(r) ==
    LET there == job[r].row # NoSeed /\ seed.id = job[r].row IN
    /\ pc[r] = "deleteSeed"
    /\ there => seedLock = Nobody
    /\ seedLock' = IF there THEN r ELSE seedLock
    /\ Continue(r)
    /\ UNCHANGED <<rows, inserter, codeLock, job, shown, tokens, proven, armed>>

UnusedSeed(s) == s \notin shown /\ \A p \in Request : job[p].code # s

(* totp_secrets.add, flushed: one row per user, so it waits for the rows of  *)
(* other transactions and fails on one that stays.                           *)
InsertSeed(r, s) ==
    /\ pc[r] = "insertSeed"
    /\ inserter = Nobody /\ seedLock \in {Nobody, r}
    /\ UnusedSeed(s)
    /\ IF seed.id # NoSeed /\ seedLock # r THEN Fail(r, "500")
       ELSE /\ inserter' = r
            /\ job' = [job EXCEPT ![r].code = s]
            /\ Continue(r)
            /\ UNCHANGED <<rows, seedLock, codeLock, shown, tokens, proven, armed>>

CommitEnroll(r) ==
    /\ pc[r] = "commit" /\ job[r].kind = "enroll"
    /\ seed' = [id |-> job[r].code, confirmed |-> FALSE]
    /\ shown' = shown \cup {job[r].code}
    /\ Goto(r, "ok")
    /\ Release(r)
    /\ UNCHANGED <<enabled, unused, job, tokens, proven, armed>>

(* POST /auth/mfa/confirm: get_unconfirmed and verify_totp.                  *)
BeginConfirm(r, s) ==
    /\ pc[r] = "idle"
    /\ Start(r, [Blank EXCEPT !.kind = "confirm", !.clean = InFlight("disable") = {}])
    /\ IF seed.confirmed \/ seed.id # s THEN Goto(r, "400") /\ UNCHANGED proven
       ELSE Goto(r, "selectSeed") /\ proven' = proven \cup {s}
    /\ UNCHANGED <<rows, locks, shown, tokens, armed>>

(* totp_secrets.confirm: selects the user's row again, whichever it is now.  *)
SelectSeed(r) ==
    /\ pc[r] = "selectSeed"
    /\ job' = [job EXCEPT ![r].row = seed.id]
    /\ Continue(r)
    /\ UNCHANGED <<rows, locks, shown, tokens, proven, armed>>

(* users.set_mfa_enabled loads the user.                                     *)
ReadUser(r) ==
    /\ pc[r] = "readUser"
    /\ job' = [job EXCEPT ![r].was = enabled]
    /\ Continue(r)
    /\ UNCHANGED <<rows, locks, shown, tokens, proven, armed>>

(* recovery_codes.delete_for_user: the snapshot, then the rows.              *)
FindCodes(r) ==
    /\ pc[r] = "findCodes"
    /\ job' = [job EXCEPT ![r].doomed = unused]
    /\ Continue(r)
    /\ UNCHANGED <<rows, locks, shown, tokens, proven, armed>>

DeleteCodes(r) ==
    /\ pc[r] = "deleteCodes"
    /\ \A c \in job[r].doomed \cap unused : codeLock[c] = Nobody
    /\ codeLock' = [c \in Code |-> IF c \in job[r].doomed \cap unused THEN r ELSE codeLock[c]]
    /\ Continue(r)
    /\ UNCHANGED <<rows, seedLock, inserter, job, shown, tokens, proven, armed>>

Kept(r) == {c \in unused : codeLock[c] # r}
UnusedCode(c) == c \notin shown /\ c \notin unused

(* Fault: mfa_enabled is never written.                                      *)
CommitConfirmUnflagged(r, c) ==
    /\ pc[r] = "commit" /\ job[r].kind = "confirm"
    /\ seedLock = Nobody /\ UnusedCode(c)
    /\ unused' = Kept(r) \cup {c}
    /\ shown' = shown \cup {c}
    /\ seed' = IF seed.id = job[r].row THEN [seed EXCEPT !.confirmed = TRUE] ELSE seed
    /\ armed' = (job[r].clean \/ armed)
    /\ Goto(r, "ok")
    /\ Release(r)
    /\ UNCHANGED <<enabled, job, tokens, proven>>

(* add_batch's flush and the commit: the codes are inserted, and the seed     *)
(* row and the user are updated by id (a seed row that is gone is a          *)
(* StaleDataError; no seed row to confirm is no error).                      *)
CommitConfirm(r, c) ==
    /\ pc[r] = "commit" /\ job[r].kind = "confirm"
    /\ job[r].row # NoSeed /\ seed.id = job[r].row => seedLock = Nobody
    /\ UnusedCode(c)
    /\ IF job[r].row # NoSeed /\ seed.id # job[r].row THEN Fail(r, "500")
       ELSE /\ seed' = IF job[r].row = NoSeed THEN seed ELSE [seed EXCEPT !.confirmed = TRUE]
            /\ enabled' = (~job[r].was \/ enabled)
            /\ unused' = Kept(r) \cup {c}
            /\ shown' = shown \cup {c}
            /\ armed' = (job[r].clean \/ armed)
            /\ Goto(r, "ok")
            /\ Release(r)
            /\ UNCHANGED <<job, tokens, proven>>

(* disable_mfa's last flush and the commit.                                  *)
CommitDisable(r) ==
    /\ pc[r] = "commit" /\ job[r].kind = "disable"
    /\ seed' = IF seedLock = r THEN NoRow ELSE seed
    /\ enabled' = (enabled /\ ~job[r].was)
    /\ unused' = Kept(r)
    /\ Goto(r, "ok")
    /\ Release(r)
    /\ UNCHANGED <<job, shown, tokens, proven, armed>>

(* POST /auth/login with the right password: a session, or a challenge.      *)
BeginLogin(r) ==
    /\ pc[r] = "idle"
    /\ Start(r, [Blank EXCEPT !.kind = "login"])
    /\ Goto(r, IF enabled THEN "challenge" ELSE "commit")
    /\ challenged' = (challenged \/ enabled)
    /\ UNCHANGED <<rows, locks, shown, stepUp, proven, armed>>

CommitLogin(r) ==
    /\ pc[r] = "commit" /\ job[r].kind = "login"
    /\ Goto(r, "ok")
    /\ UNCHANGED <<rows, locks, job, shown, tokens, proven, armed>>

(* POST /auth/mfa/verify: the challenge, then the user row.                  *)
BeginVerify(r, code) ==
    /\ pc[r] = "idle"
    /\ challenged
    /\ Start(r, [Blank EXCEPT !.kind = "verify", !.code = code])
    /\ Goto(r, IF enabled THEN "totp" ELSE "401")
    /\ UNCHANGED <<rows, locks, shown, tokens, proven, armed>>

(* _verify_totp_code; a code that fails is tried as a recovery code.         *)
VerifyTotp(r) ==
    /\ pc[r] = "totp"
    /\ Goto(r, IF seed.confirmed /\ seed.id = job[r].code THEN "commit" ELSE "redeem")
    /\ UNCHANGED <<rows, locks, job, shown, tokens, proven, armed>>

(* Fault: the row is looked up without FOR UPDATE.                           *)
RedeemUnlocked(r) ==
    /\ pc[r] = "redeem"
    /\ IF job[r].code \notin unused THEN Fail(r, "401")
       ELSE /\ Continue(r)
            /\ UNCHANGED <<rows, locks, job, shown, tokens, proven, armed>>

(* redeem_for_update: waits for the row, then checks used_at again.          *)
RedeemForUpdate(r) ==
    LET c == job[r].code IN
    /\ pc[r] = "redeem"
    /\ IF c \notin unused THEN Fail(r, "401")
       ELSE /\ codeLock[c] = Nobody
            /\ codeLock' = [codeLock EXCEPT ![c] = r]
            /\ Continue(r)
            /\ UNCHANGED <<rows, seedLock, inserter, job, shown, tokens, proven, armed>>

CommitVerify(r) ==
    /\ pc[r] = "commit" /\ job[r].kind = "verify"
    /\ unused' = unused \ {job[r].code}
    /\ Goto(r, "ok")
    /\ Release(r)
    /\ UNCHANGED <<seed, enabled, job, shown, tokens, proven, armed>>

(* POST /auth/step-up/verify for manage-mfa: a code of the confirmed seed.   *)
StepUp ==
    /\ ~stepUp
    /\ seed.confirmed
    /\ stepUp' = TRUE
    /\ UNCHANGED <<rows, locks, pc, job, shown, challenged, proven, armed>>

Next ==
    \/ \E r \in Request :
          \/ BeginEnroll(r) \/ BeginDisable(r) \/ BeginLogin(r)
          \/ \E s \in Seed \cap shown : BeginConfirm(r, s)
          \/ \E code \in shown : BeginVerify(r, code)
          \/ DeleteSeed(r) \/ SelectSeed(r) \/ ReadUser(r)
          \/ FindCodes(r) \/ DeleteCodes(r)
          \/ VerifyTotp(r) \/ RedeemForUpdate(r)
          \/ \E s \in Seed : InsertSeed(r, s)
          \/ \E c \in Code : CommitConfirm(r, c)
          \/ CommitEnroll(r) \/ CommitDisable(r) \/ CommitLogin(r) \/ CommitVerify(r)
          \/ Abort(r)
    \/ StepUp

Spec == Init /\ [][Next]_vars
-------------------------------------------------------------------------------
(* Every variable has its type, and only rows that exist are locked.          *)
TypeOK ==
    /\ seed \in Row /\ (seed.confirmed => seed.id # NoSeed)
    /\ enabled \in BOOLEAN /\ unused \subseteq Code
    /\ seedLock \in Request \cup {Nobody} /\ inserter \in Request \cup {Nobody}
    /\ codeLock \in [Code -> Request \cup {Nobody}]
    /\ \A c \in Code : codeLock[c] # Nobody => c \in unused
    /\ seedLock # Nobody => seed.id # NoSeed
    /\ pc \in [Request -> {"idle"} \cup Step \cup Status]
    /\ job \in [Request -> [kind : Kind, code : Seed \cup Code \cup {NoSeed},
                            row : Seed \cup {NoSeed}, was : BOOLEAN,
                            doomed : SUBSET Code, clean : BOOLEAN]]
    /\ shown \subseteq Seed \cup Code /\ proven \subseteq Seed
    /\ challenged \in BOOLEAN /\ stepUp \in BOOLEAN /\ armed \in BOOLEAN

Opened(r, code) == job[r].kind = "verify" /\ pc[r] = "ok" /\ job[r].code = code

(* A recovery code opens at most one session, whatever verifications race    *)
(* for it and whatever confirmations and disablings delete it meanwhile       *)
(* (redeem_for_update).                                                      *)
RecoveryCodeOnce ==
    \A c \in Code : Cardinality({r \in Request : Opened(r, c)}) <= 1

(* Once a confirmation that no disabling overlapped is answered, and until    *)
(* someone starts to disable MFA, mfa_enabled is set, so that a password     *)
(* alone buys a challenge and no session: set_mfa_enabled writes only when    *)
(* the value it read differs, and no read of it is stale enough to matter.   *)
ConfirmedMfaHolds == armed => enabled

(* ADR 0005, "MFA activates only after a valid code is presented": the seed   *)
(* that logins are checked against is one whose code was presented.          *)
ConfirmedSeedWasProven == seed.confirmed => seed.id \in proven

(* What makes these inductive.  A request is at a statement of its plan, and  *)
(* an enrollment about to commit has its seed.                                *)
StepInOrder(r) ==
    /\ pc[r] = "deleteSeed" => job[r].kind \in {"enroll", "disable"}
    /\ pc[r] = "insertSeed" => job[r].kind = "enroll"
    /\ pc[r] = "selectSeed" => job[r].kind = "confirm"
    /\ pc[r] \in {"readUser", "findCodes", "deleteCodes"} => job[r].kind \in {"confirm", "disable"}
    /\ pc[r] \in {"totp", "redeem"} => job[r].kind = "verify"
    /\ pc[r] = "commit" /\ job[r].kind = "enroll" => job[r].code \in Seed

(* A recovery code that is about to open a session is locked by the request   *)
(* that presents it; one that has opened a session is gone for good.          *)
CodeIsHeld(r) ==
    pc[r] = "commit" /\ job[r].kind = "verify" /\ job[r].code \in Code =>
        codeLock[job[r].code] = r

OpenedIsSpent ==
    /\ unused \subseteq shown
    /\ \A r \in Request : job[r].kind = "verify" => job[r].code \in shown
    /\ \A r \in Request, c \in Code : Opened(r, c) => c \notin unused
    /\ \A q, r \in Request, c \in Code : Opened(q, c) /\ Opened(r, c) => q = r

(* Nobody is disabling while MFA counts as confirmed or a confirmation is     *)
(* clean, and what a clean confirmation has read of the user still holds.     *)
NoDisabling ==
    armed \/ (\E r \in Request : job[r].clean) => InFlight("disable") = {}

ReadIsFresh(r) ==
    /\ job[r].kind = "confirm" /\ job[r].clean /\ job[r].was
    /\ pc[r] \in {"findCodes", "deleteCodes", "commit"}
    => enabled

MfaInv == /\ \A r \in Request : StepInOrder(r) /\ CodeIsHeld(r) /\ ReadIsFresh(r)
          /\ OpenedIsSpent /\ NoDisabling /\ ConfirmedMfaHolds
================================================================================

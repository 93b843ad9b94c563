---------------------------- MODULE RefreshRotation ----------------------------
(***************************************************************************)
(* Sessions and rotating refresh tokens: IdentityService.login (its          *)
(* _issue_credentials), refresh and logout, with the transactions that       *)
(* LoginUser, RefreshTokens and LogoutSession put around them.               *)
(*                                                                         *)
(* A refresh locks the row of the presented token (SELECT ... FOR UPDATE)    *)
(* and then reads the session row without a lock; its ORM writes reach the   *)
(* database in the flush of commit(), where each UPDATE names only the       *)
(* columns it changed.  A token, once issued, may be presented by anyone,    *)
(* any number of times: a second tab, a retry after a lost answer, a thief.  *)
(***************************************************************************)
EXTENDS Naturals, FiniteSets

CONSTANTS Session,     \* auth_session ids
          Token,       \* refresh tokens the random source may produce
          Request,     \* one-shot refresh and logout requests
          Nobody,      \* no transaction
          NoToken      \* NULL replaced_by_id

ASSUME SentinelAssumption == Nobody \notin Request /\ NoToken \notin Token

VARIABLES
    family,       \* family[k]: the session of an issued token k
    used,         \* issued tokens with used_at set
    replaced_by,  \* replaced_by[k]: the token k was rotated into
    expired,      \* issued tokens whose expires_at has passed
    revocation,   \* revocation[s]: revocation_reason, or "none"
    orphaned,     \* sessions whose user has no membership any more
    lock,         \* lock[k]: transaction holding the row of token k
    pc,           \* where each request is, or its HTTP status
    presented,    \* the token it presented
    overdue,      \* requests whose token had expired at their `now`
    verdict,      \* what the request has decided to commit
    late          \* requests that began when their session was revoked

vars == <<family, used, replaced_by, expired, revocation, orphaned,
          lock, pc, presented, overdue, verdict, late>>
tokenVars == <<family, used, replaced_by>>

Issued == DOMAIN family
Status == {"200", "204", "401", "500"}
Working == {"lookup", "locked", "decided", "logout"}
Reason == {"refresh_reuse_detected", "refresh_expired", "user_logout"}
Decision == {"none", "reject", "reuse", "expire", "rotate", "rotateOrphan", "revoke"}

Init ==
    /\ family = [k \in {} |-> k]
    /\ used = {}
    /\ replaced_by = [k \in Token |-> NoToken]
    /\ expired = {}
    /\ revocation = [s \in Session |-> "none"]
    /\ orphaned = {}
    /\ lock = [k \in Token |-> Nobody]
    /\ pc = [r \in Request |-> "idle"]
    /\ presented = [r \in Request |-> NoToken]
    /\ overdue = {}
    /\ verdict = [r \in Request |-> "none"]
    /\ late = {}

Release(r) == lock' = [k \in Token |-> IF lock[k] = r THEN Nobody ELSE lock[k]]

Revoked(s) == revocation[s] # "none"

(* refresh_tokens.add: a fresh random token in the family of session s.      *)
AddToken(k, s) ==
    /\ k \notin Issued
    /\ family' = [x \in Issued \cup {k} |-> IF x = k THEN s ELSE family[x]]

(* _issue_credentials: a new session with its first token, in one commit.    *)
Login(s, k) ==
    /\ \A x \in Issued : family[x] # s
    /\ s \notin orphaned
    /\ AddToken(k, s)
    /\ UNCHANGED <<used, replaced_by, expired, revocation, orphaned,
                   lock, pc, presented, overdue, verdict, late>>

(* The cookie of POST /auth/refresh reaches RefreshTokens.execute.           *)
BeginRefresh(r, k) ==
    /\ pc[r] = "idle"
    /\ pc' = [pc EXCEPT ![r] = "lookup"]
    /\ presented' = [presented EXCEPT ![r] = k]
    /\ late' = IF Revoked(family[k]) THEN late \cup {r} ELSE late
    /\ UNCHANGED <<tokenVars, expired, revocation, orphaned, lock,
                   overdue, verdict>>

(* Fault: get_by_hash, which takes no lock, is used instead.                 *)
LookupToken(r) ==
    /\ pc[r] = "lookup"
    /\ overdue' = IF presented[r] \in expired THEN overdue \cup {r} ELSE overdue
    /\ pc' = [pc EXCEPT ![r] = "locked"]
    /\ UNCHANGED <<tokenVars, expired, revocation, orphaned, lock,
                   presented, verdict, late>>

(* get_by_hash_for_update waits for the row and sees its newest version;     *)
(* `now` is taken next, before the session is read.                          *)
LockToken(r) ==
    LET k == presented[r] IN
    /\ pc[r] = "lookup"
    /\ lock[k] = Nobody
    /\ lock' = [lock EXCEPT ![k] = r]
    /\ overdue' = IF k \in expired THEN overdue \cup {r} ELSE overdue
    /\ pc' = [pc EXCEPT ![r] = "locked"]
    /\ UNCHANGED <<tokenVars, expired, revocation, orphaned,
                   presented, verdict, late>>

(* Fault: the session's revoked_at is not looked at.                         *)
VerdictIgnoringRevocation(r) ==
    LET k == presented[r] IN
    IF k \in used THEN "reuse"
    ELSE IF r \in overdue THEN "expire"
    ELSE IF family[k] \in orphaned THEN "rotateOrphan"
    ELSE "rotate"

(* Fault: a spent token is rotated again.                                    *)
VerdictIgnoringReuse(r) ==
    LET k == presented[r] IN
    IF Revoked(family[k]) THEN "reject"
    ELSE IF r \in overdue THEN "expire"
    ELSE IF family[k] \in orphaned THEN "rotateOrphan"
    ELSE "rotate"

(* The rest of refresh(): the session row as committed now, the locked token *)
(* row, and the membership, in the order the code tests them.                *)
RefreshVerdict(r) ==
    LET k == presented[r] IN
    IF Revoked(family[k]) THEN "reject"
    ELSE IF k \in used THEN "reuse"
    ELSE IF r \in overdue THEN "expire"
    ELSE IF family[k] \in orphaned THEN "rotateOrphan"
    ELSE "rotate"

Decide(r) ==
    /\ pc[r] = "locked"
    /\ verdict' = [verdict EXCEPT ![r] = RefreshVerdict(r)]
    /\ pc' = [pc EXCEPT ![r] = "decided"]
    /\ UNCHANGED <<tokenVars, expired, revocation, orphaned,
                   lock, presented, overdue, late>>

(* Fault: mark_used does not store replaced_by_id.                           *)
RotateUnlinked(k, k2) ==
    /\ AddToken(k2, family[k])
    /\ used' = used \cup {k}
    /\ UNCHANGED <<replaced_by, revocation>>

(* Fault: the replacement is marked used and its row never added.            *)
RotateWithoutRow(k, k2) ==
    /\ k2 \notin Issued
    /\ used' = used \cup {k2}
    /\ replaced_by' = [replaced_by EXCEPT ![k] = k2]
    /\ UNCHANGED <<family, revocation>>

(* Fault: touch writes back the whole session row it read before.            *)
RotateStaleSession(k, k2) ==
    /\ AddToken(k2, family[k])
    /\ used' = used \cup {k}
    /\ replaced_by' = [replaced_by EXCEPT ![k] = k2]
    /\ revocation' = [revocation EXCEPT ![family[k]] = "none"]

(* mark_used and touch: the presented token is spent, replaced by k2.        *)
Rotate(k, k2) ==
    /\ AddToken(k2, family[k])
    /\ used' = used \cup {k}
    /\ replaced_by' = [replaced_by EXCEPT ![k] = k2]
    /\ UNCHANGED revocation

(* sessions.revoke: an unconditional UPDATE of revoked_at and the reason.    *)
Revoke(s, reason) ==
    /\ revocation' = [revocation EXCEPT ![s] = reason]
    /\ UNCHANGED tokenVars

(* Fault: an error of refresh() leaves the unit of work without a commit.    *)
CommitOnlySuccess(r) ==
    /\ pc[r] = "decided"
    /\ \/ /\ verdict[r] = "rotate"
          /\ \E k2 \in Token : Rotate(presented[r], k2)
       \/ /\ verdict[r] # "rotate"
          /\ UNCHANGED <<tokenVars, revocation>>
    /\ pc' = [pc EXCEPT ![r] = IF verdict[r] = "rotate" THEN "200" ELSE "401"]
    /\ Release(r)
    /\ UNCHANGED <<expired, orphaned, presented, overdue, verdict, late>>

(* RefreshTokens.execute commits whether or not refresh() raised: a reuse or *)
(* an expiry revokes the family although the client gets a 401, and so does  *)
(* the rotation for a user who has left the organization.                    *)
CommitRefresh(r) ==
    LET k == presented[r] IN
    /\ pc[r] = "decided"
    /\ \/ /\ verdict[r] \in {"rotate", "rotateOrphan"}
          /\ \E k2 \in Token : Rotate(k, k2)
       \/ /\ verdict[r] = "reuse"
          /\ Revoke(family[k], "refresh_reuse_detected")
       \/ /\ verdict[r] = "expire"
          /\ Revoke(family[k], "refresh_expired")
       \/ /\ verdict[r] = "reject"
          /\ UNCHANGED <<tokenVars, revocation>>
    /\ pc' = [pc EXCEPT ![r] = IF verdict[r] = "rotate" THEN "200" ELSE "401"]
    /\ Release(r)
    /\ UNCHANGED <<expired, orphaned, presented, overdue, verdict, late>>

(* logout(): token and session are read without a lock ...                   *)
BeginLogout(r, k) ==
    /\ pc[r] = "idle"
    /\ pc' = [pc EXCEPT ![r] = "logout"]
    /\ presented' = [presented EXCEPT ![r] = k]
    /\ verdict' = [verdict EXCEPT ![r] = IF Revoked(family[k]) THEN "reject" ELSE "revoke"]
    /\ UNCHANGED <<tokenVars, expired, revocation, orphaned, lock,
                   overdue, late>>

(* ... and the session is revoked if it was not when it was read.            *)
CommitLogout(r) ==
    /\ pc[r] = "logout"
    /\ \/ /\ verdict[r] = "revoke"
          /\ Revoke(family[presented[r]], "user_logout")
       \/ /\ verdict[r] = "reject"
          /\ UNCHANGED <<tokenVars, revocation>>
    /\ pc' = [pc EXCEPT ![r] = "204"]
    /\ UNCHANGED <<expired, orphaned, lock, presented, overdue, verdict, late>>

(* Fault: the failed transaction keeps its row lock.                         *)
AbortHoldingLock(r) ==
    /\ pc[r] \in Working
    /\ pc' = [pc EXCEPT ![r] = "500"]
    /\ UNCHANGED <<tokenVars, expired, revocation, orphaned, lock,
                   presented, overdue, verdict, late>>

(* A database error, a lost connection or a crash before the commit.         *)
Abort(r) ==
    /\ pc[r] \in Working
    /\ pc' = [pc EXCEPT ![r] = "500"]
    /\ Release(r)
    /\ UNCHANGED <<tokenVars, expired, revocation, orphaned,
                   presented, overdue, verdict, late>>

(* Time passes: a token reaches its expires_at.                              *)
Expire(k) ==
    /\ k \notin expired
    /\ expired' = expired \cup {k}
    /\ UNCHANGED <<tokenVars, revocation, orphaned, lock, pc,
                   presented, overdue, verdict, late>>

(* RemoveMember deletes the user's membership and leaves the sessions alone. *)
LoseMembership(s) ==
    /\ s \notin orphaned
    /\ orphaned' = orphaned \cup {s}
    /\ UNCHANGED <<tokenVars, expired, revocation, lock, pc,
                   presented, overdue, verdict, late>>

Arrive(r) == \E k \in Issued : BeginRefresh(r, k) \/ BeginLogout(r, k)

Proceed(r) == LockToken(r) \/ Decide(r) \/ CommitRefresh(r) \/ CommitLogout(r)

Next ==
    \/ \E s \in Session, k \in Token : Login(s, k)
    \/ \E r \in Request : Arrive(r) \/ Proceed(r) \/ Abort(r)
    \/ \E k \in Issued : Expire(k)
    \/ \E s \in Session : LoseMembership(s)

Spec == Init /\ [][Next]_vars

(* A running request that is not blocked goes on.  Logins, arrivals, time    *)
(* and failures are not obliged to happen.                                   *)
FairSpec == Spec /\ \A r \in Request : WF_vars(Proceed(r))
-------------------------------------------------------------------------------
(* Every variable has its type, and a request that has begun has presented   *)
(* an issued token.                                                          *)
TypeOK ==
    /\ Issued \subseteq Token
    /\ family \in [Issued -> Session]
    /\ used \subseteq Issued
    /\ replaced_by \in [Token -> Token \cup {NoToken}]
    /\ expired \subseteq Issued
    /\ revocation \in [Session -> Reason \cup {"none"}]
    /\ orphaned \subseteq Session
    /\ lock \in [Token -> Request \cup {Nobody}]
    /\ pc \in [Request -> {"idle"} \cup Working \cup Status]
    /\ presented \in [Request -> Token \cup {NoToken}]
    /\ overdue \subseteq Request
    /\ verdict \in [Request -> Decision]
    /\ late \subseteq Request
    /\ \A r \in Request : pc[r] # "idle" => presented[r] \in Issued

(* However many copies of a token race, a session never has two tokens that  *)
(* are still good for a rotation: get_by_hash_for_update makes spending a    *)
(* token exclusive.                                                          *)
OneLiveToken ==
    \A a, b \in Issued \ used : family[a] = family[b] => a = b

(* The tokens of a session form one chain: a spent token points to the token *)
(* it became, in the same session, and no token replaces two.                *)
LinearFamily ==
    /\ \A k \in Token : k \in used <=> replaced_by[k] # NoToken
    /\ \A k \in used : /\ replaced_by[k] \in Issued
                       /\ family[replaced_by[k]] = family[k]
    /\ \A a, b \in used : replaced_by[a] = replaced_by[b] => a = b

(* A refresh that completes after presenting a spent token has revoked the   *)
(* whole family, although its own answer was an error (ADR 0003: refresh     *)
(* use cases must commit before re-raising).                                 *)
ReuseRevokes ==
    \A r \in Request :
        pc[r] = "401" /\ verdict[r] \in {"reuse", "expire"}
            => Revoked(family[presented[r]])

(* A session that is revoked when a refresh arrives gives that refresh no    *)
(* tokens, even when rotations that had read the session before its          *)
(* revocation commit in between.                                             *)
RevokedFamilyIsDead == \A r \in late : pc[r] # "200"

(* Each token buys at most one pair: no two refreshes succeed with the same  *)
(* token.                                                                    *)
TokenSpentOnce ==
    \A p, q \in Request :
        pc[p] = "200" /\ pc[q] = "200" /\ presented[p] = presented[q] => p = q

(* A revoked session is never un-revoked, and an issued token never becomes  *)
(* unspent or moves to another session.                                      *)
NothingComesBack ==
    [][/\ \A s \in Session : Revoked(s) => Revoked(s)'
       /\ used \subseteq used'
       /\ \A k \in Issued : k \in Issued' /\ family'[k] = family[k]
       /\ \A k \in used : replaced_by'[k] = replaced_by[k]]_vars

(* Every refresh and logout that begins is answered.                         *)
EveryRequestAnswered ==
    \A r \in Request : (pc[r] \in Working) ~> (pc[r] \in Status)

(* What makes these inductive.  Past the lookup a request holds the row of    *)
(* its token; a rotation it has decided on is of a token still unspent; a     *)
(* rotation that succeeded has spent its token; and a request that came late  *)
(* to a revoked session can only be rejecting.                                *)
HolderOwnsRow ==
    \A r \in Request : pc[r] \in {"locked", "decided"} => lock[presented[r]] = r

RotatesUnspent ==
    \A r \in Request :
        /\ pc[r] = "decided" /\ verdict[r] \in {"rotate", "rotateOrphan"}
              => presented[r] \notin used
        /\ pc[r] = "200" => presented[r] \in used

LateIsRejected ==
    \A r \in late : /\ pc[r] \in {"lookup", "locked", "decided", "401", "500"}
                    /\ Revoked(family[presented[r]])
                    /\ pc[r] = "decided" => verdict[r] = "reject"

RotationInv == /\ HolderOwnsRow /\ RotatesUnspent /\ LateIsRejected
               /\ OneLiveToken /\ LinearFamily /\ ReuseRevokes /\ TokenSpentOnce
===============================================================================

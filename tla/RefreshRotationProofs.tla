------------------------- MODULE RefreshRotationProofs -------------------------
(***************************************************************************)
(* Proofs about RefreshRotation, for any sessions, tokens and requests.      *)
(***************************************************************************)
EXTENDS RefreshRotation, TLAPS

(* The effect of issuing a token: the issued set gains exactly it, and every *)
(* token issued before stays where it was.                                   *)
LEMMA AddTokenEffect ==
  ASSUME NEW k, NEW s, AddToken(k, s)
  PROVE  /\ k \notin Issued
         /\ Issued' = Issued \cup {k}
         /\ family'[k] = s
         /\ \A x \in Issued : family'[x] = family[x]
BY DEF AddToken, Issued

(* Type correctness.                                                         *)
LEMMA TypeInductive ==
  ASSUME TypeOK, [Next]_vars
  PROVE  TypeOK'
<1> USE DEF TypeOK
<1>1. CASE UNCHANGED vars
  BY <1>1 DEF vars, Issued
<1>2. ASSUME NEW s \in Session, NEW k \in Token, Login(s, k) PROVE TypeOK'
  BY <1>2 DEF Login, AddToken, Issued
<1>3. ASSUME NEW r \in Request, Arrive(r) PROVE TypeOK'
  BY <1>3 DEF Arrive, BeginRefresh, BeginLogout, tokenVars, Issued, Working, Decision
<1>4. ASSUME NEW r \in Request, LockToken(r) PROVE TypeOK'
  BY <1>4 DEF LockToken, tokenVars, Issued, Working
<1>5. ASSUME NEW r \in Request, Decide(r) PROVE TypeOK'
  BY <1>5 DEF Decide, RefreshVerdict, tokenVars, Issued, Working, Decision
<1>6. ASSUME NEW r \in Request, CommitRefresh(r) PROVE TypeOK'
  <2> DEFINE k == presented[r]
  <2>1. /\ lock' \in [Token -> Request \cup {Nobody}]
        /\ pc' \in [Request -> {"idle"} \cup Working \cup Status]
        /\ \A q \in Request : pc'[q] # "idle" => pc[q] # "idle"
        /\ UNCHANGED <<expired, orphaned, presented, overdue, verdict, late>>
    BY <1>6 DEF CommitRefresh, Release, Status, Working
  <2>2. k \in Issued /\ family[k] \in Session
    BY <1>6 DEF CommitRefresh
  <2>3. ASSUME NEW k2 \in Token, Rotate(k, k2) PROVE TypeOK'
    BY <2>1, <2>2, <2>3 DEF Rotate, AddToken, Issued
  <2>4. ASSUME NEW reason \in Reason, Revoke(family[k], reason) PROVE TypeOK'
    BY <2>1, <2>2, <2>4 DEF Revoke, tokenVars, Issued
  <2>5. ASSUME UNCHANGED <<tokenVars, revocation>> PROVE TypeOK'
    BY <2>1, <2>5 DEF tokenVars, Issued
  <2> QED
    BY <1>6, <2>3, <2>4, <2>5 DEF CommitRefresh, Reason
<1>7. ASSUME NEW r \in Request, CommitLogout(r) PROVE TypeOK'
  BY <1>7 DEF CommitLogout, Revoke, tokenVars, Issued, Reason, Status
<1>8. ASSUME NEW r \in Request, Abort(r) PROVE TypeOK'
  BY <1>8 DEF Abort, Release, tokenVars, Issued, Status, Working
<1>9. ASSUME NEW k \in Issued, Expire(k) PROVE TypeOK'
  BY <1>9 DEF Expire, tokenVars, Issued
<1>10. ASSUME NEW s \in Session, LoseMembership(s) PROVE TypeOK'
  BY <1>10 DEF LoseMembership, tokenVars, Issued
<1> QED
  BY <1>1, <1>2, <1>3, <1>4, <1>5, <1>6, <1>7, <1>8, <1>9, <1>10 DEF Next, Proceed

(* Type correctness of the rotation.                                         *)
THEOREM TypeCorrect == Spec => []TypeOK
<1>1. Init => TypeOK
  BY DEF Init, TypeOK, Issued, Decision
<1>2. TypeOK /\ [Next]_vars => TypeOK'
  BY TypeInductive
<1> QED
  BY <1>1, <1>2, PTL DEF Spec

-------------------------------------------------------------------------------
(* A rotation of a locked, unspent token leaves its family with one live     *)
(* token, the new one, and the chain one link longer.                        *)
LEMMA RotateKeepsFamilies ==
  ASSUME TypeOK, OneLiveToken, LinearFamily,
         NEW k \in Issued, k \notin used, NEW k2 \in Token, Rotate(k, k2)
  PROVE  OneLiveToken' /\ LinearFamily'
<1>1. /\ k2 \notin Issued
      /\ Issued' = Issued \cup {k2}
      /\ family'[k2] = family[k]
      /\ \A x \in Issued : family'[x] = family[x]
  BY AddTokenEffect DEF Rotate
<1>2. /\ used' = used \cup {k}
      /\ used \subseteq Issued
      /\ replaced_by'[k] = k2
      /\ \A x \in Token : x # k => replaced_by'[x] = replaced_by[x]
      /\ Issued \subseteq Token
      /\ k2 # NoToken
  BY SentinelAssumption DEF Rotate, TypeOK
<1>3. OneLiveToken'
  BY <1>1, <1>2 DEF OneLiveToken
<1>4. \A x \in Token : x \in used' <=> replaced_by'[x] # NoToken
  BY <1>1, <1>2 DEF LinearFamily
<1>5. \A x \in used' : /\ replaced_by'[x] \in Issued'
                       /\ family'[replaced_by'[x]] = family'[x]
  BY <1>1, <1>2 DEF LinearFamily
<1>6. \A a, b \in used' : replaced_by'[a] = replaced_by'[b] => a = b
  BY <1>1, <1>2 DEF LinearFamily
<1> QED
  BY <1>3, <1>4, <1>5, <1>6 DEF LinearFamily

(* Steps that leave tokens and revocations alone and move one request.       *)
LEMMA QuietStep ==
  ASSUME TypeOK, RotationInv, UNCHANGED <<tokenVars, revocation, presented>>,
         NEW r \in Request,
         \A q \in Request : q # r => /\ pc'[q] = pc[q]
                                     /\ verdict'[q] = verdict[q],
         late' = late,
         pc'[r] # "200", pc[r] # "200",
         HolderOwnsRow',
         pc'[r] = "decided" => /\ pc[r] = "locked"
                               /\ verdict'[r] = RefreshVerdict(r),
         pc'[r] = "401" => verdict'[r] \notin {"reuse", "expire"},
         r \in late => pc'[r] \in {"lookup", "locked", "decided", "401", "500"}
  PROVE  RotationInv'
<1>1. UNCHANGED <<family, used, replaced_by, revocation, presented>>
  BY DEF tokenVars
<1>2. OneLiveToken' /\ LinearFamily'
  BY <1>1 DEF RotationInv, OneLiveToken, LinearFamily, Issued
<1>3. RotatesUnspent'
  BY <1>1 DEF RotationInv, RotatesUnspent, RefreshVerdict, TypeOK
<1>4. LateIsRejected'
  BY <1>1 DEF RotationInv, LateIsRejected, RefreshVerdict, Revoked, TypeOK
<1>5. ReuseRevokes' /\ TokenSpentOnce'
  BY <1>1 DEF RotationInv, ReuseRevokes, TokenSpentOnce, Revoked, TypeOK
<1> QED
  BY <1>2, <1>3, <1>4, <1>5 DEF RotationInv

(* Every step keeps the invariant.                                           *)
LEMMA RotationInductive ==
  ASSUME TypeOK, TypeOK', RotationInv, [Next]_vars
  PROVE  RotationInv'
<1> USE SentinelAssumption
<1> USE DEF TypeOK
<1>1. CASE UNCHANGED vars
  BY <1>1 DEF vars, RotationInv, HolderOwnsRow, RotatesUnspent, LateIsRejected,
              OneLiveToken, LinearFamily, ReuseRevokes, TokenSpentOnce, Revoked, Issued
<1>2. ASSUME NEW s \in Session, NEW k \in Token, Login(s, k)
      PROVE  RotationInv'
  <2>1. /\ k \notin Issued /\ Issued' = Issued \cup {k} /\ family'[k] = s
        /\ \A x \in Issued : family'[x] = family[x] /\ family[x] # s
    BY <1>2, AddTokenEffect DEF Login
  <2>2. UNCHANGED <<used, replaced_by, revocation, lock, pc, presented, verdict, late>>
    BY <1>2 DEF Login
  <2>3. OneLiveToken'
    BY <2>1, <2>2 DEF RotationInv, OneLiveToken
  <2>4. LinearFamily'
    BY <2>1, <2>2 DEF RotationInv, LinearFamily
  <2>5. HolderOwnsRow' /\ RotatesUnspent' /\ TokenSpentOnce'
    BY <2>2 DEF RotationInv, HolderOwnsRow, RotatesUnspent, TokenSpentOnce
  <2>6. \A r \in Request : pc[r] # "idle" =>
            family'[presented[r]] = family[presented[r]]
    BY <2>1
  <2>7. LateIsRejected' /\ ReuseRevokes'
    BY <2>2, <2>6 DEF RotationInv, LateIsRejected, ReuseRevokes, Revoked
  <2> QED
    BY <2>3, <2>4, <2>5, <2>7 DEF RotationInv
<1>3. ASSUME NEW r \in Request, NEW k \in Issued,
             BeginRefresh(r, k) \/ BeginLogout(r, k)
      PROVE  RotationInv'
  <2>1. /\ UNCHANGED <<family, used, replaced_by, revocation, lock>>
        /\ pc[r] = "idle" /\ pc'[r] \in {"lookup", "logout"}
        /\ presented'[r] = k
        /\ late' = late \/ (pc'[r] = "lookup" /\ Revoked(family[k]) /\ late' = late \cup {r})
        /\ \A q \in Request : q # r => /\ pc'[q] = pc[q]
                                        /\ verdict'[q] = verdict[q]
                                        /\ presented'[q] = presented[q]
    BY <1>3 DEF BeginRefresh, BeginLogout, tokenVars
  <2>2. HolderOwnsRow' /\ RotatesUnspent' /\ TokenSpentOnce' /\ ReuseRevokes'
    BY <2>1 DEF RotationInv, HolderOwnsRow, RotatesUnspent, TokenSpentOnce,
                ReuseRevokes, Revoked
  <2>3. LateIsRejected'
    <3> SUFFICES ASSUME NEW q \in late'
                 PROVE  /\ pc'[q] \in {"lookup", "locked", "decided", "401", "500"}
                        /\ Revoked(family[presented[q]])'
                        /\ pc'[q] = "decided" => verdict'[q] = "reject"
      BY DEF LateIsRejected
    <3>1. r \notin late
      BY <2>1 DEF RotationInv, LateIsRejected
    <3>2. CASE q = r
      BY <2>1, <3>1, <3>2 DEF Revoked
    <3>3. CASE q # r
      <4>1. q \in late
        BY <2>1, <3>3
      <4> QED
        BY <2>1, <3>3, <4>1 DEF RotationInv, LateIsRejected, Revoked
    <3> QED
      BY <3>2, <3>3
  <2>4. OneLiveToken' /\ LinearFamily'
    BY <2>1 DEF RotationInv, OneLiveToken, LinearFamily, Issued
  <2> QED
    BY <2>2, <2>3, <2>4 DEF RotationInv
<1>4. ASSUME NEW r \in Request, LockToken(r) PROVE RotationInv'
  <2>1. HolderOwnsRow'
    BY <1>4 DEF LockToken, RotationInv, HolderOwnsRow
  <2> QED
    BY <1>4, <2>1, QuietStep DEF LockToken, RotationInv
<1>5. ASSUME NEW r \in Request, Decide(r) PROVE RotationInv'
  <2>1. HolderOwnsRow'
    BY <1>5 DEF Decide, RotationInv, HolderOwnsRow
  <2> QED
    BY <1>5, <2>1, QuietStep DEF Decide, RotationInv
<1>6. ASSUME NEW r \in Request, CommitRefresh(r) PROVE RotationInv'
  <2> DEFINE k == presented[r]
  <2>1. /\ pc[r] = "decided"
        /\ pc'[r] = IF verdict[r] = "rotate" THEN "200" ELSE "401"
        /\ \A q \in Request : q # r => pc'[q] = pc[q]
        /\ UNCHANGED <<presented, verdict, late>>
        /\ lock[k] = r
        /\ k \in Issued
    BY <1>6 DEF CommitRefresh, RotationInv, HolderOwnsRow
  <2>2. HolderOwnsRow'
    BY <1>6, <2>1 DEF CommitRefresh, Release, RotationInv, HolderOwnsRow
  <2>3. ASSUME verdict[r] \in {"rotate", "rotateOrphan"},
               NEW k2 \in Token, Rotate(k, k2)
        PROVE  RotationInv'
    <3>1. k \notin used
      BY <2>1, <2>3 DEF RotationInv, RotatesUnspent
    <3>2. OneLiveToken' /\ LinearFamily'
      BY <2>1, <2>3, <3>1, RotateKeepsFamilies DEF RotationInv
    <3>3. /\ \A x \in Issued : family'[x] = family[x]
          /\ used' = used \cup {k}
          /\ revocation' = revocation
      BY <2>3, AddTokenEffect DEF Rotate
    <3>4. \A q \in Request : pc[q] \in {"locked", "decided"} /\ q # r => presented[q] # k
      BY <2>1 DEF RotationInv, HolderOwnsRow
    <3>5. RotatesUnspent'
      BY <2>1, <3>3, <3>4 DEF RotationInv, RotatesUnspent
    <3>6. \A q \in Request : pc[q] # "idle" =>
              family'[presented[q]] = family[presented[q]]
      BY <3>3
    <3>7. LateIsRejected'
      BY <2>1, <2>3, <3>3, <3>6 DEF RotationInv, LateIsRejected, Revoked
    <3>8. ReuseRevokes'
      BY <2>1, <2>3, <3>3, <3>6 DEF RotationInv, ReuseRevokes, Revoked
    <3>9. \A q \in Request : pc[q] = "200" => presented[q] # k
      BY <3>1 DEF RotationInv, RotatesUnspent
    <3>10. TokenSpentOnce'
      BY <2>1, <3>9 DEF RotationInv, TokenSpentOnce
    <3> QED
      BY <2>2, <3>2, <3>5, <3>7, <3>8, <3>10 DEF RotationInv
  <2>4. ASSUME verdict[r] \in {"reuse", "expire"},
               NEW reason \in Reason, Revoke(family[k], reason)
        PROVE  RotationInv'
    <3>1. /\ UNCHANGED tokenVars
          /\ \A s \in Session : Revoked(s) => Revoked(s)'
          /\ Revoked(family[k])'
      BY <2>1, <2>4 DEF Revoke, Revoked, Reason, tokenVars
    <3>2. ReuseRevokes'
      BY <2>1, <3>1 DEF RotationInv, ReuseRevokes, Revoked, tokenVars
    <3>3. LateIsRejected'
      BY <2>1, <2>4, <3>1 DEF RotationInv, LateIsRejected, Revoked, tokenVars
    <3>4. OneLiveToken' /\ LinearFamily'
      BY <3>1 DEF RotationInv, OneLiveToken, LinearFamily, Issued, tokenVars
    <3>5. RotatesUnspent' /\ TokenSpentOnce'
      BY <2>1, <2>4, <3>1 DEF RotationInv, RotatesUnspent, TokenSpentOnce, tokenVars
    <3> QED
      BY <2>2, <3>2, <3>3, <3>4, <3>5 DEF RotationInv
  <2>5. ASSUME verdict[r] = "reject", UNCHANGED <<tokenVars, revocation>>
        PROVE  RotationInv'
    BY <2>1, <2>2, <2>5, QuietStep
  <2> QED
    BY <1>6, <2>3, <2>4, <2>5 DEF CommitRefresh, Reason
<1>7. ASSUME NEW r \in Request, CommitLogout(r) PROVE RotationInv'
  <2>1. /\ pc[r] = "logout" /\ pc'[r] = "204"
        /\ \A q \in Request : q # r => pc'[q] = pc[q]
        /\ UNCHANGED <<tokenVars, presented, verdict, late, lock>>
        /\ \A s \in Session : Revoked(s) => Revoked(s)'
    BY <1>7 DEF CommitLogout, Revoke, Revoked, tokenVars
  <2>2. HolderOwnsRow' /\ RotatesUnspent' /\ TokenSpentOnce'
    BY <2>1 DEF RotationInv, HolderOwnsRow, RotatesUnspent, TokenSpentOnce, tokenVars
  <2>3. LateIsRejected'
    BY <2>1 DEF RotationInv, LateIsRejected, Revoked, tokenVars
  <2>4. ReuseRevokes'
    BY <2>1 DEF RotationInv, ReuseRevokes, Revoked, tokenVars
  <2>5. OneLiveToken' /\ LinearFamily'
    BY <2>1 DEF RotationInv, OneLiveToken, LinearFamily, Issued, tokenVars
  <2> QED
    BY <2>2, <2>3, <2>4, <2>5 DEF RotationInv
<1>8. ASSUME NEW r \in Request, Abort(r) PROVE RotationInv'
  <2>1. HolderOwnsRow'
    BY <1>8 DEF Abort, Release, RotationInv, HolderOwnsRow, Working
  <2> QED
    BY <1>8, <2>1, QuietStep DEF Abort, RotationInv, Working, LateIsRejected
<1>9. ASSUME UNCHANGED <<tokenVars, revocation, lock, pc, presented, verdict, late>>
      PROVE  RotationInv'
  BY <1>9 DEF tokenVars, RotationInv, HolderOwnsRow, RotatesUnspent,
              LateIsRejected, OneLiveToken, LinearFamily, ReuseRevokes,
              TokenSpentOnce, Revoked, Issued
<1> QED
  BY <1>1, <1>2, <1>3, <1>4, <1>5, <1>6, <1>7, <1>8, <1>9
     DEF Next, Arrive, Proceed, Expire, LoseMembership

(* The inductive invariant of rotation.                                      *)
THEOREM RotationInvariant == Spec => []RotationInv
<1>1. Init => RotationInv
  BY DEF Init, RotationInv, HolderOwnsRow, RotatesUnspent, LateIsRejected,
         OneLiveToken, LinearFamily, ReuseRevokes, TokenSpentOnce, Issued
<1>2. TypeOK /\ TypeOK' /\ RotationInv /\ [Next]_vars => RotationInv'
  BY RotationInductive
<1> QED
  BY <1>1, <1>2, TypeCorrect, PTL DEF Spec

(* At most one token of a session is good for a rotation, whatever races.    *)
THEOREM NeverTwoLiveTokens == Spec => []OneLiveToken
<1>1. RotationInv => OneLiveToken
  BY DEF RotationInv
<1> QED
  BY <1>1, RotationInvariant, PTL

(* The tokens of a session form a single chain of replacements.              *)
THEOREM FamiliesAreLinear == Spec => []LinearFamily
<1>1. RotationInv => LinearFamily
  BY DEF RotationInv
<1> QED
  BY <1>1, RotationInvariant, PTL

(* A refresh answered 401 for reuse or expiry has revoked its session.       *)
THEOREM ReuseAlwaysRevokes == Spec => []ReuseRevokes
<1>1. RotationInv => ReuseRevokes
  BY DEF RotationInv
<1> QED
  BY <1>1, RotationInvariant, PTL

(* A token buys at most one new pair.                                        *)
THEOREM NoTokenSpentTwice == Spec => []TokenSpentOnce
<1>1. RotationInv => TokenSpentOnce
  BY DEF RotationInv
<1> QED
  BY <1>1, RotationInvariant, PTL

(* A refresh that arrives after the revocation of its session gets no tokens. *)
THEOREM RevokedStaysDead == Spec => []RevokedFamilyIsDead
<1>1. RotationInv => RevokedFamilyIsDead
  BY DEF RotationInv, LateIsRejected, RevokedFamilyIsDead
<1> QED
  BY <1>1, RotationInvariant, PTL

(* What a step keeps of the past.                                             *)
PastIsKept ==
    /\ \A s \in Session : Revoked(s) => Revoked(s)'
    /\ used \subseteq used'
    /\ \A k \in Issued : k \in Issued' /\ family'[k] = family[k]
    /\ \A k \in used : replaced_by'[k] = replaced_by[k]

(* No step unspends a token, moves it to another family or revives a         *)
(* session.                                                                  *)
LEMMA HistoryStep ==
  ASSUME TypeOK, RotationInv, [Next]_vars
  PROVE  PastIsKept
<1> USE DEF TypeOK
<1>1. ASSUME UNCHANGED <<tokenVars, revocation>> PROVE PastIsKept
  BY <1>1 DEF PastIsKept, tokenVars, Revoked, Issued
<1>2. ASSUME NEW s \in Session, NEW k \in Token, Login(s, k) PROVE PastIsKept
  BY <1>2, AddTokenEffect DEF PastIsKept, Login, Revoked
<1>3. ASSUME NEW s \in Session, NEW reason \in Reason, Revoke(s, reason) PROVE PastIsKept
  BY <1>3 DEF PastIsKept, Revoke, Revoked, Reason, tokenVars, Issued
<1>4. ASSUME NEW r \in Request, CommitRefresh(r) PROVE PastIsKept
  <2> DEFINE k == presented[r]
  <2>1. k \in Issued /\ family[k] \in Session
    BY <1>4 DEF CommitRefresh
  <2>2. ASSUME verdict[r] \in {"rotate", "rotateOrphan"},
               NEW k2 \in Token, Rotate(k, k2)
        PROVE  PastIsKept
    <3>1. k \notin used
      BY <1>4, <2>2 DEF CommitRefresh, RotationInv, RotatesUnspent
    <3> QED
      BY <2>2, <3>1, AddTokenEffect DEF PastIsKept, Rotate, Revoked
  <2> QED
    BY <1>1, <1>3, <1>4, <2>1, <2>2 DEF CommitRefresh, Reason
<1>5. ASSUME NEW r \in Request, CommitLogout(r) PROVE PastIsKept
  <2>1. family[presented[r]] \in Session
    BY <1>5 DEF CommitLogout
  <2> QED
    BY <1>1, <1>3, <1>5, <2>1 DEF CommitLogout, Reason
<1>6. CASE UNCHANGED vars
  BY <1>1, <1>6 DEF vars, tokenVars
<1> QED
  BY <1>1, <1>2, <1>4, <1>5, <1>6
     DEF Next, Arrive, Proceed, BeginRefresh, BeginLogout, LockToken, Decide,
         Abort, Expire, LoseMembership

(* No step un-revokes a session, un-spends a token, moves it to another      *)
(* session or rewrites what it was replaced by.                              *)
THEOREM HistoryIsKept == Spec => NothingComesBack
<1>1. TypeOK /\ RotationInv /\ [Next]_vars => [PastIsKept]_vars
  BY HistoryStep
<1> QED
  BY <1>1, TypeCorrect, RotationInvariant, PTL DEF Spec, NothingComesBack, PastIsKept
===============================================================================

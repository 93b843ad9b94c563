---------------------------- MODULE TenantDataProofs ----------------------------
(***************************************************************************)
(* Proofs about TenantData, for any vaults, secrets, users, requests and menu *)
(* of operations.                                                             *)
(***************************************************************************)
EXTENDS TenantData, PolicyMatrix, FiniteSetTheorems, TLAPS

(* An operation of the menu is about a row of the tenant.                     *)
LEMMA OperationRows ==
  ASSUME NEW o \in Menu
  PROVE  /\ o.kind \in Kind /\ o.actor \in User /\ o.whom \in User
         /\ o.permission \in VaultPermission \ {"none"}
         /\ o.on \in Row /\ o.actor \in Row /\ o.whom \in Row
         /\ o.kind \in SecretKind => o.on \in Secret
         /\ o.kind \notin SecretKind => o.on \in Vault /\ o.on \notin Secret
         /\ VaultFor(o) \in Vault
         /\ o.on \in Vault => GrantRow(o) \in Vault \X User /\ GrantRow(o) \in Row
<1>1. /\ o.kind \in Kind /\ o.actor \in User /\ o.whom \in User
      /\ o.permission \in VaultPermission \ {"none"} /\ o.on \in Vault \cup Secret
  BY TenantAssumption DEF Operation
<1>2. o.on \in Secret <=> o.kind \in SecretKind
  BY TenantAssumption
<1>3. VaultFor(o) \in Vault
  BY <1>1, TenantAssumption DEF VaultFor
<1>4. o.on \in Vault => GrantRow(o) \in Vault \X User
  BY <1>1 DEF GrantRow
<1> QED
  BY <1>1, <1>2, <1>3, <1>4 DEF Row

(* What an answered request is about is an operation of the menu.            *)
LEMMA AnyOperationIsOne == AnyOperation \in Menu
  BY TenantAssumption DEF AnyOperation

(* Nothing planned is a plan.                                                *)
LEMMA NoPlanIsOne == NoPlan \in [version : Nat, created : BOOLEAN, hit : BOOLEAN]
  BY DEF NoPlan

(* A request that nobody blocks takes no lock away from another.              *)
LEMMA TakeKeeps ==
  ASSUME TypeOK, NEW r \in Request, NEW rows, rows \subseteq Wanted(r), Blockers(r) = {},
         Take(r, rows)
  PROVE  /\ lock' \in [Row -> Request \cup {Nobody}]
         /\ \A row \in Row : lock[row] = r => lock'[row] = r
         /\ \A row \in Row \cap rows : lock'[row] = r
         /\ \A q \in Request \ {r}, row \in Row : lock[row] = q => lock'[row] = q
<1>1. lock \in [Row -> Request \cup {Nobody}]
  BY DEF TypeOK
<1>2. lock' = [row \in Row |-> IF row \in rows THEN r ELSE lock[row]]
  BY DEF Take
<1>3. \A row \in rows : lock[row] \in {Nobody, r}
  BY DEF Blockers
<1>4. Nobody \notin Request
  BY TenantAssumption
<1> QED
  BY <1>1, <1>2, <1>3, <1>4

(* A request that ends gives up its own locks and no others.                  *)
LEMMA ReleaseKeeps ==
  ASSUME TypeOK, NEW r \in Request, Release(r)
  PROVE  /\ lock' \in [Row -> Request \cup {Nobody}]
         /\ \A q \in Request \ {r}, row \in Row : lock[row] = q => lock'[row] = q
  BY TenantAssumption DEF Release, TypeOK

-------------------------------------------------------------------------------
(* Steps of one request that change no row of the tenant and leave the other  *)
(* requests, with the locks they hold, as they are.                           *)
Quiet(r) ==
    /\ UNCHANGED <<dataVars, log>>
    /\ \A q \in Request \ {r} :
          /\ pc'[q] = pc[q] /\ op'[q] = op[q] /\ plan'[q] = plan[q]
          /\ (q \in denied') = (q \in denied)
          /\ (q \in doomed') = (q \in doomed)
          /\ \A row \in Row : lock[row] = q => lock'[row] = q

(* After such a step only the request that took it can have lost its part of  *)
(* the invariant.                                                             *)
LEMMA QuietKeeps ==
  ASSUME TypeOK, RowsInv, NEW r \in Request, Quiet(r), RowsHeld(r)', LateIsStopped(r)'
  PROVE  RowsInv'
<1>1. /\ vault' = vault /\ secret' = secret /\ current' = current /\ versions' = versions
      /\ role' = role /\ grant' = grant
  BY DEF Quiet, dataVars
<1>2. SealedInPlace'
  BY <1>1 DEF RowsInv, SealedInPlace
<1>3. ASSUME NEW q \in Request \ {r}
      PROVE  RowsHeld(q)' /\ LateIsStopped(q)'
  <2>1. /\ pc'[q] = pc[q] /\ op'[q] = op[q] /\ plan'[q] = plan[q]
        /\ q \in denied' <=> q \in denied
        /\ q \in doomed' <=> q \in doomed
        /\ \A row \in Row : lock[row] = q => lock'[row] = q
    BY <1>3 DEF Quiet
  <2>2. op[q].on \in Row /\ op[q].whom \in Row
    BY OperationRows DEF TypeOK
  <2>3. RowsHeld(q)'
    BY <1>1, <2>1, <2>2 DEF RowsInv, RowsHeld, Acted
  <2>4. LateIsStopped(q)'
    <3>1. DeadOnArrival(op[q]) <=> DeadOnArrival(op[q])'
      BY <1>1, <2>1 DEF DeadOnArrival
    <3> QED
      BY <1>1, <2>1, <3>1 DEF RowsInv, LateIsStopped
  <2> QED
    BY <2>3, <2>4
<1> QED
  BY <1>2, <1>3 DEF RowsInv

(* What a statement that is followed by record() does.                        *)
LEMMA RecordedIs ==
  ASSUME TypeOK, NEW r \in Request, NEW rows, rows \subseteq Wanted(r), Blockers(r) = {},
         NEW found \in [version : Nat, created : BOOLEAN, hit : BOOLEAN],
         Recorded(r, rows, found)
  PROVE  /\ TypeOK' /\ Quiet(r)
         /\ pc'[r] = "record" /\ op'[r] = op[r] /\ plan'[r] = found
         /\ \A row \in Row \cap rows : lock'[row] = r
         /\ \A row \in Row : lock[row] = r => lock'[row] = r
         /\ denied' = denied /\ doomed' = doomed
<1>1. /\ pc' = [pc EXCEPT ![r] = "record"] /\ plan' = [plan EXCEPT ![r] = found]
      /\ UNCHANGED <<dataVars, log, op, denied, doomed>>
      /\ Take(r, rows)
  BY DEF Recorded, Goto
<1>2. /\ lock' \in [Row -> Request \cup {Nobody}]
      /\ \A row \in Row : lock[row] = r => lock'[row] = r
      /\ \A row \in Row \cap rows : lock'[row] = r
      /\ \A q \in Request \ {r}, row \in Row : lock[row] = q => lock'[row] = q
  BY <1>1, TakeKeeps
<1>3. TypeOK'
  BY <1>1, <1>2 DEF TypeOK, dataVars, Working
<1> QED
  BY <1>1, <1>2, <1>3 DEF TypeOK, Quiet

(* What a statement that is followed by another one does.                     *)
LEMMA ContinueIs ==
  ASSUME TypeOK, NEW r \in Request, NEW rows, rows \subseteq Wanted(r), Blockers(r) = {},
         NEW where \in Working, Continue(r, where, rows)
  PROVE  /\ TypeOK' /\ Quiet(r)
         /\ pc'[r] = where /\ op'[r] = op[r] /\ plan'[r] = plan[r]
         /\ \A row \in Row \cap rows : lock'[row] = r
         /\ \A row \in Row : lock[row] = r => lock'[row] = r
         /\ denied' = denied /\ doomed' = doomed
<1>1. /\ pc' = [pc EXCEPT ![r] = where]
      /\ UNCHANGED <<dataVars, log, op, plan, denied, doomed>>
      /\ Take(r, rows)
  BY DEF Continue, Goto
<1>2. /\ lock' \in [Row -> Request \cup {Nobody}]
      /\ \A row \in Row : lock[row] = r => lock'[row] = r
      /\ \A row \in Row \cap rows : lock'[row] = r
      /\ \A q \in Request \ {r}, row \in Row : lock[row] = q => lock'[row] = q
  BY <1>1, TakeKeeps
<1>3. TypeOK'
  BY <1>1, <1>2 DEF TypeOK, dataVars
<1> QED
  BY <1>1, <1>2, <1>3 DEF TypeOK, Quiet

(* A request that fails leaves nothing behind but its answer.                 *)
LEMMA FailKeeps ==
  ASSUME TypeOK, RowsInv, NEW r \in Request, NEW status \in Status \ {"ok"}, Fail(r, status)
  PROVE  TypeOK' /\ RowsInv' /\ UNCHANGED <<dataVars, log>>
<1>1. /\ pc' = [pc EXCEPT ![r] = status] /\ op' = [op EXCEPT ![r] = AnyOperation]
      /\ plan' = [plan EXCEPT ![r] = NoPlan] /\ denied' = denied \ {r}
      /\ UNCHANGED <<dataVars, log, doomed>> /\ Release(r)
  BY DEF Fail, Answer, Goto
<1>2. /\ lock' \in [Row -> Request \cup {Nobody}]
      /\ \A q \in Request \ {r}, row \in Row : lock[row] = q => lock'[row] = q
  BY <1>1, ReleaseKeeps
<1>3. TypeOK'
  BY <1>1, <1>2, AnyOperationIsOne, NoPlanIsOne DEF TypeOK, dataVars
<1>4. Quiet(r)
  BY <1>1, <1>2 DEF TypeOK, Quiet
<1>5. pc'[r] = status
  BY <1>1 DEF TypeOK
<1>6. RowsHeld(r)' /\ LateIsStopped(r)'
  BY <1>5 DEF RowsHeld, Acted, LateIsStopped, Status, Working
<1> QED
  BY <1>1, <1>3, <1>4, <1>6, QuietKeeps

-------------------------------------------------------------------------------
(* A request that arrives late is found out to be when it arrives.            *)
LEMMA BeginKeeps ==
  ASSUME TypeOK, RowsInv, NEW r \in Request, NEW o \in Menu, Begin(r, o)
  PROVE  TypeOK' /\ RowsInv' /\ UNCHANGED <<dataVars, log>>
<1>1. /\ pc[r] = "idle" /\ pc' = [pc EXCEPT ![r] = "authorize"] /\ op' = [op EXCEPT ![r] = o]
      /\ doomed' = IF DeadOnArrival(o) THEN doomed \cup {r} ELSE doomed
      /\ UNCHANGED <<dataVars, log, lock, plan, denied>>
  BY DEF Begin, Goto
<1>2. TypeOK'
  BY <1>1 DEF TypeOK, dataVars, Working
<1>3. Quiet(r)
  BY <1>1 DEF TypeOK, Quiet
<1>4. pc'[r] = "authorize" /\ op'[r] = o
  BY <1>1 DEF TypeOK
<1>5. RowsHeld(r)'
  BY <1>4 DEF RowsHeld, Acted
<1>6. LateIsStopped(r)'
  <2>1. r \in doomed' => DeadOnArrival(o)
    BY <1>1 DEF RowsInv, LateIsStopped
  <2>2. DeadOnArrival(o) => DeadOnArrival(op[r])'
    BY <1>1, <1>4 DEF DeadOnArrival, dataVars
  <2> QED
    BY <1>4, <2>1, <2>2 DEF LateIsStopped
<1> QED
  BY <1>1, <1>2, <1>3, <1>5, <1>6, QuietKeeps

(* PolicyService allows nothing to someone who is not a member, and nothing   *)
(* in a vault that is not active.                                             *)
LEMMA AllowedMeans ==
  ASSUME TypeOK, NEW o \in Menu, Verdict(o) = "allow"
  PROVE  /\ role[o.actor] # "none"
         /\ o.kind \notin {"createVault", "removeMember"} => vault[VaultFor(o)] = "active"
<1>1. o.kind \in Kind
  BY OperationRows
<1>2. CASE o.kind \in {"createVault", "removeMember"}
  <2>1. ActionOf[o.kind] \in OrgAction
    BY <1>2 DEF ActionOf, OrgAction
  <2> QED
    BY <1>2, <2>1 DEF Verdict, require_org
<1>3. CASE o.kind \notin {"createVault", "removeMember"}
  <2>1. ActionOf[o.kind] \notin OrgAction
    BY <1>1, <1>3 DEF ActionOf, OrgAction, Kind, SecretKind
  <2>2. require_vault(vault[VaultFor(o)] = "active", role[o.actor],
                      grant[<<VaultFor(o), o.actor>>], ActionOf[o.kind]) = "allow"
    BY <2>1 DEF Verdict
  <2>3. vault[VaultFor(o)] = "active"
    BY <2>2 DEF require_vault
  <2>4. role[o.actor] # "none"
    BY <2>2 DEF require_vault, forbidden_vault_action
  <2> QED
    BY <2>3, <2>4
<1> QED
  BY <1>2, <1>3

(* The policy decides on committed rows and changes none.                    *)
LEMMA AuthorizeKeeps ==
  ASSUME TypeOK, RowsInv, NEW r \in Request, Authorize(r)
  PROVE  TypeOK' /\ RowsInv' /\ UNCHANGED <<dataVars, log>>
<1>1. pc[r] = "authorize" /\ op[r] \in Menu
  BY DEF Authorize, TypeOK
<1>2. CASE Verdict(op[r]) = "allow" /\ Continue(r, "act", {})
  <2>1. Blockers(r) = {}
    BY <1>1 DEF Blockers, Wanted
  <2>2. /\ TypeOK' /\ Quiet(r) /\ pc'[r] = "act" /\ op'[r] = op[r]
        /\ denied' = denied /\ doomed' = doomed
    BY <1>2, <2>1, ContinueIs DEF Working
  <2>3. /\ role[op[r].actor] # "none"
        /\ op[r].kind \notin {"createVault", "removeMember"} => vault[VaultFor(op[r])] = "active"
    BY <1>1, <1>2, AllowedMeans
  <2>4. vault' = vault /\ secret' = secret /\ role' = role /\ UNCHANGED <<dataVars, log>>
    BY <2>2 DEF Quiet, dataVars
  <2>5. RowsHeld(r)'
    <3>1. op[r].kind = "deleteVault" => vault[op[r].on] = "active"
      BY <1>1, <2>3, OperationRows DEF VaultFor, SecretKind
    <3> QED
      BY <2>2, <2>4, <3>1 DEF RowsHeld, Acted
  <2>6. LateIsStopped(r)'
    <3>1. r \in doomed => DeadOnArrival(op[r])
      BY <1>1 DEF RowsInv, LateIsStopped, Working
    <3>2. r \in doomed => op[r].on \in Secret /\ secret[op[r].on] = "deleted"
      BY <2>3, <3>1 DEF DeadOnArrival
    <3>3. DeadOnArrival(op[r]) => DeadOnArrival(op[r])'
      BY <2>2, <2>4 DEF DeadOnArrival
    <3> QED
      BY <2>2, <2>4, <3>1, <3>2, <3>3 DEF LateIsStopped
  <2> QED
    BY <2>2, <2>4, <2>5, <2>6, QuietKeeps
<1>3. CASE Fail(r, "403") \/ Fail(r, "404")
  BY <1>3, FailKeeps DEF Status
<1>4. CASE /\ Goto(r, "record")
           /\ denied' = denied \cup {r}
           /\ UNCHANGED <<dataVars, log, lock, op, plan, doomed>>
  <2>1. pc' = [pc EXCEPT ![r] = "record"]
    BY <1>4 DEF Goto
  <2>2. TypeOK'
    BY <1>4, <2>1 DEF TypeOK, dataVars, Working
  <2>3. Quiet(r)
    BY <1>4, <2>1 DEF TypeOK, Quiet
  <2>4. pc'[r] = "record" /\ op'[r] = op[r] /\ r \in denied' /\ doomed' = doomed
    BY <1>4, <2>1 DEF TypeOK
  <2>5. RowsHeld(r)'
    BY <2>4 DEF RowsHeld, Acted
  <2>6. LateIsStopped(r)'
    <3>1. r \in doomed => DeadOnArrival(op[r])
      BY <1>1 DEF RowsInv, LateIsStopped, Working
    <3>2. DeadOnArrival(op[r]) => DeadOnArrival(op[r])'
      BY <1>4 DEF DeadOnArrival, dataVars
    <3> QED
      BY <2>4, <3>1, <3>2 DEF LateIsStopped
  <2> QED
    BY <1>4, <2>2, <2>3, <2>5, <2>6, QuietKeeps
<1> QED
  BY <1>2, <1>3, <1>4 DEF Authorize

-------------------------------------------------------------------------------
(* A late request does not get past its first statement.                      *)
LEMMA LateStopsHere ==
  ASSUME TypeOK, RowsInv, NEW r \in Request, pc[r] \in {"act", "write", "cascade", "record"},
         pc[r] = "act" /\ op[r].on \in Secret => secret[op[r].on] # "deleted",
         pc'[r] \in Working, op'[r] = op[r], Quiet(r), denied' = denied, doomed' = doomed
  PROVE  LateIsStopped(r)'
<1>1. vault' = vault /\ secret' = secret /\ role' = role
  BY DEF Quiet, dataVars
<1>2. DeadOnArrival(op[r]) => DeadOnArrival(op[r])'
  BY <1>1 DEF DeadOnArrival
<1>3. r \in doomed => DeadOnArrival(op[r]) /\ r \in denied
  BY DEF RowsInv, LateIsStopped, Working
<1> QED
  BY <1>2, <1>3 DEF LateIsStopped, Working

(* The statements on vault rows.                                              *)
LEMMA VaultStatementKeeps ==
  ASSUME TypeOK, RowsInv, NEW r \in Request, Blockers(r) = {},
         \/ pc[r] = "act" /\ (CreateVault(r) \/ FindVault(r) \/ DeleteVault(r))
         \/ pc[r] = "write" /\ UpdateVault(r)
  PROVE  TypeOK' /\ RowsInv' /\ UNCHANGED <<dataVars, log>>
<1> DEFINE o == op[r]
<1>1. /\ o \in Menu /\ o.on \in Row
      /\ o.kind \notin SecretKind => o.on \in Vault /\ o.on \notin Secret
  BY OperationRows DEF TypeOK
<1>2. ASSUME NEW status \in Status \ {"ok"}, Fail(r, status)
      PROVE  TypeOK' /\ RowsInv' /\ UNCHANGED <<dataVars, log>>
  BY <1>2, FailKeeps
<1>3. CASE /\ pc[r] = "act" /\ o.kind = "createVault" /\ vault[o.on] = "absent"
           /\ Recorded(r, {o.on}, [NoPlan EXCEPT !.created = TRUE])
  <2> DEFINE rows == {o.on}
             found == [NoPlan EXCEPT !.created = TRUE]
  <2>1. rows \subseteq Wanted(r) /\ o.on \in rows
    BY <1>3 DEF Wanted
  <2>2. found \in [version : Nat, created : BOOLEAN, hit : BOOLEAN] /\ found.created
    BY DEF NoPlan
  <2>3. /\ TypeOK' /\ Quiet(r) /\ pc'[r] = "record" /\ op'[r] = o /\ plan'[r].created
        /\ lock'[o.on] = r /\ denied' = denied /\ doomed' = doomed
    <3>1. Recorded(r, rows, found)
      BY <1>3
    <3> HIDE DEF rows, found
    <3>2. /\ TypeOK' /\ Quiet(r) /\ pc'[r] = "record" /\ op'[r] = op[r] /\ plan'[r] = found
          /\ \A row \in Row \cap rows : lock'[row] = r
          /\ denied' = denied /\ doomed' = doomed
      BY <2>1, <2>2, <3>1, RecordedIs
    <3>3. lock'[o.on] = r
      BY <1>1, <2>1, <3>2
    <3> QED
      BY <2>2, <3>2, <3>3
  <2>4. vault' = vault /\ UNCHANGED <<dataVars, log>>
    BY <2>3 DEF Quiet, dataVars
  <2>5. RowsHeld(r)'
    BY <1>3, <2>3, <2>4 DEF RowsHeld, Acted
  <2>6. LateIsStopped(r)'
    BY <1>1, <1>3, <2>3, LateStopsHere DEF Working, SecretKind
  <2> QED
    BY <2>3, <2>4, <2>5, <2>6, QuietKeeps
<1>4. CASE pc[r] = "act" /\ o.kind = "updateVault" /\ Continue(r, "write", {})
  <2>1. /\ TypeOK' /\ Quiet(r) /\ pc'[r] = "write" /\ op'[r] = o
        /\ denied' = denied /\ doomed' = doomed
    BY <1>4, ContinueIs DEF Working
  <2>2. RowsHeld(r)'
    BY <2>1 DEF RowsHeld, Acted
  <2>3. LateIsStopped(r)'
    BY <1>1, <1>4, <2>1, LateStopsHere DEF Working, SecretKind
  <2> QED
    BY <2>1, <2>2, <2>3, QuietKeeps DEF Quiet
<1>5. CASE pc[r] = "write" /\ o.kind = "updateVault" /\ Recorded(r, {o.on}, NoPlan)
  <2>1. {o.on} \subseteq Wanted(r)
    BY <1>5 DEF Wanted
  <2>2. /\ TypeOK' /\ Quiet(r) /\ pc'[r] = "record" /\ op'[r] = o
        /\ denied' = denied /\ doomed' = doomed
    BY <1>5, <2>1, NoPlanIsOne, RecordedIs
  <2>3. RowsHeld(r)'
    BY <1>5, <2>2 DEF RowsHeld, Acted
  <2>4. LateIsStopped(r)'
    BY <1>5, <2>2, LateStopsHere DEF Working
  <2> QED
    BY <2>2, <2>3, <2>4, QuietKeeps DEF Quiet
<1>6. CASE pc[r] = "act" /\ DeleteVault(r)
  <2> DEFINE hit == vault[o.on] = "active"
             rows == IF hit THEN {o.on} ELSE {}
             found == [NoPlan EXCEPT !.hit = hit]
  <2>1. o.kind = "deleteVault" /\ Recorded(r, rows, found)
    BY <1>6 DEF DeleteVault
  <2>2. rows \subseteq Wanted(r)
    BY <1>6, <2>1 DEF Wanted
  <2>3. found \in [version : Nat, created : BOOLEAN, hit : BOOLEAN] /\ found.hit = hit
    BY DEF NoPlan
  <2>4. /\ TypeOK' /\ Quiet(r) /\ pc'[r] = "record" /\ op'[r] = o /\ plan'[r].hit = hit
        /\ hit => lock'[o.on] = r
        /\ denied' = denied /\ doomed' = doomed
    <3>1. hit => o.on \in rows
      OBVIOUS
    <3> HIDE DEF hit, rows, found
    <3>2. /\ TypeOK' /\ Quiet(r) /\ pc'[r] = "record" /\ op'[r] = op[r] /\ plan'[r] = found
          /\ \A row \in Row \cap rows : lock'[row] = r
          /\ denied' = denied /\ doomed' = doomed
      <4>1. /\ found \in [version : Nat, created : BOOLEAN, hit : BOOLEAN]
            /\ Recorded(r, rows, found)
        BY <2>1, <2>3
      <4> QED
        BY <2>2, <4>1, RecordedIs
    <3>3. hit => lock'[o.on] = r
      BY <1>1, <3>1, <3>2
    <3>4. plan'[r].hit = hit
      BY <2>3, <3>2, Zenon
    <3> QED
      BY <3>2, <3>3, <3>4, Zenon
  <2>5. vault' = vault /\ UNCHANGED <<dataVars, log>>
    BY <2>4 DEF Quiet, dataVars
  <2>6. vault[o.on] \in {"active", "deleted"}
    <3>1. o.on \in Vault
      BY <1>1, <2>1 DEF SecretKind
    <3> QED
      BY <1>6, <2>1, <3>1 DEF RowsInv, RowsHeld, TypeOK
  <2>7. RowsHeld(r)'
    BY <2>1, <2>4, <2>5, <2>6 DEF RowsHeld, Acted
  <2>8. LateIsStopped(r)'
    BY <1>1, <1>6, <2>1, <2>4, LateStopsHere DEF Working, SecretKind
  <2> QED
    BY <2>4, <2>5, <2>7, <2>8, QuietKeeps
<1> QED
  BY <1>2, <1>3, <1>4, <1>5, <1>6 DEF CreateVault, FindVault, UpdateVault, Status

(* The statements on grants and memberships.                                  *)
LEMMA MemberStatementKeeps ==
  ASSUME TypeOK, RowsInv, NEW r \in Request, Blockers(r) = {},
         \/ pc[r] = "act" /\ (PlanGrant(r) \/ RevokeGrant(r) \/ CheckRemoval(r))
         \/ pc[r] = "write" /\ RemoveMember(r)
         \/ pc[r] = "cascade" /\ CascadeGrants(r)
  PROVE  TypeOK' /\ RowsInv' /\ UNCHANGED <<dataVars, log>>
<1> DEFINE o == op[r]
<1>1. /\ o \in Menu /\ o.whom \in Row
      /\ o.kind \notin SecretKind => o.on \in Vault /\ o.on \notin Secret
  BY OperationRows DEF TypeOK
<1>2. ASSUME NEW status \in Status \ {"ok"}, Fail(r, status)
      PROVE  TypeOK' /\ RowsInv' /\ UNCHANGED <<dataVars, log>>
  BY <1>2, FailKeeps
<1>3. ASSUME pc[r] = "act", o.kind \in {"grant", "revokeGrant"},
             NEW rows, rows \subseteq Wanted(r),
             NEW found \in [version : Nat, created : BOOLEAN, hit : BOOLEAN],
             Recorded(r, rows, found)
      PROVE  TypeOK' /\ RowsInv' /\ UNCHANGED <<dataVars, log>>
  <2>1. /\ TypeOK' /\ Quiet(r) /\ pc'[r] = "record" /\ op'[r] = o
        /\ denied' = denied /\ doomed' = doomed
    BY <1>3, RecordedIs
  <2>2. RowsHeld(r)'
    BY <1>3, <2>1 DEF RowsHeld, Acted
  <2>3. LateIsStopped(r)'
    BY <1>1, <1>3, <2>1, LateStopsHere DEF Working, SecretKind
  <2> QED
    BY <2>1, <2>2, <2>3, QuietKeeps DEF Quiet
<1>4. CASE pc[r] = "act" /\ PlanGrant(r)
  <2>1. CASE Fail(r, "404")
    BY <1>2, <2>1 DEF Status
  <2>2. CASE Recorded(r, {}, [NoPlan EXCEPT !.created = grant[GrantRow(o)] = "none"])
    <3>1. [NoPlan EXCEPT !.created = grant[GrantRow(o)] = "none"]
             \in [version : Nat, created : BOOLEAN, hit : BOOLEAN]
      BY DEF NoPlan
    <3> QED
      BY <1>3, <1>4, <2>2, <3>1 DEF PlanGrant
  <2> QED
    BY <1>4, <2>1, <2>2 DEF PlanGrant
<1>5. CASE pc[r] = "act" /\ RevokeGrant(r)
  <2>1. CASE Fail(r, "404")
    BY <1>2, <2>1 DEF Status
  <2>2. CASE grant[GrantRow(o)] # "none" /\ Recorded(r, {GrantRow(o)}, NoPlan)
    <3>1. {GrantRow(o)} \subseteq Wanted(r)
      BY <1>5, <2>2 DEF Wanted, RevokeGrant
    <3> QED
      BY <1>3, <1>5, <2>2, <3>1, NoPlanIsOne DEF RevokeGrant
  <2> QED
    BY <1>5, <2>1, <2>2 DEF RevokeGrant
<1>6. CASE pc[r] = "act" /\ o.kind = "removeMember" /\ Continue(r, "write", {})
  <2>1. /\ TypeOK' /\ Quiet(r) /\ pc'[r] = "write" /\ op'[r] = o
        /\ denied' = denied /\ doomed' = doomed
    BY <1>6, ContinueIs DEF Working
  <2>2. RowsHeld(r)'
    BY <2>1 DEF RowsHeld, Acted
  <2>3. LateIsStopped(r)'
    BY <1>1, <1>6, <2>1, LateStopsHere DEF Working, SecretKind
  <2> QED
    BY <2>1, <2>2, <2>3, QuietKeeps DEF Quiet
<1>7. CASE /\ pc[r] = "write" /\ o.kind = "removeMember" /\ role[o.whom] # "none"
           /\ Continue(r, "cascade", {o.whom})
  <2>1. {o.whom} \subseteq Wanted(r)
    BY <1>7 DEF Wanted
  <2>2. /\ TypeOK' /\ Quiet(r) /\ pc'[r] = "cascade" /\ op'[r] = o /\ lock'[o.whom] = r
        /\ denied' = denied /\ doomed' = doomed
    BY <1>1, <1>7, <2>1, ContinueIs DEF Working
  <2>3. role' = role /\ UNCHANGED <<dataVars, log>>
    BY <2>2 DEF Quiet, dataVars
  <2>4. RowsHeld(r)'
    BY <1>7, <2>2, <2>3 DEF RowsHeld, Acted
  <2>5. LateIsStopped(r)'
    BY <1>7, <2>2, LateStopsHere DEF Working
  <2> QED
    BY <2>2, <2>3, <2>4, <2>5, QuietKeeps
<1>8. CASE pc[r] = "cascade" /\ CascadeGrants(r)
  <2>1. /\ TypeOK' /\ Quiet(r) /\ pc'[r] = "record" /\ op'[r] = o
        /\ \A row \in Row : lock[row] = r => lock'[row] = r
        /\ denied' = denied /\ doomed' = doomed
    BY <1>8, NoPlanIsOne, RecordedIs DEF CascadeGrants
  <2>2. role' = role /\ UNCHANGED <<dataVars, log>>
    BY <2>1 DEF Quiet, dataVars
  <2>3. o.kind = "removeMember" /\ lock[o.whom] = r /\ role[o.whom] # "none"
    BY <1>8 DEF RowsInv, RowsHeld
  <2>4. RowsHeld(r)'
    BY <1>1, <2>1, <2>2, <2>3 DEF RowsHeld, Acted
  <2>5. LateIsStopped(r)'
    BY <1>8, <2>1, LateStopsHere DEF Working
  <2> QED
    BY <2>1, <2>2, <2>4, <2>5, QuietKeeps
<1> QED
  BY <1>2, <1>4, <1>5, <1>6, <1>7, <1>8 DEF CheckRemoval, RemoveMember, Status

(* The statements on secret and version rows.                                 *)
LEMMA SecretStatementKeeps ==
  ASSUME TypeOK, RowsInv, NEW r \in Request, Blockers(r) = {}, pc[r] = "act",
         \/ CreateSecret(r) \/ RevealSecret(r) \/ RotateSecret(r) \/ DeleteSecret(r)
  PROVE  TypeOK' /\ RowsInv' /\ UNCHANGED <<dataVars, log>>
<1> DEFINE o == op[r]
           at(n) == [NoPlan EXCEPT !.version = n]
<1>1. o \in Menu /\ o.on \in Row /\ (o.kind \in SecretKind => o.on \in Secret)
  BY OperationRows DEF TypeOK
<1>2. ASSUME NEW status \in Status \ {"ok"}, Fail(r, status)
      PROVE  TypeOK' /\ RowsInv' /\ UNCHANGED <<dataVars, log>>
  BY <1>2, FailKeeps
<1>3. \A n \in Nat : /\ at(n) \in [version : Nat, created : BOOLEAN, hit : BOOLEAN]
                     /\ at(n).version = n
  BY DEF NoPlan
<1>4. o.kind \in SecretKind => current[o.on] \in Nat
  BY <1>1 DEF TypeOK
<1> HIDE DEF at
<1>5. ASSUME o.kind \in SecretKind, secret[o.on] # "deleted",
             NEW rows, rows \subseteq Wanted(r), rows \subseteq {o.on},
             NEW found \in [version : Nat, created : BOOLEAN, hit : BOOLEAN],
             Recorded(r, rows, found),
             o.kind = "createSecret" =>
                rows = {o.on} /\ secret[o.on] = "absent" /\ current[o.on] = 0 /\ found.version = 1,
             o.kind = "rotate" =>
                /\ rows = {o.on} /\ secret[o.on] = "active"
                /\ found.version = current[o.on] + 1,
             o.kind = "deleteSecret" => rows = {o.on} /\ secret[o.on] = "active",
             o.kind = "reveal" => found.version \in 1..current[o.on]
      PROVE  TypeOK' /\ RowsInv' /\ UNCHANGED <<dataVars, log>>
  <2>1. /\ TypeOK' /\ Quiet(r) /\ pc'[r] = "record" /\ op'[r] = o /\ plan'[r] = found
        /\ \A row \in Row \cap rows : lock'[row] = r
        /\ denied' = denied /\ doomed' = doomed
    BY <1>5, RecordedIs
  <2>2. secret' = secret /\ current' = current /\ UNCHANGED <<dataVars, log>>
    BY <2>1 DEF Quiet, dataVars
  <2>3. RowsHeld(r)'
    BY <1>1, <1>5, <2>1, <2>2 DEF RowsHeld, Acted, SecretKind
  <2>4. LateIsStopped(r)'
    BY <1>5, <2>1, LateStopsHere DEF Working
  <2> QED
    BY <2>1, <2>2, <2>3, <2>4, QuietKeeps
<1>6. CASE CreateSecret(r)
  <2>1. CASE Fail(r, "409")
    BY <1>2, <2>1 DEF Status
  <2>2. CASE secret[o.on] = "absent" /\ Recorded(r, {o.on}, at(1))
    <3>1. o.kind = "createSecret" /\ {o.on} \subseteq Wanted(r)
      BY <1>6 DEF CreateSecret, Wanted
    <3>2. current[o.on] = 0
      BY <1>1, <2>2, <3>1 DEF RowsInv, SealedInPlace, SecretKind
    <3> QED
      BY <1>3, <1>5, <2>2, <3>1, <3>2 DEF SecretKind
  <2> QED
    BY <1>6, <2>1, <2>2 DEF CreateSecret, at
<1>7. CASE RotateSecret(r)
  <2>1. CASE Fail(r, "404")
    BY <1>2, <2>1 DEF Status
  <2>2. CASE secret[o.on] = "active" /\ Recorded(r, {o.on}, at(current[o.on] + 1))
    <3>1. o.kind = "rotate" /\ {o.on} \subseteq Wanted(r)
      BY <1>7, <2>2 DEF RotateSecret, Wanted
    <3> QED
      BY <1>3, <1>4, <1>5, <2>2, <3>1 DEF SecretKind
  <2> QED
    BY <1>7, <2>1, <2>2 DEF RotateSecret, at
<1>8. CASE DeleteSecret(r)
  <2>1. CASE Fail(r, "404")
    BY <1>2, <2>1 DEF Status
  <2>2. CASE secret[o.on] = "active" /\ Recorded(r, {o.on}, NoPlan)
    <3>1. o.kind = "deleteSecret" /\ {o.on} \subseteq Wanted(r)
      BY <1>8, <2>2 DEF DeleteSecret, Wanted
    <3> QED
      BY <1>5, <2>2, <3>1, NoPlanIsOne DEF SecretKind
  <2> QED
    BY <1>8, <2>1, <2>2 DEF DeleteSecret
<1>9. CASE RevealSecret(r)
  <2>1. CASE Fail(r, "404") \/ Fail(r, "500")
    BY <1>2, <2>1 DEF Status
  <2>2. ASSUME NEW n \in 1..(current[o.on] + 1), n \in DOMAIN versions[o.on],
               secret[o.on] = "active", Recorded(r, {}, at(n))
        PROVE  TypeOK' /\ RowsInv' /\ UNCHANGED <<dataVars, log>>
    <3>1. o.kind = "reveal" /\ o.on \in Secret
      BY <1>1, <1>9 DEF RevealSecret, SecretKind
    <3>2. DOMAIN versions[o.on] = 1..current[o.on]
      BY <3>1 DEF RowsInv, SealedInPlace
    <3>3. n \in Nat /\ n \in 1..current[o.on]
      BY <2>2, <3>2, <1>4, <3>1 DEF SecretKind
    <3> QED
      BY <1>3, <1>5, <2>2, <3>1, <3>3 DEF SecretKind
  <2> QED
    BY <1>9, <2>1, <2>2 DEF RevealSecret, at
<1> QED
  BY <1>6, <1>7, <1>8, <1>9

(* The statements of the services lock and plan; they publish nothing.       *)
LEMMA StatementKeeps ==
  ASSUME TypeOK, RowsInv, NEW r \in Request, Statement(r)
  PROVE  TypeOK' /\ RowsInv' /\ UNCHANGED <<dataVars, log>>
<1>1. Blockers(r) = {}
  BY DEF Statement
<1>2. CASE \/ pc[r] = "act" /\ (CreateVault(r) \/ FindVault(r) \/ DeleteVault(r))
           \/ pc[r] = "write" /\ UpdateVault(r)
  BY <1>1, <1>2, VaultStatementKeeps
<1>3. CASE \/ pc[r] = "act" /\ (PlanGrant(r) \/ RevokeGrant(r) \/ CheckRemoval(r))
           \/ pc[r] = "write" /\ RemoveMember(r)
           \/ pc[r] = "cascade" /\ CascadeGrants(r)
  BY <1>1, <1>3, MemberStatementKeeps
<1>4. CASE /\ pc[r] = "act"
           /\ CreateSecret(r) \/ RevealSecret(r) \/ RotateSecret(r) \/ DeleteSecret(r)
  BY <1>1, <1>4, SecretStatementKeeps
<1> QED
  BY <1>2, <1>3, <1>4 DEF Statement

(* record() takes the lock of the chain head last.                           *)
LEMMA LockHeadKeeps ==
  ASSUME TypeOK, RowsInv, NEW r \in Request, LockHead(r)
  PROVE  TypeOK' /\ RowsInv' /\ UNCHANGED <<dataVars, log>>
<1>1. pc[r] = "record" /\ Blockers(r) = {} /\ Continue(r, "commit", {ChainHead})
  BY DEF LockHead
<1>2. {ChainHead} \subseteq Wanted(r)
  BY <1>1 DEF Wanted
<1>3. /\ TypeOK' /\ Quiet(r) /\ pc'[r] = "commit" /\ op'[r] = op[r] /\ plan'[r] = plan[r]
      /\ \A row \in Row : lock[row] = r => lock'[row] = r
      /\ denied' = denied /\ doomed' = doomed
  BY <1>1, <1>2, ContinueIs DEF Working
<1>4. /\ vault' = vault /\ secret' = secret /\ current' = current /\ role' = role
      /\ UNCHANGED <<dataVars, log>>
  BY <1>3 DEF Quiet, dataVars
<1>5. op[r].on \in Row /\ op[r].whom \in Row
  BY OperationRows DEF TypeOK
<1>6. RowsHeld(r)'
  BY <1>1, <1>3, <1>4, <1>5 DEF RowsInv, RowsHeld, Acted
<1>7. LateIsStopped(r)'
  BY <1>1, <1>3, LateStopsHere DEF Working
<1> QED
  BY <1>3, <1>4, <1>6, <1>7, QuietKeeps

-------------------------------------------------------------------------------
(* What a commit of r may do to the rows of the tenant: it changes only rows  *)
(* it holds the locks of, and only forwards.                                  *)
RowsMove(r) ==
    /\ \A v \in Vault :
          \/ vault'[v] = vault[v]
          \/ lock[v] = r /\ vault[v] = "absent" /\ vault'[v] = "active"
          \/ lock[v] = r /\ vault[v] = "active" /\ vault'[v] = "deleted"
    /\ \A s \in Secret :
          /\ current'[s] \in Nat /\ current[s] <= current'[s]
          /\ \/ secret'[s] = secret[s] /\ current'[s] = current[s]
             \/ lock[s] = r /\ secret[s] # "deleted" /\ secret'[s] # "absent"
    /\ \A u \in User : role'[u] = role[u] \/ (lock[u] = r /\ role'[u] = "none")

(* The flush of an allowed request changes only rows it has locked.          *)
LEMMA EffectMoves ==
  ASSUME TypeOK, RowsInv, NEW r \in Request, pc[r] = "commit", r \notin denied, Effect(r)
  PROVE  /\ RowsMove(r) /\ SealedInPlace'
         /\ vault' \in [Vault -> {"absent", "active", "deleted"}]
         /\ secret' \in [Secret -> {"absent", "active", "deleted"}]
         /\ current' \in [Secret -> Nat]
         /\ role' \in [User -> OrgRole \cup {"none"}]
         /\ grant' \in [Vault \X User -> VaultPermission]
<1> DEFINE o == op[r]
<1>1. /\ o \in Menu /\ o.whom \in User
      /\ o.permission \in VaultPermission
      /\ o.kind \in SecretKind => o.on \in Secret
      /\ o.kind \notin SecretKind => o.on \in Vault
  BY OperationRows DEF TypeOK
<1>2. RowsHeld(r) /\ Acted(r)
  BY DEF RowsInv, Acted
<1>3. /\ vault' \in [Vault -> {"absent", "active", "deleted"}]
      /\ \A v \in Vault :
          \/ vault'[v] = vault[v]
          \/ lock[v] = r /\ vault[v] = "absent" /\ vault'[v] = "active"
          \/ lock[v] = r /\ vault[v] = "active" /\ vault'[v] = "deleted"
  <2>1. CASE o.kind = "createVault"
    <3>1. vault' = [vault EXCEPT ![o.on] = "active"]
      BY <2>1 DEF Effect, VaultRows
    <3>2. lock[o.on] = r /\ vault[o.on] = "absent"
      BY <1>2, <2>1 DEF RowsHeld
    <3> QED
      BY <3>1, <3>2 DEF TypeOK
  <2>2. CASE o.kind = "deleteVault" /\ plan[r].hit
    <3>1. vault' = [vault EXCEPT ![o.on] = "deleted"]
      BY <2>2 DEF Effect, VaultRows
    <3>2. lock[o.on] = r /\ vault[o.on] = "active"
      BY <1>2, <2>2 DEF RowsHeld
    <3> QED
      BY <3>1, <3>2 DEF TypeOK
  <2>3. CASE o.kind # "createVault" /\ ~(o.kind = "deleteVault" /\ plan[r].hit)
    BY <2>3 DEF Effect, VaultRows, TypeOK
  <2> QED
    BY <2>1, <2>2, <2>3
<1>4. /\ secret' \in [Secret -> {"absent", "active", "deleted"}]
      /\ current' \in [Secret -> Nat]
      /\ SealedInPlace'
      /\ \A s \in Secret :
          /\ current[s] <= current'[s]
          /\ \/ secret'[s] = secret[s] /\ current'[s] = current[s]
             \/ lock[s] = r /\ secret[s] # "deleted" /\ secret'[s] # "absent"
  <2>1. CASE o.kind \in {"createSecret", "rotate"}
    <3> DEFINE s == o.on
               n == plan[r].version
    <3>1. s \in Secret /\ current[s] \in Nat
      BY <1>1, <2>1 DEF SecretKind, TypeOK
    <3>2. /\ lock[s] = r /\ secret[s] # "deleted" /\ n = current[s] + 1
          /\ o.kind = "rotate" => secret[s] = "active"
      BY <1>2, <2>1 DEF RowsHeld
    <3>3. /\ secret' = IF o.kind = "createSecret" THEN [secret EXCEPT ![s] = "active"] ELSE secret
          /\ current' = [current EXCEPT ![s] = n]
          /\ versions' = [versions EXCEPT ![s] =
                [i \in DOMAIN versions[s] \cup {n} |->
                    IF i = n THEN secret_aad(s, n) ELSE versions[s][i]]]
      BY <2>1 DEF Effect, SecretRows, VersionRows
    <3>4. /\ versions = [t \in Secret |-> [i \in 1..current[t] |-> secret_aad(t, i)]]
          /\ \A t \in Secret : secret[t] = "absent" => current[t] = 0
      BY DEF RowsInv, SealedInPlace
    <3>5. /\ current' \in [Secret -> Nat] /\ current'[s] = n
          /\ \A t \in Secret \ {s} : current'[t] = current[t]
      BY <3>1, <3>2, <3>3 DEF TypeOK
    <3>6. /\ secret' \in [Secret -> {"absent", "active", "deleted"}] /\ secret'[s] = "active"
          /\ \A t \in Secret \ {s} : secret'[t] = secret[t]
      BY <2>1, <3>1, <3>2, <3>3 DEF TypeOK
    <3>7. versions' = [t \in Secret |-> [i \in 1..current'[t] |-> secret_aad(t, i)]]
      <4>1. 1..current'[s] = (1..current[s]) \cup {n}
        BY <3>1, <3>2, <3>5
      <4>2. DOMAIN versions[s] = 1..current[s]
            /\ \A i \in 1..current[s] : versions[s][i] = secret_aad(s, i)
        BY <3>1, <3>4
      <4>3. [i \in DOMAIN versions[s] \cup {n} |->
                IF i = n THEN secret_aad(s, n) ELSE versions[s][i]]
            = [i \in 1..current'[s] |-> secret_aad(s, i)]
        BY <4>1, <4>2
      <4>4. versions' = [t \in Secret |-> IF t = s THEN [i \in 1..current'[s] |-> secret_aad(s, i)]
                                          ELSE versions[t]]
        BY <3>3, <3>4, <4>3
      <4>5. \A t \in Secret \ {s} : versions[t] = [i \in 1..current'[t] |-> secret_aad(t, i)]
        BY <3>4, <3>5
      <4> QED
        BY <4>4, <4>5
    <3>8. SealedInPlace'
      BY <3>4, <3>5, <3>6, <3>7 DEF SealedInPlace, secret_aad
    <3> QED
      BY <3>1, <3>2, <3>5, <3>6, <3>8 DEF TypeOK
  <2>2. CASE o.kind = "deleteSecret"
    <3>1. /\ secret' = [secret EXCEPT ![o.on] = "deleted"]
          /\ current' = current /\ versions' = versions
      BY <2>2 DEF Effect, SecretRows, VersionRows
    <3>2. lock[o.on] = r /\ secret[o.on] = "active" /\ o.on \in Secret
      BY <1>1, <1>2, <2>2 DEF RowsHeld, SecretKind
    <3>3. SealedInPlace'
      BY <3>1, <3>2 DEF SealedInPlace, RowsInv, TypeOK
    <3> QED
      BY <3>1, <3>2, <3>3 DEF TypeOK
  <2>3. CASE o.kind \notin {"createSecret", "rotate", "deleteSecret"}
    <3>1. secret' = secret /\ current' = current /\ versions' = versions
      BY <2>3 DEF Effect, SecretRows, VersionRows
    <3> QED
      BY <3>1 DEF TypeOK, RowsInv, SealedInPlace
  <2> QED
    BY <2>1, <2>2, <2>3
<1>5. /\ role' \in [User -> OrgRole \cup {"none"}]
      /\ \A u \in User : role'[u] = role[u] \/ (lock[u] = r /\ role'[u] = "none")
  BY <1>1, <1>2 DEF Effect, MemberRows, TypeOK, RowsHeld
<1>6. grant' \in [Vault \X User -> VaultPermission]
  BY <1>1 DEF Effect, GrantRows, TypeOK, VaultPermission
<1> QED
  BY <1>3, <1>4, <1>5, <1>6 DEF RowsMove

(* What another request has read and holds locks for survives such a commit.  *)
LEMMA MovesKeepOthers ==
  ASSUME TypeOK, RowsInv, NEW r \in Request, RowsMove(r), NEW q \in Request \ {r},
         pc'[q] = pc[q], op'[q] = op[q], plan'[q] = plan[q],
         (q \in denied') = (q \in denied), doomed' = doomed,
         \A row \in Row : lock[row] = q => lock'[row] = q
  PROVE  RowsHeld(q)' /\ LateIsStopped(q)'
<1> DEFINE o == op[q]
<1>1. /\ o \in Menu /\ o.on \in Row /\ o.whom \in Row /\ o.whom \in User /\ o.actor \in User
      /\ o.kind \in SecretKind => o.on \in Secret
      /\ o.kind \notin SecretKind => o.on \in Vault
      /\ VaultFor(o) \in Vault
  BY OperationRows DEF TypeOK
<1>2. RowsHeld(q) /\ LateIsStopped(q) /\ q # r
  BY DEF RowsInv
<1>3. Acted(q)' <=> Acted(q)
  BY DEF Acted
<1>4. /\ \A v \in Vault : lock[v] = q => vault'[v] = vault[v]
      /\ \A s \in Secret : lock[s] = q => secret'[s] = secret[s] /\ current'[s] = current[s]
      /\ \A u \in User : lock[u] = q => role'[u] = role[u]
  BY <1>2 DEF RowsMove
<1>5. /\ \A v \in Vault : vault[v] = "deleted" => vault'[v] = "deleted"
      /\ \A v \in Vault : vault[v] # "absent" => vault'[v] # "absent"
      /\ \A s \in Secret : secret[s] = "deleted" => secret'[s] = "deleted"
      /\ \A s \in Secret : current[s] <= current'[s]
      /\ \A u \in User : role[u] = "none" => role'[u] = "none"
  BY DEF RowsMove
<1>6. RowsHeld(q)'
  <2>1. /\ pc[q] = "act" /\ o.kind = "deleteVault" => vault'[o.on] # "absent"
        /\ pc[q] = "cascade" => o.kind = "removeMember"
        /\ pc[q] = "cascade" \/ (Acted(q) /\ o.kind = "removeMember") =>
              lock'[o.whom] = q /\ role'[o.whom] # "none"
    BY <1>1, <1>2, <1>4, <1>5 DEF RowsHeld, SecretKind
  <2>2. /\ Acted(q) /\ o.kind = "createVault" =>
              lock'[o.on] = q /\ vault'[o.on] = "absent" /\ plan[q].created
        /\ Acted(q) /\ o.kind = "deleteVault" =>
              IF plan[q].hit THEN lock'[o.on] = q /\ vault'[o.on] = "active"
              ELSE vault'[o.on] = "deleted"
    BY <1>1, <1>2, <1>4, <1>5 DEF RowsHeld, SecretKind
  <2>3. /\ Acted(q) /\ o.kind = "createSecret" =>
              /\ lock'[o.on] = q /\ secret'[o.on] = "absent" /\ current'[o.on] = 0
              /\ plan[q].version = 1
        /\ Acted(q) /\ o.kind = "rotate" =>
              /\ lock'[o.on] = q /\ secret'[o.on] = "active"
              /\ plan[q].version = current'[o.on] + 1
        /\ Acted(q) /\ o.kind = "deleteSecret" => lock'[o.on] = q /\ secret'[o.on] = "active"
    BY <1>1, <1>2, <1>4 DEF RowsHeld, SecretKind
  <2>4. Acted(q) /\ o.kind = "reveal" => plan[q].version \in 1..current'[o.on]
    <3> SUFFICES ASSUME Acted(q), o.kind = "reveal" PROVE plan[q].version \in 1..current'[o.on]
      OBVIOUS
    <3>1. /\ plan[q].version \in 1..current[o.on]
          /\ current[o.on] \in Nat /\ current'[o.on] \in Nat /\ current[o.on] <= current'[o.on]
      BY <1>1, <1>2, <1>5 DEF RowsHeld, SecretKind, TypeOK, RowsMove
    <3> QED
      BY <3>1
  <2> QED
    BY <1>3, <2>1, <2>2, <2>3, <2>4 DEF RowsHeld
<1>7. LateIsStopped(q)'
  <2>1. DeadOnArrival(o) => DeadOnArrival(op[q])'
    BY <1>1, <1>5 DEF DeadOnArrival
  <2> QED
    BY <1>2, <1>5, <2>1 DEF LateIsStopped
<1> QED
  BY <1>6, <1>7

(* The event of a request, by the kind of its operation.                      *)
LEMMA EventOfDenial ==
  ASSUME NEW r \in denied
  PROVE  Event(r) = Entry(r, "access.denied", op[r].on, 0)
  BY DEF Event

(* The audit entry of each operation on secrets,                             *)
LEMMA EventOfSecret ==
  ASSUME NEW r, r \notin denied
  PROVE  /\ op[r].kind = "createSecret" => Event(r) = Entry(r, "secret.created", op[r].on, 1)
         /\ op[r].kind = "reveal" =>
               Event(r) = Entry(r, "secret.revealed", op[r].on, plan[r].version)
         /\ op[r].kind = "rotate" =>
               Event(r) = Entry(r, "secret.rotated", op[r].on, plan[r].version)
         /\ op[r].kind = "deleteSecret" => Event(r) = Entry(r, "secret.deleted", op[r].on, 0)
<1>1. op[r].kind \in SecretKind => Event(r) = SecretEvent(r)
  BY DEF Event, SecretKind
<1> QED
  BY <1>1 DEF SecretEvent, SecretKind

(* on vaults,                                                                *)
LEMMA EventOfVault ==
  ASSUME NEW r, r \notin denied
  PROVE  /\ op[r].kind = "createVault" => Event(r) = Entry(r, "vault.created", op[r].on, 0)
         /\ op[r].kind = "updateVault" => Event(r) = Entry(r, "vault.updated", op[r].on, 0)
         /\ op[r].kind = "deleteVault" => Event(r) = Entry(r, "vault.deleted", op[r].on, 0)
<1>1. op[r].kind \in {"createVault", "updateVault", "deleteVault"} => Event(r) = VaultEvent(r)
  BY DEF Event, SecretKind
<1> QED
  BY <1>1 DEF VaultEvent

(* and on grants and members.                                                *)
LEMMA EventOfGrant ==
  ASSUME NEW r, r \notin denied
  PROVE  /\ op[r].kind = "grant" =>
               Event(r) = Entry(r, IF plan[r].created THEN "grant.created" ELSE "grant.updated",
                                GrantRow(op[r]), rank[op[r].permission])
         /\ op[r].kind = "revokeGrant" => Event(r) = Entry(r, "grant.revoked", GrantRow(op[r]), 0)
         /\ op[r].kind = "removeMember" => Event(r) = Entry(r, "member.removed", op[r].whom, 0)
<1>1. op[r].kind \in {"grant", "revokeGrant"} => Event(r) = GrantEvent(r)
  BY DEF Event, SecretKind
<1>2. op[r].kind = "removeMember" => Event(r) = Entry(r, "member.removed", op[r].whom, 0)
  BY DEF Event, SecretKind
<1> QED
  BY <1>1, <1>2 DEF GrantEvent

(* The event of a request is an audit entry.                                  *)
LEMMA EventIsEntry ==
  ASSUME TypeOK, NEW r \in Request
  PROVE  Event(r) \in LogEntry
<1> DEFINE o == op[r]
<1>1. /\ o \in Menu /\ o.kind \in Kind /\ o.on \in Row /\ o.whom \in Row /\ o.actor \in User
      /\ o.permission \in VaultPermission
      /\ o.kind \notin SecretKind => GrantRow(o) \in Row
  BY OperationRows DEF TypeOK
<1>2. \A action \in AuditAction, target \in Row, detail \in Nat :
         Entry(r, action, target, detail) \in LogEntry
  BY <1>1 DEF Entry, LogEntry
<1>3. plan[r].version \in Nat /\ rank[o.permission] \in Nat
  BY <1>1 DEF TypeOK, rank, VaultPermission
<1>4. \E action \in AuditAction, target \in Row, detail \in Nat :
         Event(r) = Entry(r, action, target, detail)
  <2>1. CASE r \in denied
    BY <1>1, <2>1, EventOfDenial DEF AuditAction
  <2>2. CASE r \notin denied /\ o.kind \in SecretKind
    BY <1>1, <1>3, <2>2, EventOfSecret DEF SecretKind, AuditAction
  <2>3. CASE r \notin denied /\ o.kind \in {"createVault", "updateVault", "deleteVault"}
    BY <1>1, <2>3, EventOfVault DEF AuditAction
  <2>4. CASE r \notin denied /\ o.kind \in {"grant", "revokeGrant", "removeMember"}
    BY <1>1, <1>3, <2>4, EventOfGrant DEF SecretKind, AuditAction
  <2> QED
    BY <1>1, <2>1, <2>2, <2>3, <2>4 DEF Kind
<1> QED
  BY <1>2, <1>4

(* A commit that writes something.                                            *)
Publishes(r) ==
    /\ pc[r] = "commit" /\ ~StaleWrite(r)
    /\ IF r \in denied THEN UNCHANGED dataVars ELSE Effect(r)
    /\ log' = Append(log, Event(r))

(* A commit keeps the invariant of the rows.                                 *)
LEMMA PublishKeeps ==
  ASSUME TypeOK, RowsInv, NEW r \in Request, Publishes(r), Release(r),
         Answer(r, IF r \in denied THEN "403" ELSE "ok")
  PROVE  TypeOK' /\ RowsInv' /\ RowsMove(r)
<1>1. /\ pc' = [pc EXCEPT ![r] = IF r \in denied THEN "403" ELSE "ok"]
      /\ op' = [op EXCEPT ![r] = AnyOperation]
      /\ plan' = [plan EXCEPT ![r] = NoPlan] /\ denied' = denied \ {r} /\ doomed' = doomed
  BY DEF Answer, Goto
<1>2. /\ lock' \in [Row -> Request \cup {Nobody}]
      /\ \A q \in Request \ {r}, row \in Row : lock[row] = q => lock'[row] = q
  BY ReleaseKeeps
<1>3. /\ RowsMove(r) /\ SealedInPlace'
      /\ vault' \in [Vault -> {"absent", "active", "deleted"}]
      /\ secret' \in [Secret -> {"absent", "active", "deleted"}]
      /\ current' \in [Secret -> Nat]
      /\ role' \in [User -> OrgRole \cup {"none"}]
      /\ grant' \in [Vault \X User -> VaultPermission]
  <2>1. CASE r \in denied
    BY <2>1 DEF Publishes, dataVars, TypeOK, RowsInv, SealedInPlace, RowsMove
  <2>2. CASE r \notin denied
    BY <2>2, EffectMoves DEF Publishes
  <2> QED
    BY <2>1, <2>2
<1>4. TypeOK'
  <2>1. log' \in Seq(LogEntry)
    BY EventIsEntry DEF TypeOK, Publishes
  <2>2. \A s \in Secret : DOMAIN versions'[s] \subseteq Nat
    BY <1>3 DEF SealedInPlace
  <2>3. pc' \in [Request -> {"idle"} \cup Working \cup Status]
    BY <1>1 DEF TypeOK, Status
  <2>4. /\ op' \in [Request -> Menu] /\ denied' \subseteq Request /\ doomed' \subseteq Request
        /\ plan' \in [Request -> [version : Nat, created : BOOLEAN, hit : BOOLEAN]]
    BY <1>1, AnyOperationIsOne, NoPlanIsOne DEF TypeOK
  <2> QED
    BY <1>2, <1>3, <2>1, <2>2, <2>3, <2>4 DEF TypeOK
<1>5. RowsHeld(r)' /\ LateIsStopped(r)'
  <2>1. pc'[r] = IF r \in denied THEN "403" ELSE "ok"
    BY <1>1 DEF TypeOK
  <2>2. r \in doomed => r \in denied
    BY DEF RowsInv, LateIsStopped, Publishes, Working
  <2> QED
    BY <1>1, <2>1, <2>2 DEF RowsHeld, Acted, LateIsStopped, Working
<1>6. ASSUME NEW q \in Request \ {r} PROVE RowsHeld(q)' /\ LateIsStopped(q)'
  <2>1. /\ pc'[q] = pc[q] /\ op'[q] = op[q] /\ plan'[q] = plan[q]
        /\ (q \in denied') = (q \in denied)
    BY <1>1, <1>6 DEF TypeOK
  <2> QED
    BY <1>1, <1>2, <1>3, <2>1, MovesKeepOthers
<1> QED
  BY <1>3, <1>4, <1>5, <1>6 DEF RowsInv

(* A step either publishes the work of one request or changes no row.         *)
LEMMA StepKeeps ==
  ASSUME TypeOK, RowsInv, [Next]_vars
  PROVE  /\ TypeOK' /\ RowsInv'
         /\ \/ UNCHANGED <<dataVars, log>>
            \/ \E r \in Request : Publishes(r) /\ RowsMove(r)
<1>1. ASSUME NEW r \in Request, \E status \in Status \ {"ok"} : Fail(r, status)
      PROVE  TypeOK' /\ RowsInv' /\ UNCHANGED <<dataVars, log>>
  BY <1>1, FailKeeps
<1>2. ASSUME NEW r \in Request, Commit(r)
      PROVE  /\ TypeOK' /\ RowsInv'
             /\ \/ UNCHANGED <<dataVars, log>>
                \/ Publishes(r) /\ RowsMove(r)
  <2>1. CASE StaleWrite(r)
    BY <1>1, <1>2, <2>1 DEF Commit, Status
  <2>2. CASE ~StaleWrite(r)
    BY <1>2, <2>2, PublishKeeps DEF Commit, Publishes
  <2> QED
    BY <2>1, <2>2
<1>3. ASSUME NEW r \in Request, Abort(r) \/ DeadlockVictim(r)
      PROVE  TypeOK' /\ RowsInv' /\ UNCHANGED <<dataVars, log>>
  BY <1>1, <1>3 DEF Abort, DeadlockVictim, Status
<1>4. CASE UNCHANGED vars
  BY <1>4 DEF vars, dataVars, TypeOK, RowsInv, SealedInPlace, RowsHeld, Acted, LateIsStopped,
     DeadOnArrival
<1> QED
  BY <1>2, <1>3, <1>4, BeginKeeps, AuthorizeKeeps, StatementKeeps, LockHeadKeeps
     DEF Next, Proceed

(* The rows a tenant starts with satisfy the invariant.                      *)
LEMMA RowsInitially == Init => TypeOK /\ RowsInv
<1> SUFFICES ASSUME Init PROVE TypeOK /\ RowsInv
  OBVIOUS
<1>1. \A s \in Secret : VersionsBefore(s) \in Nat /\ (s \notin Existing => VersionsBefore(s) = 0)
  BY DEF VersionsBefore
<1>2. current \in [Secret -> Nat] /\ \A s \in Secret : current[s] = VersionsBefore(s)
  BY <1>1 DEF Init
<1>3. SealedInPlace
  <2>1. versions = [s \in Secret |-> [n \in 1..current[s] |-> secret_aad(s, n)]]
    BY <1>2 DEF Init
  <2>2. \A s \in Secret : secret[s] = "absent" => s \notin Existing
    BY DEF Init
  <2> QED
    BY <1>1, <1>2, <2>1, <2>2 DEF SealedInPlace
<1>4. pc = [r \in Request |-> "idle"] /\ doomed = {}
  BY DEF Init
<1>5. \A r \in Request : RowsHeld(r) /\ LateIsStopped(r)
  BY <1>4 DEF RowsHeld, Acted, LateIsStopped
<1>6. TypeOK
  <2>1. /\ vault \in [Vault -> {"absent", "active", "deleted"}]
        /\ secret \in [Secret -> {"absent", "active", "deleted"}]
    BY DEF Init
  <2>2. \A s \in Secret : DOMAIN versions[s] \subseteq Nat
    BY <1>3 DEF SealedInPlace
  <2>3. role \in [User -> OrgRole \cup {"none"}]
    BY TenantAssumption DEF Init
  <2>4. grant \in [Vault \X User -> VaultPermission]
    BY DEF Init, VaultPermission
  <2>5. /\ log \in Seq(LogEntry) /\ lock \in [Row -> Request \cup {Nobody}]
        /\ denied \subseteq Request /\ doomed \subseteq Request
        /\ pc \in [Request -> {"idle"} \cup Working \cup Status]
    BY DEF Init
  <2>6. /\ op \in [Request -> Menu]
        /\ plan \in [Request -> [version : Nat, created : BOOLEAN, hit : BOOLEAN]]
    BY AnyOperationIsOne, NoPlanIsOne DEF Init
  <2> QED
    BY <1>2, <2>1, <2>2, <2>3, <2>4, <2>5, <2>6 DEF TypeOK
<1> QED
  BY <1>3, <1>5, <1>6 DEF RowsInv

(* Every reachable state is of its type, and every row that a request has     *)
(* locked is still as its statement found it.                                 *)
THEOREM RowsInvariant == Spec => [](TypeOK /\ RowsInv)
<1>1. TypeOK /\ RowsInv /\ [Next]_vars => (TypeOK /\ RowsInv)'
  BY StepKeeps
<1> QED
  BY RowsInitially, <1>1, PTL DEF Spec

(* The version a rotation computed under FOR UPDATE is the next one until it  *)
(* commits, so uq_secret_version never has to refuse it.                      *)
THEOREM RotationsReadCurrent == Spec => []RotationReadIsCurrent
<1>1. RowsInv => RotationReadIsCurrent
  BY DEF RowsInv, RowsHeld, Acted, RotationReadIsCurrent
<1> QED
  BY <1>1, RowsInvariant, PTL

(* No request succeeds that arrived after its actor was removed or its vault  *)
(* or secret was deleted.                                                     *)
THEOREM LateRequestsFail == Spec => []NoLateSuccess
<1>1. TypeOK /\ RowsInv => NoLateSuccess
  BY DEF TypeOK, RowsInv, LateIsStopped, NoLateSuccess
<1> QED
  BY <1>1, RowsInvariant, PTL

(* What is deleted or removed stays so, version rows are never changed and    *)
(* the log only grows.                                                        *)
THEOREM HistoryKept == Spec => HistoryIsKept
<1>1. ASSUME TypeOK, RowsInv, [Next]_vars
      PROVE  PastIsKept
  <2>1. log \in Seq(LogEntry)
    BY <1>1 DEF TypeOK
  <2>2. CASE UNCHANGED <<dataVars, log>>
    <3>1. Len(log) <= Len(log) /\ SubSeq(log, 1, Len(log)) = log
      BY <2>1
    <3> QED
      BY <2>2, <3>1 DEF dataVars, PastIsKept
  <2>3. ASSUME NEW r \in Request, Publishes(r), RowsMove(r), SealedInPlace'
        PROVE  PastIsKept
    <3>1. Len(log) <= Len(log') /\ SubSeq(log', 1, Len(log)) = log
      BY <2>1, <2>3 DEF Publishes
    <3>2. \A s \in Secret : \A n \in DOMAIN versions[s] :
             n \in DOMAIN versions'[s] /\ versions'[s][n] = versions[s][n]
      <4> SUFFICES ASSUME NEW s \in Secret, NEW n \in DOMAIN versions[s]
                   PROVE  n \in DOMAIN versions'[s] /\ versions'[s][n] = versions[s][n]
        OBVIOUS
      <4>1. /\ versions[s] = [i \in 1..current[s] |-> secret_aad(s, i)]
            /\ versions'[s] = [i \in 1..current'[s] |-> secret_aad(s, i)]
        BY <1>1, <2>3 DEF RowsInv, SealedInPlace, secret_aad
      <4>2. current[s] \in Nat /\ current'[s] \in Nat /\ current[s] <= current'[s]
        BY <1>1, <2>3 DEF RowsMove, TypeOK
      <4>3. n \in 1..current[s] /\ n \in 1..current'[s]
        BY <4>1, <4>2
      <4> QED
        BY <4>1, <4>3
    <3> QED
      BY <2>3, <3>1, <3>2 DEF RowsMove, PastIsKept
  <2>4. \/ UNCHANGED <<dataVars, log>>
        \/ \E r \in Request : Publishes(r) /\ RowsMove(r) /\ SealedInPlace'
    BY <1>1, StepKeeps DEF RowsInv
  <2> QED
    BY <2>2, <2>3, <2>4
<1>2. TypeOK /\ RowsInv /\ [Next]_vars => [PastIsKept]_vars
  BY <1>1
<1> QED
  BY <1>2, RowsInvariant, PTL DEF HistoryIsKept, Spec

-------------------------------------------------------------------------------
(* What one more entry at the end of the log adds.                            *)
LEMMA EventsAfter ==
  ASSUME TypeOK, NEW e \in LogEntry, log' = Append(log, e)
  PROVE  /\ Len(log) \in Nat
         /\ DOMAIN log = 1..Len(log) /\ DOMAIN log' = 1..(Len(log) + 1)
         /\ \A i \in 1..Len(log) : log'[i] = log[i]
         /\ log'[Len(log) + 1] = e
         /\ \A a, t : /\ Events(a, t) \subseteq 1..Len(log)
                      /\ {i \in DOMAIN log' : log'[i].action = a /\ log'[i].target = t} =
                            IF e.action = a /\ e.target = t THEN Events(a, t) \cup {Len(log) + 1}
                            ELSE Events(a, t)
<1>1. /\ Len(log) \in Nat
      /\ DOMAIN log = 1..Len(log) /\ DOMAIN log' = 1..(Len(log) + 1)
      /\ \A i \in 1..Len(log) : log'[i] = log[i]
      /\ log'[Len(log) + 1] = e
  BY DEF TypeOK
<1>2. 1..(Len(log) + 1) = (1..Len(log)) \cup {Len(log) + 1}
  BY <1>1
<1>3. Len(log) + 1 \notin 1..Len(log)
  BY <1>1
<1> QED
  BY <1>1, <1>2, <1>3 DEF Events

(* The entries about something are finitely many.                             *)
LEMMA EventsAreFinite ==
  ASSUME TypeOK, NEW S, S \subseteq DOMAIN log
  PROVE  IsFiniteSet(S) /\ Cardinality(S) \in Nat
<1>1. DOMAIN log = 1..Len(log) /\ Len(log) \in Nat
  BY DEF TypeOK
<1>2. IsFiniteSet(1..Len(log))
  BY <1>1, FS_Interval
<1>3. IsFiniteSet(S)
  BY <1>1, <1>2, FS_Subset
<1> QED
  BY <1>3, FS_CardinalityType

(* A set in which all elements are equal has at most one.                     *)
LEMMA AtMostOne ==
  ASSUME NEW S, \A x, y \in S : x = y
  PROVE  Cardinality(S) <= 1
<1>1. CASE S = {}
  BY <1>1, FS_EmptySet
<1>2. CASE S # {}
  <2>1. PICK x : S = {x}
    BY <1>2
  <2> QED
    BY <2>1, FS_Singleton
<1> QED
  BY <1>1, <1>2

(* An entry that writes, deletes or reveals nothing of secret s, or reveals a *)
(* version there is, leaves its history true.                                 *)
LEMMA NothingWritten ==
  ASSUME TypeOK, RowsInv, RowsInv', NEW s \in Secret, SecretFollowsLog(s), EveryVersionLogged(s),
         NEW e \in LogEntry, log' = Append(log, e),
         secret'[s] = secret[s], current'[s] = current[s],
         e.target = s => e.action \notin {"secret.created", "secret.rotated", "secret.deleted"},
         e.target = s /\ e.action = "secret.revealed" => e.detail \in 1..current[s]
  PROVE  SecretFollowsLog(s)' /\ EveryVersionLogged(s)'
<1>1. /\ Len(log) \in Nat
      /\ \A i \in 1..Len(log) : log'[i] = log[i]
      /\ log'[Len(log) + 1] = e
      /\ \A a, t : Events(a, t) \subseteq 1..Len(log)
  BY EventsAfter
<1>2. Writes(s)' = Writes(s) /\ Events("secret.deleted", s)' = Events("secret.deleted", s)
  BY EventsAfter DEF Writes, Events
<1>3. Events("secret.revealed", s)' =
         IF e.target = s /\ e.action = "secret.revealed"
         THEN Events("secret.revealed", s) \cup {Len(log) + 1} ELSE Events("secret.revealed", s)
  BY EventsAfter DEF Events
<1>4. Writes(s) \subseteq 1..Len(log)
  BY <1>1 DEF Writes
<1>5. /\ DOMAIN versions'[s] = 1..current'[s]
      /\ \A n \in DOMAIN versions'[s] : Decrypts(s, n)'
  BY DEF RowsInv, SealedInPlace, Decrypts, secret_aad
<1>6. VersionsBefore(s)' = VersionsBefore(s)
  BY DEF VersionsBefore
<1>7. EveryVersionLogged(s)'
  BY <1>1, <1>2, <1>4, <1>6 DEF EveryVersionLogged
<1>8. \A i \in Writes(s)' :
         log'[i].detail = VersionsBefore(s)' + Cardinality({j \in Writes(s)' : j <= i})
  BY <1>1, <1>2, <1>4, <1>6 DEF SecretFollowsLog
<1>9. \A i \in Events("secret.revealed", s)' :
          \/ log'[i].detail <= VersionsBefore(s)'
          \/ \E j \in Writes(s)' : j < i /\ log'[j].detail = log'[i].detail
  <2>1. ASSUME NEW i \in Events("secret.revealed", s)
        PROVE  \/ log'[i].detail <= VersionsBefore(s)'
               \/ \E j \in Writes(s)' : j < i /\ log'[j].detail = log'[i].detail
    <3>1. log'[i] = log[i]
      BY <1>1
    <3> QED
      BY <1>1, <1>2, <1>4, <1>6, <3>1 DEF SecretFollowsLog
  <2>2. ASSUME e.target = s, e.action = "secret.revealed"
        PROVE  \/ e.detail <= VersionsBefore(s)
               \/ \E j \in Writes(s) : j < Len(log) + 1 /\ log'[j].detail = e.detail
    <3>1. VersionsBefore(s) \in Nat /\ current[s] \in Nat /\ e.detail \in Nat
      BY DEF VersionsBefore, TypeOK, LogEntry
    <3>2. CASE e.detail > VersionsBefore(s)
      <4>1. e.detail \in (VersionsBefore(s) + 1)..current[s]
        BY <2>2, <3>1, <3>2
      <4>2. PICK j \in Writes(s) : log[j].detail = e.detail
        BY <4>1 DEF EveryVersionLogged
      <4>3. j < Len(log) + 1 /\ log'[j] = log[j]
        BY <1>1, <1>4
      <4> QED
        BY <4>2, <4>3
    <3>3. e.detail <= VersionsBefore(s) \/ e.detail > VersionsBefore(s)
      BY <3>1
    <3> QED
      BY <3>2, <3>3
  <2>3. ASSUME e.target = s, e.action = "secret.revealed", NEW i, i = Len(log) + 1
        PROVE  \/ log'[i].detail <= VersionsBefore(s)'
               \/ \E j \in Writes(s)' : j < i /\ log'[j].detail = log'[i].detail
    BY <1>1, <1>2, <1>6, <2>2, <2>3
  <2> QED
    BY <1>3, <2>1, <2>3
<1>10. /\ current'[s] = VersionsBefore(s)' + Cardinality(Writes(s)')
       /\ secret'[s] = "absent" <=> s \notin Existing /\ Writes(s)' = {}
       /\ secret'[s] = "deleted" <=> Events("secret.deleted", s)' # {}
       /\ Cardinality(Events("secret.deleted", s)') <= 1
       /\ \A d \in Events("secret.deleted", s)', i \in Writes(s)' : i < d
  BY <1>2, <1>6 DEF SecretFollowsLog
<1> QED
  BY <1>5, <1>7, <1>8, <1>9, <1>10 DEF SecretFollowsLog

(* An entry that writes the next version of secret s.                         *)
LEMMA VersionWritten ==
  ASSUME TypeOK, TypeOK', RowsInv, RowsInv', NEW s \in Secret,
         SecretFollowsLog(s), EveryVersionLogged(s),
         NEW e \in LogEntry, log' = Append(log, e),
         secret[s] # "deleted", secret'[s] = "active", current'[s] = current[s] + 1,
         e.target = s, e.action \in {"secret.created", "secret.rotated"}, e.detail = current'[s]
  PROVE  SecretFollowsLog(s)' /\ EveryVersionLogged(s)'
<1> DEFINE new == Len(log) + 1
<1>1. /\ Len(log) \in Nat
      /\ \A i \in 1..Len(log) : log'[i] = log[i]
      /\ log'[new] = e
      /\ \A a, t : Events(a, t) \subseteq 1..Len(log)
  BY EventsAfter
<1>2. /\ Writes(s)' = Writes(s) \cup {new}
      /\ Events("secret.deleted", s)' = Events("secret.deleted", s)
      /\ Events("secret.revealed", s)' = Events("secret.revealed", s)
  BY EventsAfter DEF Writes, Events
<1>3. Writes(s) \subseteq 1..Len(log) /\ new \notin Writes(s)
  BY <1>1 DEF Writes
<1>4. Cardinality(Writes(s) \cup {new}) = Cardinality(Writes(s)) + 1
  <2>1. IsFiniteSet(Writes(s))
    BY EventsAreFinite DEF Writes, Events
  <2> QED
    BY <1>3, <2>1, FS_AddElement
<1>5. VersionsBefore(s)' = VersionsBefore(s) /\ VersionsBefore(s) \in Nat /\ current[s] \in Nat
      /\ Cardinality(Writes(s)) \in Nat
  BY EventsAreFinite DEF VersionsBefore, TypeOK, Writes, Events
<1>6. /\ DOMAIN versions'[s] = 1..current'[s]
      /\ \A n \in DOMAIN versions'[s] : Decrypts(s, n)'
  BY DEF RowsInv, SealedInPlace, Decrypts, secret_aad
<1>7. current[s] = VersionsBefore(s) + Cardinality(Writes(s)) /\ Events("secret.deleted", s) = {}
  BY DEF SecretFollowsLog
<1>8. current'[s] = VersionsBefore(s)' + Cardinality(Writes(s)')
  BY <1>2, <1>4, <1>5, <1>7
<1>9. \A i \in Writes(s)' :
         log'[i].detail = VersionsBefore(s)' + Cardinality({j \in Writes(s)' : j <= i})
  <2>1. ASSUME NEW i \in Writes(s)
        PROVE  log'[i].detail = VersionsBefore(s)' + Cardinality({j \in Writes(s)' : j <= i})
    <3>1. log'[i] = log[i]
      BY <1>1, <1>3
    <3>2. ~(new <= i)
      BY <1>1, <1>3
    <3>3. {j \in Writes(s)' : j <= i} = {j \in Writes(s) : j <= i}
      BY <1>2, <3>2
    <3> QED
      BY <1>5, <3>1, <3>3 DEF SecretFollowsLog
  <2>2. log'[new].detail = VersionsBefore(s)' + Cardinality({j \in Writes(s)' : j <= new})
    <3>1. \A j \in Writes(s)' : j <= new
      BY <1>1, <1>2, <1>3
    <3>2. {j \in Writes(s)' : j <= new} = Writes(s)'
      BY <3>1
    <3> QED
      BY <1>1, <1>8, <3>2
  <2> QED
    BY <1>2, <2>1, <2>2
<1>10. EveryVersionLogged(s)'
  <2> SUFFICES ASSUME NEW n \in (VersionsBefore(s) + 1)..(current[s] + 1)
               PROVE  \E i \in Writes(s) \cup {new} : log'[i].detail = n
    BY <1>2, <1>5 DEF EveryVersionLogged
  <2>1. CASE n = current[s] + 1
    BY <1>1, <2>1
  <2>2. CASE n # current[s] + 1
    <3>1. n \in (VersionsBefore(s) + 1)..current[s]
      BY <1>5, <2>2
    <3>2. PICK i \in Writes(s) : log[i].detail = n
      BY <3>1 DEF EveryVersionLogged
    <3> QED
      BY <1>1, <1>3, <3>2
  <2> QED
    BY <2>1, <2>2
<1>11. \A i \in Events("secret.revealed", s)' :
          \/ log'[i].detail <= VersionsBefore(s)'
          \/ \E j \in Writes(s)' : j < i /\ log'[j].detail = log'[i].detail
  <2>1. ASSUME NEW i \in Events("secret.revealed", s)
        PROVE  \/ log'[i].detail <= VersionsBefore(s)'
               \/ \E j \in Writes(s)' : j < i /\ log'[j].detail = log'[i].detail
    <3>1. log'[i] = log[i]
      BY <1>1
    <3> QED
      BY <1>1, <1>2, <1>3, <1>5, <3>1 DEF SecretFollowsLog
  <2> QED
    BY <1>2, <2>1
<1>12. /\ Cardinality(Events("secret.deleted", s)') <= 1
       /\ Events("secret.deleted", s)' = {} /\ Writes(s)' # {}
  <2>1. Events("secret.deleted", s)' = {} /\ Writes(s)' # {}
    BY <1>2, <1>7
  <2>2. \A x, y \in Events("secret.deleted", s)' : x = y
    BY <2>1
  <2> QED
    BY <2>1, <2>2, AtMostOne
<1> QED
  BY <1>6, <1>8, <1>9, <1>10, <1>11, <1>12 DEF SecretFollowsLog

(* The entry that deletes secret s.                                           *)
LEMMA SecretDeleted ==
  ASSUME TypeOK, RowsInv, RowsInv', NEW s \in Secret,
         SecretFollowsLog(s), EveryVersionLogged(s),
         NEW e \in LogEntry, log' = Append(log, e),
         secret[s] = "active", secret'[s] = "deleted", current'[s] = current[s],
         e.target = s, e.action = "secret.deleted"
  PROVE  SecretFollowsLog(s)' /\ EveryVersionLogged(s)'
<1> DEFINE new == Len(log) + 1
<1>1. /\ Len(log) \in Nat
      /\ \A i \in 1..Len(log) : log'[i] = log[i]
      /\ \A a, t : Events(a, t) \subseteq 1..Len(log)
  BY EventsAfter
<1>2. /\ Writes(s)' = Writes(s)
      /\ Events("secret.deleted", s)' = Events("secret.deleted", s) \cup {new}
      /\ Events("secret.revealed", s)' = Events("secret.revealed", s)
  BY EventsAfter DEF Writes, Events
<1>3. Writes(s) \subseteq 1..Len(log)
  BY <1>1 DEF Writes
<1>4. VersionsBefore(s)' = VersionsBefore(s)
  BY DEF VersionsBefore
<1>5. /\ DOMAIN versions'[s] = 1..current'[s]
      /\ \A n \in DOMAIN versions'[s] : Decrypts(s, n)'
  BY DEF RowsInv, SealedInPlace, Decrypts, secret_aad
<1>6. Events("secret.deleted", s)' = {new}
  BY <1>2 DEF SecretFollowsLog
<1>7. Cardinality(Events("secret.deleted", s)') <= 1
  <2>1. \A x, y \in Events("secret.deleted", s)' : x = y
    BY <1>6
  <2> QED
    BY <2>1, AtMostOne
<1>8. \A d \in Events("secret.deleted", s)', i \in Writes(s)' : i < d
  BY <1>1, <1>2, <1>3, <1>6
<1>9. EveryVersionLogged(s)'
  BY <1>1, <1>2, <1>3, <1>4 DEF EveryVersionLogged
<1>10. /\ current'[s] = VersionsBefore(s)' + Cardinality(Writes(s)')
       /\ \A i \in Writes(s)' :
             log'[i].detail = VersionsBefore(s)' + Cardinality({j \in Writes(s)' : j <= i})
       /\ ~(s \notin Existing /\ Writes(s)' = {})
  BY <1>1, <1>2, <1>3, <1>4 DEF SecretFollowsLog
<1>11. \A i \in Events("secret.revealed", s)' :
          \/ log'[i].detail <= VersionsBefore(s)'
          \/ \E j \in Writes(s)' : j < i /\ log'[j].detail = log'[i].detail
  <2>1. ASSUME NEW i \in Events("secret.revealed", s)
        PROVE  \/ log'[i].detail <= VersionsBefore(s)'
               \/ \E j \in Writes(s)' : j < i /\ log'[j].detail = log'[i].detail
    <3>1. log'[i] = log[i]
      BY <1>1
    <3> QED
      BY <1>1, <1>2, <1>3, <1>4, <3>1 DEF SecretFollowsLog
  <2> QED
    BY <1>2, <2>1
<1> QED
  BY <1>5, <1>6, <1>7, <1>8, <1>9, <1>10, <1>11 DEF SecretFollowsLog

(* A commit and its audit entry agree about every secret.                     *)
LEMMA SecretLogStep ==
  ASSUME TypeOK, TypeOK', RowsInv, RowsInv', NEW r \in Request, Publishes(r), NEW s \in Secret,
         SecretFollowsLog(s), EveryVersionLogged(s)
  PROVE  SecretFollowsLog(s)' /\ EveryVersionLogged(s)'
<1> DEFINE o == op[r]
           e == Event(r)
<1>1. e \in LogEntry /\ log' = Append(log, e)
  BY EventIsEntry DEF Publishes
<1>2. o \in Menu /\ o.kind \in Kind /\ (o.kind \in SecretKind => o.on \in Secret)
  BY OperationRows DEF TypeOK
<1>3. RowsHeld(r) /\ (r \notin denied => Acted(r) /\ Effect(r))
  BY DEF RowsInv, Acted, Publishes
<1>4. secret \in [Secret -> {"absent", "active", "deleted"}] /\ current \in [Secret -> Nat]
  BY DEF TypeOK
<1>5. CASE r \in denied
  <2>1. secret' = secret /\ current' = current
    BY <1>5 DEF Publishes, dataVars
  <2>2. e.action = "access.denied"
    BY <1>5, EventOfDenial DEF Entry
  <2> HIDE DEF e
  <2> QED
    BY <1>1, <2>1, <2>2, NothingWritten
<1>6. CASE r \notin denied /\ o.kind \in {"createSecret", "rotate"}
  <2>1. /\ e.action \in {"secret.created", "secret.rotated"} /\ e.target = o.on
        /\ e.detail = plan[r].version
    BY <1>3, <1>6, EventOfSecret DEF Entry, RowsHeld
  <2>2. current' = [current EXCEPT ![o.on] = plan[r].version]
    BY <1>3, <1>6 DEF Effect, SecretRows
  <2>3. secret' = IF o.kind = "createSecret" THEN [secret EXCEPT ![o.on] = "active"] ELSE secret
    BY <1>3, <1>6 DEF Effect, SecretRows
  <2>4. /\ plan[r].version = current[o.on] + 1 /\ secret[o.on] # "deleted"
        /\ o.kind = "rotate" => secret[o.on] = "active"
    BY <1>3, <1>6 DEF RowsHeld
  <2> HIDE DEF e
  <2>5. CASE o.on = s
    <3>1. secret'[s] = "active" /\ current'[s] = current[s] + 1 /\ e.detail = current'[s]
      BY <1>4, <1>6, <2>1, <2>2, <2>3, <2>4, <2>5
    <3> QED
      BY <1>1, <2>1, <2>4, <2>5, <3>1, VersionWritten
  <2>6. CASE o.on # s
    <3>1. secret'[s] = secret[s] /\ current'[s] = current[s]
      BY <1>4, <2>2, <2>3, <2>6
    <3> QED
      BY <1>1, <2>1, <2>6, <3>1, NothingWritten
  <2> QED
    BY <2>5, <2>6
<1>7. CASE r \notin denied /\ o.kind = "deleteSecret"
  <2>1. e.action = "secret.deleted" /\ e.target = o.on
    BY <1>7, EventOfSecret DEF Entry
  <2>2. current' = current /\ secret' = [secret EXCEPT ![o.on] = "deleted"]
    BY <1>3, <1>7 DEF Effect, SecretRows
  <2>3. secret[o.on] = "active"
    BY <1>3, <1>7 DEF RowsHeld
  <2> HIDE DEF e
  <2>4. CASE o.on = s
    <3>1. secret'[s] = "deleted" /\ current'[s] = current[s]
      BY <1>4, <2>2, <2>4
    <3> QED
      BY <1>1, <2>1, <2>3, <2>4, <3>1, SecretDeleted
  <2>5. CASE o.on # s
    <3>1. secret'[s] = secret[s] /\ current'[s] = current[s]
      BY <1>4, <2>2, <2>5
    <3> QED
      BY <1>1, <2>1, <2>5, <3>1, NothingWritten
  <2> QED
    BY <2>4, <2>5
<1>8. CASE r \notin denied /\ o.kind \notin {"createSecret", "rotate", "deleteSecret"}
  <2>1. secret' = secret /\ current' = current
    BY <1>3, <1>8 DEF Effect, SecretRows
  <2>2. CASE o.kind = "reveal"
    <3>1. /\ e.action = "secret.revealed" /\ e.target = o.on
          /\ e.detail \in 1..current[o.on]
      BY <1>3, <1>8, <2>2, EventOfSecret DEF Entry, RowsHeld
    <3> HIDE DEF e
    <3> QED
      BY <1>1, <2>1, <3>1, NothingWritten
  <2>3. CASE o.kind # "reveal"
    <3>1. e.action \notin {"secret.created", "secret.rotated", "secret.deleted", "secret.revealed"}
      <4>1. o.kind \in {"createVault", "updateVault", "deleteVault"} \/
            o.kind \in {"grant", "revokeGrant", "removeMember"}
        BY <1>2, <1>8, <2>3 DEF Kind, SecretKind
      <4> QED
        BY <1>8, <4>1, EventOfVault, EventOfGrant DEF Entry
    <3> HIDE DEF e
    <3> QED
      BY <1>1, <2>1, <3>1, NothingWritten
  <2> QED
    BY <2>2, <2>3
<1> QED
  BY <1>5, <1>6, <1>7, <1>8

(* The inductive form of SecretsFollowLog.                                   *)
SecretLogInv == \A s \in Secret : SecretFollowsLog(s) /\ EveryVersionLogged(s)

(* The audit log tells the history of every secret.                           *)
THEOREM SecretsAsLogged == Spec => []SecretsFollowLog
<1>1. Init => SecretLogInv
  <2> SUFFICES ASSUME Init, NEW s \in Secret PROVE SecretFollowsLog(s) /\ EveryVersionLogged(s)
    BY DEF SecretLogInv
  <2>1. TypeOK /\ RowsInv
    BY RowsInitially
  <2>2. \A a, t : Events(a, t) = {}
    BY DEF Init, Events
  <2>3. Writes(s) = {} /\ Events("secret.deleted", s) = {} /\ Events("secret.revealed", s) = {}
    BY <2>2 DEF Writes
  <2>4. current[s] = VersionsBefore(s) /\ VersionsBefore(s) \in Nat
    BY DEF Init, VersionsBefore
  <2>5. Cardinality(Writes(s)) = 0 /\ Cardinality(Events("secret.deleted", s)) = 0
    <3>1. Cardinality({}) = 0
      BY FS_EmptySet
    <3> QED
      BY <2>3, <3>1, Zenon
  <2>6. /\ DOMAIN versions[s] = 1..current[s]
        /\ \A n \in DOMAIN versions[s] : Decrypts(s, n)
    BY <2>1 DEF RowsInv, SealedInPlace, Decrypts
  <2>7. secret[s] = IF s \in Existing THEN "active" ELSE "absent"
    BY DEF Init
  <2>8. EveryVersionLogged(s)
    BY <2>4 DEF EveryVersionLogged
  <2> QED
    BY <2>3, <2>4, <2>5, <2>6, <2>7, <2>8 DEF SecretFollowsLog
<1>2. TypeOK /\ RowsInv /\ SecretLogInv /\ [Next]_vars => SecretLogInv'
  <2> SUFFICES ASSUME TypeOK, RowsInv, SecretLogInv, [Next]_vars PROVE SecretLogInv'
    OBVIOUS
  <2>1. TypeOK' /\ RowsInv' /\ (UNCHANGED <<dataVars, log>> \/ \E r \in Request : Publishes(r))
    BY StepKeeps
  <2>2. CASE UNCHANGED <<dataVars, log>>
    <3>1. /\ secret' = secret /\ current' = current /\ versions' = versions /\ log' = log
      BY <2>2 DEF dataVars
    <3>2. ASSUME NEW s \in Secret
          PROVE  SecretFollowsLog(s)' /\ EveryVersionLogged(s)'
      <4>1. /\ Writes(s)' = Writes(s) /\ VersionsBefore(s)' = VersionsBefore(s)
            /\ Events("secret.deleted", s)' = Events("secret.deleted", s)
            /\ Events("secret.revealed", s)' = Events("secret.revealed", s)
        BY <3>1 DEF Writes, Events, VersionsBefore
      <4>2. SecretFollowsLog(s) /\ EveryVersionLogged(s)
        BY DEF SecretLogInv
      <4>3. EveryVersionLogged(s)'
        BY <3>1, <4>1, <4>2 DEF EveryVersionLogged
      <4>4. SecretFollowsLog(s)'
        BY <3>1, <4>1, <4>2 DEF SecretFollowsLog, Decrypts, secret_aad
      <4> QED
        BY <4>3, <4>4
    <3> QED
      BY <3>2 DEF SecretLogInv
  <2>3. CASE \E r \in Request : Publishes(r)
    <3>1. PICK r \in Request : Publishes(r)
      BY <2>3
    <3>2. ASSUME NEW s \in Secret PROVE SecretFollowsLog(s)' /\ EveryVersionLogged(s)'
      BY <2>1, <3>1, SecretLogStep DEF SecretLogInv
    <3> QED
      BY <3>2 DEF SecretLogInv
  <2> QED
    BY <2>1, <2>2, <2>3
<1>3. SecretLogInv => SecretsFollowLog
  BY DEF SecretLogInv, SecretsFollowLog
<1> QED
  BY <1>1, <1>2, <1>3, RowsInvariant, PTL DEF Spec

-------------------------------------------------------------------------------
(* The last of a set of positions, if it has one.                             *)
LEMMA LastIs ==
  ASSUME NEW es, es \subseteq Nat, NEW m \in es, \A j \in es : j <= m
  PROVE  Last(es) = m
<1>1. Last(es) \in es /\ \A j \in es : j <= Last(es)
  BY DEF Last
<1>2. Last(es) \in Nat /\ m \in Nat /\ m <= Last(es) /\ Last(es) <= m
  BY <1>1
<1> HIDE DEF Last
<1> QED
  BY <1>2

(* The last of some entries is one of them.                                  *)
LEMMA LastIsOne ==
  ASSUME NEW es, HasLast(es), es # {}
  PROVE  Last(es) \in es
  BY DEF Last, HasLast

(* What one more entry adds to those about a grant.                           *)
LEMMA EntriesAfter ==
  ASSUME TypeOK, NEW e \in LogEntry, log' = Append(log, e), NEW v \in Vault, NEW u \in User
  PROVE  /\ GrantEntries(v, u) \subseteq 1..Len(log)
         /\ GrantEntries(v, u)' = IF BearsOn(e, v, u) THEN GrantEntries(v, u) \cup {Len(log) + 1}
                                  ELSE GrantEntries(v, u)
         /\ \A i \in 1..Len(log) : EntriesBefore(v, u, i)' = EntriesBefore(v, u, i)
         /\ \A i : i = Len(log) + 1 => EntriesBefore(v, u, i)' = GrantEntries(v, u)
<1>1. /\ Len(log) \in Nat
      /\ DOMAIN log = 1..Len(log) /\ DOMAIN log' = 1..(Len(log) + 1)
      /\ \A i \in 1..Len(log) : log'[i] = log[i]
      /\ log'[Len(log) + 1] = e
  BY EventsAfter
<1>2. 1..(Len(log) + 1) = (1..Len(log)) \cup {Len(log) + 1}
  BY <1>1
<1>3. GrantEntries(v, u) \subseteq 1..Len(log)
  BY <1>1 DEF GrantEntries
<1>4. GrantEntries(v, u)' = {i \in 1..(Len(log) + 1) : BearsOn(log'[i], v, u)}
  BY <1>1 DEF GrantEntries, BearsOn
<1>5. GrantEntries(v, u)' = IF BearsOn(e, v, u) THEN GrantEntries(v, u) \cup {Len(log) + 1}
                            ELSE GrantEntries(v, u)
  BY <1>1, <1>2, <1>4 DEF GrantEntries
<1>6. \A i \in 1..Len(log) : ~(Len(log) + 1 < i)
  BY <1>1
<1>7. \A i \in 1..Len(log) : EntriesBefore(v, u, i)' = EntriesBefore(v, u, i)
  BY <1>5, <1>6 DEF EntriesBefore
<1>8. ASSUME NEW i, i = Len(log) + 1 PROVE EntriesBefore(v, u, i)' = GrantEntries(v, u)
  <2>1. ~(i < i) /\ \A j \in GrantEntries(v, u) : j < i
    BY <1>1, <1>3, <1>8
  <2> QED
    BY <1>5, <1>8, <2>1 DEF EntriesBefore
<1> QED
  BY <1>3, <1>5, <1>7, <1>8

(* A commit changes a grant exactly as the entry it appends says.             *)
LEMMA GrantMoves ==
  ASSUME TypeOK, RowsInv, NEW r \in Request, Publishes(r), NEW v \in Vault, NEW u \in User
  PROVE  IF BearsOn(Event(r), v, u) THEN rank[grant'[<<v, u>>]] = GrantAfter(Event(r))
         ELSE grant'[<<v, u>>] = grant[<<v, u>>]
<1> DEFINE o == op[r]
           e == Event(r)
<1>1. /\ o \in Menu /\ o.kind \in Kind /\ o.actor \in User /\ o.whom \in User
      /\ o.kind \notin SecretKind => o.on \in Vault
  BY OperationRows DEF TypeOK
<1>2. grant \in [Vault \X User -> VaultPermission] /\ <<v, u>> \in Vault \X User
  BY DEF TypeOK
<1>3. r \notin denied => Effect(r)
  BY DEF Publishes
<1>4. rank["admin"] = 3 /\ rank["none"] = 0
  BY DEF rank
<1>5. CASE r \in denied
  <2>1. grant' = grant
    BY <1>5 DEF Publishes, dataVars
  <2>2. ~BearsOn(e, v, u)
    BY <1>5, EventOfDenial DEF Entry, BearsOn
  <2> QED
    BY <2>1, <2>2
<1>6. CASE r \notin denied /\ o.kind = "createVault"
  <2>1. o.on \in Vault /\ GrantRow(o) = <<o.on, o.actor>>
    BY <1>1, <1>6 DEF GrantRow, SecretKind
  <2>2. grant' = [grant EXCEPT ![GrantRow(o)] = "admin"]
    BY <1>3, <1>6 DEF Effect, GrantRows
  <2>3. e.action = "vault.created" /\ e.target = o.on /\ e.actor = o.actor
    BY <1>6, EventOfVault DEF Entry
  <2> HIDE DEF e
  <2>4. BearsOn(e, v, u) <=> v = o.on /\ u = o.actor
    BY <2>3 DEF BearsOn
  <2>5. GrantAfter(e) = rank["admin"]
    BY <2>3 DEF GrantAfter
  <2>6. CASE v = o.on /\ u = o.actor
    <3>1. grant'[<<v, u>>] = "admin"
      BY <1>2, <2>1, <2>2, <2>6
    <3> QED
      BY <2>4, <2>5, <2>6, <3>1 DEF e
  <2>7. CASE ~(v = o.on /\ u = o.actor)
    <3>1. grant'[<<v, u>>] = grant[<<v, u>>]
      BY <1>2, <2>1, <2>2, <2>7
    <3> QED
      BY <2>4, <2>7, <3>1 DEF e
  <2> QED
    BY <2>6, <2>7
<1>7. CASE r \notin denied /\ o.kind \in {"grant", "revokeGrant"}
  <2> DEFINE p == IF o.kind = "grant" THEN o.permission ELSE "none"
  <2>1. o.on \in Vault /\ GrantRow(o) = <<o.on, o.whom>>
    BY <1>1, <1>7 DEF GrantRow, SecretKind
  <2>2. grant' = [grant EXCEPT ![GrantRow(o)] = p]
    BY <1>3, <1>7 DEF Effect, GrantRows
  <2>3. /\ e.action \in {"grant.created", "grant.updated", "grant.revoked"}
        /\ e.target = GrantRow(o)
        /\ IF o.kind = "grant" THEN e.action # "grant.revoked" /\ e.detail = rank[o.permission]
           ELSE e.action = "grant.revoked"
    BY <1>7, EventOfGrant DEF Entry
  <2> HIDE DEF e
  <2>4. BearsOn(e, v, u) <=> v = o.on /\ u = o.whom
    BY <2>1, <2>3 DEF BearsOn
  <2>5. GrantAfter(e) = rank[p]
    BY <2>3 DEF GrantAfter
  <2> HIDE DEF p
  <2>6. CASE v = o.on /\ u = o.whom
    <3>1. grant'[<<v, u>>] = p
      BY <1>2, <2>1, <2>2, <2>6
    <3> QED
      BY <2>4, <2>5, <2>6, <3>1 DEF e
  <2>7. CASE ~(v = o.on /\ u = o.whom)
    <3>1. grant'[<<v, u>>] = grant[<<v, u>>]
      BY <1>2, <2>1, <2>2, <2>7
    <3> QED
      BY <2>4, <2>7, <3>1 DEF e
  <2> QED
    BY <2>6, <2>7
<1>8. CASE r \notin denied /\ o.kind = "removeMember"
  <2>1. grant' = [g \in Vault \X User |-> IF g[2] = o.whom THEN "none" ELSE grant[g]]
    BY <1>3, <1>8 DEF Effect, GrantRows
  <2>2. e.action = "member.removed" /\ e.target = o.whom
    BY <1>8, EventOfGrant DEF Entry
  <2> HIDE DEF e
  <2>3. BearsOn(e, v, u) <=> u = o.whom
    BY <2>2 DEF BearsOn
  <2>4. GrantAfter(e) = rank["none"]
    BY <2>2 DEF GrantAfter
  <2>5. grant'[<<v, u>>] = IF u = o.whom THEN "none" ELSE grant[<<v, u>>]
    BY <1>2, <2>1
  <2> QED
    BY <2>3, <2>4, <2>5 DEF e
<1>9. CASE /\ r \notin denied
           /\ o.kind \notin {"createVault", "grant", "revokeGrant", "removeMember"}
  <2>1. grant' = grant
    BY <1>3, <1>9 DEF Effect, GrantRows
  <2>2. ~BearsOn(e, v, u)
    <3>1. e.action \notin {"grant.created", "grant.updated", "grant.revoked", "member.removed",
                           "vault.created"}
      BY <1>1, <1>9, EventOfVault, EventOfSecret DEF Entry, Kind, SecretKind
    <3> HIDE DEF e
    <3> QED
      BY <3>1 DEF BearsOn
  <2> QED
    BY <2>1, <2>2
<1> QED
  BY <1>5, <1>6, <1>7, <1>8, <1>9

(* A commit and its entry agree about a grant,                               *)
LEMMA GrantLogStep ==
  ASSUME TypeOK, RowsInv, NEW r \in Request, Publishes(r), NEW v \in Vault, NEW u \in User,
         HasLast(GrantEntries(v, u)), GrantFollowsLog(v, u)
  PROVE  HasLast(GrantEntries(v, u))' /\ GrantFollowsLog(v, u)'
<1> DEFINE e == Event(r)
           es == GrantEntries(v, u)
           new == Len(log) + 1
<1>1. e \in LogEntry /\ log' = Append(log, e)
  BY EventIsEntry DEF Publishes
<1>2. IF BearsOn(e, v, u) THEN rank[grant'[<<v, u>>]] = GrantAfter(e)
      ELSE grant'[<<v, u>>] = grant[<<v, u>>]
  BY GrantMoves
<1> HIDE DEF e
<1>3. /\ es \subseteq 1..Len(log)
      /\ GrantEntries(v, u)' = IF BearsOn(e, v, u) THEN es \cup {new} ELSE es
  BY <1>1, EntriesAfter
<1>4. /\ Len(log) \in Nat /\ log'[new] = e
      /\ \A i \in 1..Len(log) : log'[i] = log[i]
  BY <1>1, EventsAfter
<1> HIDE DEF es
<1>5. CASE BearsOn(e, v, u)
  <2>1. es \cup {new} \subseteq Nat /\ \A j \in es \cup {new} : j <= new
    <3>1. new \in Nat /\ new <= new /\ \A j \in 1..Len(log) : j \in Nat /\ j <= new
      BY <1>4
    <3> HIDE DEF new
    <3> QED
      BY <1>3, <3>1
  <2>2. Last(es \cup {new}) = new
    <3> HIDE DEF new
    <3> QED
      BY <2>1, LastIs
  <2>3. HasLast(GrantEntries(v, u))'
    BY <1>3, <1>5, <2>1 DEF HasLast
  <2>4. GrantTold(GrantEntries(v, u))' = GrantAfter(e)
    <3>1. GrantEntries(v, u)' = es \cup {new}
      BY <1>3, <1>5
    <3>2. Last(GrantEntries(v, u)') = new
      BY <2>2, <3>1, Zenon
    <3>3. GrantEntries(v, u)' # {}
      BY <3>1
    <3>4. GrantTold(GrantEntries(v, u))' = GrantAfter(log'[Last(GrantEntries(v, u)')])
      BY <3>3 DEF GrantTold, GrantAfter, Last
    <3> QED
      BY <1>4, <3>2, <3>4
  <2> QED
    BY <1>2, <1>5, <2>3, <2>4 DEF GrantFollowsLog, rank
<1>6. CASE ~BearsOn(e, v, u)
  <2>1. GrantEntries(v, u)' = es
    BY <1>3, <1>6
  <2>2. HasLast(GrantEntries(v, u))'
    BY <2>1 DEF HasLast, es
  <2>3. GrantTold(GrantEntries(v, u))' = GrantTold(es)
    <3>1. CASE es = {}
      BY <2>1, <3>1 DEF GrantTold, rank
    <3>2. CASE es # {}
      <4>1. Last(es) \in es
        BY <3>2, LastIsOne DEF es
      <4>2. log'[Last(es)] = log[Last(es)]
        BY <1>3, <1>4, <4>1
      <4>3. Last(GrantEntries(v, u)') = Last(es)
        BY <2>1, Zenon
      <4>4. GrantTold(GrantEntries(v, u))' = GrantAfter(log'[Last(GrantEntries(v, u)')])
        BY <2>1, <3>2 DEF GrantTold, GrantAfter, Last
      <4>5. GrantTold(es) = GrantAfter(log[Last(es)])
        BY <3>2 DEF GrantTold
      <4> QED
        BY <4>2, <4>3, <4>4, <4>5, Zenon
    <3> QED
      BY <3>1, <3>2
  <2> QED
    BY <1>2, <1>6, <2>2, <2>3 DEF GrantFollowsLog, rank, es
<1> QED
  BY <1>5, <1>6

(* Roles and vaults change as the entries say.                                *)
LEMMA RoleLogStep ==
  ASSUME TypeOK, RowsInv, NEW r \in Request, Publishes(r), NEW u \in User, RoleFollowsLog(u)
  PROVE  RoleFollowsLog(u)'
<1> DEFINE o == op[r]
           e == Event(r)
           removals == Events("member.removed", u)
<1>1. e \in LogEntry /\ log' = Append(log, e)
  BY EventIsEntry DEF Publishes
<1>2. o \in Menu /\ o.kind \in Kind /\ o.whom \in User
  BY OperationRows DEF TypeOK
<1>3. RowsHeld(r) /\ (r \notin denied => Acted(r) /\ Effect(r))
  BY DEF RowsInv, Acted, Publishes
<1>4. CASE r \notin denied /\ o.kind = "removeMember" /\ o.whom = u
  <2>1. role' = [role EXCEPT ![u] = "none"] /\ role[u] # "none"
    BY <1>3, <1>4 DEF Effect, MemberRows, RowsHeld
  <2>2. role'[u] = "none"
    BY <2>1 DEF TypeOK
  <2>3. removals = {}
    BY <2>1 DEF RoleFollowsLog
  <2>4. e.action = "member.removed" /\ e.target = u
    BY <1>4, EventOfGrant DEF Entry
  <2> HIDE DEF e
  <2>5. Events("member.removed", u)' = {Len(log) + 1}
    BY <1>1, <2>3, <2>4, EventsAfter DEF Events
  <2>6. Cardinality(Events("member.removed", u)') <= 1
    <3>1. \A x, y \in Events("member.removed", u)' : x = y
      BY <2>5
    <3> QED
      BY <3>1, AtMostOne
  <2> QED
    BY <2>2, <2>5, <2>6 DEF RoleFollowsLog
<1>5. CASE ~(r \notin denied /\ o.kind = "removeMember" /\ o.whom = u)
  <2>1. role'[u] = role[u]
    <3>1. CASE r \in denied
      BY <3>1 DEF Publishes, dataVars
    <3>2. CASE r \notin denied
      BY <1>2, <1>3, <1>5, <3>2 DEF Effect, MemberRows, TypeOK
    <3> QED
      BY <3>1, <3>2
  <2>2. ~(e.action = "member.removed" /\ e.target = u)
    <3>1. CASE r \in denied
      BY <3>1, EventOfDenial DEF Entry
    <3>2. CASE r \notin denied /\ o.kind \in {"grant", "revokeGrant", "removeMember"}
      BY <1>5, <3>2, EventOfGrant DEF Entry
    <3>3. CASE r \notin denied /\ o.kind \notin {"grant", "revokeGrant", "removeMember"}
      BY <1>2, <3>3, EventOfVault, EventOfSecret DEF Entry, Kind, SecretKind
    <3> QED
      BY <3>1, <3>2, <3>3
  <2> HIDE DEF e
  <2>3. Events("member.removed", u)' = removals
    BY <1>1, <2>2, EventsAfter DEF Events
  <2> QED
    BY <2>1, <2>3 DEF RoleFollowsLog
<1> QED
  BY <1>4, <1>5

(* about a vault,                                                            *)
LEMMA VaultLogStep ==
  ASSUME TypeOK, RowsInv, NEW r \in Request, Publishes(r), NEW v \in Vault, VaultFollowsLog(v)
  PROVE  VaultFollowsLog(v)'
<1> DEFINE o == op[r]
           e == Event(r)
<1>1. e \in LogEntry /\ log' = Append(log, e)
  BY EventIsEntry DEF Publishes
<1>2. o \in Menu /\ o.kind \in Kind
  BY OperationRows DEF TypeOK
<1>3. RowsHeld(r) /\ (r \notin denied => Acted(r) /\ Effect(r))
  BY DEF RowsInv, Acted, Publishes
<1>4. vault \in [Vault -> {"absent", "active", "deleted"}]
  BY DEF TypeOK
<1>5. CASE r \notin denied /\ o.kind = "createVault" /\ o.on = v
  <2>1. vault' = [vault EXCEPT ![v] = "active"] /\ vault[v] = "absent"
    BY <1>3, <1>5 DEF Effect, VaultRows, RowsHeld
  <2>2. vault'[v] = "active"
    BY <1>4, <2>1
  <2>3. e.action = "vault.created" /\ e.target = v
    BY <1>5, EventOfVault DEF Entry
  <2> HIDE DEF e
  <2>4. /\ Events("vault.created", v)' = Events("vault.created", v) \cup {Len(log) + 1}
        /\ Events("vault.deleted", v)' = Events("vault.deleted", v)
    BY <1>1, <2>3, EventsAfter DEF Events
  <2>5. Events("vault.created", v)' # {} /\ Events("vault.deleted", v)' = {}
    BY <2>1, <2>4 DEF VaultFollowsLog
  <2> QED
    BY <2>2, <2>5 DEF VaultFollowsLog
<1>6. CASE r \notin denied /\ o.kind = "deleteVault" /\ o.on = v
  <2>1. vault'[v] = "deleted" /\ vault[v] # "absent"
    BY <1>3, <1>4, <1>6 DEF Effect, VaultRows, RowsHeld
  <2>2. e.action = "vault.deleted" /\ e.target = v
    BY <1>6, EventOfVault DEF Entry
  <2> HIDE DEF e
  <2>3. /\ Events("vault.created", v)' = Events("vault.created", v)
        /\ Events("vault.deleted", v)' = Events("vault.deleted", v) \cup {Len(log) + 1}
    BY <1>1, <2>2, EventsAfter DEF Events
  <2>4. Events("vault.deleted", v)' # {}
    BY <2>3
  <2> QED
    BY <2>1, <2>3, <2>4 DEF VaultFollowsLog
<1>7. CASE ~(r \notin denied /\ o.kind \in {"createVault", "deleteVault"} /\ o.on = v)
  <2>1. vault'[v] = vault[v]
    <3>1. CASE r \in denied
      BY <3>1 DEF Publishes, dataVars
    <3>2. CASE r \notin denied
      BY <1>3, <1>4, <1>7, <3>2 DEF Effect, VaultRows
    <3> QED
      BY <3>1, <3>2
  <2>2. ~(e.action \in {"vault.created", "vault.deleted"} /\ e.target = v)
    <3>1. CASE r \in denied
      BY <3>1, EventOfDenial DEF Entry
    <3>2. CASE r \notin denied /\ o.kind \in {"createVault", "updateVault", "deleteVault"}
      BY <1>7, <3>2, EventOfVault DEF Entry
    <3>3. CASE r \notin denied /\ o.kind \notin {"createVault", "updateVault", "deleteVault"}
      BY <1>2, <3>3, EventOfGrant, EventOfSecret DEF Entry, Kind, SecretKind
    <3> QED
      BY <3>1, <3>2, <3>3
  <2> HIDE DEF e
  <2>3. /\ Events("vault.created", v)' = Events("vault.created", v)
        /\ Events("vault.deleted", v)' = Events("vault.deleted", v)
    BY <1>1, <2>2, EventsAfter DEF Events
  <2> QED
    BY <2>1, <2>3 DEF VaultFollowsLog
<1> QED
  BY <1>5, <1>6, <1>7

(* An upsert that commits says rightly whether the grant was there.           *)
LEMMA UpsertIsTrue ==
  ASSUME TypeOK, NEW r \in Request, Publishes(r), NEW v \in Vault, NEW u \in User,
         Event(r).target = <<v, u>>
  PROVE  /\ Event(r).action = "grant.created" => rank[grant[<<v, u>>]] = rank["none"]
         /\ Event(r).action = "grant.updated" => rank[grant[<<v, u>>]] # rank["none"]
<1> DEFINE o == op[r]
<1>1. o \in Menu /\ o.kind \in Kind /\ grant[<<v, u>>] \in VaultPermission
  BY OperationRows DEF TypeOK
<1>2. \A p \in VaultPermission : rank[p] = rank["none"] <=> p = "none"
  BY DEF rank, VaultPermission
<1>3. CASE r \notin denied /\ o.kind = "grant"
  <2>1. /\ Event(r).action = IF plan[r].created THEN "grant.created" ELSE "grant.updated"
        /\ Event(r).target = GrantRow(o)
    <3>1. Event(r) = Entry(r, IF plan[r].created THEN "grant.created" ELSE "grant.updated",
                           GrantRow(o), rank[o.permission])
      BY <1>3, EventOfGrant
    <3> QED
      BY <3>1 DEF Entry
  <2>2. ~StaleGrant(r)
    BY <1>3 DEF Publishes, StaleWrite
  <2>3. IF plan[r].created THEN grant[<<v, u>>] = "none" ELSE grant[<<v, u>>] # "none"
    BY <1>3, <2>1, <2>2 DEF StaleGrant
  <2> QED
    BY <1>1, <1>2, <2>1, <2>3
<1>4. CASE ~(r \notin denied /\ o.kind = "grant")
  <2>1. Event(r).action \notin {"grant.created", "grant.updated"}
    <3>1. CASE r \in denied
      BY <3>1, EventOfDenial DEF Entry
    <3>2. CASE r \notin denied /\ o.kind \in {"revokeGrant", "removeMember"}
      BY <3>2, EventOfGrant DEF Entry
    <3>3. CASE r \notin denied /\ o.kind \notin {"grant", "revokeGrant", "removeMember"}
      BY <1>1, <3>3, EventOfVault, EventOfSecret DEF Entry, Kind, SecretKind
    <3> QED
      BY <1>4, <3>1, <3>2, <3>3
  <2> QED
    BY <2>1
<1> QED
  BY <1>3, <1>4

(* and about whether an upsert created its grant or found one.               *)
LEMMA UpsertLogStep ==
  ASSUME TypeOK, RowsInv, NEW r \in Request, Publishes(r), NEW v \in Vault, NEW u \in User,
         HasLast(GrantEntries(v, u)), GrantFollowsLog(v, u),
         \A i \in DOMAIN log : HasLast(EntriesBefore(v, u, i)) /\ UpsertTold(v, u, i)
  PROVE  \A i \in DOMAIN log' : HasLast(EntriesBefore(v, u, i))' /\ UpsertTold(v, u, i)'
<1> DEFINE e == Event(r)
           g == <<v, u>>
<1>1. e \in LogEntry /\ log' = Append(log, e)
  BY EventIsEntry DEF Publishes
<1>2. /\ e.target = g /\ e.action = "grant.created" => rank[grant[g]] = rank["none"]
      /\ e.target = g /\ e.action = "grant.updated" => rank[grant[g]] # rank["none"]
  BY UpsertIsTrue
<1> HIDE DEF e, g
<1>3. /\ Len(log) \in Nat /\ DOMAIN log = 1..Len(log) /\ DOMAIN log' = 1..(Len(log) + 1)
      /\ \A i \in 1..Len(log) : log'[i] = log[i]
      /\ \A a, t : Events(a, t) \subseteq 1..Len(log)
  BY <1>1, EventsAfter
<1>4. \A a \in {"grant.created", "grant.updated"} :
         Events(a, g)' = IF e.action = a /\ e.target = g THEN Events(a, g) \cup {Len(log) + 1}
                         ELSE Events(a, g)
  <2> SUFFICES ASSUME NEW a \in {"grant.created", "grant.updated"}
               PROVE  Events(a, g)' = IF e.action = a /\ e.target = g
                                      THEN Events(a, g) \cup {Len(log) + 1} ELSE Events(a, g)
    OBVIOUS
  <2> QED
    BY <1>1, EventsAfter DEF Events, g
<1>5. GrantEntries(v, u) \subseteq 1..Len(log)
  BY <1>1, EntriesAfter
<1>6. ASSUME NEW i \in DOMAIN log', NEW es, es \subseteq 1..Len(log), HasLast(es),
             EntriesBefore(v, u, i)' = es
      PROVE  HasLast(EntriesBefore(v, u, i))' /\ GrantTold(EntriesBefore(v, u, i))' = GrantTold(es)
  <2>1. HasLast(EntriesBefore(v, u, i))'
    BY <1>6 DEF HasLast
  <2>2. CASE es = {}
    BY <1>6, <2>1, <2>2 DEF GrantTold, rank
  <2>3. CASE es # {}
    <3>1. Last(es) \in es
      BY <1>6, <2>3, LastIsOne
    <3>2. log'[Last(es)] = log[Last(es)]
      BY <1>3, <1>6, <3>1
    <3>3. Last(EntriesBefore(v, u, i)') = Last(es)
      BY <1>6, Zenon
    <3>4. GrantTold(EntriesBefore(v, u, i))' = GrantAfter(log'[Last(EntriesBefore(v, u, i)')])
      BY <1>6, <2>3 DEF GrantTold, GrantAfter, Last
    <3>5. GrantTold(es) = GrantAfter(log[Last(es)])
      BY <2>3 DEF GrantTold
    <3> QED
      BY <2>1, <3>2, <3>3, <3>4, <3>5, Zenon
  <2> QED
    BY <2>2, <2>3
<1>7. ASSUME NEW i \in 1..Len(log)
      PROVE  HasLast(EntriesBefore(v, u, i))' /\ UpsertTold(v, u, i)'
  <2>1. i \in DOMAIN log' /\ i \in DOMAIN log /\ i # Len(log) + 1
    BY <1>3
  <2>2. EntriesBefore(v, u, i)' = EntriesBefore(v, u, i)
    BY <1>1, EntriesAfter
  <2>3. EntriesBefore(v, u, i) \subseteq 1..Len(log)
    BY <1>5 DEF EntriesBefore
  <2>4. /\ HasLast(EntriesBefore(v, u, i))'
        /\ GrantTold(EntriesBefore(v, u, i))' = GrantTold(EntriesBefore(v, u, i))
    BY <1>6, <2>1, <2>2, <2>3
  <2>5. \A a \in {"grant.created", "grant.updated"} : i \in Events(a, g)' => i \in Events(a, g)
    BY <1>4, <2>1
  <2> QED
    BY <2>1, <2>4, <2>5 DEF UpsertTold, rank, g
<1>8. ASSUME NEW i, i = Len(log) + 1
      PROVE  HasLast(EntriesBefore(v, u, i))' /\ UpsertTold(v, u, i)'
  <2>1. i \in DOMAIN log' /\ i \notin 1..Len(log)
    BY <1>3, <1>8
  <2>2. EntriesBefore(v, u, i)' = GrantEntries(v, u)
    BY <1>1, <1>8, EntriesAfter
  <2>3. /\ HasLast(EntriesBefore(v, u, i))'
        /\ GrantTold(EntriesBefore(v, u, i))' = GrantTold(GrantEntries(v, u))
    BY <1>5, <1>6, <2>1, <2>2
  <2>4. GrantTold(GrantEntries(v, u)) = rank[grant[g]]
    BY DEF GrantFollowsLog, g
  <2>5. \A a \in {"grant.created", "grant.updated"} :
           i \in Events(a, g)' => e.action = a /\ e.target = g
    BY <1>3, <1>4, <2>1
  <2> QED
    BY <1>2, <2>3, <2>4, <2>5 DEF UpsertTold, rank, g
<1>9. \A i \in DOMAIN log' : i \in 1..Len(log) \/ i = Len(log) + 1
  BY <1>3
<1> QED
  BY <1>7, <1>8, <1>9

(* The inductive form of AccessFollowsLog and UpsertToldTruly.               *)
AccessLogInv == LastExists /\ AccessFollowsLog /\ UpsertToldTruly

(* A commit and its audit entry agree about grants, members and vaults.       *)
LEMMA AccessLogStep ==
  ASSUME TypeOK, RowsInv, AccessLogInv, NEW r \in Request, Publishes(r)
  PROVE  AccessLogInv'
<1>1. ASSUME NEW v \in Vault, NEW u \in User
      PROVE  /\ HasLast(GrantEntries(v, u))' /\ GrantFollowsLog(v, u)'
             /\ \A i \in DOMAIN log' : HasLast(EntriesBefore(v, u, i))' /\ UpsertTold(v, u, i)'
  <2>1. /\ HasLast(GrantEntries(v, u)) /\ GrantFollowsLog(v, u)
        /\ \A i \in DOMAIN log : HasLast(EntriesBefore(v, u, i)) /\ UpsertTold(v, u, i)
    BY DEF AccessLogInv, LastExists, AccessFollowsLog, UpsertToldTruly
  <2> QED
    BY <2>1, GrantLogStep, UpsertLogStep
<1>2. \A u \in User : RoleFollowsLog(u)'
  BY RoleLogStep DEF AccessLogInv, AccessFollowsLog
<1>3. \A v \in Vault : VaultFollowsLog(v)'
  BY VaultLogStep DEF AccessLogInv, AccessFollowsLog
<1>4. LastExists'
  BY <1>1 DEF LastExists
<1>5. AccessFollowsLog'
  BY <1>1, <1>2, <1>3 DEF AccessFollowsLog
<1>6. UpsertToldTruly'
  BY <1>1 DEF UpsertToldTruly
<1> QED
  BY <1>4, <1>5, <1>6 DEF AccessLogInv

(* The audit log tells who may do what, and every upsert truly.               *)
THEOREM AccessLogInvariant == Spec => []AccessLogInv
<1>1. Init => AccessLogInv
  <2> SUFFICES ASSUME Init PROVE AccessLogInv
    OBVIOUS
  <2>1. DOMAIN log = {}
    BY DEF Init
  <2>2. \A a, t : Events(a, t) = {}
    BY <2>1 DEF Events
  <2>3. \A v \in Vault, u \in User : GrantEntries(v, u) = {}
    BY <2>1 DEF GrantEntries
  <2>4. LastExists
    BY <2>1, <2>3 DEF LastExists, HasLast
  <2>5. \A v \in Vault, u \in User : GrantFollowsLog(v, u)
    <3> SUFFICES ASSUME NEW v \in Vault, NEW u \in User PROVE GrantFollowsLog(v, u)
      OBVIOUS
    <3>1. grant[<<v, u>>] = "none"
      BY DEF Init
    <3>2. GrantTold(GrantEntries(v, u)) = rank["none"]
      BY <2>3 DEF GrantTold
    <3> QED
      BY <3>1, <3>2 DEF GrantFollowsLog
  <2>6. \A u \in User : RoleFollowsLog(u)
    <3> SUFFICES ASSUME NEW u \in User PROVE RoleFollowsLog(u)
      OBVIOUS
    <3>1. Events("member.removed", u) = {}
      BY <2>2
    <3>2. Cardinality(Events("member.removed", u)) <= 1
      BY <3>1, AtMostOne
    <3> QED
      BY <3>1, <3>2 DEF RoleFollowsLog, Init
  <2>7. \A v \in Vault : VaultFollowsLog(v)
    BY <2>2 DEF VaultFollowsLog, Init
  <2> QED
    BY <2>1, <2>4, <2>5, <2>6, <2>7 DEF AccessLogInv, AccessFollowsLog, UpsertToldTruly
<1>2. TypeOK /\ RowsInv /\ AccessLogInv /\ [Next]_vars => AccessLogInv'
  <2> SUFFICES ASSUME TypeOK, RowsInv, AccessLogInv, [Next]_vars PROVE AccessLogInv'
    OBVIOUS
  <2>1. CASE UNCHANGED <<dataVars, log>>
    <3>1. log' = log /\ grant' = grant /\ role' = role /\ vault' = vault
      BY <2>1 DEF dataVars
    <3>2. ASSUME NEW v \in Vault, NEW u \in User
          PROVE  HasLast(GrantEntries(v, u))' /\ GrantFollowsLog(v, u)'
      <4>1. HasLast(GrantEntries(v, u)) /\ GrantFollowsLog(v, u)
        BY DEF AccessLogInv, LastExists, AccessFollowsLog
      <4>2. GrantEntries(v, u)' = GrantEntries(v, u)
        BY <3>1 DEF GrantEntries, BearsOn
      <4>3. HasLast(GrantEntries(v, u))'
        BY <4>1, <4>2 DEF HasLast
      <4>4. GrantTold(GrantEntries(v, u))' = GrantTold(GrantEntries(v, u))
        <5>1. CASE GrantEntries(v, u) = {}
          BY <4>2, <5>1 DEF GrantTold, rank
        <5>2. CASE GrantEntries(v, u) # {}
          <6>1. Last(GrantEntries(v, u)') = Last(GrantEntries(v, u))
            BY <4>2, Zenon
          <6>2. GrantTold(GrantEntries(v, u))' = GrantAfter(log'[Last(GrantEntries(v, u)')])
            BY <4>2, <5>2 DEF GrantTold, GrantAfter, Last
          <6>3. GrantTold(GrantEntries(v, u)) = GrantAfter(log[Last(GrantEntries(v, u))])
            BY <5>2 DEF GrantTold
          <6> QED
            BY <3>1, <6>1, <6>2, <6>3, Zenon
        <5> QED
          BY <5>1, <5>2
      <4> QED
        BY <3>1, <4>1, <4>3, <4>4 DEF GrantFollowsLog, rank
    <3>3. ASSUME NEW v \in Vault, NEW u \in User, NEW i \in DOMAIN log
          PROVE  HasLast(EntriesBefore(v, u, i))' /\ UpsertTold(v, u, i)'
      <4>1. HasLast(EntriesBefore(v, u, i)) /\ UpsertTold(v, u, i)
        BY DEF AccessLogInv, LastExists, UpsertToldTruly
      <4> QED
        BY <3>1, <4>1 DEF HasLast, UpsertTold, EntriesBefore, GrantTold, GrantAfter, Last,
           GrantEntries, BearsOn, Events, rank
    <3>4. \A u \in User : RoleFollowsLog(u)'
      BY <3>1 DEF AccessLogInv, AccessFollowsLog, RoleFollowsLog, Events
    <3>5. \A v \in Vault : VaultFollowsLog(v)'
      BY <3>1 DEF AccessLogInv, AccessFollowsLog, VaultFollowsLog, Events
    <3>6. LastExists'
      BY <3>1, <3>2, <3>3 DEF LastExists
    <3>7. AccessFollowsLog'
      BY <3>2, <3>4, <3>5 DEF AccessFollowsLog
    <3>8. UpsertToldTruly'
      BY <3>1, <3>3 DEF UpsertToldTruly
    <3> QED
      BY <3>6, <3>7, <3>8 DEF AccessLogInv
  <2> QED
    BY <2>1, StepKeeps, AccessLogStep
<1> QED
  BY <1>1, <1>2, RowsInvariant, PTL DEF Spec

(* The last entry about a grant gives its permission, a member is gone when   *)
(* the removal is logged, a vault from its deletion.                          *)
THEOREM AccessAsLogged == Spec => []AccessFollowsLog
<1>1. AccessLogInv => AccessFollowsLog
  BY DEF AccessLogInv
<1> QED
  BY <1>1, AccessLogInvariant, PTL

(* An upsert that says "created" created the grant, one that says "updated"   *)
(* found it.                                                                  *)
THEOREM UpsertsToldTruly == Spec => []UpsertToldTruly
<1>1. AccessLogInv => UpsertToldTruly
  BY DEF AccessLogInv
<1> QED
  BY <1>1, AccessLogInvariant, PTL

--------------------------------------------------------------------------------
(* The two tables of the policy, one for the organization and one for vaults, *)
(* together allow each role what the README's matrix gives it.                *)
LEMMA AllowedAsDocumented ==
  ASSUME NEW org_role \in OrgRole \cup {"none"}, NEW permission \in VaultPermission
  PROVE  Allowed(org_role, permission) = {a \in OrgAction \cup VaultAction : org_role \in Documented[a]}
<1>1. \A a \in OrgAction : require_org(org_role, a) = "allow" <=> org_role \in Documented[a]
  BY DEF Documented, OrgRole, OrgAction, VaultAction, require_org, org_allows
<1>2. \A a \in VaultAction :
        require_vault(TRUE, org_role, permission, a) = "allow" <=> org_role \in Documented[a]
  BY DEF Documented, OrgRole, OrgAction, VaultAction, require_vault, member_allows,
         viewer_allows, forbidden_vault_action
<1> QED  BY <1>1, <1>2 DEF Allowed

(* The code decides as the README's matrix and the advertised capabilities     *)
(* say, for every role, grant, vault state and action.                             *)
THEOREM PolicyIsDocumented == PolicyAsDocumented
<1>1. MatrixHolds
  <2> SUFFICES ASSUME NEW org_role \in OrgRole \cup {"none"}, NEW permission \in VaultPermission
               PROVE  /\ \A a \in VaultAction :
                           require_vault(FALSE, org_role, permission, a) = "not_found"
                      /\ list_accessible_vault_ids(org_role) = "unrestricted"
                           <=> org_role \in Documented["vault.list"]
    BY AllowedAsDocumented DEF MatrixHolds
  <2>1. \A a \in VaultAction : require_vault(FALSE, org_role, permission, a) = "not_found"
    BY DEF require_vault
  <2>2. list_accessible_vault_ids(org_role) = "unrestricted" <=> org_role \in Documented["vault.list"]
    BY DEF list_accessible_vault_ids, Documented, OrgRole, OrgAction, VaultAction
  <2> QED  BY <2>1, <2>2
<1>2. CapabilitiesHold
  <2> SUFFICES ASSUME NEW org_role \in OrgRole, NEW permission \in VaultPermission
               PROVE  LET caps == org_capabilities_for_role(org_role)
                          may == Allowed(org_role, permission)
                      IN  /\ caps.can_create_vaults <=> "vault.create" \in may
                          /\ caps.can_write_secrets <=> "secret.write" \in may
                          /\ caps.can_manage_members <=> "member.remove" \in may
                          /\ caps.can_read_audit <=> "audit.read" \in may
    BY DEF CapabilitiesHold
  <2> DEFINE may == Allowed(org_role, permission)
  <2>1. /\ "vault.create" \in may <=> org_role \in {"owner", "admin"}
        /\ "secret.write" \in may <=> org_role \in {"owner", "admin", "member"}
        /\ "member.remove" \in may <=> org_role \in {"owner", "admin"}
        /\ "audit.read" \in may <=> org_role \in {"owner", "admin"}
    <3>1. may = {a \in OrgAction \cup VaultAction : org_role \in Documented[a]}
      BY AllowedAsDocumented
    <3>2. /\ {"vault.create", "secret.write", "member.remove", "audit.read"}
               \subseteq OrgAction \cup VaultAction
          /\ Documented["vault.create"] = {"owner", "admin"}
          /\ Documented["secret.write"] = {"owner", "admin", "member"}
          /\ Documented["member.remove"] = {"owner", "admin"}
          /\ Documented["audit.read"] = {"owner", "admin"}
      BY DEF Documented, OrgAction, VaultAction
    <3> HIDE DEF may
    <3> QED  BY <3>1, <3>2
  <2>2. /\ org_allows(org_role, "vault.create") <=> org_role \in {"owner", "admin"}
        /\ org_allows(org_role, "secret.write") <=> org_role \in {"owner", "admin", "member"}
        /\ org_allows(org_role, "member.remove") <=> org_role \in {"owner", "admin"}
        /\ org_allows(org_role, "audit.read") <=> org_role \in {"owner", "admin"}
    BY DEF org_allows
  <2> QED  BY <2>1, <2>2, Zenon DEF org_capabilities_for_role
<1> QED  BY <1>1, <1>2 DEF PolicyAsDocumented
===============================================================================

------------------------ MODULE TenantConnectionsProofs ------------------------
(***************************************************************************)
(* Proofs about TenantConnections, for any requests, tenants and pools.      *)
(***************************************************************************)
EXTENDS TenantConnections, TLAPS

(* The pools belong to the two kinds of unit, and NoPlan is a set of rows.    *)
LEMMA PoolByUnit ==
  ASSUME NEW r \in Request, unit[r] \in 1 .. 3, unit[r] = 3 => req[r].kind = "denied"
  PROVE  PoolOf(r) = IF unit[r] = 1 THEN IdentityConn ELSE AppConn
BY DEF PoolOf, Units

(* Nothing planned is a plan.                                                *)
LEMMA NoPlanType == NoPlan \in Rows
BY DEF NoPlan, Rows

(* The plan of a unit of work that only registers a tenant.                  *)
LEMMA PlannedTenants ==
  ASSUME NEW S
  PROVE  [NoPlan EXCEPT !.tenants = S] = [tenants |-> S, keys |-> {}, sealed |-> {}]
BY DEF NoPlan

(* Whichever way a unit of work ends, its request is queued for the next one  *)
(* or answered, and has nothing written any more.                             *)
UnitEnds(r) ==
    /\ phase' \in [Request -> {"idle", "queued"} \cup Open \cup Answer]
    /\ unit' \in [Request -> 1 .. 3]
    /\ attempt' \in [Request -> {1, 2}]
    /\ plan' \in [Request -> Rows]
    /\ phase'[r] \in {"queued"} \cup Answer
    /\ plan'[r] = NoPlan
    /\ unit'[r] = 3 => req[r].kind = "denied"
    /\ \A q \in Request \ {r} : /\ phase'[q] = phase[q] /\ unit'[q] = unit[q]
                                /\ plan'[q] = plan[q]

(* An answered request has ended its unit of work.                           *)
LEMMA FinishEnds ==
  ASSUME TypeOK, UnitsInOrder, NEW r \in Request, NEW a \in Answer, Finish(r, a)
  PROVE  UnitEnds(r) /\ phase'[r] = a
BY NoPlanType DEF TypeOK, UnitsInOrder, Finish, UnitEnds

(* So has one that goes on to its next unit of work,                         *)
LEMMA NextUnitEnds ==
  ASSUME TypeOK, UnitsInOrder, NEW r \in Request, NextUnit(r),
         unit[r] = 1 \/ (unit[r] = 2 /\ req[r].kind = "denied")
  PROVE  UnitEnds(r) /\ phase'[r] = "queued"
BY NoPlanType DEF TypeOK, UnitsInOrder, NextUnit, UnitEnds

(* and one whose exception RegisterUser catches or lets through.             *)
LEMMA RaiseEnds ==
  ASSUME TypeOK, UnitsInOrder, NEW r \in Request, Raise(r)
  PROVE  UnitEnds(r) /\ phase'[r] \in {"queued", "500"}
<1>1. CASE Finish(r, "500")
  BY <1>1, FinishEnds DEF Answer
<1>2. CASE /\ attempt' = [attempt EXCEPT ![r] = 2]
           /\ phase' = [phase EXCEPT ![r] = "queued"]
           /\ plan' = [plan EXCEPT ![r] = NoPlan]
           /\ UNCHANGED unit
  BY <1>2, NoPlanType DEF TypeOK, UnitsInOrder, UnitEnds
<1> QED
  BY <1>1, <1>2 DEF Raise

(* What a unit of work may do with its connection at its end: give it back,   *)
(* have it replaced, or, if set_config failed, keep it.                       *)
LetsGo(c) ==
    /\ holder' \in [Conn -> Request \cup {Nobody, Leaked}]
    /\ local' \in [Conn -> Tenant \cup {NoTenant}]
    /\ session' \in [Conn -> Tenant \cup {NoTenant}]
    /\ \A d \in Conn \ {c} : /\ holder'[d] = holder[d] /\ local'[d] = local[d]
                             /\ session'[d] = session[d]
    /\ session'[c] \in {session[c], NoTenant}
    /\ holder'[c] \in {Nobody, Leaked}
    /\ holder'[c] = Nobody => local'[c] = NoTenant

(* A connection that is returned or replaced has no holder and no setting.   *)
LEMMA ConnectionLetGo ==
  ASSUME TypeOK, NEW c \in Conn, Return(c) \/ Replace(c, Nobody)
  PROVE  LetsGo(c)
BY DEF TypeOK, Return, Replace, LetsGo

(* A unit of work of r on connection c that ends without committing.          *)
Unfinished(r, c) ==
    \/ Refuse(r, c) \/ NoActiveKey(r, c) \/ Forbid(r, c) \/ Conflict(r, c)
    \/ Fail(r, c) \/ EnterFails(r, c)

(* A unit of work that fails leaves the rows alone and lets its connection   *)
(* go.                                                                       *)
LEMMA UnfinishedEnds ==
  ASSUME TypeOK, UnitsInOrder, NEW r \in Request, NEW c \in Conn, Unfinished(r, c)
  PROVE  /\ holder[c] = r
         /\ UnitEnds(r) /\ phase'[r] # "201"
         /\ LetsGo(c)
         /\ UNCHANGED <<req, tables, seen>>
<1>1. CASE Refuse(r, c)
  <2>1. UnitEnds(r) /\ phase'[r] = "4xx"
    BY <1>1, FinishEnds DEF Refuse, Answer
  <2> QED
    BY <1>1, <2>1, ConnectionLetGo DEF Refuse, Holds
<1>2. CASE NoActiveKey(r, c)
  <2>1. UnitEnds(r) /\ phase'[r] = "500"
    BY <1>2, FinishEnds DEF NoActiveKey, Answer
  <2> QED
    BY <1>2, <2>1, ConnectionLetGo DEF NoActiveKey, Holds
<1>3. CASE Forbid(r, c)
  <2>1. UnitEnds(r) /\ phase'[r] = "queued"
    BY <1>3, NextUnitEnds DEF Forbid
  <2> QED
    BY <1>3, <2>1, ConnectionLetGo DEF Forbid, Holds
<1>4. CASE Conflict(r, c)
  <2>1. UnitEnds(r) /\ phase'[r] \in {"queued", "500"}
    BY <1>4, RaiseEnds DEF Conflict
  <2> QED
    BY <1>4, <2>1, ConnectionLetGo DEF Conflict, Holds
<1>5. CASE Fail(r, c)
  <2>1. UnitEnds(r) /\ phase'[r] \in {"queued", "500"}
    BY <1>5, RaiseEnds DEF Fail
  <2> QED
    BY <1>5, <2>1, ConnectionLetGo DEF Fail, Holds
<1>6. CASE EnterFails(r, c)
  <2>1. UnitEnds(r) /\ phase'[r] \in {"queued", "500"}
    BY <1>6, RaiseEnds DEF EnterFails
  <2>2. LetsGo(c)
    BY <1>6, ConnectionAssumption DEF EnterFails, LetsGo, TypeOK
  <2> QED
    BY <1>6, <2>1, <2>2 DEF EnterFails, Holds
<1> QED
  BY <1>1, <1>2, <1>3, <1>4, <1>5, <1>6 DEF Unfinished

(* A unit of work that commits, with or without an answer.                    *)
LEMMA CommitEnds ==
  ASSUME TypeOK, UnitsInOrder, NEW r \in Request, NEW c \in Conn, Commit(r, c)
  PROVE  /\ holder[c] = r /\ phase[r] = "worked"
         /\ UnitEnds(r) /\ LetsGo(c)
         /\ UNCHANGED <<req, seen, doubt>>
         /\ phase'[r] = "201" /\ req[r].kind = "register" => unit[r] = 2
         /\ Admissible(r, c) /\ Publish(plan[r])
<1>1. unit[r] \in 1 .. 3 /\ req[r].kind \in Kind \cup {"none"}
  BY DEF TypeOK
<1>2. CASE unit[r] < Len(Units(r))
  <2>1. NextUnit(r)
    BY <1>2 DEF Commit
  <2>2. unit[r] = 1 \/ (unit[r] = 2 /\ req[r].kind = "denied")
    BY <1>1, <1>2 DEF Units
  <2>3. UnitEnds(r) /\ phase'[r] = "queued"
    BY <2>1, <2>2, NextUnitEnds
  <2> QED
    BY <2>3, ConnectionLetGo DEF Commit, Holds
<1>3. CASE ~(unit[r] < Len(Units(r)))
  <2>1. Finish(r, Success(r)) /\ Success(r) \in Answer
    BY <1>3 DEF Commit, Success, Answer
  <2>2. UnitEnds(r)
    BY <2>1, FinishEnds
  <2>3. req[r].kind = "register" => unit[r] = 2
    BY <1>1, <1>3 DEF Units, UnitsInOrder
  <2> QED
    BY <2>2, <2>3, ConnectionLetGo DEF Commit, Holds
<1> QED
  BY <1>2, <1>3

(* A commit without an answer lets the connection go and leaves the rows in  *)
(* doubt.                                                                    *)
LEMMA UnansweredEnds ==
  ASSUME TypeOK, UnitsInOrder, NEW r \in Request, NEW c \in Conn, CommitUnanswered(r, c)
  PROVE  /\ holder[c] = r /\ phase[r] = "worked"
         /\ UnitEnds(r) /\ phase'[r] # "201"
         /\ LetsGo(c)
         /\ UNCHANGED <<req, seen, tenants, keys, sealed>>
         /\ Admissible(r, c)
         /\ doubt' = (doubt \cup {plan[r]}) \ {NoPlan}
<1>1. UnitEnds(r) /\ phase'[r] \in {"queued", "500"}
  BY RaiseEnds DEF CommitUnanswered
<1> QED
  BY <1>1, ConnectionLetGo DEF CommitUnanswered, Holds

(* What provisioning plans: at most a key, and then or before there is one.   *)
ProvisionKeeps(r, p) ==
    /\ p.sealed = {} /\ p.tenants = {}
    /\ \A j, k \in p.keys : j = k
    /\ \E k \in keys \cup p.keys : k.tenant = req[r].tenant

(* What the statements of a unit write.                                       *)
LEMMA WorkWrites ==
  ASSUME TypeOK, UnitsInOrder, NEW r \in Request, NEW c \in Conn, Work(r, c)
  PROVE  /\ holder[c] = r /\ phase[r] = "scoped" /\ c \in PoolOf(r)
         /\ phase' = [phase EXCEPT ![r] = "worked"]
         /\ plan' \in [Request -> Rows]
         /\ \A q \in Request \ {r} : plan'[q] = plan[q] /\ seen'[q] = seen[q]
         /\ plan'[r].tenants # {} => /\ req[r].kind = "register"
                                     /\ plan'[r].tenants = {req[r].tenant}
         /\ plan'[r].sealed \subseteq keys
         /\ \A j, k \in plan'[r].keys : j = k
         /\ seen' \in [Request -> SUBSET Tenant]
         /\ \A x \in seen'[r] : x \in seen[r] \/ (c \in AppConn /\ x = Setting(c))
         /\ req[r].kind = "register" /\ unit[r] = 2 =>
               \E k \in keys \cup plan'[r].keys : k.tenant = req[r].tenant
         /\ UNCHANGED <<req, unit, attempt, holder, local, session, tables>>
<1> USE DEF TypeOK
<1>1. /\ holder[c] = r /\ phase[r] = "scoped" /\ c \in PoolOf(r)
      /\ phase' = [phase EXCEPT ![r] = "worked"]
      /\ UNCHANGED <<req, unit, attempt, holder, local, session, tables>>
  BY DEF Work, Holds
<1>2. req[r].tenant \in Tenant \cup {NoTenant} /\ unit[r] \in 1 .. 3
  OBVIOUS
<1>3. CASE unit[r] = 1
  <2>1. plan' = [plan EXCEPT ![r].tenants = IF req[r].kind = "register" THEN {req[r].tenant} ELSE {}]
        /\ UNCHANGED seen
    BY <1>3 DEF Work
  <2>2. plan[r] = NoPlan /\ req[r].tenant \in Tenant
    BY <1>1 DEF UnitsInOrder
  <2> DEFINE mine == IF req[r].kind = "register" THEN {req[r].tenant} ELSE {}
  <2>3. plan' = [plan EXCEPT ![r] = [NoPlan EXCEPT !.tenants = mine]]
    BY <2>1, <2>2
  <2>4. mine \subseteq Tenant /\ (mine # {} => req[r].kind = "register" /\ mine = {req[r].tenant})
    BY <2>2
  <2> HIDE DEF mine
  <2>5. [NoPlan EXCEPT !.tenants = mine] = [tenants |-> mine, keys |-> {}, sealed |-> {}]
    BY PlannedTenants
  <2>6. [tenants |-> mine, keys |-> {}, sealed |-> {}] \in Rows
    BY <2>4 DEF Rows
  <2>7. /\ plan'[r] = [tenants |-> mine, keys |-> {}, sealed |-> {}]
        /\ plan' \in [Request -> Rows] /\ \A q \in Request \ {r} : plan'[q] = plan[q]
    BY <2>3, <2>5, <2>6
  <2>8. plan'[r].tenants = mine /\ plan'[r].keys = {} /\ plan'[r].sealed = {}
    BY <2>7
  <2> QED
    BY <1>1, <1>3, <2>1, <2>4, <2>7, <2>8
<1>4. CASE unit[r] # 1
  <2>1. /\ plan' = [plan EXCEPT ![r] = CASE req[r].kind = "register" -> Provision(r, c)
                                         [] req[r].kind = "seal" -> Seal(r, c)
                                         [] OTHER -> NoPlan]
        /\ seen' = [seen EXCEPT ![r] = @ \cup
                     {row.tenant : row \in IF req[r].kind = "probe"
                                              THEN Visible(c, {[tenant |-> req[r].target]})
                                              ELSE Visible(c, keys)}]
    BY <1>4 DEF Work
  <2>2. plan'[r] \in {Provision(r, c), Seal(r, c), NoPlan}
    BY <2>1
  <2>3. req[r].kind = "register" => plan'[r] = Provision(r, c)
    BY <2>1
  <2>4. Visible(c, keys) \subseteq keys /\ \A row \in Visible(c, keys) : row.tenant = Setting(c)
    BY DEF Visible
  <2>5. /\ Seal(r, c).sealed \subseteq keys /\ Seal(r, c).keys = {} /\ Seal(r, c).tenants = {}
        /\ Seal(r, c) \in Rows
    BY <2>4 DEF Seal, NoPlan, Rows
  <2>6. Provision(r, c) \in Rows /\ ProvisionKeeps(r, Provision(r, c))
    <3> DEFINE row == [tenant |-> req[r].tenant, dek |-> <<r, attempt[r]>>]
    <3>1. req[r].tenant \in Tenant /\ row \in KeyRow /\ row.tenant = req[r].tenant
      BY <1>1 DEF UnitsInOrder, KeyRow
    <3>2. CASE \E k \in Visible(c, keys) : k.tenant = req[r].tenant
      <4>1. Provision(r, c) = NoPlan
        BY <3>2 DEF Provision
      <4>2. \E k \in keys : k.tenant = req[r].tenant
        BY <3>2, <2>4
      <4> QED
        BY <4>1, <4>2, NoPlanType DEF ProvisionKeeps, NoPlan
    <3>3. CASE ~\E k \in Visible(c, keys) : k.tenant = req[r].tenant
      <4>1. Provision(r, c) = [NoPlan EXCEPT !.keys = {row}]
        BY <3>3 DEF Provision
      <4> HIDE DEF row
      <4>2. Provision(r, c) = [tenants |-> {}, keys |-> {row}, sealed |-> {}]
        BY <4>1 DEF NoPlan
      <4> QED
        BY <3>1, <4>2 DEF ProvisionKeeps, Rows
    <3> QED
      BY <3>2, <3>3
  <2>8. seen' \in [Request -> SUBSET Tenant] /\ \A x \in seen'[r] : x \in seen[r] \/ x = Setting(c)
    <3> DEFINE shown == {row.tenant : row \in IF req[r].kind = "probe"
                                                THEN Visible(c, {[tenant |-> req[r].target]})
                                                ELSE Visible(c, keys)}
    <3>1. req[r].kind = "probe" => req[r].target \in Tenant
      BY <1>1 DEF UnitsInOrder
    <3>2. shown \subseteq Tenant /\ \A x \in shown : x = Setting(c)
      BY <3>1 DEF Visible, KeyRow
    <3>3. seen' = [seen EXCEPT ![r] = @ \cup shown]
      BY <2>1
    <3> HIDE DEF shown
    <3> QED
      BY <3>2, <3>3
  <2>9. c \in AppConn
    BY <1>1, <1>2, <1>4, PoolByUnit DEF UnitsInOrder
  <2>10. plan' \in [Request -> Rows] /\ \A q \in Request \ {r} : plan'[q] = plan[q] /\ seen'[q] = seen[q]
    BY <2>1, <2>2, <2>5, <2>6, NoPlanType
  <2>11. /\ plan'[r].tenants = {} /\ plan'[r].sealed \subseteq keys
         /\ \A j, k \in plan'[r].keys : j = k
    BY <2>2, <2>5, <2>6 DEF NoPlan, ProvisionKeeps
  <2>12. req[r].kind = "register" => \E k \in keys \cup plan'[r].keys : k.tenant = req[r].tenant
    BY <2>3, <2>6 DEF ProvisionKeeps
  <2> QED
    BY <1>1, <2>8, <2>9, <2>10, <2>11, <2>12
<1> QED
  BY <1>1, <1>2, <1>3, <1>4

(* Type correctness.                                                          *)
LEMMA TypeInductive ==
  ASSUME TypeOK, UnitsInOrder, [Next]_vars
  PROVE  TypeOK'
<1> USE DEF TypeOK
<1>1. CASE UNCHANGED vars
  BY <1>1 DEF vars
<1>2. ASSUME NEW r \in Request, NEW kind \in Kind, NEW x \in Tenant, NEW y \in Tenant \cup {NoTenant},
             Arrive(r, kind, x, y)
      PROVE  TypeOK'
  BY <1>2 DEF Arrive, tables
<1>3. ASSUME NEW r \in Request, NEW c \in Conn, Checkout(r, c) PROVE TypeOK'
  BY <1>3 DEF Checkout, tables, Open
<1>4. ASSUME NEW r \in Request, NEW c \in Conn, SetConfig(r, c) PROVE TypeOK'
  <2>1. req[r].tenant \in Tenant \cup {NoTenant}
    OBVIOUS
  <2> QED
    BY <1>4, <2>1 DEF SetConfig, PinTransaction, tables, Open
<1>5. ASSUME NEW r \in Request, NEW c \in Conn, Work(r, c) PROVE TypeOK'
  BY <1>5, WorkWrites DEF tables, Open
<1>6. ASSUME NEW r \in Request, NEW c \in Conn, LetsGo(c), UnitEnds(r), UNCHANGED <<req, seen>>,
             tenants' \subseteq Tenant, keys' \subseteq KeyRow, sealed' \subseteq KeyRow,
             doubt' \subseteq Rows
      PROVE  TypeOK'
  BY <1>6 DEF LetsGo, UnitEnds
<1>7. ASSUME NEW r \in Request, NEW c \in Conn, Unfinished(r, c) PROVE TypeOK'
  <2>1. LetsGo(c) /\ UnitEnds(r) /\ UNCHANGED <<req, seen, tables>>
    BY <1>7, UnfinishedEnds
  <2>2. /\ tenants' \subseteq Tenant /\ keys' \subseteq KeyRow /\ sealed' \subseteq KeyRow
        /\ doubt' \subseteq Rows
    BY <2>1 DEF tables
  <2> QED
    BY <1>6, <2>1, <2>2
<1>8. ASSUME NEW p \in Rows, Publish(p)
      PROVE  tenants' \subseteq Tenant /\ keys' \subseteq KeyRow /\ sealed' \subseteq KeyRow
  BY <1>8 DEF Publish, Rows
<1>9. ASSUME NEW r \in Request, NEW c \in Conn, Commit(r, c) PROVE TypeOK'
  <2>1. LetsGo(c) /\ UnitEnds(r) /\ UNCHANGED <<req, seen, doubt>> /\ Publish(plan[r])
    BY <1>9, CommitEnds
  <2>2. tenants' \subseteq Tenant /\ keys' \subseteq KeyRow /\ sealed' \subseteq KeyRow
    BY <1>8, <2>1
  <2> QED
    BY <1>6, <2>1, <2>2
<1>10. ASSUME NEW r \in Request, NEW c \in Conn, CommitUnanswered(r, c) PROVE TypeOK'
  <2>1. /\ LetsGo(c) /\ UnitEnds(r) /\ UNCHANGED <<req, seen, tenants, keys, sealed>>
        /\ doubt' = (doubt \cup {plan[r]}) \ {NoPlan}
    BY <1>10, UnansweredEnds
  <2>2. doubt' \subseteq Rows
    BY <2>1
  <2> QED
    BY <1>6, <2>1, <2>2
<1>11. ASSUME NEW d \in doubt, Settle(d) PROVE TypeOK'
  <2>1. tenants' \subseteq Tenant /\ keys' \subseteq KeyRow /\ sealed' \subseteq KeyRow
    BY <1>8, <1>11 DEF Settle
  <2> QED
    BY <1>11, <2>1 DEF Settle
<1>12. ASSUME NEW r \in Request, CheckoutTimesOut(r) PROVE TypeOK'
  BY <1>12, RaiseEnds DEF CheckoutTimesOut, UnitEnds, tables
<1>13. ASSUME NEW c \in Conn, Collect(c) PROVE TypeOK'
  BY <1>13 DEF Collect, Replace, tables
<1> QED
  BY <1>1, <1>2, <1>3, <1>4, <1>5, <1>7, <1>9, <1>10, <1>11, <1>12, <1>13
     DEF Next, Proceed, Break, Unfinished

-------------------------------------------------------------------------------
(* When a unit of work ends, connections stay with who has them, blank where  *)
(* nobody does.                                                               *)
LEMMA EndKeepsScope ==
  ASSUME TypeOK, ConnectionsInv, NEW r \in Request, NEW c \in Conn, holder[c] = r,
         UnitEnds(r), LetsGo(c), UNCHANGED <<req, seen>>
  PROVE  UnitsInOrder' /\ OneConnectionEach' /\ PinnedToHolder' /\ TenantIsolation'
<1> USE ConnectionAssumption
<1> USE DEF TypeOK, ConnectionsInv
<1>1. phase[r] \in Open /\ phase[r] # "idle" /\ phase'[r] # "idle" /\ phase'[r] \notin Open
  BY DEF OneConnectionEach, Open, UnitEnds, Answer
<1>2. UnitsInOrder'
  BY <1>1 DEF UnitsInOrder, UnitEnds, Answer, Open
<1>3. \A q \in Request \ {r} : PoolOf(q)' = PoolOf(q)
  BY DEF PoolOf, Units, UnitEnds
<1>4. \A d \in Conn \ {c} : holder'[d] = holder[d] /\ holder[d] # r
  BY DEF LetsGo, OneConnectionEach
<1>5. holder'[c] \notin Request
  BY DEF LetsGo
<1>6. OneConnectionEach'
  BY <1>3, <1>4, <1>5 DEF OneConnectionEach, UnitEnds
<1>7. PinnedToHolder'
  BY <1>4, <1>5 DEF PinnedToHolder, LetsGo, UnitEnds, Conn
<1> QED
  BY <1>2, <1>6, <1>7 DEF TenantIsolation

(* When it ends without a commit, so do the rows it had written.              *)
LEMMA EndKeepsRows ==
  ASSUME TypeOK, ConnectionsInv, NEW r \in Request,
         UnitEnds(r), UNCHANGED <<req, tables>>, phase'[r] # "201"
  PROVE  RegistersItself' /\ ProvisionedHasKey' /\ OneKeyEach' /\ SealedWithKeys'
<1> USE DEF TypeOK, ConnectionsInv
<1>1. /\ plan'[r].tenants = {} /\ plan'[r].keys = {} /\ plan'[r].sealed = {}
      /\ \A q \in Request \ {r} : plan'[q] = plan[q]
      /\ UNCHANGED <<req, tenants, keys, sealed, doubt>>
  BY DEF UnitEnds, NoPlan, tables
<1>2. RegistersItself'
  BY <1>1 DEF RegistersItself
<1>3. ProvisionedHasKey'
  BY <1>1 DEF ProvisionedHasKey, UnitEnds, Answer
<1>4. OneKeyEach'
  BY <1>1 DEF OneKeyEach, PromisedKeys
<1>5. SealedWithKeys'
  BY <1>1 DEF SealedWithKeys
<1> QED
  BY <1>2, <1>3, <1>4, <1>5

(* Rows that keep to the constraints: promised keys stay one for each tenant. *)
LEMMA PromiseKeepsOneKey ==
  ASSUME TypeOK, ConnectionsInv, NEW r \in Request, NEW c \in Conn, Admissible(r, c),
         PromisedKeys' \subseteq PromisedKeys \cup plan[r].keys
  PROVE  \A j, k \in PromisedKeys' : j.tenant = k.tenant => j = k
<1>1. \A j \in plan[r].keys, k \in PromisedKeys : j.tenant # k.tenant
  BY DEF Admissible, Unrivalled, PromisedKeys
<1>2. \A j, k \in plan[r].keys : j = k
  BY DEF ConnectionsInv, OneKeyEach
<1>3. \A j, k \in PromisedKeys : j.tenant = k.tenant => j = k
  BY DEF ConnectionsInv, OneKeyEach
<1> QED
  BY <1>1, <1>2, <1>3

(* A commit publishes what the unit has written.                              *)
LEMMA CommitKeepsRows ==
  ASSUME TypeOK, ConnectionsInv, NEW r \in Request, NEW c \in Conn, Commit(r, c)
  PROVE  RegistersItself' /\ ProvisionedHasKey' /\ OneKeyEach' /\ SealedWithKeys'
<1> USE DEF TypeOK, ConnectionsInv
<1>1. /\ phase[r] = "worked" /\ UnitEnds(r) /\ UNCHANGED <<req, doubt>>
      /\ phase'[r] = "201" /\ req[r].kind = "register" => unit[r] = 2
      /\ Admissible(r, c) /\ Publish(plan[r])
  BY CommitEnds
<1>2. /\ plan'[r].tenants = {} /\ plan'[r].keys = {} /\ plan'[r].sealed = {}
      /\ \A q \in Request \ {r} : plan'[q] = plan[q]
  BY <1>1 DEF UnitEnds, NoPlan
<1>3. /\ tenants' = tenants \cup plan[r].tenants
      /\ keys' = keys \cup plan[r].keys
      /\ sealed' = sealed \cup plan[r].sealed
  BY <1>1 DEF Publish
<1>4. RegistersItself'
  BY <1>1, <1>2, <1>3 DEF RegistersItself
<1>5. ProvisionedHasKey'
  <2> SUFFICES ASSUME NEW q \in Request, req[q].kind = "register"
               PROVE  /\ phase'[q] = "201" => \E k \in keys' : k.tenant = req[q].tenant
                      /\ phase'[q] = "worked" /\ unit'[q] = 2 =>
                            \E k \in keys' \cup plan'[q].keys : k.tenant = req[q].tenant
    BY <1>1 DEF ProvisionedHasKey
  <2>1. CASE q = r
    BY <1>1, <1>3, <2>1 DEF ProvisionedHasKey, UnitEnds, Answer
  <2>2. CASE q # r
    BY <1>1, <1>2, <1>3, <2>2 DEF ProvisionedHasKey, UnitEnds
  <2> QED
    BY <2>1, <2>2
<1>6. OneKeyEach'
  <2>1. PromisedKeys' \subseteq PromisedKeys \cup plan[r].keys
    BY <1>1, <1>3 DEF PromisedKeys
  <2>2. \A j, k \in PromisedKeys' : j.tenant = k.tenant => j = k
    BY <1>1, <2>1, PromiseKeepsOneKey
  <2> QED
    BY <1>2, <2>2 DEF OneKeyEach
<1>7. SealedWithKeys'
  BY <1>1, <1>2, <1>3 DEF SealedWithKeys
<1> QED
  BY <1>4, <1>5, <1>6, <1>7

(* A commit in doubt promises it, and settling the doubt publishes it.        *)
LEMMA DoubtKeepsRows ==
  ASSUME TypeOK, ConnectionsInv, NEW r \in Request, NEW c \in Conn, CommitUnanswered(r, c)
  PROVE  RegistersItself' /\ ProvisionedHasKey' /\ OneKeyEach' /\ SealedWithKeys'
<1> USE DEF TypeOK, ConnectionsInv
<1>1. /\ UnitEnds(r) /\ phase'[r] # "201" /\ UNCHANGED <<req, tenants, keys, sealed>>
      /\ Admissible(r, c)
      /\ doubt' \subseteq doubt \cup {plan[r]}
  BY UnansweredEnds
<1>2. /\ plan'[r].tenants = {} /\ plan'[r].keys = {} /\ plan'[r].sealed = {}
      /\ \A q \in Request \ {r} : plan'[q] = plan[q]
  BY <1>1 DEF UnitEnds, NoPlan
<1>3. RegistersItself'
  <2>1. \A d \in doubt' : d \in doubt \/ d = plan[r]
    BY <1>1
  <2>2. \A x \in plan[r].tenants : \E q \in Request : req[q].kind = "register" /\ req[q].tenant = x
    BY DEF RegistersItself
  <2>3. \A d \in doubt' : \A x \in d.tenants :
           \E q \in Request : req[q].kind = "register" /\ req[q].tenant = x
    <3> SUFFICES ASSUME NEW d \in doubt', NEW x \in d.tenants
                 PROVE  \E q \in Request : req[q].kind = "register" /\ req[q].tenant = x
      OBVIOUS
    <3>1. CASE d \in doubt
      BY <3>1 DEF RegistersItself
    <3>2. CASE d = plan[r]
      BY <2>2, <3>2
    <3> QED
      BY <2>1, <3>1, <3>2
  <2>4. \A q \in Request : plan'[q].tenants # {} =>
           req[q].kind = "register" /\ plan'[q].tenants = {req[q].tenant}
    BY <1>2 DEF RegistersItself
  <2> QED
    BY <1>1, <2>3, <2>4 DEF RegistersItself
<1>4. ProvisionedHasKey'
  BY <1>1, <1>2 DEF ProvisionedHasKey, UnitEnds, Answer
<1>5. OneKeyEach'
  <2>1. PromisedKeys' \subseteq PromisedKeys \cup plan[r].keys
    BY <1>1 DEF PromisedKeys
  <2>2. \A j, k \in PromisedKeys' : j.tenant = k.tenant => j = k
    BY <1>1, <2>1, PromiseKeepsOneKey
  <2> QED
    BY <1>2, <2>2 DEF OneKeyEach
<1>6. SealedWithKeys'
  BY <1>1, <1>2 DEF SealedWithKeys
<1> QED
  BY <1>3, <1>4, <1>5, <1>6

(* The server carries out a commit that was in doubt.                        *)
LEMMA SettleKeepsRows ==
  ASSUME TypeOK, ConnectionsInv, NEW d \in doubt, Settle(d)
  PROVE  ConnectionsInv'
<1> USE DEF TypeOK, ConnectionsInv
<1>1. /\ UNCHANGED <<req, unit, phase, attempt, plan, holder, local, session, seen>>
      /\ doubt' = doubt \ {d}
      /\ tenants' = tenants \cup d.tenants
      /\ keys' = keys \cup d.keys
      /\ sealed' = sealed \cup d.sealed
  BY DEF Settle, Publish
<1>2. UnitsInOrder' /\ OneConnectionEach' /\ PinnedToHolder' /\ TenantIsolation'
  BY <1>1 DEF UnitsInOrder, OneConnectionEach, PinnedToHolder, TenantIsolation, PoolOf, Units
<1>3. RegistersItself' /\ ProvisionedHasKey'
  BY <1>1 DEF RegistersItself, ProvisionedHasKey
<1>4. PromisedKeys' \subseteq PromisedKeys
  BY <1>1 DEF PromisedKeys
<1>5. OneKeyEach' /\ SealedWithKeys'
  BY <1>1, <1>4 DEF OneKeyEach, SealedWithKeys
<1> QED
  BY <1>2, <1>3, <1>5

(* The steps that leave the tables alone and end no unit.                     *)
LEMMA ArriveKeeps ==
  ASSUME TypeOK, ConnectionsInv, NEW r \in Request, NEW kind \in Kind, NEW x \in Tenant,
         NEW y \in Tenant \cup {NoTenant}, Arrive(r, kind, x, y)
  PROVE  ConnectionsInv'
<1> USE ConnectionAssumption
<1> USE DEF TypeOK, ConnectionsInv
<1>1. /\ phase[r] = "idle" /\ req[r].kind = "none" /\ unit[r] = 1 /\ seen[r] = {}
      /\ phase' = [phase EXCEPT ![r] = "queued"]
      /\ req' = [req EXCEPT ![r] = [kind |-> kind, tenant |-> x, target |-> y]]
      /\ UNCHANGED <<unit, plan, holder, local, session, tenants, keys, sealed, doubt, seen>>
  BY DEF Arrive, UnitsInOrder, tables
<1>2. /\ req'[r].kind = kind /\ req'[r].tenant = x /\ req'[r].target = y
      /\ \A q \in Request \ {r} : req'[q] = req[q]
  BY <1>1
<1>3. /\ kind = "probe" => y \in Tenant
      /\ kind = "register" => \A q \in Request : req[q].tenant # x
  BY DEF Arrive
<1>4. plan[r] = NoPlan
  BY <1>1 DEF UnitsInOrder
<1>5. UnitsInOrder'
  BY <1>1, <1>2, <1>3 DEF UnitsInOrder
<1>6. \A c \in Conn : holder[c] # r
  BY <1>1 DEF OneConnectionEach, Open
<1>7. \A q \in Request \ {r} : PoolOf(q)' = PoolOf(q) /\ phase'[q] = phase[q]
  BY <1>1, <1>2 DEF PoolOf, Units
<1>8. OneConnectionEach'
  BY <1>1, <1>6, <1>7 DEF OneConnectionEach
<1>9. PinnedToHolder'
  BY <1>1, <1>2, <1>6 DEF PinnedToHolder, Conn
<1>10. TenantIsolation'
  BY <1>1, <1>2 DEF TenantIsolation
<1>11. RegistersItself'
  <2>1. \A q \in Request : plan[q].tenants # {} => q # r
    BY <1>4 DEF NoPlan
  <2>2. \A z : (\E q \in Request : req[q].kind = "register" /\ req[q].tenant = z)
               => \E q \in Request : req'[q].kind = "register" /\ req'[q].tenant = z
    BY <1>1, <1>2
  <2>3. \A p, q \in Request : /\ req'[p].kind = "register" /\ req'[q].kind = "register"
                              /\ req'[p].tenant = req'[q].tenant
                              => p = q
    BY <1>2, <1>3 DEF RegistersItself
  <2> QED
    BY <1>1, <1>2, <2>1, <2>2, <2>3 DEF RegistersItself
<1>12. ProvisionedHasKey'
  <2> SUFFICES ASSUME NEW q \in Request, req'[q].kind = "register"
               PROVE  /\ phase'[q] = "201" => \E k \in keys : k.tenant = req'[q].tenant
                      /\ phase'[q] = "worked" /\ unit[q] = 2 =>
                            \E k \in keys \cup plan[q].keys : k.tenant = req'[q].tenant
    BY <1>1 DEF ProvisionedHasKey
  <2>1. CASE q = r
    BY <1>1, <2>1
  <2>2. CASE q # r
    BY <1>1, <1>2, <2>2 DEF ProvisionedHasKey
  <2> QED
    BY <2>1, <2>2
<1>13. OneKeyEach' /\ SealedWithKeys'
  BY <1>1 DEF OneKeyEach, PromisedKeys, SealedWithKeys
<1> QED
  BY <1>5, <1>8, <1>9, <1>10, <1>11, <1>12, <1>13

(* A connection leaves the pool without a setting.                           *)
LEMMA CheckoutKeeps ==
  ASSUME TypeOK, ConnectionsInv, NEW r \in Request, NEW c \in Conn, Checkout(r, c)
  PROVE  ConnectionsInv'
<1> USE ConnectionAssumption
<1> USE DEF TypeOK, ConnectionsInv
<1>1. /\ phase[r] = "queued" /\ c \in PoolOf(r) /\ holder[c] = Nobody
      /\ holder' = [holder EXCEPT ![c] = r]
      /\ phase' = [phase EXCEPT ![r] = IF c \in AppConn THEN "opened" ELSE "scoped"]
      /\ UNCHANGED <<req, unit, plan, local, session, tenants, keys, sealed, doubt, seen>>
  BY DEF Checkout, tables
<1>2. \A d \in Conn : holder[d] # r
  BY <1>1 DEF OneConnectionEach, Open
<1>3. \A q \in Request : PoolOf(q)' = PoolOf(q)
  BY <1>1 DEF PoolOf, Units
<1>4. UnitsInOrder'
  BY <1>1 DEF UnitsInOrder
<1>5. OneConnectionEach'
  BY <1>1, <1>2, <1>3 DEF OneConnectionEach, Open
<1>6. PinnedToHolder'
  BY <1>1, <1>2 DEF PinnedToHolder, Conn
<1>7. TenantIsolation' /\ RegistersItself' /\ OneKeyEach' /\ SealedWithKeys'
  BY <1>1 DEF TenantIsolation, RegistersItself, OneKeyEach, PromisedKeys, SealedWithKeys
<1>8. ProvisionedHasKey'
  BY <1>1 DEF ProvisionedHasKey
<1> QED
  BY <1>4, <1>5, <1>6, <1>7, <1>8

(* A unit of work is pinned to its own tenant.                               *)
LEMMA SetConfigKeeps ==
  ASSUME TypeOK, ConnectionsInv, NEW r \in Request, NEW c \in Conn, SetConfig(r, c)
  PROVE  ConnectionsInv'
<1> USE ConnectionAssumption
<1> USE DEF TypeOK, ConnectionsInv
<1>1. /\ phase[r] = "opened" /\ holder[c] = r
      /\ local' = [local EXCEPT ![c] = req[r].tenant]
      /\ phase' = [phase EXCEPT ![r] = "scoped"]
      /\ UNCHANGED <<req, unit, plan, holder, session, tenants, keys, sealed, doubt, seen>>
  BY DEF SetConfig, PinTransaction, Holds, tables
<1>2. \A d \in Conn \ {c} : holder[d] # r
  BY <1>1 DEF OneConnectionEach
<1>3. \A q \in Request : PoolOf(q)' = PoolOf(q)
  BY <1>1 DEF PoolOf, Units
<1>4. UnitsInOrder'
  BY <1>1 DEF UnitsInOrder
<1>5. OneConnectionEach'
  BY <1>1, <1>2, <1>3 DEF OneConnectionEach, Open
<1>6. PinnedToHolder'
  BY <1>1, <1>2 DEF PinnedToHolder, Conn
<1>7. TenantIsolation' /\ RegistersItself' /\ OneKeyEach' /\ SealedWithKeys'
  BY <1>1 DEF TenantIsolation, RegistersItself, OneKeyEach, PromisedKeys, SealedWithKeys
<1>8. ProvisionedHasKey'
  BY <1>1 DEF ProvisionedHasKey
<1> QED
  BY <1>4, <1>5, <1>6, <1>7, <1>8

(* The statements: what they are shown is the pinned tenant's.                *)
LEMMA WorkKeeps ==
  ASSUME TypeOK, ConnectionsInv, NEW r \in Request, NEW c \in Conn, Work(r, c)
  PROVE  ConnectionsInv'
<1> USE ConnectionAssumption
<1> USE DEF TypeOK, ConnectionsInv
<1>1. /\ holder[c] = r /\ phase[r] = "scoped" /\ c \in PoolOf(r)
      /\ phase' = [phase EXCEPT ![r] = "worked"]
      /\ \A q \in Request \ {r} : plan'[q] = plan[q] /\ seen'[q] = seen[q]
      /\ UNCHANGED <<req, unit, holder, local, session, tenants, keys, sealed, doubt>>
  BY WorkWrites DEF tables
<1>2. /\ plan'[r].tenants # {} => req[r].kind = "register" /\ plan'[r].tenants = {req[r].tenant}
      /\ plan'[r].sealed \subseteq keys
      /\ \A j, k \in plan'[r].keys : j = k
      /\ \A x \in seen'[r] : x \in seen[r] \/ (c \in AppConn /\ x = Setting(c))
      /\ req[r].kind = "register" /\ unit[r] = 2 =>
            \E k \in keys \cup plan'[r].keys : k.tenant = req[r].tenant
  BY WorkWrites
<1>3. c \in AppConn => Setting(c) = req[r].tenant
  <2>1. c \in AppConn => local[c] = req[r].tenant
    BY <1>1 DEF PinnedToHolder
  <2>2. req[r].tenant # NoTenant
    BY <1>1 DEF UnitsInOrder
  <2> QED
    BY <2>1, <2>2 DEF Setting
<1>4. \A q \in Request : PoolOf(q)' = PoolOf(q)
  BY <1>1 DEF PoolOf, Units
<1>5. UnitsInOrder'
  BY <1>1 DEF UnitsInOrder
<1>6. OneConnectionEach'
  BY <1>1, <1>4 DEF OneConnectionEach, Open
<1>7. PinnedToHolder'
  BY <1>1 DEF PinnedToHolder, Conn
<1>8. TenantIsolation'
  BY <1>1, <1>2, <1>3 DEF TenantIsolation
<1>9. RegistersItself'
  BY <1>1, <1>2 DEF RegistersItself
<1>10. ProvisionedHasKey'
  BY <1>1, <1>2 DEF ProvisionedHasKey
<1>11. OneKeyEach'
  BY <1>1, <1>2 DEF OneKeyEach, PromisedKeys
<1>12. SealedWithKeys'
  BY <1>1, <1>2 DEF SealedWithKeys
<1> QED
  BY <1>5, <1>6, <1>7, <1>8, <1>9, <1>10, <1>11, <1>12

(* A request that never got its connection, and the collector.                *)
LEMMA TimeoutKeeps ==
  ASSUME TypeOK, ConnectionsInv, NEW r \in Request, CheckoutTimesOut(r)
  PROVE  ConnectionsInv'
<1> USE DEF TypeOK, ConnectionsInv
<1>1. /\ phase[r] = "queued" /\ UnitEnds(r) /\ phase'[r] \in {"queued", "500"}
      /\ UNCHANGED <<req, holder, local, session, tables, seen>>
  BY RaiseEnds DEF CheckoutTimesOut
<1>2. RegistersItself' /\ ProvisionedHasKey' /\ OneKeyEach' /\ SealedWithKeys'
  BY <1>1, EndKeepsRows
<1>3. \A c \in Conn : holder[c] # r
  BY <1>1 DEF OneConnectionEach, Open
<1>4. \A q \in Request \ {r} : PoolOf(q)' = PoolOf(q)
  BY <1>1 DEF PoolOf, Units, UnitEnds
<1>5. UnitsInOrder'
  BY <1>1 DEF UnitsInOrder, UnitEnds
<1>6. OneConnectionEach'
  BY <1>1, <1>3, <1>4 DEF OneConnectionEach, UnitEnds
<1>7. PinnedToHolder' /\ TenantIsolation'
  BY <1>1, <1>3 DEF PinnedToHolder, TenantIsolation, UnitEnds, Conn
<1> QED
  BY <1>2, <1>5, <1>6, <1>7

(* A collected session gives its connection back without a setting.          *)
LEMMA CollectKeeps ==
  ASSUME TypeOK, ConnectionsInv, NEW c \in Conn, Collect(c)
  PROVE  ConnectionsInv'
<1> USE ConnectionAssumption
<1> USE DEF TypeOK, ConnectionsInv
<1>1. /\ holder[c] = Leaked
      /\ holder' = [holder EXCEPT ![c] = Nobody]
      /\ local' = [local EXCEPT ![c] = NoTenant]
      /\ session' = [session EXCEPT ![c] = NoTenant]
      /\ UNCHANGED <<req, unit, phase, plan, tenants, keys, sealed, doubt, seen>>
  BY DEF Collect, Replace, tables
<1>2. \A q \in Request : PoolOf(q)' = PoolOf(q)
  BY <1>1 DEF PoolOf, Units
<1>3. UnitsInOrder' /\ TenantIsolation' /\ RegistersItself' /\ ProvisionedHasKey'
  BY <1>1 DEF UnitsInOrder, TenantIsolation, RegistersItself, ProvisionedHasKey
<1>4. OneConnectionEach'
  BY <1>1, <1>2 DEF OneConnectionEach
<1>5. PinnedToHolder'
  BY <1>1 DEF PinnedToHolder, Conn
<1>6. OneKeyEach' /\ SealedWithKeys'
  BY <1>1 DEF OneKeyEach, PromisedKeys, SealedWithKeys
<1> QED
  BY <1>3, <1>4, <1>5, <1>6

(* Every step keeps the invariant.                                           *)
LEMMA ConnectionsInductive ==
  ASSUME TypeOK, ConnectionsInv, [Next]_vars
  PROVE  ConnectionsInv'
<1>1. CASE UNCHANGED vars
  BY <1>1 DEF vars, ConnectionsInv, UnitsInOrder, OneConnectionEach, PinnedToHolder,
     TenantIsolation, RegistersItself, ProvisionedHasKey, OneKeyEach, PromisedKeys,
     SealedWithKeys, PoolOf, Units
<1>2. ASSUME NEW r \in Request, NEW c \in Conn, Unfinished(r, c) PROVE ConnectionsInv'
  <2>1. /\ holder[c] = r /\ UnitEnds(r) /\ phase'[r] # "201" /\ LetsGo(c)
        /\ UNCHANGED <<req, tables, seen>>
    BY <1>2, UnfinishedEnds DEF ConnectionsInv
  <2> QED
    BY <2>1, EndKeepsScope, EndKeepsRows DEF ConnectionsInv
<1>3. ASSUME NEW r \in Request, NEW c \in Conn, Commit(r, c) PROVE ConnectionsInv'
  <2>1. holder[c] = r /\ UnitEnds(r) /\ LetsGo(c) /\ UNCHANGED <<req, seen>>
    BY <1>3, CommitEnds DEF ConnectionsInv
  <2> QED
    BY <1>3, <2>1, EndKeepsScope, CommitKeepsRows DEF ConnectionsInv
<1>4. ASSUME NEW r \in Request, NEW c \in Conn, CommitUnanswered(r, c) PROVE ConnectionsInv'
  <2>1. holder[c] = r /\ UnitEnds(r) /\ LetsGo(c) /\ UNCHANGED <<req, seen>>
    BY <1>4, UnansweredEnds DEF ConnectionsInv
  <2> QED
    BY <1>4, <2>1, EndKeepsScope, DoubtKeepsRows DEF ConnectionsInv
<1> QED
  BY <1>1, <1>2, <1>3, <1>4, ArriveKeeps, CheckoutKeeps, SetConfigKeeps, WorkKeeps,
     TimeoutKeeps, CollectKeeps, SettleKeepsRows
     DEF Next, Proceed, Break, Unfinished

-------------------------------------------------------------------------------
(* Every reachable state is of its type and keeps the invariant: the type of  *)
(* a unit's index needs the order of the units, so the two go together.       *)
THEOREM ConnectionsInvariant == Spec => [](TypeOK /\ ConnectionsInv)
<1>1. Init => TypeOK
  BY NoPlanType DEF Init, TypeOK
<1>2. Init => ConnectionsInv
  <2> SUFFICES ASSUME Init PROVE ConnectionsInv
    OBVIOUS
  <2>1. UnitsInOrder /\ TenantIsolation
    BY DEF Init, UnitsInOrder, TenantIsolation
  <2>2. OneConnectionEach /\ PinnedToHolder
    BY ConnectionAssumption DEF Init, OneConnectionEach, PinnedToHolder, Conn
  <2>3. RegistersItself /\ ProvisionedHasKey /\ OneKeyEach /\ SealedWithKeys
    BY DEF Init, RegistersItself, ProvisionedHasKey, OneKeyEach, PromisedKeys,
       SealedWithKeys, NoPlan
  <2> QED
    BY <2>1, <2>2, <2>3 DEF ConnectionsInv
<1>3. TypeOK /\ ConnectionsInv /\ [Next]_vars => TypeOK' /\ ConnectionsInv'
  BY TypeInductive, ConnectionsInductive DEF ConnectionsInv
<1> QED
  BY <1>1, <1>2, <1>3, PTL DEF Spec

(* No request is ever shown another tenant's rows: the tenant pinned in       *)
(* __aenter__ of SqlAlchemyUnitOfWork does not outlive its transaction,       *)
(* however the unit, or the one before it on the same connection, ended.      *)
THEOREM TenantsAreIsolated == Spec => []TenantIsolation
<1>1. ConnectionsInv => TenantIsolation
  BY DEF ConnectionsInv
<1> QED
  BY <1>1, ConnectionsInvariant, PTL

(* A committed organization without a key has a registration that is under    *)
(* way or was answered with an error: RegisterUser never answers 201 without. *)
THEOREM KeylessTenantsAreExplained == Spec => []KeylessExplained
<1>1. ConnectionsInv => KeylessExplained
  <2> SUFFICES ASSUME ConnectionsInv, NEW x \in tenants
               PROVE  \/ \E k \in keys : k.tenant = x
                      \/ \E r \in Request : /\ req[r].kind = "register" /\ req[r].tenant = x
                                            /\ phase[r] # "201"
    BY DEF KeylessExplained
  <2>1. PICK r \in Request : req[r].kind = "register" /\ req[r].tenant = x
    BY DEF ConnectionsInv, RegistersItself
  <2> QED
    BY <2>1 DEF ConnectionsInv, ProvisionedHasKey
<1> QED
  BY <1>1, ConnectionsInvariant, PTL

(* Every sealed version keeps its key, and a tenant has one key: a provision  *)
(* tried again while the first commit is in doubt cannot add another.         *)
THEOREM SecretsStayOpenable == Spec => []SealedStaysOpenable
<1>1. ConnectionsInv => SealedStaysOpenable
  BY DEF ConnectionsInv, OneKeyEach, PromisedKeys, SealedWithKeys, SealedStaysOpenable
<1> QED
  BY <1>1, ConnectionsInvariant, PTL
===============================================================================

--------------------------- MODULE AuditLedgerProofs ---------------------------
(***************************************************************************)
(* Proofs about the audit ledger and its verification: AuditLedger for any    *)
(* set of tenants and of requests, verify_chain for any rows, ChainVerifier   *)
(* beside any number of requests, AuditTamper for any number of alterations.  *)
(***************************************************************************)
EXTENDS ChainVerifier, AuditTamper, FiniteSetTheorems, TLAPS

(* Type correctness of the ledger.                                           *)
THEOREM TypeCorrect == Spec => []TypeOK
<1> USE TenantOfType, NobodyIsNoRequest
<1>1. Init => TypeOK
  BY DEF Init, TypeOK, EmptyHead, ChainHead, GENESIS, HeadRow, Step, Answer
<1>2. TypeOK /\ [Next]_vars => TypeOK'
  <2> SUFFICES ASSUME TypeOK, [Next]_vars PROVE TypeOK'
    OBVIOUS
  <2> USE DEF TypeOK, Step, Answer
  <2>1. CASE UNCHANGED vars
    BY <2>1 DEF vars
  <2>2. ASSUME NEW r \in Request, Arrive(r) PROVE TypeOK'
    BY <2>2 DEF Arrive, Perform, Forbid, RefuseUnaudited, dbVars
  <2>3. ASSUME NEW r \in Request, BeginDenial(r) \/ InsertHeadConflict(r)
        PROVE  TypeOK'
    BY <2>3 DEF BeginDenial, InsertHeadConflict, dbVars
  <2>4. ASSUME NEW r \in Request, SelectHeadForUpdate(r) PROVE TypeOK'
    BY <2>4 DEF SelectHeadForUpdate
  <2>5. ASSUME NEW r \in Request, InsertHead(r) PROVE TypeOK'
    BY <2>5 DEF InsertHead, EmptyHead, ChainHead, GENESIS, HeadRow
  <2>6. ASSUME NEW r \in Request, Commit(r) PROVE TypeOK'
    <3> DEFINE t == TenantOf[r]
               e == NewEvent(r)
    <3>1. /\ t \in Tenant
          /\ seen[r].last_sequence \in Nat
          /\ seen[r].last_hash \in Seq(Canonical)
      BY DEF HeadRow
    <3>2. [tenant_id |-> t, sequence |-> seen[r].last_sequence + 1,
           body |-> [request |-> r, outcome |-> outcome[r]]] \in Canonical
      BY <3>1 DEF Canonical, Body
    <3>3. /\ e \in Event
          /\ e.sequence \in Nat
          /\ e.entry_hash \in Seq(Canonical)
      BY <3>1, <3>2 DEF NewEvent, AuditEvent, Event, Body,
                        compute_entry_hash, canonical_event_bytes
    <3>4. ChainHead(e.sequence, e.entry_hash) \in HeadRow
      BY <3>3 DEF ChainHead, HeadRow
    <3>5. /\ events' \in [Tenant -> SUBSET Event]
          /\ head' \in [Tenant -> HeadRow]
          /\ heads' \subseteq Tenant
      BY <2>6, <3>1, <3>3, <3>4 DEF Commit
    <3>6. /\ lock' \in [Tenant -> Request \cup {Nobody}]
          /\ applied' \subseteq Request
          /\ pc' \in [Request -> Step \cup Answer]
      BY <2>6 DEF Commit, Release
    <3> QED
      BY <2>6, <3>5, <3>6 DEF Commit
  <2>7. ASSUME NEW r \in Request, Abort(r) PROVE TypeOK'
    BY <2>7 DEF Abort, Release
  <2> QED
    BY <2>1, <2>2, <2>3, <2>4, <2>5, <2>6, <2>7 DEF Next, Proceed
<1> QED
  BY <1>1, <1>2, PTL DEF Spec

-------------------------------------------------------------------------------
(* Appending a row built on the head of an intact chain gives an intact      *)
(* chain whose head is that row.                                             *)
LEMMA AppendKeepsIntact ==
  ASSUME NEW S, NEW h, NEW tn, NEW body,
         h.last_sequence \in Nat,
         \A row \in S : row.sequence \in Nat,
         Intact(S, h)
  PROVE  LET e == AuditEvent(tn, h.last_sequence + 1, body, h.last_hash)
         IN  Intact(S \cup {e}, ChainHead(e.sequence, e.entry_hash))
<1> DEFINE n == h.last_sequence
           e == AuditEvent(tn, n + 1, body, h.last_hash)
           new == S \cup {e}
           g == ChainHead(e.sequence, e.entry_hash)
<1>1. /\ e.sequence = n + 1
      /\ e.previous_hash = h.last_hash
      /\ e.entry_hash = compute_entry_hash(e.previous_hash,
              canonical_event_bytes(e.tenant_id, e.sequence, e.body))
      /\ g.last_sequence = n + 1
      /\ g.last_hash = e.entry_hash
  BY DEF AuditEvent, ChainHead
<1>2. /\ {row.sequence : row \in S} = 1..n
      /\ \A a, b \in S : a.sequence = b.sequence => a = b
      /\ \A row \in S :
            row.entry_hash = compute_entry_hash(row.previous_hash,
                canonical_event_bytes(row.tenant_id, row.sequence, row.body))
      /\ \A row \in S : row.sequence = 1 => row.previous_hash = GENESIS
      /\ \A a, b \in S : b.sequence = a.sequence + 1
                               => b.previous_hash = a.entry_hash
      /\ \A row \in S : row.sequence = n => row.entry_hash = h.last_hash
      /\ S = {} => h.last_hash = GENESIS
  BY DEF Intact
<1> HIDE DEF e, g
<1>3. \A row \in S : row.sequence \in 1..n
  BY <1>2
<1>4. {row.sequence : row \in new} = 1..(n + 1)
  <2>1. {row.sequence : row \in new} = {row.sequence : row \in S} \cup {e.sequence}
    OBVIOUS
  <2> QED
    BY <2>1, <1>1, <1>2
<1>5. n = 0 => S = {}
  BY <1>3
<1>6. \A a, b \in new : a.sequence = b.sequence => a = b
  BY <1>1, <1>2, <1>3
<1>7. \A row \in new :
         row.entry_hash = compute_entry_hash(row.previous_hash,
             canonical_event_bytes(row.tenant_id, row.sequence, row.body))
  BY <1>1, <1>2
<1>8. \A row \in new : row.sequence = 1 => row.previous_hash = GENESIS
  BY <1>1, <1>2, <1>3, <1>5
<1>9. \A a, b \in new : b.sequence = a.sequence + 1
                            => b.previous_hash = a.entry_hash
  BY <1>1, <1>2, <1>3
<1>10. \A row \in new : row.sequence = n + 1 => row.entry_hash = g.last_hash
  BY <1>1, <1>3
<1>11. Intact(new, g)
  BY <1>1, <1>4, <1>6, <1>7, <1>8, <1>9, <1>10 DEF Intact
<1> QED
  BY <1>11 DEF e, g

(* The head and the hash lengths when one event is appended to tenant t.     *)
LEMMA CommitAppends ==
  ASSUME TypeOK, LedgerInv, NEW r \in Request, Commit(r)
  PROVE  LET t == TenantOf[r]
             e == AuditEvent(t, head[t].last_sequence + 1,
                             [request |-> r, outcome |-> outcome[r]],
                             head[t].last_hash)
         IN  /\ t \in Tenant
             /\ events' = [events EXCEPT ![t] = @ \cup {e}]
             /\ head' = [head EXCEPT ![t] = ChainHead(e.sequence, e.entry_hash)]
             /\ Intact(events'[t], head'[t])
             /\ e.sequence = head[t].last_sequence + 1
             /\ Len(e.entry_hash) = e.sequence
<1> USE TenantOfType DEF TypeOK
<1> DEFINE t == TenantOf[r]
           e == AuditEvent(t, head[t].last_sequence + 1,
                           [request |-> r, outcome |-> outcome[r]],
                           head[t].last_hash)
<1>1. t \in Tenant /\ seen[r] = head[t]
  BY DEF Commit, LedgerInv, HolderReadsHead
<1>2. e = NewEvent(r)
  BY <1>1 DEF NewEvent
<1>3. /\ events' = [events EXCEPT ![t] = @ \cup {e}]
      /\ head' = [head EXCEPT ![t] = ChainHead(e.sequence, e.entry_hash)]
  BY <1>2 DEF Commit
<1>4. /\ head[t].last_sequence \in Nat
      /\ head[t].last_hash \in Seq(Canonical)
      /\ \A row \in events[t] : row.sequence \in Nat
  BY <1>1 DEF HeadRow, Event
<1>5. Intact(events[t], head[t])
  BY <1>1 DEF LedgerInv, ChainIntact
<1>6. Intact(events[t] \cup {e}, ChainHead(e.sequence, e.entry_hash))
  BY <1>4, <1>5, AppendKeepsIntact
<1>7. events'[t] = events[t] \cup {e} /\ head'[t] = ChainHead(e.sequence, e.entry_hash)
  BY <1>1, <1>3
<1>8. e.sequence = head[t].last_sequence + 1
  BY DEF AuditEvent
<1>9. Len(e.entry_hash) = e.sequence
  <2>1. [tenant_id |-> t, sequence |-> head[t].last_sequence + 1,
         body |-> [request |-> r, outcome |-> outcome[r]]] \in Canonical
    BY <1>1, <1>4 DEF Canonical, Body
  <2>2. e.entry_hash = Append(head[t].last_hash,
           [tenant_id |-> t, sequence |-> head[t].last_sequence + 1,
            body |-> [request |-> r, outcome |-> outcome[r]]])
    BY DEF AuditEvent, compute_entry_hash, canonical_event_bytes
  <2>3. Len(head[t].last_hash) = head[t].last_sequence
    BY <1>1 DEF LedgerInv, HashesCountEvents
  <2> QED
    BY <1>4, <1>8, <2>1, <2>2, <2>3
<1> QED
  BY <1>1, <1>3, <1>6, <1>7, <1>8, <1>9

(* Every step keeps the chain intact and the lock holder's read current.     *)
LEMMA LedgerInvInductive ==
  ASSUME TypeOK, LedgerInv, [Next]_vars
  PROVE  LedgerInv'
<1> USE TenantOfType, NobodyIsNoRequest DEF TypeOK
<1>1. CASE UNCHANGED vars
  BY <1>1 DEF vars, LedgerInv, HolderReadsHead, NoRowNoChain,
              HashesCountEvents, ChainIntact
<1>2. ASSUME NEW r \in Request,
             \/ Arrive(r) \/ BeginDenial(r) \/ InsertHeadConflict(r)
      PROVE  LedgerInv'
  BY <1>2 DEF Arrive, Perform, Forbid, RefuseUnaudited, BeginDenial,
              InsertHeadConflict, dbVars, LedgerInv, HolderReadsHead,
              NoRowNoChain, HashesCountEvents, ChainIntact
<1>3. ASSUME NEW r \in Request, SelectHeadForUpdate(r) \/ InsertHead(r)
      PROVE  LedgerInv'
  <2>1. UNCHANGED <<events, heads, head>>
    BY <1>3 DEF SelectHeadForUpdate, InsertHead
  <2>2. HolderReadsHead'
    BY <1>3, <2>1 DEF SelectHeadForUpdate, InsertHead, LedgerInv,
                      HolderReadsHead, NoRowNoChain
  <2> QED
    BY <2>1, <2>2 DEF LedgerInv, NoRowNoChain, HashesCountEvents, ChainIntact
<1>4. ASSUME NEW r \in Request, Commit(r)
      PROVE  LedgerInv'
  <2> DEFINE t == TenantOf[r]
             e == AuditEvent(t, head[t].last_sequence + 1,
                             [request |-> r, outcome |-> outcome[r]],
                             head[t].last_hash)
  <2>1. /\ t \in Tenant
        /\ events' = [events EXCEPT ![t] = @ \cup {e}]
        /\ head' = [head EXCEPT ![t] = ChainHead(e.sequence, e.entry_hash)]
        /\ Intact(events'[t], head'[t])
        /\ e.sequence = head[t].last_sequence + 1
        /\ Len(e.entry_hash) = e.sequence
    BY <1>4, CommitAppends
  <2> HIDE DEF e
  <2>2. \A s \in Tenant : s # t => events'[s] = events[s] /\ head'[s] = head[s]
    BY <2>1
  <2>3. ChainIntact'
    BY <2>1, <2>2 DEF LedgerInv, ChainIntact
  <2>4. HashesCountEvents'
    <3>1. head'[t].last_hash = e.entry_hash /\ head'[t].last_sequence = e.sequence
      BY <2>1 DEF ChainHead
    <3>2. events'[t] = events[t] \cup {e}
      BY <2>1
    <3> QED
      BY <2>1, <2>2, <3>1, <3>2 DEF LedgerInv, HashesCountEvents
  <2>5. NoRowNoChain'
    BY <1>4, <2>2 DEF Commit, LedgerInv, NoRowNoChain
  <2>6. HolderReadsHead'
    <3> SUFFICES ASSUME NEW q \in Request, pc'[q] = "append"
                 PROVE  lock'[TenantOf[q]] = q /\ seen'[q] = head'[TenantOf[q]]
      BY DEF HolderReadsHead
    <3>1. q # r /\ pc[q] = "append"
      BY <1>4 DEF Commit
    <3>2. lock[TenantOf[q]] = q /\ seen[q] = head[TenantOf[q]]
      BY <3>1 DEF LedgerInv, HolderReadsHead
    <3>3. lock[t] = r
      BY <1>4 DEF Commit, LedgerInv, HolderReadsHead
    <3>4. TenantOf[q] # t
      BY <3>1, <3>2, <3>3
    <3> QED
      BY <1>4, <2>2, <3>1, <3>2, <3>4 DEF Commit, Release
  <2> QED
    BY <2>3, <2>4, <2>5, <2>6 DEF LedgerInv
<1>5. ASSUME NEW r \in Request, Abort(r)
      PROVE  LedgerInv'
  BY <1>5 DEF Abort, Release, LedgerInv, HolderReadsHead, NoRowNoChain,
              HashesCountEvents, ChainIntact
<1> QED
  BY <1>1, <1>2, <1>3, <1>4, <1>5 DEF Next, Proceed

(* An empty ledger satisfies the invariant.                                  *)
LEMMA LedgerInvInitially == Init => LedgerInv
<1> SUFFICES ASSUME Init PROVE LedgerInv
  OBVIOUS
<1>1. HolderReadsHead /\ NoRowNoChain
  BY DEF Init, HolderReadsHead, NoRowNoChain
<1>2. HashesCountEvents
  BY DEF Init, HashesCountEvents, EmptyHead, ChainHead, GENESIS
<1>3. ChainIntact
  BY DEF Init, ChainIntact, Intact, EmptyHead, ChainHead
<1> QED
  BY <1>1, <1>2, <1>3 DEF LedgerInv

(* The inductive invariant of the ledger.                                    *)
THEOREM LedgerInvariant == Spec => []LedgerInv
<1>1. TypeOK /\ LedgerInv /\ [Next]_vars => LedgerInv'
  BY LedgerInvInductive
<1> QED
  BY <1>1, LedgerInvInitially, TypeCorrect, PTL DEF Spec

(* Under any interleaving of requests, failures and crashes, every tenant's  *)
(* committed events and head form an intact hash chain.                      *)
THEOREM ChainAlwaysIntact == Spec => []ChainIntact
<1>1. LedgerInv => ChainIntact
  BY DEF LedgerInv
<1> QED
  BY <1>1, LedgerInvariant, PTL

(* FOR UPDATE makes the read of the head and the append atomic with respect  *)
(* to every other append: the unique constraints never reject a row.         *)
THEOREM AppendsNeverCollide == Spec => []HeadReadIsCurrent
<1>1. TypeOK /\ LedgerInv => HeadReadIsCurrent
  <2> SUFFICES ASSUME TypeOK, LedgerInv, NEW r \in Request, pc[r] = "append"
               PROVE  seen[r] = head[TenantOf[r]] /\ ~UniqueViolation(r)
    BY DEF HeadReadIsCurrent
  <2> DEFINE t == TenantOf[r]
             n == head[t].last_sequence
             body == [request |-> r, outcome |-> outcome[r]]
  <2>1. t \in Tenant /\ seen[r] = head[t]
    BY TenantOfType DEF LedgerInv, HolderReadsHead
  <2>2. n \in Nat /\ head[t].last_hash \in Seq(Canonical)
    BY <2>1 DEF TypeOK, HeadRow
  <2>3. [tenant_id |-> t, sequence |-> n + 1, body |-> body] \in Canonical
    BY <2>1, <2>2 DEF TypeOK, Canonical, Body
  <2>4. /\ NewEvent(r).sequence = n + 1
        /\ NewEvent(r).entry_hash = Append(head[t].last_hash,
               [tenant_id |-> t, sequence |-> n + 1, body |-> body])
    BY <2>1 DEF NewEvent, AuditEvent, compute_entry_hash, canonical_event_bytes
  <2>5. Len(head[t].last_hash) = n
    BY <2>1 DEF LedgerInv, HashesCountEvents
  <2>6. Len(NewEvent(r).entry_hash) = n + 1
    BY <2>2, <2>3, <2>4, <2>5
  <2>7. {row.sequence : row \in events[t]} = 1..n
    BY <2>1 DEF LedgerInv, ChainIntact, Intact
  <2>8. \A row \in events[t] : row.sequence \in 1..n /\ Len(row.entry_hash) = row.sequence
    BY <2>1, <2>7 DEF LedgerInv, HashesCountEvents
  <2>9. ~UniqueViolation(r)
    BY <2>2, <2>4, <2>6, <2>8 DEF UniqueViolation
  <2> QED
    BY <2>1, <2>9
<1> QED
  BY <1>1, LedgerInvariant, TypeCorrect, PTL

(* A request that is answered 200 has its mutation and its event committed,  *)
(* one refused with an audited 403 has a denial event and no mutation, and   *)
(* any other has neither: answers and ledger never disagree.                 *)
THEOREM AnswersAgree == Spec => []AnswersMatchLedger
<1> USE TenantOfType DEF TypeOK
<1>1. Init => AnswersMatchLedger
  BY DEF Init, AnswersMatchLedger, Recorded
<1>2. TypeOK /\ LedgerInv /\ AnswersMatchLedger /\ [Next]_vars => AnswersMatchLedger'
  <2> SUFFICES ASSUME TypeOK, LedgerInv, AnswersMatchLedger, [Next]_vars
               PROVE  AnswersMatchLedger'
    OBVIOUS
  <2>1. CASE UNCHANGED vars
    BY <2>1 DEF vars, AnswersMatchLedger, Recorded
  <2>2. ASSUME NEW r \in Request, Commit(r) PROVE AnswersMatchLedger'
    <3> DEFINE t == TenantOf[r]
               body == [request |-> r, outcome |-> outcome[r]]
               e == AuditEvent(t, head[t].last_sequence + 1, body, head[t].last_hash)
    <3>1. t \in Tenant /\ events' = [events EXCEPT ![t] = @ \cup {e}]
      BY <2>2, CommitAppends
    <3>2. e.body = body
      BY DEF AuditEvent
    <3> HIDE DEF e
    <3>3. \A q \in Request, o \in {"success", "denied"} :
             Recorded(q, o)' <=> Recorded(q, o) \/ (q = r /\ o = outcome[r])
      BY <3>1, <3>2 DEF Recorded
    <3>4. ~Recorded(r, "success") /\ ~Recorded(r, "denied") /\ r \notin applied
      BY <2>2 DEF Commit, AnswersMatchLedger
    <3> QED
      BY <2>2, <3>3, <3>4 DEF Commit, AnswersMatchLedger
  <2>3. ASSUME NEW r \in Request, Arrive(r) \/ BeginDenial(r) \/ InsertHeadConflict(r)
               \/ SelectHeadForUpdate(r) \/ InsertHead(r) \/ Abort(r)
        PROVE  AnswersMatchLedger'
    <3>1. /\ UNCHANGED <<events, applied>>
          /\ pc[r] \notin {"ok", "forbidden"} /\ pc'[r] \notin {"ok", "forbidden"}
          /\ \A q \in Request : q # r => pc'[q] = pc[q]
      BY <2>3 DEF Arrive, Perform, Forbid, RefuseUnaudited, BeginDenial, Abort,
                  InsertHeadConflict, SelectHeadForUpdate, InsertHead, dbVars,
                  Working
    <3> QED
      BY <3>1 DEF AnswersMatchLedger, Recorded
  <2> QED
    BY <2>1, <2>2, <2>3 DEF Next, Proceed
<1> QED
  BY <1>1, <1>2, LedgerInvariant, TypeCorrect, PTL DEF Spec

-------------------------------------------------------------------------------
(* The body at position i of a log read from rows whose sequences are unique. *)
LEMMA RowAtPosition ==
  ASSUME NEW S, NEW row \in S,
         \A a, b \in S : a.sequence = b.sequence => a = b
  PROVE  (CHOOSE x \in S : x.sequence = row.sequence) = row
OBVIOUS

(* A commit appends exactly one entry to the tenant's log.                    *)
LEMMA CommitExtendsLog ==
  ASSUME TypeOK, LedgerInv, NEW r \in Request, Commit(r)
  PROVE  /\ \A s \in Tenant : s # TenantOf[r] => LogOf(s)' = LogOf(s)
         /\ LogOf(TenantOf[r])' =
               Append(LogOf(TenantOf[r]), [request |-> r, outcome |-> outcome[r]])
<1> DEFINE t == TenantOf[r]
           n == head[t].last_sequence
           body == [request |-> r, outcome |-> outcome[r]]
           e == AuditEvent(t, n + 1, body, head[t].last_hash)
<1>1. /\ t \in Tenant
      /\ events' = [events EXCEPT ![t] = @ \cup {e}]
      /\ head' = [head EXCEPT ![t] = ChainHead(e.sequence, e.entry_hash)]
      /\ Intact(events'[t], head'[t])
      /\ e.sequence = n + 1
  BY CommitAppends
<1>2. n \in Nat
  BY <1>1 DEF TypeOK, HeadRow
<1>3. e.body = body
  BY DEF AuditEvent
<1> HIDE DEF e
<1>4. /\ events'[t] = events[t] \cup {e}
      /\ head'[t].last_sequence = n + 1
  BY <1>1 DEF TypeOK, ChainHead
<1>5. /\ {row.sequence : row \in events[t]} = 1..n
      /\ \A a, b \in events[t] : a.sequence = b.sequence => a = b
      /\ \A a, b \in events'[t] : a.sequence = b.sequence => a = b
  BY <1>1 DEF LedgerInv, ChainIntact, Intact
<1>6. \A s \in Tenant : s # t => LogOf(s)' = LogOf(s)
  BY <1>1 DEF LogOf, TypeOK
<1>7. ASSUME NEW i \in 1..n
      PROVE  (CHOOSE row \in events'[t] : row.sequence = i)
                = (CHOOSE row \in events[t] : row.sequence = i)
  <2>1. PICK row \in events[t] : row.sequence = i
    BY <1>5
  <2>2. (CHOOSE x \in events[t] : x.sequence = i) = row
    BY <1>5, <2>1, RowAtPosition
  <2>3. (CHOOSE x \in events'[t] : x.sequence = i) = row
    BY <1>4, <1>5, <2>1, RowAtPosition
  <2> QED
    BY <2>2, <2>3
<1>8. (CHOOSE row \in events'[t] : row.sequence = n + 1) = e
  BY <1>1, <1>4, <1>5, RowAtPosition
<1>9. LogOf(t)' = [i \in 1..(n + 1) |->
                     (CHOOSE row \in events'[t] : row.sequence = i).body]
  BY <1>4 DEF LogOf
<1>10. LogOf(t) = [i \in 1..n |-> (CHOOSE row \in events[t] : row.sequence = i).body]
  BY DEF LogOf
<1>11. Append(LogOf(t), body) = [i \in 1..(n + 1) |->
           IF i = n + 1 THEN body ELSE (CHOOSE row \in events[t] : row.sequence = i).body]
  BY <1>2, <1>10
<1>12. LogOf(t)' = Append(LogOf(t), body)
  <2> DEFINE old(i) == (CHOOSE row \in events[t] : row.sequence = i).body
             new(i) == (CHOOSE row \in events'[t] : row.sequence = i).body
  <2>1. \A i \in 1..(n + 1) : new(i) = IF i = n + 1 THEN body ELSE old(i)
    <3> SUFFICES ASSUME NEW i \in 1..(n + 1)
                 PROVE  new(i) = IF i = n + 1 THEN body ELSE old(i)
      OBVIOUS
    <3>1. CASE i = n + 1
      BY <1>3, <1>8, <3>1
    <3>2. CASE i \in 1..n
      <4>1. new(i) = old(i)
        BY <1>7, <3>2, Zenon
      <4> QED
        BY <1>2, <3>2, <4>1 DEF new, old
    <3> QED
      BY <1>2, <3>1, <3>2
  <2>2. /\ LogOf(t)' = [i \in 1..(n + 1) |-> new(i)]
        /\ Append(LogOf(t), body) =
              [i \in 1..(n + 1) |-> IF i = n + 1 THEN body ELSE old(i)]
    BY <1>9, <1>11
  <2> HIDE DEF old, new, n, body
  <2> QED
    BY <2>1, <2>2
<1> QED
  BY <1>6, <1>12

(* The ledger implements the abstract log: under the mapping LogOf every     *)
(* commit is one Mutate or Refuse step and every other step changes nothing. *)
THEOREM LedgerImplementsLog == Spec => LedgerIsALog
<1>1. Init => Promise!LogInit
  <2> SUFFICES ASSUME Init PROVE Promise!LogInit
    OBVIOUS
  <2>1. \A t \in Tenant : LogOf(t) = <<>>
    BY DEF Init, LogOf, EmptyHead, ChainHead
  <2> QED
    BY <2>1 DEF Init, Promise!LogInit
<1>2. /\ TypeOK /\ LedgerInv /\ AnswersMatchLedger /\ [Next]_vars
      => [Promise!LogNext]_(Promise!logVars)
  <2> SUFFICES ASSUME TypeOK, LedgerInv, AnswersMatchLedger, [Next]_vars
               PROVE  [Promise!LogNext]_(Promise!logVars)
    OBVIOUS
  <2>1. ASSUME UNCHANGED <<events, head, applied>>
        PROVE  [Promise!LogNext]_(Promise!logVars)
    BY <2>1 DEF Promise!logVars, LogOf
  <2>2. ASSUME NEW r \in Request, Commit(r)
        PROVE  Promise!LogNext
    <3> DEFINE t == TenantOf[r]
    <3>1. t \in Tenant /\ outcome[r] \in {"success", "denied"}
      BY TenantOfType DEF TypeOK
    <3>2. r \notin applied
      BY <2>2 DEF Commit, AnswersMatchLedger
    <3>3. [s \in Tenant |-> LogOf(s)]' =
             [[s \in Tenant |-> LogOf(s)] EXCEPT
                 ![t] = Append(@, [request |-> r, outcome |-> outcome[r]])]
      BY <2>2, <3>1, CommitExtendsLog
    <3>4. applied' = IF outcome[r] = "success" THEN applied \cup {r} ELSE applied
      BY <2>2 DEF Commit
    <3>5. CASE outcome[r] = "success"
      BY <3>1, <3>2, <3>3, <3>4, <3>5 DEF Promise!LogNext, Promise!Mutate
    <3>6. CASE outcome[r] = "denied"
      BY <3>1, <3>2, <3>3, <3>4, <3>6 DEF Promise!LogNext, Promise!Refuse
    <3> QED
      BY <3>1, <3>5, <3>6
  <2>3. ASSUME NEW r \in Request, Arrive(r) \/ BeginDenial(r) \/ InsertHeadConflict(r)
               \/ SelectHeadForUpdate(r) \/ InsertHead(r) \/ Abort(r)
        PROVE  UNCHANGED <<events, head, applied>>
    BY <2>3 DEF Arrive, Perform, Forbid, RefuseUnaudited, BeginDenial, Abort,
                InsertHeadConflict, SelectHeadForUpdate, InsertHead, dbVars
  <2>4. CASE UNCHANGED vars
    BY <2>1, <2>4 DEF vars
  <2> QED
    BY <2>1, <2>2, <2>3, <2>4 DEF Next, Proceed
<1> QED
  BY <1>1, <1>2, TypeCorrect, LedgerInvariant, AnswersAgree, PTL
     DEF Spec, LedgerIsALog, Promise!LogSpec

-------------------------------------------------------------------------------
(* What SELECT ... ORDER BY sequence is given: finitely many rows whose        *)
(* sequences uq_audit_tenant_sequence keeps apart.                             *)
Orderable(S) ==
    /\ IsFiniteSet(S)
    /\ \A x \in S : x.sequence \in Nat
    /\ \A x, y \in S : x.sequence = y.sequence => x = y

Below(S, row) == {x \in S : x.sequence < row.sequence}

(* Counting the rows below them ranks n rows from 0 to n - 1, without a gap:   *)
(* the ranks are n different ones out of n.                                    *)
LEMMA RanksHaveNoGap ==
  ASSUME NEW S, Orderable(S)
  PROVE  /\ Cardinality(S) \in Nat
         /\ \A i \in 1..Cardinality(S) : \E x \in S : Cardinality(Below(S, x)) = i - 1
         /\ \A x \in S : Cardinality(Below(S, x)) \in 0..(Cardinality(S) - 1)
         /\ \A x, y \in S : Cardinality(Below(S, x)) = Cardinality(Below(S, y)) => x = y
<1> DEFINE n == Cardinality(S)
           rank == [x \in S |-> Cardinality(Below(S, x))]
<1>1. IsFiniteSet(S) /\ n \in Nat
  BY FS_CardinalityType DEF Orderable
<1>2. \A x \in S : /\ IsFiniteSet(Below(S, x))
                   /\ Cardinality(Below(S, x)) \in Nat
  <2> SUFFICES ASSUME NEW x \in S
               PROVE  IsFiniteSet(Below(S, x)) /\ Cardinality(Below(S, x)) \in Nat
    OBVIOUS
  <2>1. Below(S, x) \in SUBSET S
    BY DEF Below
  <2> QED
    BY <1>1, <2>1, FS_Subset, FS_CardinalityType
<1>3. \A x, y \in S : x.sequence < y.sequence
                        => Cardinality(Below(S, x)) < Cardinality(Below(S, y))
  <2> SUFFICES ASSUME NEW x \in S, NEW y \in S, x.sequence < y.sequence
               PROVE  Cardinality(Below(S, x)) < Cardinality(Below(S, y))
    OBVIOUS
  <2>1. /\ Below(S, x) \in SUBSET Below(S, y)
        /\ x \in Below(S, y) /\ x \notin Below(S, x)
    BY DEF Below, Orderable
  <2>2. /\ Cardinality(Below(S, x)) <= Cardinality(Below(S, y))
        /\ Cardinality(Below(S, y)) # Cardinality(Below(S, x))
    BY <1>2, <2>1, FS_Subset
  <2> QED
    BY <1>2, <2>2
<1>4. \A x \in S : Cardinality(Below(S, x)) \in 0..(n - 1)
  <2> SUFFICES ASSUME NEW x \in S PROVE Cardinality(Below(S, x)) \in 0..(n - 1)
    OBVIOUS
  <2>1. Below(S, x) \in SUBSET S /\ x \notin Below(S, x)
    BY DEF Below, Orderable
  <2>2. Cardinality(Below(S, x)) <= n /\ n # Cardinality(Below(S, x))
    BY <1>1, <2>1, FS_Subset
  <2> QED
    BY <1>1, <1>2, <2>2
<1>5. \A x, y \in S : Cardinality(Below(S, x)) = Cardinality(Below(S, y)) => x = y
  BY <1>2, <1>3 DEF Orderable
<1>6. rank \in Injection(S, 0..(n - 1))
  BY <1>4, <1>5 DEF Injection, IsInjective
<1>7. IsFiniteSet(0..(n - 1)) /\ Cardinality(0..(n - 1)) = n
  BY <1>1, FS_Interval
<1>8. rank \in Surjection(S, 0..(n - 1))
  <2> HIDE DEF rank, n
  <2> QED
    BY <1>7, <1>6, FS_Injection DEF n
<1>9. \A i \in 1..n : \E x \in S : Cardinality(Below(S, x)) = i - 1
  <2>1. \A j \in 0..(n - 1) : \E x \in S : rank[x] = j
    BY <1>8 DEF Surjection
  <2>2. \A i \in 1..n : i - 1 \in 0..(n - 1)
    BY <1>1
  <2> QED
    BY <2>1, <2>2
<1> QED
  BY <1>1, <1>4, <1>5, <1>9

(* list_all_ordered returns each row once, at its rank.                        *)
LEMMA ListedInOrder ==
  ASSUME NEW S, Orderable(S)
  PROVE  LET evs == list_all_ordered(S)
             n == Cardinality(S)
         IN  /\ n \in Nat /\ evs \in Seq(S) /\ Len(evs) = n
             /\ \A i \in 1..n : evs[i] \in S /\ Cardinality(Below(S, evs[i])) = i - 1
             /\ \A x \in S : \E i \in 1..n : evs[i] = x
<1> DEFINE n == Cardinality(S)
           evs == list_all_ordered(S)
<1>1. /\ n \in Nat
      /\ \A i \in 1..n : \E x \in S : Cardinality(Below(S, x)) = i - 1
      /\ \A x \in S : Cardinality(Below(S, x)) \in 0..(n - 1)
      /\ \A x, y \in S : Cardinality(Below(S, x)) = Cardinality(Below(S, y)) => x = y
  BY RanksHaveNoGap
<1>2. evs = [i \in 1..n |-> CHOOSE x \in S : Cardinality(Below(S, x)) = i - 1]
  BY DEF list_all_ordered, Below
<1>3. \A i \in 1..n : evs[i] \in S /\ Cardinality(Below(S, evs[i])) = i - 1
  BY <1>1, <1>2
<1>4. evs \in Seq(S) /\ Len(evs) = n
  BY <1>1, <1>2, <1>3
<1>5. ASSUME NEW x \in S PROVE \E i \in 1..n : evs[i] = x
  <2> DEFINE i == Cardinality(Below(S, x)) + 1
  <2>1. i \in 1..n /\ i - 1 = Cardinality(Below(S, x))
    BY <1>1
  <2>2. evs[i] \in S /\ Cardinality(Below(S, evs[i])) = Cardinality(Below(S, x))
    BY <1>3, <2>1
  <2> QED
    BY <1>1, <2>1, <2>2
<1> QED
  BY <1>1, <1>3, <1>4, <1>5

(* Rows at the sequences 1 to k are k rows.                                    *)
LEMMA CountedBySequence ==
  ASSUME NEW T, NEW k \in Nat,
         {x.sequence : x \in T} = 1..k,
         \A x, y \in T : x.sequence = y.sequence => x = y
  PROVE  IsFiniteSet(T) /\ Cardinality(T) = k
<1> DEFINE f == [x \in T |-> x.sequence]
<1>1. f \in Injection(T, 1..k) /\ f \in Surjection(T, 1..k)
  BY DEF Injection, IsInjective, Surjection
<1>2. IsFiniteSet(1..k) /\ Cardinality(1..k) = k
  BY FS_Interval
<1> HIDE DEF f
<1> QED
  BY <1>1, <1>2, FS_Injection

(* An intact chain is listed in the order of its sequences.                    *)
LEMMA IntactIsListed ==
  ASSUME NEW S, NEW h, h.last_sequence \in Nat, Intact(S, h)
  PROVE  /\ Orderable(S)
         /\ Cardinality(S) = h.last_sequence
         /\ Len(list_all_ordered(S)) = h.last_sequence
         /\ \A i \in 1..h.last_sequence :
               list_all_ordered(S)[i] \in S /\ list_all_ordered(S)[i].sequence = i
<1> DEFINE n == h.last_sequence
           evs == list_all_ordered(S)
<1>1. /\ {x.sequence : x \in S} = 1..n
      /\ \A x, y \in S : x.sequence = y.sequence => x = y
  BY DEF Intact
<1>2. IsFiniteSet(S) /\ Cardinality(S) = n
  BY <1>1, CountedBySequence
<1>3. Orderable(S)
  BY <1>1, <1>2 DEF Orderable
<1>4. ASSUME NEW x \in S PROVE Cardinality(Below(S, x)) = x.sequence - 1
  <2>1. x.sequence - 1 \in Nat /\ x.sequence \in 1..n
    BY <1>1
  <2>2. {y.sequence : y \in Below(S, x)} = 1..(x.sequence - 1)
    <3>1. \A k \in 1..(x.sequence - 1) : \E y \in S : y.sequence = k
      BY <1>1, <2>1
    <3>2. \A y \in Below(S, x) : y.sequence \in 1..(x.sequence - 1)
      BY <1>1, <2>1 DEF Below
    <3>3. \A k \in 1..(x.sequence - 1) : \E y \in Below(S, x) : y.sequence = k
      BY <2>1, <3>1 DEF Below
    <3> QED
      BY <3>2, <3>3
  <2>3. \A y, z \in Below(S, x) : y.sequence = z.sequence => y = z
    BY <1>1 DEF Below
  <2> QED
    BY <2>1, <2>2, <2>3, CountedBySequence
<1>5. /\ Len(evs) = n
      /\ \A i \in 1..n : evs[i] \in S /\ Cardinality(Below(S, evs[i])) = i - 1
  BY <1>2, <1>3, ListedInOrder
<1>6. ASSUME NEW i \in 1..n PROVE evs[i].sequence = i
  <2>1. evs[i] \in S /\ Cardinality(Below(S, evs[i])) = i - 1
    BY <1>5
  <2>2. Cardinality(Below(S, evs[i])) = evs[i].sequence - 1
    BY <1>4, <2>1
  <2>3. evs[i].sequence \in 1..n
    BY <1>1, <2>1
  <2> QED
    BY <2>1, <2>2, <2>3
<1> QED
  BY <1>2, <1>3, <1>5, <1>6

(* The walk finds nothing to blame in rows of an intact chain that are listed  *)
(* from the first one on, be it all of them or not.                            *)
LEMMA NothingToBlame ==
  ASSUME NEW S, NEW h, Intact(S, h),
         NEW evs, NEW n \in Nat, Len(evs) = n,
         \A i \in 1..n : evs[i] \in S /\ evs[i].sequence = i
  PROVE  {i \in 1..Len(evs) : FailureAt(evs, i) # "none"} = {}
<1> SUFFICES ASSUME NEW i \in 1..n PROVE FailureAt(evs, i) = "none"
  OBVIOUS
<1>1. evs[i] \in S /\ evs[i].sequence = i
  OBVIOUS
<1>2. evs[i].previous_hash = expected_previous(evs, i)
  <2>1. CASE i = 1
    BY <1>1, <2>1 DEF Intact, expected_previous
  <2>2. CASE i # 1
    <3>1. i - 1 \in 1..n
      BY <2>2
    <3>2. evs[i - 1] \in S /\ evs[i].sequence = evs[i - 1].sequence + 1
      BY <1>1, <3>1
    <3> QED
      BY <1>1, <2>2, <3>2 DEF Intact, expected_previous
  <2> QED
    BY <2>1, <2>2
<1>3. evs[i].entry_hash = recomputed(evs, i)
  BY <1>1, <1>2 DEF Intact, recomputed
<1> QED
  BY <1>1, <1>2, <1>3 DEF FailureAt

(* A walk that blames no row has found each row at its place, linked to the    *)
(* one before it and with the hash of its content.                             *)
LEMMA FoundInPlace ==
  ASSUME NEW S, Orderable(S),
         {i \in 1..Len(list_all_ordered(S)) : FailureAt(list_all_ordered(S), i) # "none"} = {}
  PROVE  LET evs == list_all_ordered(S)
         IN  /\ {x.sequence : x \in S} = 1..Len(evs)
             /\ \A x \in S : /\ x = evs[x.sequence]
                             /\ x.previous_hash = expected_previous(evs, x.sequence)
                             /\ x.entry_hash = compute_entry_hash(x.previous_hash,
                                  canonical_event_bytes(x.tenant_id, x.sequence, x.body))
<1> DEFINE evs == list_all_ordered(S)
           n == Cardinality(S)
<1>1. /\ n \in Nat /\ Len(evs) = n
      /\ \A i \in 1..n : evs[i] \in S
      /\ \A x \in S : \E i \in 1..n : evs[i] = x
  BY ListedInOrder
<1>2. ASSUME NEW i \in 1..n
      PROVE  /\ evs[i].sequence = i
             /\ evs[i].previous_hash = expected_previous(evs, i)
             /\ evs[i].entry_hash = recomputed(evs, i)
  <2>1. FailureAt(evs, i) = "none"
    BY <1>1
  <2> QED
    BY <2>1 DEF FailureAt
<1>3. ASSUME NEW x \in S
      PROVE  /\ x.sequence \in 1..n
             /\ x = evs[x.sequence]
             /\ x.previous_hash = expected_previous(evs, x.sequence)
             /\ x.entry_hash = compute_entry_hash(x.previous_hash,
                   canonical_event_bytes(x.tenant_id, x.sequence, x.body))
  <2>1. PICK i \in 1..n : evs[i] = x
    BY <1>1
  <2>2. x.sequence = i
    BY <1>2, <2>1
  <2> QED
    BY <1>2, <2>1, <2>2 DEF recomputed
<1>4. \A i \in 1..n : \E x \in S : x.sequence = i
  BY <1>1, <1>2
<1>5. {x.sequence : x \in S} = 1..n
  BY <1>3, <1>4
<1> HIDE DEF evs, n
<1>6. /\ {x.sequence : x \in S} = 1..Len(evs)
      /\ \A x \in S : /\ x = evs[x.sequence]
                      /\ x.previous_hash = expected_previous(evs, x.sequence)
                      /\ x.entry_hash = compute_entry_hash(x.previous_hash,
                           canonical_event_bytes(x.tenant_id, x.sequence, x.body))
  BY <1>1, <1>3, <1>5
<1> QED
  BY <1>6 DEF evs

(* verify_chain accepts a table and a head exactly when they are an intact     *)
(* chain, whatever the table holds: as many rows as one likes, with gaps,      *)
(* foreign hashes or broken links.                                             *)
THEOREM VerifyDecides ==
  ASSUME NEW S, Orderable(S),
         NEW H, NEW h \in [last_sequence : Nat, last_hash : H]
  PROVE  verify_chain(list_all_ordered(S), {h}).ok <=> Intact(S, h)
<1> DEFINE evs == list_all_ordered(S)
           failed == {i \in 1..Len(evs) : FailureAt(evs, i) # "none"}
           final == expected_previous(evs, Len(evs) + 1)
<1>1. verify_chain(evs, {h}).ok <=> failed = {} /\ h = ChainHead(Len(evs), final)
  <2>1. \A a, b, c : Verdict(a, b, c).ok = a
    BY DEF Verdict
  <2>2. CASE failed # {}
    BY <2>1, <2>2 DEF verify_chain
  <2>3. CASE failed = {} /\ h # ChainHead(Len(evs), final)
    BY <2>1, <2>3 DEF verify_chain
  <2>4. CASE failed = {} /\ h = ChainHead(Len(evs), final)
    BY <2>1, <2>4 DEF verify_chain
  <2> QED
    BY <2>2, <2>3, <2>4
<1>2. ASSUME Intact(S, h) PROVE failed = {} /\ h = ChainHead(Len(evs), final)
  <2> DEFINE n == h.last_sequence
  <2>1. /\ Len(evs) = n
        /\ \A i \in 1..n : evs[i] \in S /\ evs[i].sequence = i
    BY <1>2, IntactIsListed
  <2>2. failed = {}
    BY <1>2, <2>1, NothingToBlame
  <2>3. final = h.last_hash
    <3>1. CASE n = 0
      <4>1. S = {}
        BY <1>2, <3>1 DEF Intact
      <4> QED
        BY <1>2, <2>1, <3>1, <4>1 DEF Intact, expected_previous
    <3>2. CASE n # 0
      <4>1. n \in 1..n /\ n + 1 # 1 /\ (n + 1) - 1 = n
        BY <3>2
      <4>2. evs[n] \in S /\ evs[n].sequence = n
        BY <2>1, <4>1
      <4>3. evs[n].entry_hash = h.last_hash
        BY <1>2, <4>2 DEF Intact
      <4> QED
        BY <2>1, <4>1, <4>3 DEF expected_previous
    <3> QED
      BY <3>1, <3>2
  <2> QED
    BY <2>1, <2>2, <2>3 DEF ChainHead
<1>3. ASSUME failed = {}, h = ChainHead(Len(evs), final) PROVE Intact(S, h)
  <2>1. /\ {x.sequence : x \in S} = 1..Len(evs)
        /\ \A x \in S : /\ x = evs[x.sequence]
                        /\ x.previous_hash = expected_previous(evs, x.sequence)
                        /\ x.entry_hash = compute_entry_hash(x.previous_hash,
                             canonical_event_bytes(x.tenant_id, x.sequence, x.body))
    BY <1>3, FoundInPlace
  <2>2. h.last_sequence = Len(evs) /\ h.last_hash = final
    BY <1>3 DEF ChainHead
  <2> HIDE DEF evs, final
  <2>3. \A x \in S : x.sequence \in Nat \ {0}
    BY <2>1, <2>2
  <2>4. \A x \in S : x.sequence = 1 => x.previous_hash = GENESIS
    BY <2>1 DEF expected_previous
  <2>5. ASSUME NEW a \in S, NEW b \in S, b.sequence = a.sequence + 1
        PROVE  b.previous_hash = a.entry_hash
    <3>1. b.sequence # 1 /\ b.sequence - 1 = a.sequence
      BY <2>3, <2>5
    <3> QED
      BY <2>1, <3>1 DEF expected_previous
  <2>6. ASSUME NEW a \in S, a.sequence = Len(evs) PROVE a.entry_hash = final
    <3>1. Len(evs) + 1 # 1 /\ (Len(evs) + 1) - 1 = a.sequence
      BY <2>3, <2>6
    <3> QED
      BY <2>1, <3>1 DEF expected_previous, final
  <2>7. ASSUME S = {} PROVE final = GENESIS
    <3>1. Len(evs) = 0
      BY <2>1, <2>2, <2>7
    <3> QED
      BY <3>1 DEF expected_previous, final
  <2> QED
    BY <2>1, <2>2, <2>4, <2>5, <2>6, <2>7 DEF Intact
<1> QED
  BY <1>1, <1>2, <1>3

-------------------------------------------------------------------------------
(* Of finitely many rows one is the last.                                      *)
LEMMA OneIsLast ==
  ASSUME NEW S, Orderable(S), S # {}
  PROVE  \E x \in S : \A y \in S : y.sequence <= x.sequence
<1> DEFINE n == Cardinality(S)
<1>1. IsFiniteSet(S) /\ n \in Nat /\ n # 0
  BY FS_CardinalityType, FS_EmptySet DEF Orderable
<1>2. n \in 1..n
  BY <1>1
<1>3. PICK x \in S : Cardinality(Below(S, x)) = n - 1
  BY <1>2, RanksHaveNoGap
<1>4. IsFiniteSet(S \ {x}) /\ Cardinality(S \ {x}) = n - 1
  BY <1>1, FS_RemoveElement
<1>5. Below(S, x) \in SUBSET (S \ {x})
  BY DEF Below, Orderable
<1>6. Below(S, x) = S \ {x}
  BY <1>3, <1>4, <1>5, FS_Subset
<1>7. \A y \in S : y.sequence <= x.sequence
  BY <1>6 DEF Below, Orderable
<1> QED
  BY <1>7

(* A hash commits to the row it is the hash of.                                *)
LEMMA SameHashSameRow ==
  ASSUME NEW x \in StoredRow, NEW y \in StoredRow,
         x.entry_hash = compute_entry_hash(x.previous_hash,
              canonical_event_bytes(x.tenant_id, x.sequence, x.body)),
         y.entry_hash = compute_entry_hash(y.previous_hash,
              canonical_event_bytes(y.tenant_id, y.sequence, y.body)),
         x.entry_hash = y.entry_hash
  PROVE  x = y
<1> DEFINE c == canonical_event_bytes(x.tenant_id, x.sequence, x.body)
           d == canonical_event_bytes(y.tenant_id, y.sequence, y.body)
<1>1. /\ x.previous_hash \in Seq(Sealed) /\ y.previous_hash \in Seq(Sealed)
      /\ c \in Sealed /\ d \in Sealed
  BY DEF StoredRow, Sealed, canonical_event_bytes
<1>2. Append(x.previous_hash, c) = Append(y.previous_hash, d)
  BY DEF compute_entry_hash
<1>3. x.previous_hash = y.previous_hash /\ c = d
  <2> HIDE DEF c, d
  <2> SUFFICES ASSUME NEW p \in Seq(Sealed), NEW q \in Seq(Sealed), Append(p, c) = Append(q, d)
               PROVE  p = q /\ c = d
    BY <1>1, <1>2
  <2>1. Len(p) = Len(q)
    BY <1>1
  <2>2. c = d
    BY <1>1, <2>1
  <2>3. \A i \in 1..Len(p) : p[i] = q[i]
    BY <1>1, <2>1
  <2> QED
    BY <2>1, <2>2, <2>3
<1>4. /\ x.tenant_id = y.tenant_id /\ x.sequence = y.sequence /\ x.body = y.body
  BY <1>3 DEF canonical_event_bytes
<1> QED
  BY <1>3, <1>4 DEF StoredRow

(* Every row of one of two intact chains with the same head is in the other:   *)
(* the last row that was not would have the hash of the other's row there,     *)
(* because the head, or the next row, says so.                                 *)
LEMMA HeadFixesRows ==
  ASSUME NEW S \in SUBSET StoredRow, NEW T \in SUBSET StoredRow,
         NEW h, h.last_sequence \in Nat, Intact(S, h), Intact(T, h)
  PROVE  S \subseteq T
<1> DEFINE X == S \ T
           n == h.last_sequence
<1> SUFFICES ASSUME X # {} PROVE FALSE
  OBVIOUS
<1>1. Orderable(X)
  <2>1. Orderable(S)
    BY IntactIsListed
  <2> QED
    BY <2>1, FS_Subset DEF Orderable
<1>2. PICK x \in X : \A y \in X : y.sequence <= x.sequence
  BY <1>1, OneIsLast
<1>3. x \in S /\ x.sequence \in 1..n
  BY DEF Intact
<1>4. PICK y \in T : y.sequence = x.sequence
  BY <1>3 DEF Intact
<1>5. x.entry_hash = y.entry_hash
  <2>1. CASE x.sequence = n
    BY <1>3, <1>4, <2>1 DEF Intact
  <2>2. CASE x.sequence # n
    <3>1. x.sequence + 1 \in 1..n
      BY <1>3, <2>2
    <3>2. PICK z \in S : z.sequence = x.sequence + 1
      BY <3>1 DEF Intact
    <3>3. z \in T
      BY <1>2, <1>3, <3>2
    <3> QED
      BY <1>3, <1>4, <3>2, <3>3 DEF Intact
  <2> QED
    BY <2>1, <2>2
<1>6. x = y
  BY <1>3, <1>4, <1>5, SameHashSameRow DEF Intact
<1> QED
  BY <1>4, <1>6

(* As long as the head row stands, whatever else is in the table than what     *)
(* was written is noticed: not only by the alterations AuditTamper makes.      *)
THEOREM AnyAlterationIsNoticed ==
  ASSUME NEW S \in SUBSET StoredRow, Orderable(S),
         NEW T \in SUBSET StoredRow,
         NEW h \in [last_sequence : Nat, last_hash : Seq(Sealed)], Intact(T, h)
  PROVE  verify_chain(list_all_ordered(S), {h}).ok <=> S = T
<1>1. verify_chain(list_all_ordered(S), {h}).ok <=> Intact(S, h)
  BY VerifyDecides
<1>2. Intact(S, h) => S = T
  <2> SUFFICES ASSUME Intact(S, h) PROVE S = T
    OBVIOUS
  <2>1. h.last_sequence \in Nat
    OBVIOUS
  <2>2. S \subseteq T
    BY <2>1, HeadFixesRows
  <2>3. T \subseteq S
    BY <2>1, HeadFixesRows
  <2> QED
    BY <2>2, <2>3
<1> QED
  BY <1>1, <1>2

(* A finite table of typed rows stays one when some rows are taken out and one *)
(* whose sequence the others do not have is put in.                            *)
LEMMA TableChanges ==
  ASSUME RowsInTable, NEW kept \in SUBSET rows,
         NEW e \in StoredRow, \A x \in kept : x.sequence # e.sequence
  PROVE  /\ kept \subseteq StoredRow /\ IsFiniteSet(kept)
         /\ \A a, b \in kept : a.sequence = b.sequence => a = b
         /\ kept \cup {e} \subseteq StoredRow /\ IsFiniteSet(kept \cup {e})
         /\ \A a, b \in kept \cup {e} : a.sequence = b.sequence => a = b
<1>1. IsFiniteSet(kept)
  BY FS_Subset DEF RowsInTable
<1>2. IsFiniteSet(kept \cup {e})
  BY <1>1, FS_AddElement
<1> QED
  BY <1>1, <1>2 DEF RowsInTable

(* What record() and a rehashing alteration build is a row of the table.       *)
LEMMA BuiltRow ==
  ASSUME NEW n \in Nat, NEW b \in Content, NEW p \in Seq(Sealed)
  PROVE  /\ AuditEvent(Owner, n, b, p) \in StoredRow
         /\ AuditEvent(Owner, n, b, p).sequence = n
<1>1. canonical_event_bytes(Owner, n, b) \in Sealed
  BY DEF canonical_event_bytes, Sealed
<1>2. compute_entry_hash(p, canonical_event_bytes(Owner, n, b)) \in Seq(Sealed)
  BY <1>1 DEF compute_entry_hash
<1> QED
  BY <1>2 DEF AuditEvent, StoredRow

(* An alteration leaves a table, and what was written as it was.               *)
LEMMA EditKeeps ==
  ASSUME TamperInv, NEW new, Edit(new),
         new \subseteq StoredRow, IsFiniteSet(new),
         \A a, b \in new : a.sequence = b.sequence => a = b
  PROVE  TamperInv'
BY DEF TamperInv, Edit, RowsInTable, WrittenIntact

(* record() extends the chain it wrote before.                                 *)
LEMMA RecordKeeps ==
  ASSUME TamperInv, NEW b \in Content, record(b)
  PROVE  TamperInv'
<1> DEFINE e == AuditEvent(Owner, tip.last_sequence + 1, b, tip.last_hash)
<1>1. /\ tip.last_sequence \in Nat /\ tip.last_sequence + 1 \in Nat
      /\ tip.last_hash \in Seq(Sealed) /\ written \subseteq StoredRow
      /\ Intact(written, tip) /\ rows = written /\ edits \in Nat
  BY DEF TamperInv, WrittenIntact, record
<1>2. /\ e \in StoredRow /\ e.sequence = tip.last_sequence + 1
      /\ e.entry_hash \in Seq(Sealed)
  <2>1. e \in StoredRow /\ e.sequence = tip.last_sequence + 1
    BY <1>1, BuiltRow
  <2> QED
    BY <2>1 DEF StoredRow
<1>3. /\ rows' = rows \cup {e} /\ written' = written \cup {e}
      /\ tip' = ChainHead(e.sequence, e.entry_hash) /\ edits' = edits
  BY DEF record
<1>4. Intact(written \cup {e}, ChainHead(e.sequence, e.entry_hash))
  <2>1. \A row \in written : row.sequence \in Nat
    BY <1>1 DEF StoredRow
  <2> QED
    BY <1>1, <2>1, AppendKeepsIntact
<1> HIDE DEF e
<1>5. \A x \in rows : x.sequence # e.sequence
  <2>1. \A x \in rows : x.sequence \in 1..tip.last_sequence
    BY <1>1 DEF Intact
  <2> QED
    BY <1>1, <1>2, <2>1
<1>6. RowsInTable'
  BY <1>2, <1>3, <1>5, TableChanges DEF TamperInv, RowsInTable
<1>7. WrittenIntact'
  BY <1>1, <1>2, <1>3, <1>4 DEF WrittenIntact, ChainHead
<1> QED
  BY <1>6, <1>7 DEF TamperInv

(* Alterations of a single row leave its sequence alone.                       *)
LEMMA AlterKeeps ==
  ASSUME TamperInv, DeleteRow \/ AlterBody \/ AlterAndRehash \/ Relink
  PROVE  TamperInv'
<1>1. \A row \in rows : \A x \in rows \ {row} : x.sequence # row.sequence
  BY DEF TamperInv, RowsInTable
<1>2. \A row \in rows : /\ row \in StoredRow /\ row.sequence \in Nat /\ row.body \in Content
                        /\ row.previous_hash \in Seq(Sealed)
                        /\ row.entry_hash \in Seq(Sealed)
  BY DEF TamperInv, RowsInTable, StoredRow
<1>3. CASE DeleteRow
  <2>1. PICK row \in rows : Edit(rows \ {row})
    BY <1>3 DEF DeleteRow
  <2>2. rows \ {row} \in SUBSET rows
    OBVIOUS
  <2>3. /\ rows \ {row} \subseteq StoredRow /\ IsFiniteSet(rows \ {row})
        /\ \A x, y \in rows \ {row} : x.sequence = y.sequence => x = y
    BY <1>1, <1>2, <2>2, TableChanges DEF TamperInv
  <2> QED
    BY <2>1, <2>3, EditKeeps
<1>4. ASSUME NEW row \in rows, NEW e \in StoredRow, e.sequence = row.sequence,
             Edit((rows \ {row}) \cup {e})
      PROVE  TamperInv'
  <2> DEFINE new == (rows \ {row}) \cup {e}
  <2>1. rows \ {row} \in SUBSET rows /\ \A x \in rows \ {row} : x.sequence # e.sequence
    BY <1>1, <1>4
  <2>2. /\ new \subseteq StoredRow /\ IsFiniteSet(new)
        /\ \A x, y \in new : x.sequence = y.sequence => x = y
    BY <2>1, TableChanges DEF TamperInv
  <2>3. Edit(new)
    BY <1>4
  <2> HIDE DEF new
  <2> QED
    BY <2>2, <2>3, EditKeeps
<1>5. CASE AlterBody
  <2>1. PICK row \in rows, b \in Content :
           Edit((rows \ {row}) \cup {[row EXCEPT !.body = b]})
    BY <1>5 DEF AlterBody
  <2>2. /\ [row EXCEPT !.body = b] \in StoredRow
        /\ [row EXCEPT !.body = b].sequence = row.sequence
    BY <1>2 DEF StoredRow
  <2> QED
    BY <1>4, <2>1, <2>2
<1>6. CASE AlterAndRehash
  <2>1. PICK row \in rows, b \in Content :
           Edit((rows \ {row}) \cup
                {AuditEvent(Owner, row.sequence, b, row.previous_hash)})
    BY <1>6 DEF AlterAndRehash
  <2> QED
    BY <1>2, <1>4, <2>1, BuiltRow
<1>7. CASE Relink
  <2>1. PICK row \in rows, other \in rows :
           Edit((rows \ {row}) \cup
                {AuditEvent(Owner, row.sequence, row.body, other.entry_hash)})
    BY <1>7 DEF Relink
  <2> QED
    BY <1>2, <1>4, <2>1, BuiltRow
<1> QED
  BY <1>3, <1>5, <1>6, <1>7

(* Exchanging two positions leaves the sequences what they were together.      *)
LEMMA ExchangeKeeps ==
  ASSUME TamperInv, Exchange
  PROVE  TamperInv'
<1> USE DEF TamperInv
<1>1. PICK a \in rows, b \in rows :
         Edit((rows \ {a, b}) \cup {[a EXCEPT !.sequence = b.sequence],
                                    [b EXCEPT !.sequence = a.sequence]})
  BY DEF Exchange
<1> DEFINE c == [a EXCEPT !.sequence = b.sequence]
           d == [b EXCEPT !.sequence = a.sequence]
           kept == rows \ {a, b}
<1>2. /\ c \in StoredRow /\ d \in StoredRow
      /\ c.sequence = b.sequence /\ d.sequence = a.sequence
      /\ a = b => c = d
  BY DEF RowsInTable, StoredRow
<1>3. /\ a.sequence = b.sequence => a = b
      /\ \A x \in kept : x.sequence # a.sequence /\ x.sequence # b.sequence
  BY DEF RowsInTable
<1> HIDE DEF c, d
<1>4. /\ kept \subseteq StoredRow /\ IsFiniteSet(kept)
      /\ \A x, y \in kept : x.sequence = y.sequence => x = y
  BY <1>2, <1>3, TableChanges
<1>5. (kept \cup {c, d}) \subseteq StoredRow
  BY <1>2, <1>4
<1>6. IsFiniteSet(kept \cup {c, d})
  <2>1. IsFiniteSet(kept \cup {c})
    BY <1>4, FS_AddElement
  <2>2. IsFiniteSet((kept \cup {c}) \cup {d})
    BY <2>1, FS_AddElement
  <2>3. (kept \cup {c}) \cup {d} = kept \cup {c, d}
    OBVIOUS
  <2> QED
    BY <2>2, <2>3
<1>7. \A x, y \in kept \cup {c, d} : x.sequence = y.sequence => x = y
  BY <1>2, <1>3, <1>4
<1>8. Edit(kept \cup {c, d})
  BY <1>1 DEF c, d
<1> HIDE DEF kept
<1> QED
  BY <1>5, <1>6, <1>7, <1>8, EditKeeps

(* The table stays a table, and what the service wrote an intact chain.        *)
THEOREM TamperInvariant == TamperSpec => []TamperInv
<1>1. TamperInit => TamperInv
  <2> SUFFICES ASSUME TamperInit PROVE TamperInv
    OBVIOUS
  <2>1. RowsInTable
    BY FS_EmptySet DEF TamperInit, RowsInTable
  <2>2. WrittenIntact
    BY DEF TamperInit, WrittenIntact, EmptyHead, ChainHead, GENESIS, Intact
  <2> QED
    BY <2>1, <2>2 DEF TamperInv
<1>2. TamperInv /\ [TamperNext]_tamperVars => TamperInv'
  <2> SUFFICES ASSUME TamperInv, [TamperNext]_tamperVars PROVE TamperInv'
    OBVIOUS
  <2>1. CASE UNCHANGED tamperVars
    BY <2>1 DEF tamperVars, TamperInv, RowsInTable, WrittenIntact
  <2>2. ASSUME NEW b \in Content, record(b) PROVE TamperInv'
    BY <2>2, RecordKeeps
  <2>3. CASE DeleteRow \/ AlterBody \/ AlterAndRehash \/ Relink
    BY <2>3, AlterKeeps
  <2>4. CASE Exchange
    BY <2>4, ExchangeKeeps
  <2>5. CASE Forge
    <3> DEFINE n == Cardinality(rows)
    <3>1. PICK b \in Content :
             /\ \A row \in rows : row.sequence # n + 1
             /\ Edit(rows \cup {AuditEvent(Owner, n + 1, b, tip.last_hash)})
      BY <2>5 DEF Forge
    <3>2. n + 1 \in Nat /\ tip.last_hash \in Seq(Sealed)
      BY FS_CardinalityType DEF TamperInv, RowsInTable, WrittenIntact
    <3> DEFINE e == AuditEvent(Owner, n + 1, b, tip.last_hash)
    <3>3. e \in StoredRow /\ e.sequence = n + 1
      BY <3>2, BuiltRow
    <3>4. Edit(rows \cup {e}) /\ \A row \in rows : row.sequence # e.sequence
      BY <3>1, <3>3
    <3> HIDE DEF e
    <3>5. /\ rows \cup {e} \subseteq StoredRow /\ IsFiniteSet(rows \cup {e})
          /\ \A x, y \in rows \cup {e} : x.sequence = y.sequence => x = y
      BY <3>3, <3>4, TableChanges DEF TamperInv
    <3> QED
      BY <3>4, <3>5, EditKeeps
  <2> QED
    BY <2>1, <2>2, <2>3, <2>4, <2>5 DEF TamperNext
<1> QED
  BY <1>1, <1>2, PTL DEF TamperSpec

(* verify_chain computes what an intact chain means, on honest and on altered  *)
(* rows alike.                                                                 *)
THEOREM VerificationIsRight == TamperSpec => []VerifyDecidesIntact
<1>1. TamperInv => VerifyDecidesIntact
  <2> SUFFICES ASSUME TamperInv PROVE VerifyDecidesIntact
    OBVIOUS
  <2>1. /\ Orderable(rows)
        /\ tip \in [last_sequence : Nat, last_hash : Seq(Sealed)]
    BY DEF TamperInv, RowsInTable, WrittenIntact, Orderable, StoredRow
  <2> QED
    BY <2>1, VerifyDecides DEF VerifyDecidesIntact, Result
<1> QED
  BY <1>1, TamperInvariant, PTL

(* The verifier accepts the ledger exactly when it holds the rows the service  *)
(* wrote: no alteration goes unnoticed as long as the head row stands.         *)
THEOREM TamperingIsEvident == TamperSpec => []TamperEvident
<1>1. TamperInv => TamperEvident
  <2> SUFFICES ASSUME TamperInv PROVE TamperEvident
    OBVIOUS
  <2>1. /\ Orderable(rows) /\ rows \in SUBSET StoredRow /\ written \in SUBSET StoredRow
        /\ tip \in [last_sequence : Nat, last_hash : Seq(Sealed)]
        /\ Intact(written, tip)
    BY DEF TamperInv, RowsInTable, WrittenIntact, Orderable, StoredRow
  <2> QED
    BY <2>1, AnyAlterationIsNoticed DEF TamperEvident, Result
<1> QED
  BY <1>1, TamperInvariant, PTL

-------------------------------------------------------------------------------
(* A step of the ledger removes no event, and keeps each hash a beginning of   *)
(* its head's.                                                                 *)
LEMMA LedgerGrows ==
  ASSUME TypeOK, LedgerInv, HashesArePrefixes, [Next]_vars
  PROVE  /\ HashesArePrefixes'
         /\ \A t \in Tenant : events[t] \subseteq events'[t]
<1>1. CASE UNCHANGED <<events, head>>
  BY <1>1 DEF HashesArePrefixes
<1>2. ASSUME NEW r \in Request, Commit(r)
      PROVE  /\ HashesArePrefixes'
             /\ \A t \in Tenant : events[t] \subseteq events'[t]
  <2> DEFINE t == TenantOf[r]
             body == [request |-> r, outcome |-> outcome[r]]
             canon == canonical_event_bytes(t, head[t].last_sequence + 1, body)
             e == AuditEvent(t, head[t].last_sequence + 1, body, head[t].last_hash)
             n == head[t].last_sequence
  <2>1. /\ t \in Tenant
        /\ events' = [events EXCEPT ![t] = @ \cup {e}]
        /\ head' = [head EXCEPT ![t] = ChainHead(e.sequence, e.entry_hash)]
        /\ e.sequence = n + 1 /\ Len(e.entry_hash) = e.sequence
    BY <1>2, CommitAppends
  <2>2. /\ n \in Nat /\ head[t].last_hash \in Seq(Canonical) /\ Len(head[t].last_hash) = n
        /\ canon \in Canonical
    <3>1. head[t] \in HeadRow /\ outcome[r] \in {"success", "denied"}
      BY <2>1 DEF TypeOK
    <3>2. n \in Nat /\ head[t].last_hash \in Seq(Canonical)
      BY <3>1 DEF HeadRow
    <3>3. Len(head[t].last_hash) = n
      BY <2>1 DEF LedgerInv, HashesCountEvents
    <3>4. n + 1 \in Nat /\ body \in Body
      BY <3>1, <3>2 DEF Body
    <3>5. canon \in Canonical
      BY <2>1, <3>4 DEF Canonical, canonical_event_bytes
    <3> QED
      BY <3>2, <3>3, <3>5
  <2>3. e.entry_hash = Append(head[t].last_hash, canon)
    BY DEF AuditEvent, compute_entry_hash
  <2> HIDE DEF e, canon
  <2>4. /\ events'[t] = events[t] \cup {e}
        /\ head'[t].last_hash = Append(head[t].last_hash, canon)
        /\ \A s \in Tenant : s # t => events'[s] = events[s] /\ head'[s] = head[s]
    BY <2>1, <2>3 DEF TypeOK, ChainHead
  <2>5. \A s \in Tenant : events[s] \subseteq events'[s]
    BY <2>4
  <2>6. ASSUME NEW row \in events'[t]
        PROVE  row.entry_hash = SubSeq(head'[t].last_hash, 1, row.sequence)
    <3>1. CASE row = e
      <4>1. \A q \in Seq(Canonical) : SubSeq(q, 1, Len(q)) = q
        OBVIOUS
      <4>2. e.entry_hash \in Seq(Canonical)
        BY <2>2, <2>3
      <4> QED
        BY <2>1, <2>3, <2>4, <3>1, <4>1, <4>2
    <3>2. CASE row \in events[t]
      <4>1. row.sequence \in 1..n
        BY <2>1, <3>2 DEF LedgerInv, ChainIntact, Intact
      <4>2. row.entry_hash = SubSeq(head[t].last_hash, 1, row.sequence)
        BY <2>1, <3>2 DEF HashesArePrefixes
      <4>3. SubSeq(Append(head[t].last_hash, canon), 1, row.sequence)
              = SubSeq(head[t].last_hash, 1, row.sequence)
        BY <2>2, <4>1
      <4> QED
        BY <2>4, <4>2, <4>3
    <3> QED
      BY <2>4, <2>6, <3>1, <3>2
  <2>7. HashesArePrefixes'
    BY <2>4, <2>6 DEF HashesArePrefixes
  <2> QED
    BY <2>5, <2>7
<1>3. ASSUME NEW r \in Request,
             \/ Arrive(r) \/ BeginDenial(r) \/ SelectHeadForUpdate(r) \/ InsertHead(r)
             \/ InsertHeadConflict(r) \/ Abort(r)
      PROVE  UNCHANGED <<events, head>>
  BY <1>3 DEF Arrive, Perform, Forbid, RefuseUnaudited, BeginDenial, SelectHeadForUpdate,
              InsertHead, InsertHeadConflict, Abort, dbVars
<1> QED
  BY <1>1, <1>2, <1>3 DEF Next, Proceed, vars

(* The verifier reads an intact chain from its first row on.                   *)
LEMMA ReadEventsKeeps ==
  ASSUME TypeOK, LedgerInv, VerifierInv, NEW t \in Tenant, ReadEvents(t)
  PROVE  VerifierInv'
<1> DEFINE evs == list_all_ordered(events[t])
<1>1. /\ head[t].last_sequence \in Nat /\ Intact(events[t], head[t])
      /\ events[t] \subseteq Event
  BY DEF TypeOK, HeadRow, LedgerInv, ChainIntact
<1>2. /\ Orderable(events[t])
      /\ Len(evs) = head[t].last_sequence
      /\ FromTheFirst(evs, events[t])
  BY <1>1, IntactIsListed DEF FromTheFirst
<1>3. evs \in Seq(Event)
  <2>1. evs \in Seq(events[t])
    BY <1>2, ListedInOrder
  <2> QED
    BY <1>1, <2>1
<1> HIDE DEF evs
<1>4. /\ check' = [check EXCEPT ![t].step = "readHead", ![t].evs = evs]
      /\ UNCHANGED vars
  BY DEF ReadEvents, evs
<1>5. CheckTypeOK'
  <2>1. \A c \in Check : [c EXCEPT !.step = "readHead", !.evs = evs] \in Check
    BY <1>3 DEF Check
  <2> QED
    BY <1>4, <2>1 DEF VerifierInv, CheckTypeOK
<1>6. /\ check'[t].step = "readHead" /\ check'[t].evs = evs
      /\ \A s \in Tenant : s # t => check'[s] = check[s]
  BY <1>4 DEF VerifierInv, CheckTypeOK, Check
<1>7. HashesArePrefixes'
  BY <1>4 DEF VerifierInv, HashesArePrefixes, vars
<1>8. ReadRowsStay'
  BY <1>2, <1>4, <1>6 DEF VerifierInv, ReadRowsStay, vars
<1>9. AlarmExplained'
  <2>1. Explained(check'[t])
    BY <1>6 DEF Explained
  <2> QED
    BY <1>6, <2>1 DEF VerifierInv, AlarmExplained
<1> QED
  BY <1>5, <1>7, <1>8, <1>9 DEF VerifierInv

(* The walk over what was read blames no row, and the head can only be ahead.  *)
LEMMA VerifyKeeps ==
  ASSUME TypeOK, LedgerInv, VerifierInv, NEW t \in Tenant, ReadHeadAndVerify(t)
  PROVE  VerifierInv'
<1> DEFINE evs == check[t].evs
           n == Len(evs)
           found == IF t \in heads THEN {head[t]} ELSE {}
           result == verify_chain(evs, found)
           final == expected_previous(evs, n + 1)
<1>1. /\ head[t] \in HeadRow /\ head[t].last_sequence \in Nat /\ Intact(events[t], head[t])
      /\ evs \in Seq(Event) /\ n \in Nat /\ check[t].step = "readHead"
  <2>1. head[t] \in HeadRow /\ Intact(events[t], head[t])
    BY DEF TypeOK, LedgerInv, ChainIntact
  <2>2. head[t].last_sequence \in Nat
    BY <2>1 DEF HeadRow
  <2>3. evs \in Seq(Event) /\ n \in Nat
    <3>1. check[t] \in Check
      BY DEF VerifierInv, CheckTypeOK
    <3> QED
      BY <3>1 DEF Check
  <2>4. check[t].step = "readHead"
    BY DEF ReadHeadAndVerify
  <2> QED
    BY <2>1, <2>2, <2>3, <2>4
<1>2. \A i \in 1..n : evs[i] \in events[t] /\ evs[i].sequence = i
  BY <1>1 DEF VerifierInv, ReadRowsStay, FromTheFirst
<1>3. {i \in 1..Len(evs) : FailureAt(evs, i) # "none"} = {}
  <2> HIDE DEF evs
  <2> QED
    BY <1>1, <1>2, NothingToBlame
<1>4. result = IF \E h \in found : h # ChainHead(n, final)
               THEN Verdict(FALSE, n, "head inconsistent")
               ELSE Verdict(TRUE, n, "none")
  BY <1>3 DEF verify_chain
<1>5. n <= head[t].last_sequence
  <2>1. CASE n = 0
    BY <1>1, <2>1
  <2>2. CASE n # 0
    <3>1. n \in 1..n
      BY <1>1, <2>2
    <3>2. evs[n] \in events[t] /\ evs[n].sequence = n
      BY <1>2, <3>1
    <3>3. n \in 1..head[t].last_sequence
      BY <1>1, <3>2 DEF Intact
    <3> QED
      BY <3>3
  <2> QED
    BY <2>1, <2>2
<1>6. n = head[t].last_sequence => head[t] = ChainHead(n, final)
  <2> SUFFICES ASSUME n = head[t].last_sequence PROVE head[t] = ChainHead(n, final)
    OBVIOUS
  <2>1. final = head[t].last_hash
    <3>1. CASE n = 0
      <4>1. events[t] = {}
        BY <1>1, <3>1 DEF Intact
      <4> QED
        BY <1>1, <3>1, <4>1 DEF Intact, expected_previous
    <3>2. CASE n # 0
      <4>1. n \in 1..n /\ n + 1 # 1 /\ (n + 1) - 1 = n
        BY <1>1, <3>2
      <4>2. evs[n] \in events[t] /\ evs[n].sequence = n
        BY <1>2, <4>1
      <4>3. evs[n].entry_hash = head[t].last_hash
        BY <1>1, <4>2 DEF Intact
      <4> QED
        BY <4>1, <4>3 DEF expected_previous
    <3> QED
      BY <3>1, <3>2
  <2> QED
    BY <1>1, <2>1 DEF ChainHead, HeadRow
<1>7. ASSUME NEW i \in 1..n PROVE evs[i].entry_hash = SubSeq(head[t].last_hash, 1, i)
  BY <1>2 DEF VerifierInv, HashesArePrefixes
<1>8. /\ check' = [check EXCEPT ![t].step = "done", ![t].heads = found,
                                ![t].result = result]
      /\ UNCHANGED vars
  BY DEF ReadHeadAndVerify
<1>9. \/ result = Verdict(TRUE, n, "none")
      \/ /\ result = Verdict(FALSE, n, "head inconsistent")
         /\ \E h \in found : h # ChainHead(n, final)
  BY <1>4
<1>10. found \in SUBSET HeadRow /\ \A h \in found : h = head[t]
  BY <1>1
<1> HIDE DEF found, result, final
<1>11. CheckTypeOK'
  <2>1. \A k \in Nat : /\ Verdict(TRUE, k, "none") \in Verdicts
                         /\ Verdict(FALSE, k, "head inconsistent") \in Verdicts
    BY DEF Verdict, Verdicts
  <2>2. result \in Verdicts
    <3> HIDE DEF n
    <3> QED
      BY <1>1, <1>9, <2>1
  <2>3. \A c \in Check : [c EXCEPT !.step = "done", !.heads = found, !.result = result] \in Check
    BY <1>10, <2>2 DEF Check
  <2> QED
    BY <1>8, <2>3 DEF VerifierInv, CheckTypeOK
<1>12. /\ check'[t].step = "done" /\ check'[t].evs = evs
       /\ check'[t].heads = found /\ check'[t].result = result
       /\ \A s \in Tenant : s # t => check'[s] = check[s]
  BY <1>8 DEF VerifierInv, CheckTypeOK, Check
<1>13. HashesArePrefixes'
  BY <1>8 DEF VerifierInv, HashesArePrefixes, vars
<1>14. ReadRowsStay'
  <2>1. events' = events
    BY <1>8 DEF vars
  <2> HIDE DEF evs
  <2> QED
    BY <1>12, <2>1 DEF VerifierInv, ReadRowsStay
<1>15. Explained(check'[t])
  <2>1. CASE result = Verdict(TRUE, n, "none")
    BY <1>12, <2>1 DEF Explained, Verdict
  <2>2. CASE /\ result = Verdict(FALSE, n, "head inconsistent")
             /\ \E h \in found : h # ChainHead(n, final)
    <3>1. PICK h \in found : h # ChainHead(n, final)
      BY <2>2
    <3>2. h = head[t]
      BY <1>10, <3>1
    <3>3. n < h.last_sequence
      BY <1>1, <1>5, <1>6, <3>1, <3>2
    <3>4. result.reason = "head inconsistent" /\ result.events_checked = n
      BY <2>2 DEF Verdict
    <3> QED
      BY <1>7, <1>12, <3>2, <3>3, <3>4 DEF Explained
  <2> QED
    BY <1>9, <2>1, <2>2
<1>16. AlarmExplained'
  BY <1>12, <1>15 DEF VerifierInv, AlarmExplained
<1> QED
  BY <1>11, <1>13, <1>14, <1>16 DEF VerifierInv

(* The verifier only reads: beside it, the ledger is the ledger.               *)
LEMMA VerifierLeavesLedger == VerifierSpec => Spec
<1>1. VerifierInit => Init
  BY DEF VerifierInit
<1>2. [VerifierNext]_<<vars, verifierVars>> => [Next]_vars
  BY DEF VerifierNext, ReadEvents, ReadHeadAndVerify
<1> QED
  BY <1>1, <1>2, PTL DEF VerifierSpec, Spec

(* The inductive invariant of the verifier beside the ledger.                  *)
THEOREM VerifierInvariant == VerifierSpec => []VerifierInv
<1>1. VerifierInit => VerifierInv
  <2> SUFFICES ASSUME VerifierInit PROVE VerifierInv
    OBVIOUS
  <2>1. CheckTypeOK
    BY DEF VerifierInit, CheckTypeOK, Check, Verdicts, Verdict
  <2>2. HashesArePrefixes /\ ReadRowsStay /\ AlarmExplained
    BY DEF VerifierInit, Init, HashesArePrefixes, ReadRowsStay, AlarmExplained, Explained
  <2> QED
    BY <2>1, <2>2 DEF VerifierInv
<1>2. TypeOK /\ LedgerInv /\ VerifierInv /\ [VerifierNext]_<<vars, verifierVars>>
        => VerifierInv'
  <2> SUFFICES ASSUME TypeOK, LedgerInv, VerifierInv,
                      [VerifierNext]_<<vars, verifierVars>>
               PROVE  VerifierInv'
    OBVIOUS
  <2>1. CASE [Next]_vars /\ UNCHANGED verifierVars
    <3>1. HashesArePrefixes' /\ \A t \in Tenant : events[t] \subseteq events'[t]
      BY <2>1, LedgerGrows DEF VerifierInv
    <3>2. check' = check
      BY <2>1 DEF verifierVars
    <3>3. ReadRowsStay'
      BY <3>1, <3>2 DEF VerifierInv, ReadRowsStay, FromTheFirst
    <3> QED
      BY <3>1, <3>2, <3>3 DEF VerifierInv, CheckTypeOK, AlarmExplained
  <2>2. ASSUME NEW t \in Verified, ReadEvents(t) PROVE VerifierInv'
    BY <2>2, VerifiedAssumption, ReadEventsKeeps
  <2>3. ASSUME NEW t \in Verified, ReadHeadAndVerify(t) PROVE VerifierInv'
    BY <2>3, VerifiedAssumption, VerifyKeeps
  <2> QED
    BY <2>1, <2>2, <2>3 DEF VerifierNext
<1> QED
  BY <1>1, <1>2, VerifierLeavesLedger, TypeCorrect, LedgerInvariant, PTL DEF VerifierSpec

(* On a ledger nobody tampered with, the only alarm a verification raises      *)
(* beside live requests is that of a head newer than the rows it has read.     *)
THEOREM AlarmsAreExplained == VerifierSpec => []AlarmExplained
<1>1. VerifierInv => AlarmExplained
  BY DEF VerifierInv
<1> QED
  BY <1>1, VerifierInvariant, PTL
===============================================================================

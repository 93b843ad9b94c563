--------------------------- MODULE InvitationsProofs ---------------------------
(***************************************************************************)
(* Proofs about Invitations, for any organizations, addresses, invitations    *)
(* and requests.                                                              *)
(***************************************************************************)
EXTENDS Invitations, FiniteSetTheorems, TLAPS

(* Jobs keep their type when an id or a flag is filled in.                    *)
LEMMA InviteGetsId ==
  ASSUME NEW j \in InviteJob, NEW i \in Invitation
  PROVE  /\ [j EXCEPT !.id = i] \in InviteJob
         /\ [j EXCEPT !.id = i].id = i /\ [j EXCEPT !.id = i].letter = j.letter
BY DEF InviteJob

(* Setting the flag of a job leaves what the job is about.                   *)
LEMMA PlainGetsFlag ==
  ASSUME NEW j \in PlainJob, NEW b \in BOOLEAN
  PROVE  /\ [j EXCEPT !.fresh = b] \in PlainJob
         /\ [j EXCEPT !.fresh = b].id = j.id /\ [j EXCEPT !.fresh = b].kind = j.kind
BY DEF PlainJob

(* The jobs that requests begin with.                                        *)
LEMMA NewJobs ==
  /\ NoJob \in PlainJob
  /\ \A i \in Invitation, kind \in {"accept", "revoke"} :
        LET j == [NoJob EXCEPT !.kind = kind, !.id = i] IN
        j \in PlainJob /\ j.kind = kind /\ j.id = i
  /\ \A e \in Email :
        LET j == [NoJob EXCEPT !.kind = "register", !.email = e] IN
        j \in PlainJob /\ j.kind = "register" /\ j.email = e
BY DEF NoJob, PlainJob

(* A step that admits nobody and changes nobody's membership.                 *)
LEMMA MembershipKept ==
  ASSUME TypeOK, MembersWereInvited, AdminsComeFromOwner, UNCHANGED <<member, role, accepted>>,
         \A i \in accepted : to'[i] = to[i],
         \A r \in Request : Admits(r)' = Admits(r)
  PROVE  MembersWereInvited' /\ AdminsComeFromOwner'
<1>1. UNION {Admits(r)' : r \in Request} = UNION {Admits(r) : r \in Request}
  OBVIOUS
<1>2. accepted' = UNION {Admits(r)' : r \in Request}
  BY <1>1 DEF MembersWereInvited
<1>3. \A e \in Email : member[e] \in Tenant =>
         \E i \in accepted : /\ to'[i].tenant = member[e]
                             /\ to'[i].email = e
                             /\ to'[i].role = role[e]
  BY DEF MembersWereInvited
<1>4. MembersWereInvited'
  BY <1>2, <1>3 DEF MembersWereInvited
<1>5. AdminsComeFromOwner'
  BY DEF AdminsComeFromOwner
<1> QED
  BY <1>4, <1>5

(* A step that publishes no invitation and adds no row.                       *)
LEMMA IndexKept ==
  ASSUME IndexHeld, UNCHANGED to, accepted \subseteq accepted', revoked \subseteq revoked',
         \A q \in Request : pc'[q] \in Added =>
            /\ pc[q] \in Added /\ job'[q] = job[q]
            /\ inserting'[<<job[q].letter.tenant, job[q].letter.email>>] = q
  PROVE  IndexHeld'
<1>1. Known' = Known /\ Pending' \subseteq Pending
  BY DEF Known, Pending
<1>2. \A x, e : PendingFor(x, e)' \subseteq PendingFor(x, e)
  BY <1>1 DEF PendingFor
<1>3. \A r \in Request : pc'[r] \in Added =>
         /\ job'[r].id \in Invitation \ Known'
         /\ inserting'[<<job'[r].letter.tenant, job'[r].letter.email>>] = r
         /\ PendingFor(job[r].letter.tenant, job[r].letter.email)' = {}
  <2> SUFFICES ASSUME NEW r \in Request, pc'[r] \in Added
               PROVE  /\ job'[r].id \in Invitation \ Known'
                      /\ inserting'[<<job'[r].letter.tenant, job'[r].letter.email>>] = r
                      /\ PendingFor(job[r].letter.tenant, job[r].letter.email)' = {}
    OBVIOUS
  <2>1. PendingFor(job[r].letter.tenant, job[r].letter.email) = {} /\ job[r].id \in Invitation \ Known
    BY DEF IndexHeld
  <2>2. PendingFor(job[r].letter.tenant, job[r].letter.email)' = {}
    BY <1>2, <2>1
  <2> QED
    BY <1>1, <2>1, <2>2
<1>4. \A q, r \in Request :
         pc'[q] \in Added /\ pc'[r] \in Added /\ job'[q].id = job'[r].id => q = r
  BY DEF IndexHeld
<1>5. \A i, j \in Pending' : to'[i].tenant = to'[j].tenant /\ to'[i].email = to'[j].email => i = j
  BY <1>1 DEF IndexHeld
<1> QED
  BY <1>3, <1>4, <1>5 DEF IndexHeld

(* A request fails: its row, if it has added one, goes with its index entry.  *)
LEMMA FailKeeps ==
  ASSUME TypeOK, InvitationsInv, NEW r \in Request, pc[r] \in Working,
         NEW status \in Status \ {"ok"}, Fail(r, status),
         r \in late => status \in {"404", "500"}
  PROVE  TypeOK' /\ InvitationsInv'
<1> USE SentinelAssumption
<1> USE DEF TypeOK, InvitationsInv
<1>1. /\ pc' = [pc EXCEPT ![r] = status]
      /\ inserting' = [k \in Tenant \X Email |-> IF inserting[k] = r THEN Nobody ELSE inserting[k]]
      /\ UNCHANGED <<account, member, role, to, accepted, revoked, expired, mailed, job, late>>
      /\ Known' = Known /\ Pending' = Pending
  BY DEF Fail, Goto, Release, userVars, inviteVars, Known, Pending
<1>2. status \notin {"idle", "ok"} \cup Working
  BY DEF Status, Working
<1>3. TypeOK'
  BY <1>1
<1>4. JobsInOrder'
  BY <1>1, <1>2 DEF JobsInOrder, StageHasJob, Working, Added
<1>5. IndexHeld'
  <2> SUFFICES ASSUME NEW q \in Request, pc'[q] \in Added
               PROVE  /\ inserting'[<<job[q].letter.tenant, job[q].letter.email>>] = q
                      /\ pc[q] \in Added
    BY <1>1, IndexKept
  <2>1. q # r /\ pc[q] \in Added
    BY <1>1, <1>2 DEF Added, Working
  <2>2. job[q] \in InviteJob
    BY <2>1 DEF JobsInOrder, StageHasJob
  <2>3. <<job[q].letter.tenant, job[q].letter.email>> \in Tenant \X Email
    BY <2>2 DEF InviteJob
  <2> QED
    BY <1>1, <2>1, <2>3 DEF IndexHeld
<1>6. LettersAllowed' /\ LateIsRefused'
  BY <1>1 DEF LettersAllowed, LateIsRefused
<1>7. \A q \in Request : Admits(q)' = Admits(q)
  BY <1>1, <1>2 DEF Admits, Working
<1> QED
  BY <1>1, <1>3, <1>4, <1>5, <1>6, <1>7, MembershipKept

(* A request goes on to another stage, and the tables stay as they are.       *)
LEMMA StageKeeps ==
  ASSUME TypeOK, InvitationsInv, NEW r \in Request, NEW where \in Working \cup Status,
         Goto(r, where), where # "ok", pc[r] # "ok",
         job' \in [Request -> Job], \A q \in Request \ {r} : job'[q] = job[q],
         UNCHANGED <<member, role, inviteVars, expired, inserting>>,
         account' \subseteq Email, mailed' \subseteq Invitation, late' \subseteq Request,
         StageHasJob(r)', LateIsRefused',
         where \in Added => pc[r] \in Added /\ job'[r] = job[r]
  PROVE  TypeOK' /\ InvitationsInv'
<1> USE DEF TypeOK, InvitationsInv
<1>1. /\ pc' = [pc EXCEPT ![r] = where]
      /\ UNCHANGED <<member, role, to, accepted, revoked>>
      /\ Known' = Known
  BY DEF Goto, inviteVars, Known
<1>2. TypeOK'
  BY <1>1
<1>3. JobsInOrder'
  <2>1. \A q \in Request \ {r} : StageHasJob(q)'
    BY <1>1 DEF JobsInOrder, StageHasJob
  <2> QED
    BY <2>1 DEF JobsInOrder
<1>4. IndexHeld'
  <2>1. \A q \in Request : pc'[q] \in Added => pc[q] \in Added /\ job'[q] = job[q]
    BY <1>1
  <2> QED
    BY <1>1, <2>1, IndexKept DEF IndexHeld
<1>5. LettersAllowed'
  BY <1>1 DEF LettersAllowed
<1>6. \A q \in Request : Admits(q)' = Admits(q)
  BY <1>1 DEF Admits
<1> QED
  BY <1>1, <1>2, <1>3, <1>4, <1>5, <1>6, MembershipKept

(* The same for a request that was not late and is not now.                   *)
LEMMA LateKept ==
  ASSUME LateIsRefused, NEW r \in Request, r \notin late, UNCHANGED late,
         \A q \in Request \ {r} : pc'[q] = pc[q] /\ job'[q] = job[q],
         accepted \subseteq accepted', revoked \subseteq revoked', expired \subseteq expired',
         late \subseteq Request
  PROVE  LateIsRefused'
BY DEF LateIsRefused

(* A request that arrived too late gets no further than the lookup.          *)
LEMMA NotLate ==
  ASSUME LateIsRefused, NEW r \in Request, pc[r] \notin {"lookup", "404", "500"}
  PROVE  r \notin late
BY DEF LateIsRefused

(* Requests of every kind arrive with a job of their own.                    *)
LEMMA ArriveKeeps ==
  ASSUME TypeOK, InvitationsInv, NEW r \in Request, Arrive(r)
  PROVE  TypeOK' /\ InvitationsInv'
<1> USE DEF TypeOK, InvitationsInv
<1>0. pc[r] = "idle" /\ r \notin late
  BY NotLate DEF Arrive, BeginInvite, BeginAccept, BeginRevoke, BeginRegister
<1>1. ASSUME NEW x \in Tenant, NEW e \in Email, NEW by \in Inviter, NEW asked \in RoleAsked,
             BeginInvite(r, x, e, by, asked)
      PROVE  TypeOK' /\ InvitationsInv'
  <2> DEFINE j == [kind |-> "invite", id |-> Nobody,
                   letter |-> [tenant |-> x, email |-> e, role |-> asked, by |-> by]]
  <2>1. j \in InviteJob
    BY SentinelAssumption DEF InviteJob
  <2>2. job' = [job EXCEPT ![r] = j]
    BY <1>1 DEF BeginInvite
  <2> HIDE DEF j
  <2>3. job' \in [Request -> Job] /\ job'[r] = j /\ \A q \in Request \ {r} : job'[q] = job[q]
    BY <2>1, <2>2 DEF Job
  <2>4. PICK where \in {"checkPending", "400"} : Goto(r, where)
    BY <1>1 DEF BeginInvite
  <2>5. UNCHANGED <<userVars, inviteVars, expired, mailed, inserting, late>>
    BY <1>1 DEF BeginInvite
  <2>6. StageHasJob(r)'
    BY <2>1, <2>3, <2>4 DEF Goto, StageHasJob, Added
  <2>7. LateIsRefused'
    BY <1>0, <2>3, <2>4, <2>5, LateKept DEF Goto, inviteVars
  <2> QED
    BY <1>0, <2>3, <2>4, <2>5, <2>6, <2>7, StageKeeps DEF userVars, Working, Status, Added
<1>2. ASSUME NEW i \in mailed, BeginAccept(r, i) PROVE TypeOK' /\ InvitationsInv'
  <2> DEFINE j == [NoJob EXCEPT !.kind = "accept", !.id = i]
  <2>1. j \in PlainJob /\ j.kind = "accept" /\ j.id = i
    BY NewJobs
  <2>2. job' = [job EXCEPT ![r] = j]
    BY <1>2 DEF BeginAccept
  <2> HIDE DEF j
  <2>3. job' \in [Request -> Job] /\ job'[r] = j /\ \A q \in Request \ {r} : job'[q] = job[q]
    BY <2>1, <2>2 DEF Job
  <2>4. Goto(r, "lookup") /\ UNCHANGED <<userVars, inviteVars, expired, mailed, inserting>>
    BY <1>2 DEF BeginAccept
  <2>5. /\ late' \subseteq late \cup {r}
        /\ r \in late' => i \in accepted \cup revoked \cup expired
    BY <1>0, <1>2 DEF BeginAccept, Pending
  <2>6. StageHasJob(r)'
    BY <2>1, <2>3, <2>4 DEF Goto, StageHasJob, Added
  <2>7. LateIsRefused'
    BY <2>1, <2>3, <2>4, <2>5 DEF LateIsRefused, Goto, inviteVars
  <2> QED
    BY <1>0, <2>3, <2>4, <2>5, <2>6, <2>7, StageKeeps DEF userVars, Working, Added
<1>3. ASSUME NEW i \in Known, BeginRevoke(r, i) PROVE TypeOK' /\ InvitationsInv'
  <2> DEFINE j == [NoJob EXCEPT !.kind = "revoke", !.id = i]
  <2>1. j \in PlainJob /\ j.kind = "revoke" /\ j.id = i
    BY NewJobs
  <2>2. job' = [job EXCEPT ![r] = j]
    BY <1>3 DEF BeginRevoke
  <2> HIDE DEF j
  <2>3. job' \in [Request -> Job] /\ job'[r] = j /\ \A q \in Request \ {r} : job'[q] = job[q]
    BY <2>1, <2>2 DEF Job
  <2>4. PICK where \in {"revoke", "404"} : Goto(r, where)
    BY <1>3 DEF BeginRevoke
  <2>5. UNCHANGED <<userVars, inviteVars, expired, mailed, inserting, late>> /\ Known' = Known
    BY <1>3 DEF BeginRevoke, inviteVars, Known
  <2>6. StageHasJob(r)'
    BY <2>1, <2>3, <2>4, <2>5 DEF Goto, StageHasJob, Added
  <2>7. LateIsRefused'
    BY <1>0, <2>3, <2>4, <2>5, LateKept DEF Goto, inviteVars
  <2> QED
    BY <1>0, <2>3, <2>4, <2>5, <2>6, <2>7, StageKeeps DEF userVars, Working, Status, Added
<1>4. ASSUME NEW e \in Email, BeginRegister(r, e) PROVE TypeOK' /\ InvitationsInv'
  <2> DEFINE j == [NoJob EXCEPT !.kind = "register", !.email = e]
  <2>1. j \in PlainJob /\ j.kind = "register" /\ j.email = e
    BY NewJobs
  <2>2. job' = [job EXCEPT ![r] = j]
    BY <1>4 DEF BeginRegister
  <2> HIDE DEF j
  <2>3. job' \in [Request -> Job] /\ job'[r] = j /\ \A q \in Request \ {r} : job'[q] = job[q]
    BY <2>1, <2>2 DEF Job
  <2>4. PICK where \in {"found", "409"} : Goto(r, where)
    BY <1>4 DEF BeginRegister
  <2>5. UNCHANGED <<userVars, inviteVars, expired, mailed, inserting, late>>
    BY <1>4 DEF BeginRegister
  <2>6. StageHasJob(r)'
    BY <2>1, <2>3, <2>4 DEF Goto, StageHasJob, Added
  <2>7. LateIsRefused'
    BY <1>0, <2>3, <2>4, <2>5, LateKept DEF Goto, inviteVars
  <2> QED
    BY <1>0, <2>3, <2>4, <2>5, <2>6, <2>7, StageKeeps DEF userVars, Working, Status, Added
<1> QED
  BY <1>1, <1>2, <1>3, <1>4 DEF Arrive

(* The steps of an invitation.                                                *)
LEMMA CheckKeeps ==
  ASSUME TypeOK, InvitationsInv, NEW r \in Request, CheckPending(r)
  PROVE  TypeOK' /\ InvitationsInv'
<1> USE DEF TypeOK, InvitationsInv
<1>1. /\ pc[r] = "checkPending" /\ r \notin late
      /\ UNCHANGED <<userVars, inviteVars, expired, mailed, inserting, job, late>>
  BY NotLate DEF CheckPending
<1>2. PICK where \in {"insert", "400"} :
         Goto(r, where) /\ (where = "insert" => MayInvite(job[r].letter.by, job[r].letter.role))
  BY DEF CheckPending
<1>3. StageHasJob(r)'
  BY <1>1, <1>2 DEF JobsInOrder, StageHasJob, Goto, Added
<1>4. LateIsRefused'
  BY <1>1, <1>2, LateKept DEF Goto, inviteVars
<1> QED
  BY <1>1, <1>2, <1>3, <1>4, StageKeeps DEF userVars, Working, Status, Added

(* The mail goes out before the invitation is committed.                     *)
LEMMA SendKeeps ==
  ASSUME TypeOK, InvitationsInv, NEW r \in Request, SendInvitation(r)
  PROVE  TypeOK' /\ InvitationsInv'
<1> USE DEF TypeOK, InvitationsInv
<1>1. /\ pc[r] = "mail" /\ r \notin late /\ Goto(r, "publish") /\ pc[r] \in Added
      /\ UNCHANGED <<userVars, inviteVars, expired, inserting, job, late>>
  BY NotLate DEF SendInvitation, Added
<1>2. mailed' \subseteq Invitation
  <2>1. job[r].id \in Invitation
    BY <1>1 DEF IndexHeld
  <2> QED
    BY <2>1 DEF SendInvitation
<1>3. StageHasJob(r)'
  BY <1>1 DEF JobsInOrder, StageHasJob, Goto, Added
<1>4. LateIsRefused'
  BY <1>1, LateKept DEF Goto, inviteVars
<1> QED
  BY <1>1, <1>2, <1>3, <1>4, StageKeeps DEF userVars, Working

(* The row goes in: it takes the index entry, under an id nobody else has.    *)
LEMMA InsertKeeps ==
  ASSUME TypeOK, InvitationsInv, NEW r \in Request, NEW i \in Invitation, InsertInvitation(r, i)
  PROVE  TypeOK' /\ InvitationsInv'
<1> USE SentinelAssumption
<1> USE DEF TypeOK, InvitationsInv
<1> DEFINE l == job[r].letter
           k == <<l.tenant, l.email>>
<1>1. /\ pc[r] = "insert" /\ r \notin late /\ inserting[k] = Nobody /\ Unused(i)
  BY NotLate DEF InsertInvitation
<1>2. job[r] \in InviteJob /\ MayInvite(l.by, l.role)
  BY <1>1 DEF JobsInOrder, StageHasJob
<1>3. k \in Tenant \X Email
  BY <1>2 DEF InviteJob
<1>4. CASE PendingFor(l.tenant, l.email) # {}
  <2>1. Fail(r, "500")
    BY <1>4 DEF InsertInvitation
  <2> QED
    BY <1>1, <2>1, FailKeeps DEF Working, Status
<1>5. CASE PendingFor(l.tenant, l.email) = {}
  <2>1. /\ inserting' = [inserting EXCEPT ![k] = r]
        /\ job' = [job EXCEPT ![r].id = i]
        /\ pc' = [pc EXCEPT ![r] = "mail"]
        /\ UNCHANGED <<account, member, role, to, accepted, revoked, expired, mailed, late>>
    BY <1>5 DEF InsertInvitation, Goto, userVars, inviteVars
  <2>2. /\ job'[r] \in InviteJob /\ job'[r].id = i /\ job'[r].letter = l
        /\ job' \in [Request -> Job] /\ \A q \in Request \ {r} : job'[q] = job[q]
    BY <1>2, <2>1, InviteGetsId DEF Job
  <2>3. Known' = Known /\ Pending' = Pending
    BY <2>1 DEF Known, Pending
  <2>4. TypeOK'
    BY <2>1, <2>2, <2>3 DEF Working
  <2>5. JobsInOrder'
    <3>1. StageHasJob(r)'
      BY <1>2, <2>1, <2>2 DEF StageHasJob, Added
    <3>2. \A q \in Request \ {r} : StageHasJob(q)'
      BY <2>1, <2>2, <2>3 DEF JobsInOrder, StageHasJob
    <3> QED
      BY <3>1, <3>2 DEF JobsInOrder
  <2>6. \A x, e : PendingFor(x, e)' = PendingFor(x, e)
    BY <2>1, <2>3 DEF PendingFor
  <2>7. ASSUME NEW q \in Request, pc'[q] \in Added
        PROVE  /\ job'[q].id \in Invitation \ Known
               /\ inserting'[<<job'[q].letter.tenant, job'[q].letter.email>>] = q
               /\ PendingFor(job[q].letter.tenant, job[q].letter.email)' = {}
    <3>1. CASE q = r
      BY <1>1, <1>3, <1>5, <2>1, <2>2, <2>6, <3>1 DEF Unused
    <3>2. CASE q # r
      <4>1. /\ pc[q] \in Added /\ job'[q] = job[q]
            /\ inserting[<<job[q].letter.tenant, job[q].letter.email>>] = q
            /\ job[q].id \in Invitation \ Known
            /\ PendingFor(job[q].letter.tenant, job[q].letter.email) = {}
        BY <2>1, <2>2, <2>7, <3>2 DEF IndexHeld
      <4>2. <<job[q].letter.tenant, job[q].letter.email>> # k
        BY <1>1, <4>1
      <4> QED
        BY <2>1, <2>6, <4>1, <4>2
    <3> QED
      BY <3>1, <3>2
  <2>8. ASSUME NEW p \in Request, NEW q \in Request, pc'[p] \in Added, pc'[q] \in Added,
               job'[p].id = job'[q].id
        PROVE  p = q
    <3>1. \A x \in Request : x # r /\ pc'[x] \in Added =>
             pc[x] \in Added /\ job'[x] = job[x] /\ job[x].kind = "invite"
      BY <2>1, <2>2 DEF JobsInOrder, StageHasJob, InviteJob
    <3>2. \A x \in Request : x # r /\ pc'[x] \in Added => job'[x].id # i
      BY <1>1, <3>1 DEF Unused
    <3> QED
      BY <2>2, <2>8, <3>1, <3>2 DEF IndexHeld
  <2>9. IndexHeld'
    <3>1. \A a, b \in Pending' : to'[a].tenant = to'[b].tenant /\ to'[a].email = to'[b].email => a = b
      BY <2>1, <2>3 DEF IndexHeld
    <3>2. \A q \in Request : pc'[q] \in Added =>
             /\ job'[q].id \in Invitation \ Known'
             /\ inserting'[<<job'[q].letter.tenant, job'[q].letter.email>>] = q
             /\ PendingFor(job[q].letter.tenant, job[q].letter.email)' = {}
      BY <2>3, <2>7
    <3>3. \A p, q \in Request : pc'[p] \in Added /\ pc'[q] \in Added /\ job'[p].id = job'[q].id => p = q
      BY <2>8
    <3> QED
      BY <3>1, <3>2, <3>3 DEF IndexHeld
  <2>10. LettersAllowed'
    BY <2>1, <2>3 DEF LettersAllowed
  <2>11. LateIsRefused'
    BY <1>1, <2>1, <2>2, LateKept
  <2>12. \A q \in Request : Admits(q)' = Admits(q)
    BY <1>1, <2>1, <2>2 DEF Admits
  <2> QED
    BY <2>1, <2>4, <2>5, <2>9, <2>10, <2>11, <2>12, MembershipKept
<1> QED
  BY <1>4, <1>5

(* It is committed: pending now, and alone at its address.                    *)
LEMMA CommitKeeps ==
  ASSUME TypeOK, InvitationsInv, NEW r \in Request, CommitInvitation(r)
  PROVE  TypeOK' /\ InvitationsInv'
<1> USE SentinelAssumption
<1> USE DEF TypeOK, InvitationsInv
<1> DEFINE i == job[r].id
           l == job[r].letter
           k == <<l.tenant, l.email>>
<1>1. /\ pc[r] = "publish" /\ pc[r] \in Added /\ r \notin late
      /\ pc' = [pc EXCEPT ![r] = "ok"]
      /\ inserting' = [x \in Tenant \X Email |-> IF inserting[x] = r THEN Nobody ELSE inserting[x]]
      /\ UNCHANGED <<account, member, role, accepted, revoked, expired, mailed, job, late>>
  BY NotLate DEF CommitInvitation, Goto, Release, userVars, Added
<1>2. /\ job[r] \in InviteJob /\ MayInvite(l.by, l.role) /\ job[r].kind = "invite"
      /\ i \in Invitation \ Known /\ inserting[k] = r /\ PendingFor(l.tenant, l.email) = {}
  BY <1>1 DEF JobsInOrder, StageHasJob, IndexHeld, InviteJob
<1>3. l \in Letter /\ k \in Tenant \X Email
  BY <1>2 DEF InviteJob, Letter, MayInvite
<1>4. /\ Known' = Known \cup {i} /\ to'[i] = l /\ \A x \in Known : to'[x] = to[x]
      /\ to' \in [Known' -> Letter]
  <2>1. to' = [x \in Known \cup {i} |-> IF x = i THEN l ELSE to[x]]
    BY DEF CommitInvitation
  <2> QED
    BY <1>2, <1>3, <2>1 DEF Known
<1>5. Pending' = Pending \cup {i} /\ Pending \subseteq Known
  BY <1>1, <1>2, <1>4 DEF Pending
<1>6. TypeOK'
  BY <1>1, <1>2, <1>4 DEF Status
<1>7. JobsInOrder'
  BY <1>1, <1>4 DEF JobsInOrder, StageHasJob, Added
<1>8. \A q \in Request : pc'[q] \in Added => q # r /\ pc[q] \in Added
  BY <1>1 DEF Added
<1>9. \A x, e : PendingFor(x, e)' \subseteq PendingFor(x, e) \cup (IF <<x, e>> = k THEN {i} ELSE {})
  BY <1>4, <1>5 DEF PendingFor
<1>10. ASSUME NEW q \in Request, pc'[q] \in Added
       PROVE  /\ job[q].id \in Invitation \ Known'
              /\ inserting'[<<job[q].letter.tenant, job[q].letter.email>>] = q
              /\ PendingFor(job[q].letter.tenant, job[q].letter.email)' = {}
  <2> DEFINE x == job[q].letter.tenant
             e == job[q].letter.email
  <2>1. /\ q # r /\ pc[q] \in Added /\ job[q].id \in Invitation \ Known
        /\ inserting[<<x, e>>] = q /\ PendingFor(x, e) = {} /\ job[q] \in InviteJob
    BY <1>8, <1>10 DEF IndexHeld, JobsInOrder, StageHasJob
  <2>2. <<x, e>> \in Tenant \X Email /\ <<x, e>> # k
    BY <1>2, <2>1 DEF InviteJob
  <2>3. job[q].id # i
    BY <1>1, <2>1 DEF IndexHeld
  <2>4. PendingFor(x, e)' = {}
    <3>1. job' = job
      BY <1>1
    <3> QED
      BY <1>9, <2>1, <2>2, <3>1
  <2> QED
    BY <1>1, <1>4, <2>1, <2>2, <2>3, <2>4
<1>11. IndexHeld'
  <2>1. \A a \in Pending : ~(to[a].tenant = l.tenant /\ to[a].email = l.email)
    BY <1>2 DEF PendingFor
  <2>2. \A a, b \in Pending' : to'[a].tenant = to'[b].tenant /\ to'[a].email = to'[b].email => a = b
    BY <1>4, <1>5, <2>1 DEF IndexHeld
  <2>3. \A q \in Request : pc'[q] \in Added =>
           /\ job'[q].id \in Invitation \ Known'
           /\ inserting'[<<job'[q].letter.tenant, job'[q].letter.email>>] = q
           /\ PendingFor(job[q].letter.tenant, job[q].letter.email)' = {}
    BY <1>1, <1>10
  <2>4. \A p, q \in Request : pc'[p] \in Added /\ pc'[q] \in Added /\ job'[p].id = job'[q].id => p = q
    BY <1>1, <1>8 DEF IndexHeld
  <2> QED
    BY <2>2, <2>3, <2>4 DEF IndexHeld
<1>12. LettersAllowed'
  BY <1>2, <1>4 DEF LettersAllowed
<1>13. LateIsRefused'
  BY <1>1, LateKept
<1>14. \A q \in Request : Admits(q)' = Admits(q)
  BY <1>1, <1>2 DEF Admits
<1> QED
  BY <1>1, <1>4, <1>6, <1>7, <1>11, <1>12, <1>13, <1>14, MembershipKept

-------------------------------------------------------------------------------
(* The steps of an acceptance.                                                *)
LEMMA LookupKeeps ==
  ASSUME TypeOK, InvitationsInv, NEW r \in Request, LookupInvitation(r)
  PROVE  TypeOK' /\ InvitationsInv'
<1> USE DEF TypeOK, InvitationsInv
<1> DEFINE i == job[r].id
<1>1. pc[r] = "lookup" /\ job[r].kind = "accept"
  BY DEF LookupInvitation, JobsInOrder, StageHasJob
<1>2. CASE i \notin Pending \/ i \in expired
  <2>1. Fail(r, "404")
    BY <1>2 DEF LookupInvitation
  <2> QED
    BY <1>1, <2>1, FailKeeps DEF Working, Status
<1>3. CASE ~(i \notin Pending \/ i \in expired)
  <2>1. r \notin late /\ i \in Known
    BY <1>3 DEF LateIsRefused, Pending
  <2>2. CASE member[to[i].email] # NoOrg
    <3>1. Fail(r, "409")
      BY <1>3, <2>2 DEF LookupInvitation
    <3> QED
      BY <1>1, <2>1, <3>1, FailKeeps DEF Working, Status
  <2>3. CASE member[to[i].email] = NoOrg
    <3>1. /\ Goto(r, "account") /\ job' = [job EXCEPT ![r].fresh = to[i].email \notin account]
          /\ UNCHANGED <<userVars, inviteVars, expired, mailed, inserting, late>>
      BY <1>3, <2>3 DEF LookupInvitation
    <3>2. job[r] \in PlainJob
      BY <1>1 DEF Job, InviteJob
    <3>3. /\ job'[r] \in PlainJob /\ job'[r].id = i /\ job'[r].kind = "accept"
          /\ job' \in [Request -> Job] /\ \A q \in Request \ {r} : job'[q] = job[q]
      <4> DEFINE b == to[i].email \notin account
      <4>1. b \in BOOLEAN /\ job' = [job EXCEPT ![r] = [job[r] EXCEPT !.fresh = b]]
        BY <3>1
      <4> HIDE DEF b
      <4> QED
        BY <1>1, <3>2, <4>1, PlainGetsFlag DEF Job
    <3>4. StageHasJob(r)'
      <4>1. Known' = Known
        BY <3>1 DEF inviteVars, Known
      <4> QED
        BY <2>1, <3>1, <3>3, <4>1 DEF StageHasJob, Goto, Added
    <3>5. LateIsRefused'
      BY <2>1, <3>1, <3>3, LateKept DEF Goto, inviteVars
    <3> QED
      BY <1>1, <3>1, <3>3, <3>4, <3>5, StageKeeps DEF userVars, Working, Added
  <2> QED
    BY <2>2, <2>3
<1> QED
  BY <1>2, <1>3

(* The first transaction of an acceptance makes the account.                 *)
LEMMA AccountKeeps ==
  ASSUME TypeOK, InvitationsInv, NEW r \in Request, EnsureAccount(r)
  PROVE  TypeOK' /\ InvitationsInv'
<1> USE DEF TypeOK, InvitationsInv
<1>1. /\ pc[r] = "account" /\ r \notin late /\ job[r].kind = "accept" /\ job[r].id \in Known
  BY NotLate DEF EnsureAccount, JobsInOrder, StageHasJob
<1>2. ASSUME NEW status \in {"400", "409", "500"}, Fail(r, status) PROVE TypeOK' /\ InvitationsInv'
  BY <1>1, <1>2, FailKeeps DEF Working, Status
<1>3. ASSUME Goto(r, "join"), account' = account \cup {to[job[r].id].email},
             UNCHANGED <<member, role, inviteVars, expired, mailed, inserting, job, late>>
      PROVE  TypeOK' /\ InvitationsInv'
  <2>1. account' \subseteq Email
    BY <1>1, <1>3 DEF Letter
  <2>2. Known' = Known
    BY <1>3 DEF inviteVars, Known
  <2>3. StageHasJob(r)'
    BY <1>1, <1>3, <2>2 DEF StageHasJob, Goto, Added
  <2>4. LateIsRefused'
    BY <1>1, <1>3, LateKept DEF Goto, inviteVars
  <2> QED
    BY <1>1, <1>3, <2>1, <2>3, <2>4, StageKeeps DEF Working, Added
<1> QED
  BY <1>2, <1>3 DEF EnsureAccount

(* The membership and the stamp, in one commit.                               *)
LEMMA JoinKeeps ==
  ASSUME TypeOK, InvitationsInv, NEW r \in Request, JoinTenant(r)
  PROVE  TypeOK' /\ InvitationsInv'
<1> USE SentinelAssumption
<1> USE DEF TypeOK, InvitationsInv
<1> DEFINE i == job[r].id
           e == to[i].email
<1>1. /\ pc[r] = "join" /\ r \notin late /\ job[r].kind = "accept" /\ i \in Known
  BY NotLate DEF JoinTenant, JobsInOrder, StageHasJob
<1>2. /\ to[i] \in Letter /\ MayInvite(to[i].by, to[i].role)
  BY <1>1 DEF LettersAllowed
<1>3. /\ e \in Email /\ to[i].tenant \in Tenant /\ to[i].role \in OrgRole /\ to[i].role # "owner"
      /\ to[i].role = "admin" => to[i].by = "owner"
  BY <1>2 DEF Letter, INVITABLE_ROLES, MayInvite, Inviter
<1>4. CASE member[e] # NoOrg
  <2>1. Fail(r, "500")
    BY <1>4 DEF JoinTenant
  <2> QED
    BY <1>1, <2>1, FailKeeps DEF Working, Status
<1>5. CASE member[e] = NoOrg
  <2>1. /\ member' = [member EXCEPT ![e] = to[i].tenant]
        /\ role' = [role EXCEPT ![e] = to[i].role]
        /\ accepted' = accepted \cup {i}
        /\ pc' = [pc EXCEPT ![r] = "ok"]
        /\ UNCHANGED <<account, to, revoked, expired, mailed, inserting, job, late>>
        /\ Known' = Known
    BY <1>5 DEF JoinTenant, Goto, Known
  <2>2. TypeOK'
    BY <1>1, <1>3, <2>1 DEF Status
  <2>3. JobsInOrder'
    BY <2>1 DEF JobsInOrder, StageHasJob, Added
  <2>4. IndexHeld'
    <3>1. \A q \in Request : pc'[q] \in Added => pc[q] \in Added
      BY <2>1 DEF Added
    <3> QED
      BY <2>1, <3>1, IndexKept DEF IndexHeld
  <2>5. LettersAllowed'
    BY <2>1 DEF LettersAllowed
  <2>6. LateIsRefused'
    BY <1>1, <2>1, LateKept
  <2>7. accepted' = UNION {Admits(q)' : q \in Request}
    <3>1. Admits(r)' = {i} /\ Admits(r) = {}
      BY <1>1, <2>1 DEF Admits
    <3>2. \A q \in Request \ {r} : Admits(q)' = Admits(q)
      BY <2>1 DEF Admits
    <3>3. accepted = UNION {Admits(q) : q \in Request}
      BY DEF MembersWereInvited
    <3> QED
      BY <2>1, <3>1, <3>2, <3>3
  <2>8. \A a \in Email : member'[a] \in Tenant =>
           \E x \in accepted' : /\ to[x].tenant = member'[a]
                                /\ to[x].email = a
                                /\ to[x].role = role'[a]
    <3> SUFFICES ASSUME NEW a \in Email, member'[a] \in Tenant
                 PROVE  \E x \in accepted' : /\ to[x].tenant = member'[a]
                                             /\ to[x].email = a
                                             /\ to[x].role = role'[a]
      OBVIOUS
    <3>1. CASE a = e
      BY <1>3, <2>1, <3>1
    <3>2. CASE a # e
      <4>1. member'[a] = member[a] /\ role'[a] = role[a]
        BY <2>1, <3>2
      <4> QED
        BY <2>1, <4>1 DEF MembersWereInvited
    <3> QED
      BY <3>1, <3>2
  <2>9. MembersWereInvited'
    BY <2>1, <2>7, <2>8 DEF MembersWereInvited
  <2>10. AdminsComeFromOwner'
    <3> SUFFICES ASSUME NEW a \in Email
                 PROVE  /\ member'[a] # NoOrg /\ role'[a] = "owner" => member'[a] = OwnOrg
                        /\ member'[a] \in Tenant /\ role'[a] = "admin" =>
                              \E x \in accepted' : /\ to[x].tenant = member'[a]
                                                   /\ to[x].email = a
                                                   /\ to[x].by = "owner"
      BY <2>1 DEF AdminsComeFromOwner
    <3>1. CASE a = e
      BY <1>3, <2>1, <3>1
    <3>2. CASE a # e
      <4>1. member'[a] = member[a] /\ role'[a] = role[a]
        BY <2>1, <3>2
      <4> QED
        BY <2>1, <4>1 DEF AdminsComeFromOwner
    <3> QED
      BY <3>1, <3>2
  <2> QED
    BY <2>2, <2>3, <2>4, <2>5, <2>6, <2>9, <2>10
<1> QED
  BY <1>4, <1>5

-------------------------------------------------------------------------------
(* Revocation, and owners who register.                                       *)
LEMMA RevokeKeeps ==
  ASSUME TypeOK, InvitationsInv, NEW r \in Request, CommitRevoke(r)
  PROVE  TypeOK' /\ InvitationsInv'
<1> USE DEF TypeOK, InvitationsInv
<1>1. /\ pc[r] = "revoke" /\ r \notin late /\ job[r].kind = "revoke" /\ job[r].id \in Known
      /\ revoked' = revoked \cup {job[r].id}
      /\ pc' = [pc EXCEPT ![r] = "ok"]
      /\ UNCHANGED <<account, member, role, to, accepted, expired, mailed, inserting, job, late>>
      /\ Known' = Known
  BY NotLate DEF CommitRevoke, Goto, userVars, Known, JobsInOrder, StageHasJob
<1>2. TypeOK'
  BY <1>1 DEF Status
<1>3. JobsInOrder'
  BY <1>1 DEF JobsInOrder, StageHasJob, Added
<1>4. IndexHeld'
  <2>1. \A q \in Request : pc'[q] \in Added => pc[q] \in Added
    BY <1>1 DEF Added
  <2> QED
    BY <1>1, <2>1, IndexKept DEF IndexHeld
<1>5. LettersAllowed' /\ LateIsRefused'
  BY <1>1, LateKept DEF LettersAllowed
<1>6. \A q \in Request : Admits(q)' = Admits(q)
  BY <1>1 DEF Admits
<1> QED
  BY <1>1, <1>2, <1>3, <1>4, <1>5, <1>6, MembershipKept

(* A step that changes no stage: only the rows of users and of time.          *)
LEMMA UsersKeep ==
  ASSUME TypeOK, InvitationsInv, UNCHANGED <<to, accepted, revoked, inserting, job, late>>,
         expired \subseteq expired', TypeOK',
         \A q \in Request : \/ pc'[q] = pc[q]
                            \/ q \notin late /\ pc'[q] = "ok" /\ job[q].kind # "accept",
         \A e \in Email : \/ member'[e] = member[e] /\ role'[e] = role[e]
                          \/ member'[e] = NoOrg
                          \/ member'[e] = OwnOrg
  PROVE  InvitationsInv'
<1> USE SentinelAssumption
<1> USE DEF TypeOK, InvitationsInv
<1>1. Known' = Known
  BY DEF Known
<1>2. JobsInOrder'
  BY <1>1 DEF JobsInOrder, StageHasJob, Added
<1>3. IndexHeld'
  <2>1. \A q \in Request : pc'[q] \in Added => pc[q] \in Added
    BY DEF Added
  <2> QED
    BY <2>1, IndexKept DEF IndexHeld
<1>4. LettersAllowed' /\ LateIsRefused'
  BY <1>1 DEF LettersAllowed, LateIsRefused
<1>5. \A q \in Request : Admits(q)' = Admits(q)
  BY DEF Admits
<1>6. accepted' = UNION {Admits(q)' : q \in Request}
  BY <1>5 DEF MembersWereInvited
<1>7. \A e \in Email : member'[e] \in Tenant => member'[e] = member[e] /\ role'[e] = role[e]
  OBVIOUS
<1>8. MembersWereInvited'
  <2>1. \A e \in Email : member'[e] \in Tenant =>
           \E i \in accepted' : /\ to'[i].tenant = member'[e]
                                /\ to'[i].email = e
                                /\ to'[i].role = role'[e]
    BY <1>7 DEF MembersWereInvited
  <2> QED
    BY <1>6, <2>1 DEF MembersWereInvited
<1>9. AdminsComeFromOwner'
  BY <1>7 DEF AdminsComeFromOwner
<1> QED
  BY <1>2, <1>3, <1>4, <1>8, <1>9

(* A registration makes its user the owner of a tenant of its own.           *)
LEMMA RegisterKeeps ==
  ASSUME TypeOK, InvitationsInv, NEW r \in Request, CommitRegister(r)
  PROVE  TypeOK' /\ InvitationsInv'
<1> USE DEF TypeOK, InvitationsInv
<1> DEFINE e == job[r].email
<1>1. pc[r] = "found" /\ r \notin late /\ job[r].kind = "register" /\ e \in Email
  BY NotLate DEF CommitRegister, JobsInOrder, StageHasJob
<1>2. CASE e \in account
  <2>1. Fail(r, "500")
    BY <1>2 DEF CommitRegister
  <2> QED
    BY <1>1, <2>1, FailKeeps DEF Working, Status
<1>3. CASE e \notin account
  <2>1. /\ account' = account \cup {e}
        /\ member' = [member EXCEPT ![e] = OwnOrg]
        /\ role' = [role EXCEPT ![e] = "owner"]
        /\ pc' = [pc EXCEPT ![r] = "ok"]
        /\ UNCHANGED <<to, accepted, revoked, expired, mailed, inserting, job, late>>
        /\ Known' = Known
    BY <1>3 DEF CommitRegister, Goto, inviteVars, Known
  <2>2. TypeOK'
    BY <1>1, <2>1 DEF Status, OrgRole
  <2> QED
    BY <1>1, <2>1, <2>2, UsersKeep
<1> QED
  BY <1>2, <1>3

(* Expiry and the removal of a member only take something away.              *)
LEMMA OthersKeep ==
  ASSUME TypeOK, InvitationsInv,
         (\E i \in Known : Expire(i)) \/ (\E e \in Email : RemoveMember(e)) \/ UNCHANGED vars
  PROVE  TypeOK' /\ InvitationsInv'
<1> USE DEF TypeOK
<1>1. /\ UNCHANGED <<to, accepted, revoked, inserting, pc, job, late>> /\ expired \subseteq expired'
      /\ \A a \in Email : (member'[a] = member[a] /\ role'[a] = role[a]) \/ member'[a] = NoOrg
  BY DEF Expire, RemoveMember, vars, userVars, inviteVars
<1>2. Known' = Known
  BY <1>1 DEF Known
<1>3. TypeOK'
  BY <1>1, <1>2 DEF Expire, RemoveMember, vars, userVars, inviteVars
<1> QED
  BY <1>1, <1>3, UsersKeep

-------------------------------------------------------------------------------
(* Every reachable state is of its type and keeps the invariant: the type of  *)
(* a committed invitation needs what the earlier stages have checked.         *)
THEOREM InvitationsInvariant == Spec => [](TypeOK /\ InvitationsInv)
<1>1. Init => TypeOK /\ InvitationsInv
  <2> SUFFICES ASSUME Init PROVE TypeOK /\ InvitationsInv
    OBVIOUS
  <2>1. Known = {} /\ Pending = {}
    BY DEF Init, Known, Pending
  <2>2. TypeOK
    BY <2>1, NewJobs DEF Init, TypeOK, Job, OrgRole
  <2>3. JobsInOrder /\ IndexHeld /\ LettersAllowed /\ LateIsRefused
    BY <2>1 DEF Init, JobsInOrder, StageHasJob, IndexHeld, LettersAllowed, LateIsRefused, Added
  <2>4. \A r \in Request : Admits(r) = {}
    BY DEF Init, Admits
  <2>5. UNION {Admits(r) : r \in Request} = {}
    BY <2>4
  <2>6. MembersWereInvited /\ AdminsComeFromOwner
    BY <2>5, SentinelAssumption DEF Init, MembersWereInvited, AdminsComeFromOwner
  <2> QED
    BY <2>2, <2>3, <2>6 DEF InvitationsInv
<1>2. TypeOK /\ InvitationsInv /\ [Next]_vars => TypeOK' /\ InvitationsInv'
  <2> SUFFICES ASSUME TypeOK, InvitationsInv, [Next]_vars PROVE TypeOK' /\ InvitationsInv'
    OBVIOUS
  <2>1. ASSUME NEW r \in Request, Abort(r) PROVE TypeOK' /\ InvitationsInv'
    BY <2>1, FailKeeps DEF Abort, Status
  <2> QED
    BY <2>1, ArriveKeeps, CheckKeeps, SendKeeps, InsertKeeps, CommitKeeps, LookupKeeps,
       AccountKeeps, JoinKeeps, RevokeKeeps, RegisterKeeps, OthersKeep
       DEF Next, Proceed
<1> QED
  BY <1>1, <1>2, PTL DEF Spec

(* A set whose elements are all equal has at most one.                        *)
LEMMA AtMostOne ==
  ASSUME NEW S, \A x, y \in S : x = y
  PROVE  Cardinality(S) <= 1
<1>1. CASE S = {}
  BY <1>1, FS_EmptySet
<1>2. CASE S # {}
  <2>1. PICK x : S = {x}
    BY <1>2
  <2> QED
    BY <2>1, FS_Singleton
<1> QED
  BY <1>1, <1>2

(* At most one invitation is pending for an address in a tenant: the partial  *)
(* unique index makes good for the check that reads before it writes.         *)
THEOREM OnePendingInvitation == Spec => []OnePendingPerEmail
<1>1. InvitationsInv => OnePendingPerEmail
  <2> SUFFICES ASSUME InvitationsInv, NEW x \in Tenant, NEW e \in Email
               PROVE  Cardinality(PendingFor(x, e)) <= 1
    BY DEF OnePendingPerEmail
  <2>1. \A i, j \in PendingFor(x, e) : i = j
    BY DEF InvitationsInv, IndexHeld, PendingFor
  <2> QED
    BY <2>1, AtMostOne
<1> QED
  BY <1>1, InvitationsInvariant, PTL

(* Every member of an inviting tenant accepted an invitation of it, and the   *)
(* accepted invitations are those of the acceptances that succeeded.          *)
THEOREM MembersAreInvited == Spec => []MembersWereInvited
<1>1. InvitationsInv => MembersWereInvited
  BY DEF InvitationsInv
<1> QED
  BY <1>1, InvitationsInvariant, PTL

(* An admin was invited by the owner, whatever chain of invitations and       *)
(* removals led there, and an owner has founded an organization.              *)
THEOREM OnlyOwnersMakeAdmins == Spec => []AdminsComeFromOwner
<1>1. InvitationsInv => AdminsComeFromOwner
  BY DEF InvitationsInv
<1> QED
  BY <1>1, InvitationsInvariant, PTL

(* An acceptance that begins after its invitation was accepted, revoked or    *)
(* expired fails.                                                             *)
THEOREM LateAcceptancesFail == Spec => []LateAcceptFails
<1>1. InvitationsInv => LateAcceptFails
  BY DEF InvitationsInv, LateIsRefused, LateAcceptFails
<1> QED
  BY <1>1, InvitationsInvariant, PTL
===============================================================================

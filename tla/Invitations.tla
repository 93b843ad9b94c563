------------------------------ MODULE Invitations ------------------------------
(***************************************************************************)
(* How users come to belong to an organization: invitations created, mailed, *)
(* revoked and accepted, owners who register, members who are removed        *)
(* (application/organizations/use_cases.py, OrganizationService,             *)
(* IdentityService.register).                                                *)
(*                                                                         *)
(* AcceptInvitation runs in two transactions, one on the identity tables and *)
(* one in the tenant, and does not look at the invitation again in the       *)
(* second.  A user is its e-mail address, and knows its password or not; the *)
(* inviter is an owner or an admin whom require_org has let pass.            *)
(***************************************************************************)
EXTENDS FiniteSets, AccessPolicy

CONSTANTS Tenant,      \* organizations that invite
          RoleAsked,   \* roles that invitations ask for
          Email,       \* normalized addresses
          Invitation,  \* invitation ids, each with its secret token
          Request,     \* one-shot requests
          OwnOrg,      \* the organization a registering owner founds
          NoOrg,       \* no membership
          Nobody       \* no transaction

ASSUME SentinelAssumption ==
    /\ OwnOrg \notin Tenant /\ NoOrg \notin Tenant /\ OwnOrg # NoOrg
    /\ Nobody \notin Request
    /\ RoleAsked \subseteq OrgRole

VARIABLES
    account,     \* addresses with an app_user row
    member,      \* member[e]: organization of e's membership (unique per user)
    role,        \* role[e]: role of that membership
    to,          \* to[i]: tenant, address, role and inviter of a committed invitation
    accepted,    \* invitations with accepted_at set
    revoked,     \* invitations with revoked_at set
    expired,     \* invitations whose expires_at has passed
    mailed,      \* invitations whose link has been sent
    inserting,   \* inserting[<<t, e>>]: open transaction with a pending row for e
    pc,          \* where each request is, or its HTTP status
    job,         \* the request: what it does and to whom
    late         \* acceptances begun when the invitation was no longer pending

userVars == <<account, member, role>>
inviteVars == <<to, accepted, revoked>>
vars == <<userVars, inviteVars, expired, mailed, inserting, pc, job, late>>

Known == DOMAIN to
Pending == Known \ (accepted \cup revoked)
Status == {"ok", "400", "404", "409", "500"}
Working == {"checkPending", "insert", "mail", "publish",
            "lookup", "account", "join", "revoke", "found"}

INVITABLE_ROLES == OrgRole \ {"owner"}
Inviter == {"owner", "admin"}
Letter == [tenant : Tenant, email : Email, role : INVITABLE_ROLES, by : Inviter]

NoJob == [kind |-> "none", id |-> Nobody, email |-> Nobody, fresh |-> FALSE]
PlainJob == [kind : {"none", "accept", "revoke", "register"},
             id : Invitation \cup {Nobody}, email : Email \cup {Nobody}, fresh : BOOLEAN]
InviteJob == [kind : {"invite"}, id : Invitation \cup {Nobody},
              letter : [tenant : Tenant, email : Email, role : OrgRole, by : Inviter]]
Job == PlainJob \cup InviteJob

Init ==
    /\ account = {}
    /\ member = [e \in Email |-> NoOrg]
    /\ role = [e \in Email |-> "viewer"]
    /\ to = [i \in {} |-> i]
    /\ accepted = {}
    /\ revoked = {}
    /\ expired = {}
    /\ mailed = {}
    /\ inserting = [k \in Tenant \X Email |-> Nobody]
    /\ pc = [r \in Request |-> "idle"]
    /\ job = [r \in Request |-> NoJob]
    /\ late = {}

Goto(r, where) == pc' = [pc EXCEPT ![r] = where]
Release(r) == inserting' = [k \in Tenant \X Email |->
                              IF inserting[k] = r THEN Nobody ELSE inserting[k]]

(* An exception anywhere: the open unit of work rolls back.                  *)
Fail(r, status) ==
    /\ Goto(r, status)
    /\ Release(r)
    /\ UNCHANGED <<userVars, inviteVars, expired, mailed, job, late>>

Abort(r) == pc[r] \in Working /\ Fail(r, "500")

(* CreateInvitation.execute: the identity unit of work.                      *)
BeginInvite(r, t, e, by, asked) ==
    /\ pc[r] = "idle"
    /\ job' = [job EXCEPT ![r] = [kind |-> "invite", id |-> Nobody,
                  letter |-> [tenant |-> t, email |-> e, role |-> asked, by |-> by]]]
    /\ Goto(r, IF member[e] = NoOrg THEN "checkPending" ELSE "400")
    /\ UNCHANGED <<userVars, inviteVars, expired, mailed, inserting, late>>

PendingFor(t, e) == {i \in Pending : to[i].tenant = t /\ to[i].email = e}

(* Fault: an admin may invite an admin.                                      *)
MayInviteAnyone(by, asked) == asked \in INVITABLE_ROLES

(* The roles an inviter may hand out.                                        *)
MayInvite(by, asked) ==
    /\ asked \in INVITABLE_ROLES
    /\ ~(by = "admin" /\ asked = "admin")

(* create_invitation's checks; an expired invitation still counts as pending *)
(* for has_pending_for_email.                                                *)
CheckPending(r) ==
    LET l == job[r].letter IN
    /\ pc[r] = "checkPending"
    /\ Goto(r, IF MayInvite(l.by, l.role) /\ PendingFor(l.tenant, l.email) = {}
               THEN "insert" ELSE "400")
    /\ UNCHANGED <<userVars, inviteVars, expired, mailed, inserting, job, late>>

Unused(i) == i \notin Known /\ \A p \in Request : job[p].kind = "invite" => job[p].id # i

(* Fault: the insertion relies on has_pending_for_email alone.               *)
InsertUnconstrained(r, i) ==
    /\ pc[r] = "insert"
    /\ Unused(i)
    /\ job' = [job EXCEPT ![r].id = i]
    /\ Goto(r, "mail")
    /\ UNCHANGED <<userVars, inviteVars, expired, mailed, inserting, late>>

(* invitations.add, flushed: the partial unique index makes it wait for, or  *)
(* fail on, another pending row of the same address.                         *)
InsertInvitation(r, i) ==
    LET k == <<job[r].letter.tenant, job[r].letter.email>> IN
    /\ pc[r] = "insert"
    /\ inserting[k] = Nobody
    /\ Unused(i)
    /\ IF PendingFor(k[1], k[2]) # {} THEN Fail(r, "500")
       ELSE /\ inserting' = [inserting EXCEPT ![k] = r]
            /\ job' = [job EXCEPT ![r].id = i]
            /\ Goto(r, "mail")
            /\ UNCHANGED <<userVars, inviteVars, expired, mailed, late>>

(* email_sender.send_invitation, before the audit record and the commit.     *)
SendInvitation(r) ==
    /\ pc[r] = "mail"
    /\ mailed' = mailed \cup {job[r].id}
    /\ Goto(r, "publish")
    /\ UNCHANGED <<userVars, inviteVars, expired, inserting, job, late>>

CommitInvitation(r) ==
    /\ pc[r] = "publish"
    /\ to' = [i \in Known \cup {job[r].id} |->
                IF i = job[r].id THEN job[r].letter ELSE to[i]]
    /\ Goto(r, "ok")
    /\ Release(r)
    /\ UNCHANGED <<userVars, accepted, revoked, expired, mailed, job, late>>

(* POST /invitations/accept: whoever got the mail presents its token.        *)
BeginAccept(r, i) ==
    /\ pc[r] = "idle"
    /\ job' = [job EXCEPT ![r] = [NoJob EXCEPT !.kind = "accept", !.id = i]]
    /\ Goto(r, "lookup")
    /\ late' = IF i \in Known /\ i \notin Pending \ expired THEN late \cup {r} ELSE late
    /\ UNCHANGED <<userVars, inviteVars, expired, mailed, inserting>>

(* Fault: an invitation that was revoked is still found.                     *)
LookupRevokedToo(r) ==
    LET i == job[r].id IN
    /\ pc[r] = "lookup"
    /\ IF i \notin Known \ accepted \/ i \in expired THEN Fail(r, "404")
       ELSE IF member[to[i].email] # NoOrg THEN Fail(r, "409")
       ELSE /\ Goto(r, "account")
            /\ job' = [job EXCEPT ![r].fresh = to[i].email \notin account]
            /\ UNCHANGED <<userVars, inviteVars, expired, mailed, inserting, late>>

(* The reads of the first unit of work.                                      *)
LookupInvitation(r) ==
    LET i == job[r].id IN
    /\ pc[r] = "lookup"
    /\ IF i \notin Pending \/ i \in expired THEN Fail(r, "404")
       ELSE IF member[to[i].email] # NoOrg THEN Fail(r, "409")
       ELSE /\ Goto(r, "account")
            /\ job' = [job EXCEPT ![r].fresh = to[i].email \notin account]
            /\ UNCHANGED <<userVars, inviteVars, expired, mailed, inserting, late>>

(* Its writes and commit: a new account is inserted (the unique e-mail fails *)
(* a second insertion) unless the password is weak, an old one must verify    *)
(* the password.                                                             *)
EnsureAccount(r) ==
    LET e == to[job[r].id].email IN
    /\ pc[r] = "account"
    /\ \/ Fail(r, "400")
       \/ job[r].fresh /\ e \in account /\ Fail(r, "500")
       \/ ~job[r].fresh /\ member[e] # NoOrg /\ Fail(r, "409")
       \/ /\ IF job[r].fresh THEN e \notin account ELSE member[e] = NoOrg
          /\ account' = account \cup {e}
          /\ Goto(r, "join")
          /\ UNCHANGED <<member, role, inviteVars, expired, mailed, inserting, job, late>>

(* Fault: the membership is committed, the invitation stays pending.         *)
JoinUnmarked(r) ==
    LET i == job[r].id
        e == to[i].email
    IN
    /\ pc[r] = "join"
    /\ IF member[e] # NoOrg THEN Fail(r, "500")
       ELSE /\ member' = [member EXCEPT ![e] = to[i].tenant]
            /\ role' = [role EXCEPT ![e] = to[i].role]
            /\ Goto(r, "ok")
            /\ UNCHANGED <<account, inviteVars, expired, mailed, inserting, job, late>>

(* The second unit of work: the unique user of membership fails a second     *)
(* insertion, and mark_accepted stamps the invitation by its id.             *)
JoinTenant(r) ==
    LET i == job[r].id
        e == to[i].email
    IN
    /\ pc[r] = "join"
    /\ IF member[e] # NoOrg THEN Fail(r, "500")
       ELSE /\ member' = [member EXCEPT ![e] = to[i].tenant]
            /\ role' = [role EXCEPT ![e] = to[i].role]
            /\ accepted' = accepted \cup {i}
            /\ Goto(r, "ok")
            /\ UNCHANGED <<account, to, revoked, expired, mailed, inserting, job, late>>

(* revoke_invitation reads the row ...                                       *)
BeginRevoke(r, i) ==
    /\ pc[r] = "idle"
    /\ job' = [job EXCEPT ![r] = [NoJob EXCEPT !.kind = "revoke", !.id = i]]
    /\ Goto(r, IF i \in Pending THEN "revoke" ELSE "404")
    /\ UNCHANGED <<userVars, inviteVars, expired, mailed, inserting, late>>

(* ... and stamps it at commit.                                              *)
CommitRevoke(r) ==
    /\ pc[r] = "revoke"
    /\ revoked' = revoked \cup {job[r].id}
    /\ Goto(r, "ok")
    /\ UNCHANGED <<userVars, to, accepted, expired, mailed, inserting, job, late>>

(* register: get_by_email and has_membership_for_email ...                   *)
BeginRegister(r, e) ==
    /\ pc[r] = "idle"
    /\ job' = [job EXCEPT ![r] = [NoJob EXCEPT !.kind = "register", !.email = e]]
    /\ Goto(r, IF e \in account THEN "409" ELSE "found")
    /\ UNCHANGED <<userVars, inviteVars, expired, mailed, inserting, late>>

(* ... then user, organization and owner membership in one commit.           *)
CommitRegister(r) ==
    LET e == job[r].email IN
    /\ pc[r] = "found"
    /\ IF e \in account THEN Fail(r, "500")
       ELSE /\ account' = account \cup {e}
            /\ member' = [member EXCEPT ![e] = OwnOrg]
            /\ role' = [role EXCEPT ![e] = "owner"]
            /\ Goto(r, "ok")
            /\ UNCHANGED <<inviteVars, expired, mailed, inserting, job, late>>

(* Seven days pass.                                                          *)
Expire(i) ==
    /\ i \notin expired
    /\ expired' = expired \cup {i}
    /\ UNCHANGED <<userVars, inviteVars, mailed, inserting, pc, job, late>>

(* RemoveMember of an invited member, as TenantData models it.               *)
RemoveMember(e) ==
    /\ member[e] \in Tenant
    /\ member' = [member EXCEPT ![e] = NoOrg]
    /\ UNCHANGED <<account, role, inviteVars, expired, mailed, inserting, pc, job, late>>

Arrive(r) ==
    \/ \E t \in Tenant, e \in Email, by \in Inviter, asked \in RoleAsked :
          BeginInvite(r, t, e, by, asked)
    \/ \E i \in mailed : BeginAccept(r, i)
    \/ \E i \in Known : BeginRevoke(r, i)
    \/ \E e \in Email : BeginRegister(r, e)

Proceed(r) ==
    \/ CheckPending(r) \/ SendInvitation(r) \/ CommitInvitation(r)
    \/ \E i \in Invitation : InsertInvitation(r, i)
    \/ LookupInvitation(r) \/ EnsureAccount(r) \/ JoinTenant(r)
    \/ CommitRevoke(r) \/ CommitRegister(r)

Next ==
    \/ \E r \in Request : Arrive(r) \/ Proceed(r) \/ Abort(r)
    \/ \E i \in Known : Expire(i)
    \/ \E e \in Email : RemoveMember(e)

Spec == Init /\ [][Next]_vars
-------------------------------------------------------------------------------
(* Every variable has its type; in particular no committed invitation asks   *)
(* for the owner role, and every stamp is on a committed invitation.         *)
TypeOK ==
    /\ account \subseteq Email
    /\ member \in [Email -> Tenant \cup {OwnOrg, NoOrg}]
    /\ role \in [Email -> OrgRole]
    /\ Known \subseteq Invitation /\ to \in [Known -> Letter]
    /\ accepted \subseteq Known /\ revoked \subseteq Known /\ expired \subseteq Known
    /\ mailed \subseteq Invitation
    /\ inserting \in [Tenant \X Email -> Request \cup {Nobody}]
    /\ pc \in [Request -> {"idle"} \cup Working \cup Status]
    /\ job \in [Request -> Job]
    /\ late \subseteq Request

(* However invitations race, a tenant has at most one pending invitation for *)
(* an address ("Pending invitations are unique per (organization, email)").  *)
OnePendingPerEmail ==
    \A t \in Tenant, e \in Email : Cardinality(PendingFor(t, e)) <= 1

Admits(r) == IF job[r].kind = "accept" /\ pc[r] = "ok" THEN {job[r].id} ELSE {}

(* Membership is accounted for: whoever is in an inviting tenant accepted an *)
(* invitation of that tenant, to that address and for that role, and an      *)
(* invitation is accepted exactly when an acceptance of it succeeded.        *)
MembersWereInvited ==
    /\ \A e \in Email : member[e] \in Tenant =>
          \E i \in accepted : /\ to[i].tenant = member[e]
                              /\ to[i].email = e
                              /\ to[i].role = role[e]
    /\ accepted = UNION {Admits(r) : r \in Request}

(* No chain of invitations makes an admin without the owner: who is an admin *)
(* holds an accepted invitation that the owner sent, and owners only found.  *)
AdminsComeFromOwner ==
    \A e \in Email :
        /\ member[e] # NoOrg /\ role[e] = "owner" => member[e] = OwnOrg
        /\ member[e] \in Tenant /\ role[e] = "admin" =>
              \E i \in accepted : /\ to[i].tenant = member[e]
                                  /\ to[i].email = e
                                  /\ to[i].by = "owner"

(* An invitation that was accepted, revoked or expired when an acceptance    *)
(* began admits nobody through it, although the second transaction never     *)
(* looks at the invitation again.                                            *)
LateAcceptFails == \A r \in late : pc[r] # "ok"

(* What makes these inductive.  Each stage of a request has the job it is a   *)
(* stage of, with what the earlier stages have made sure of.                  *)
Added == {"mail", "publish"}

StageHasJob(r) ==
    /\ pc[r] \in {"checkPending", "insert"} \cup Added => job[r] \in InviteJob
    /\ pc[r] \in {"insert"} \cup Added => MayInvite(job[r].letter.by, job[r].letter.role)
    /\ pc[r] \in {"lookup", "account", "join"} => job[r].kind = "accept"
    /\ pc[r] \in {"account", "join", "revoke"} => job[r].id \in Known
    /\ pc[r] = "revoke" => job[r].kind = "revoke"
    /\ pc[r] = "found" => job[r].kind = "register" /\ job[r].email \in Email

JobsInOrder == \A r \in Request : StageHasJob(r)

(* An invitation that is added and not committed is the only one with its id, *)
(* holds the index entry of its address, and no committed one is pending      *)
(* there.                                                                     *)
IndexHeld ==
    /\ \A r \in Request : pc[r] \in Added =>
          LET l == job[r].letter IN
          /\ job[r].id \in Invitation \ Known
          /\ inserting[<<l.tenant, l.email>>] = r
          /\ PendingFor(l.tenant, l.email) = {}
    /\ \A q, r \in Request :
          pc[q] \in Added /\ pc[r] \in Added /\ job[q].id = job[r].id => q = r
    /\ \A i, j \in Pending : to[i].tenant = to[j].tenant /\ to[i].email = to[j].email => i = j

LettersAllowed == \A i \in Known : MayInvite(to[i].by, to[i].role)

(* Nothing makes an invitation pending again, so a late acceptance is refused *)
(* by its lookup.                                                             *)
LateIsRefused ==
    \A r \in late : /\ pc[r] \in {"lookup", "404", "500"}
                    /\ job[r].id \in accepted \cup revoked \cup expired

InvitationsInv == /\ JobsInOrder /\ IndexHeld /\ LettersAllowed /\ LateIsRefused
                  /\ MembersWereInvited /\ AdminsComeFromOwner
================================================================================

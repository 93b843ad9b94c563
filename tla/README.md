# VaultLog: a TLA+ verification

VaultLog is a multi-tenant secrets manager: a FastAPI backend over PostgreSQL
and Redis, with a Next.js client. This directory models the backend's stateful
core and the client's session handling in TLA+, checks them with TLC on small
instances, and proves every safety property the runs check with TLAPS, for every
value of the constants. Source paths
below are relative to `src/backend/src/vaultlog/` unless they start with `src/`.

- [1. The system](#1-the-system)
- [2. What the models share](#2-what-the-models-share)
- [3. Modules and the code](#3-modules-and-the-code)
- [4. Runs](#4-runs)
- [5. Proofs](#5-proofs)
- [6. What is not modelled](#6-what-is-not-modelled)
- [7. Plan](#7-plan)

## 1. The system

Every HTTP request is one use case. A use case opens a unit of work (one
PostgreSQL transaction at READ COMMITTED, `autoflush=False`), calls a domain
service, records an audit event and commits. Any number of workers run requests
side by side, so PostgreSQL row locks, unique keys and foreign keys are the only
synchronisation there is. But for the tenant's key (`SecretConflictError`), no
layer catches `IntegrityError` or `StaleDataError`: a lost race ends as a 500 and
a rollback.

| Component | State | Operations | Meets |
|---|---|---|---|
| Audit ledger (`domain/audit`, `repositories/audit.py`) | `audit_event` rows, one `audit_chain_head` row per tenant | `record`, `RecordAccessDenial` | every tenant use case, in the same transaction |
| Chain verification (`verify_chain`, `VerifyTenantChain`) | none | read rows, read head, walk | live appends |
| Refresh rotation (`IdentityService`) | `auth_session`, `refresh_token` | login, refresh, logout | concurrent refreshes, expiry, member removal |
| MFA and step-up (`MfaService`, `StepUpVerify`) | `totp_secret`, `recovery_code`, `mfa_enabled` | enroll, confirm, verify, step up, disable | login |
| Access policy (`domain/access`) | none (reads membership, grant, vault) | `require_org`, `require_vault`, listing, capabilities | every tenant use case |
| Vaults, grants, secrets | `vault`, `vault_grant`, `secret`, `secret_version` | create, update, delete, grant, revoke, rotate, reveal | policy, ledger, each other |
| Organizations, invitations | `organization`, `membership`, `invitation` | register, invite, accept, revoke, remove | identity tables, mail |
| Tenant keys (`key_service.py`) | `tenant_key_version` | provision after registration, load the active key | registration, secrets |
| Row-level security, connection pools | `app.current_tenant` of the transaction, who has which connection | checkout, `set_config`, close | every tenant table |
| Rate limiting | Redis sorted sets | sliding window | identity routes |
| Session client (`src/frontend/lib`) | access token, timer, step-up cache | refresh, retry, log out | refresh rotation |

What is hard about it:

- *one tenant's writers queue on one row*: the hash chain is only a chain if
  each append reads the head that the previous one committed;
- *deferred writes*: ORM changes reach the database in the flush of `commit()`,
  long after the reads they were decided on;
- *two transactions in one request*: refused requests (denial records) and
  accepted invitations;
- *errors that must commit*: reuse of a refresh token answers 401 and revokes
  the session all the same;
- *rows that vanish*: memberships, grants, vaults and seeds are removed while
  requests that have read them are under way;
- *connections that others used*: the tenant is a setting of a transaction on a
  pooled connection, and row-level security believes it;
- *commits in doubt*: the provision of a key is tried again when the first try
  failed, or only seemed to;
- *a clock read too early*: a rate-limit check takes its timestamp before Redis
  runs its commands;
- *tabs*: each keeps its own access token and timer, all share one refresh cookie
  that can be spent once.

`PROJECT.json` lists these as hazards, each at its line, with the properties
that would notice it going wrong.

Correctness, per component:

- ledger: one gapless hash chain per tenant whatever races or crashes; a
  mutation and its event commit together; answers agree with the database;
- verification: accepts exactly the intact chains, notices every alteration, and
  never blames an event of a healthy one;
- rotation: at most one spendable token per session, no token spent twice, reuse
  kills the session, nothing revives it;
- MFA: a recovery code works once, a confirmed factor stays on;
- policy: the documented matrix, the same in the advertised capabilities;
- tenant data: the log tells the history of vaults, grants and secrets; nothing
  deleted comes back or is written to; nobody removed succeeds afterwards;
- invitations: one pending per address, members accounted for, no admin without
  the owner;
- rate limiter: a bound on what a window admits, and no rejection without as many
  recent requests;
- connections and keys: nobody sees another tenant's rows, one key per tenant and
  none missing without a reason, no wait for a connection while holding one;
- session client: no session lost without a reason, logged out stays logged out,
  no token left to go stale.

## 2. What the models share

A request is a process that runs once: it arrives at any moment, takes one step
per SQL statement that can wait or whose result can go stale, and ends in an
HTTP status. Statements between which nobody can observe a difference are one
step. Retries are further requests.

PostgreSQL is modelled from how the repositories use it: a statement sees what
was committed when it starts; `SELECT ... FOR UPDATE`, `UPDATE` and `DELETE`
wait for the row's holder and then see its newest version; an `INSERT` waits for
an open transaction with the same unique key and fails if that one commits;
locks go with the transaction. Uncommitted writes are invisible, so models keep
the committed rows, who locks what, and what each request has planned to write;
`Commit` publishes all of it in one step. Where the code flushes early
(`vaults.add`, `secrets.add`, `invitations.add`, ...) the lock is taken there,
where it does not (`upsert`) it is taken in the commit step.

`Abort` may end any request before its commit: an exception, a lost connection,
a killed process. Its transaction rolls back. There is no crash to recover from
beyond that, since all durable state is PostgreSQL's. Three modules go further
because the code reacts to it: `TenantConnections` has connections that break
before and after the server was sent a COMMIT, `RateLimiter` Redis commands that
fail before and after they ran, `SessionClient` answers that never arrive.

Data is abstracted to what properties distinguish: identifiers are model values,
event contents one opaque body, times whether an expiry has passed, ciphertexts
the additional data they were sealed with. SHA-256 is a collision-free
constructor: a hash is the sequence of events it commits to.

Operators with the comment *Fault:* are plausible mistakes in the code. They
take no part in any specification; replacing the definition that follows by one
of them must make TLC report the property paired with it in `PROJECT.json`.

## 3. Modules and the code

**`AuditChain`** — rows, hashes and heads (`hashing.py`, `models.py`) and
`Intact`, what an intact chain is, stated without a walk.

**`AuditLog`** — the promise of ADR 0008 without locks, transactions or hashes:
a log per tenant that grows at its end; a mutation takes effect in the step that
logs it.

**`AuditLedger`** — audited requests. `Perform`, `Forbid` and
`RefuseUnaudited` are the policy's outcomes, `BeginDenial` the second unit of
work of `RecordAccessDenial`, `SelectHeadForUpdate` and `InsertHead` /
`InsertHeadConflict` the two halves of `lock_or_create_head`, `Commit` is
`record` with the flush and the commit. `LedgerIsALog` states that it implements
`AuditLog`, with the log read off the rows below the head.

**`AuditVerify`** — `verify_chain` as an operator, on the rows in the order of
`list_all_ordered` (the i-th row is the one with i - 1 rows below it);
**`AuditTamper`** alters an honest chain (delete, alter, alter and rehash, relink, exchange, forge) and asks
it again; **`ChainVerifier`** runs `VerifyTenantChain` with its two reads
beside the requests of `AuditLedger`, for the tenants in `Verified`.

**`RefreshRotation`** — `LockToken` is `get_by_hash_for_update`, `Decide` the
tests of `IdentityService.refresh` in their order, `CommitRefresh` what
`RefreshTokens.execute` commits for each of them (errors included),
`BeginLogout`/`CommitLogout` the unlocked read and the write of `logout`.
Anyone may present any issued token at any time. `late` remembers the requests
that began when their session was already revoked.

**`AccessPolicy`** — `PolicyService` as operators; **`PolicyMatrix`** asks it
everything. It has no state: `PolicyAsDocumented` is a fact about constants.

**`TenantData`** — vaults, grants, secrets and members of one tenant. A request
picks an operation from `Menu`; `Authorize` is the policy on the committed rows;
`Statement` dispatches to one action per service method; `LockHead` is
`record`'s head lock (here only as a lock: what it protects is `AuditLedger`'s
subject); `Commit` flushes, fails on stale plans, publishes and logs. `Wanted`
says which rows the next statement needs, `DeadlockVictim` is PostgreSQL's
deadlock detector. `doomed` remembers requests that arrived after their target
was deleted or their actor removed. An answered request forgets what it was
about (`Answer`), so that states differ only in what can still matter.

**`Invitations`** — invitation (check, flushed insert under the partial unique
index, mail, commit), acceptance in its two transactions, revocation,
registration, expiry and removal. A user is an address. The policy's verdict on
the inviter and the audit record are left to the other modules.

**`MfaEnrollment`** — one user's seed, recovery codes and flag. A request is a
short program (`Plan`) of statements. A TOTP code is the seed it belongs to, a
batch of recovery codes one code.

**`RateLimiter`** — `RedisRateLimiter.check` for one bucket. `ReadClock` is
`time.time()`, `Execute` the `MULTI`/`EXEC` of prune, count, add and expire with
the verdict on the count, `Remove` the separate `ZREM` of a rejected request;
`ExecuteFails` and `RemoveFails` end in `fail_closed`'s 503 or let the request
through unmetered, whether or not Redis carried the command out.

**`SessionClient`** — EXTENDS `RefreshRotation` with the browser: one cookie and,
per tab, a token store, a timer and a `refreshPromise`. `TimerFires` is
`runRefresh`, `Unauthorized` the retry path of `apiRequest`, `Reload`
`bootstrapSession`; all call `RefreshSession`, which joins the promise or sends.
What a failed promise clears depends on who awaited it (`RefreshRejected`). The
server's side of every call is a request of `RefreshRotation`, action by action.

**`TenantConnections`** — units of work on two pools. A request is a sequence of
units (`Units`): `Checkout`, `SetConfig`, `Work`, then `Commit`, `Conflict`,
`Forbid`, or one of the failures. `Visible` is the policy of
`scripts/rls/policies`, `Admissible` its WITH CHECK and the unique keys. `Raise`
holds `RegisterUser`'s retry. `EnterFails` is `__aenter__` failing in
`set_config`, after which nobody closes the session until it is collected.

**`MC...`** modules give the constants their values, where a configuration
file cannot, and the symmetry sets. `MCTenantData` and `TenantConnections` number
requests in the order in which they begin (`NamedInOrder`, the guard of `Arrive`):
which name a request has makes no difference, so nothing is lost.

**`...Proofs`** modules hold the theorems of section 5. The inductive invariants
they need are at the end of the modules they are about, after *What makes these
inductive*, so that TLC can check them too.

## 4. Runs

`CHECK_DEADLOCK FALSE` in most configurations: requests run once, so every
behaviour ends when all have been answered. That they *are* answered is
`EveryRequestAnswered`.

| Run | Bounds | Shows |
|---|---|---|
| `audit_ledger` | 3 requests and one verification on one tenant, 1 request on another | `ChainIntact`, `HeadReadIsCurrent`, `AnswersMatchLedger`, `AlarmExplained`, refinement `LedgerIsALog`, `EveryRequestAnswered` |
| `audit_tamper` | chains of up to 3 events over 2 bodies, up to 2 alterations | `VerifyDecidesIntact`, `TamperEvident` |
| `refresh_rotation` | 1 session, 4 tokens, 3 requests | `OneLiveToken`, `LinearFamily`, `ReuseRevokes`, `RevokedFamilyIsDead`, `TokenSpentOnce`, `NothingComesBack`, `EveryRequestAnswered` |
| `tenant_data` | 3 requests out of 12 operations; owner, admin, viewer; one vault and one secret there, one of each to be created | `SecretsFollowLog`, `RotationReadIsCurrent`, `NoLateSuccess`, `AccessFollowsLog`, `UpsertToldTruly`, `PolicyAsDocumented` (every role, grant, vault state and action), `HistoryIsKept`, `EveryRequestAnswered` |
| `invitations` | 2 tenants, 1 address, 2 invitations, 4 requests, every invitable and one uninvitable role | `OnePendingPerEmail`, `MembersWereInvited`, `AdminsComeFromOwner`, `LateAcceptFails` |
| `mfa_enrollment` | 2 seeds, 3 batches of codes, 4 requests | `RecoveryCodeOnce`, `ConfirmedMfaHolds` |
| `rate_limiter` | 5 checks, capacity 2, window 3, delay up to 1, 5 ticks | `WindowBound`, `RejectionExplained` |
| `session_client` | 2 tabs, 1 session, 3 tokens, 3 requests | `SessionLossExplained`, `LogoutHolds`, `TokenKeptFresh` |
| `tenant_connections` | 3 requests, 2 tenants, 1 connection in each pool | `TenantIsolation`, `KeylessExplained`, `SealedStaysOpenable`, `EveryRequestAnswered` |

and, in `audit_ledger` and `refresh_rotation`, `TypeOK`.

Three runs end in a violation that the source shows too:

- `verifier_false_alarm`: `VerifyTenantChain` reads the rows and then the head;
  an append that commits in between makes an untouched ledger look broken.
  `AlarmExplained` says this is the only alarm a healthy ledger can raise: the
  head is newer than the rows, and the rows are a prefix of its chain.
- `mfa_proven`: `confirm()` selects the user's seed again after the code was
  verified; an enrollment that commits in between gets its seed confirmed with
  the code of the old one.
- `logout_clears`: a refresh under way when its tab logs out stores its token
  after `clearSession`. `LogoutHolds` is what remains true: without a refresh
  under way, a tab that logged out holds no token until somebody signs in.

### Observations without a run

Tenant data and identity:

- The second transaction of `AcceptInvitation` does not look at the invitation
  again. Of two acceptances that both passed the lookup, the second one succeeds
  too if the member was removed after the first. The repository's tests
  (`test_invitation_flows.py`) accept twice one after the other only.
- A grant's insertion is flushed after the chain head was locked and then waits
  for a membership row, while a removal locks the membership first and the head
  second: `DeadlockVictim` fires in `tenant_data`, one of the two gets a 500.
- An update of a vault that was deleted after it was read succeeds, so that
  the log has `vault.updated` after `vault.deleted`; the vault stays deleted.
- Two racing MFA confirmations delete only the recovery codes each can see, so
  that both batches stay valid.
- The docstring of `list_accessible_vault_ids` still reserves the unrestricted
  listing to owners and admins; the code follows ADR 0010, and so does
  `PolicyAsDocumented`.
- A tenant whose registration failed in both provisions has no key, and no
  operation of the program gives it one: each of its seals is answered 500.
- `__aenter__` does not close its session when `set_config` fails; the connection
  is out of the pool until the garbage collector gets to it.

Rate limiting:

- `WindowBound` is about the window less `MaxDelay`. For the full window it
  fails: a check with an older timestamp that reaches Redis after a newer one
  does not see what the newer one has pruned.
- The entry of a rejected request counts until its `ZREM`, and for the whole
  window if that fails. `test_rejected_requests_do_not_consume_quota`
  (`tests/integration/test_rate_limiter.py`) holds for one request at a time.
- On a bucket that fails open, a failed `ZREM` lets a request through that was
  already found to be over the limit.

Session client:

- The refresh handler deletes the cookie on its response and raises; the
  exception handler's own response replaces it, so the cookie survives a 401 that
  `frontend_prd.md` documents as "401 + cookie cleared".
- A member removed during a rotation gets a 401 with the old token already
  spent and the old cookie kept: the next refresh is reported as reuse.
- A failing refresh that was sent before a sign-in of the same tab clears the
  new token when it ends.
- A logout whose call failed leaves cookie and session alive.
- With an access token lifetime of two minutes or less,
  `scheduleProactiveRefresh` never waits.

### Why the bounds are enough

The races here are between two transactions, and a third (or fourth) request is
there to set up the state they race in or to use what they leave: a head created
under a race, then appended to by a request that waited; a token rotated, reused
and its successor presented; a seed confirmed, replaced and confirmed again. The
ledger has a second tenant because the chains must not mix. Rotation needs one
token more than it has requests, or a rotation would wait for the random source.
One address suffices for invitations, since addresses share nothing but
the tenant; two invitations allow one to be replaced. A chain of three events has
a first, a middle and a last row. The policy is checked on its whole domain. A
bucket of two needs a third check to be rejected, a fourth to be admitted by
mistake and a fifth to prune out of order; the window is longer than the delay, and
the horizon longer than the window, so that entries age and the key expires. Two
tabs are what it takes to race for a cookie, three requests a refresh, its rival
and a logout or a later refresh. One connection per pool makes every request use
the connection another left, and makes a request that held one while asking for a
second wait for ever; of three requests, one registers a tenant, one another or
the same key again, and one uses what they left. For everything but
`EveryRequestAnswered` the theorems of section 5 remove the bounds.

Symmetry is used for safety only, over sets whose members the module compares
for equality and nothing else.

### Fairness

`FairSpec` asks for weak fairness of `Proceed(r)` for each request: an event
loop and a PostgreSQL server run a statement that can run, and PostgreSQL ends
a cycle of waiting transactions. It does not ask for requests to arrive, to fail
or to be aborted, nor for time to pass. `FairVerifierSpec` is that of the ledger,
with a verifier nobody has to run. `TenantConnections` also asks that the server
finishes the commits it was sent and that a session without references is
collected; it does not rely on the pool's timeout. Strong fairness for lock queues is not
needed because requests run once: each lock is taken finitely often.

## 5. Proofs

Every invariant and every action property of a passing run is a theorem, for any
sets of tenants, users, vaults, secrets, tokens, tabs, connections and requests, any
menu of operations and any limits. Liveness is not (see the end of this section).

The constants are assumed to be what their comments say, and no more; TLC evaluates
the assumptions in every run:

- functions have their types (`TenantOfType`, the first conjuncts of
  `TenantAssumption`), and the values for "nobody", "no token", "no seed" and the
  like are none of the others;
- `TenantAssumption`: a secret that exists at the start is in a vault that does; the
  menu has an operation; an operation is about a secret exactly if it is a
  secret's. The last one is how the routes are typed: reveal, rotate and delete of a
  secret take the identifier of one (`/vaults/{vault_id}/secrets/{secret_id}`),
  creation makes one, and the other operations are about a vault;
- `ConnectionAssumption`: the two engines have separate pools;
- `LimiterAssumption`: capacity and window are positive (as the settings are), and a
  check is not under way for longer than a window. `WindowBound` says nothing about
  slower ones.

All the proofs go the same way: an inductive invariant, one lemma per action that
can disturb it, and each property as its consequence. What the invariants add to the
properties is mostly one idea, *what a request has read under a lock is still so
when it commits*:

**`AuditLedgerProofs`**, the ledger. `ChainIntact` alone is not inductive: a step of a
request with an outdated head would break it, so it needs that there is no such
request. `LedgerInv` adds: who is about to append owns the head row and has
read what is in it (`HolderReadsHead`); a tenant without a head row has an empty
chain (`NoRowNoChain`, for the insertion of a first head); and a hash commits to
as many events as its position says (`HashesCountEvents`, so that a new hash is
never an old one and `uq_audit_tenant_entry_hash` is never violated). The lemma
`AppendKeepsIntact` is about chains alone: a row built on the head of an intact
chain extends it to an intact chain. From `LedgerInvariant` follow
`ChainAlwaysIntact`, `AppendsNeverCollide`, `AnswersAgree` and, step by step,
`LedgerImplementsLog`: `Commit` maps to `Mutate` or `Refuse`, every other action to a
stuttering step.

The same module, verification. `VerifyDecides` is about the algorithm, for any finite
set of rows with distinct sequences: `verify_chain(list_all_ordered(S), {h}).ok` if
and only if `Intact(S, h)`. That the listing has a row for each of its places needs no
induction: the ranks of n rows are n different numbers below n, hence all of them
(`RanksHaveNoGap`). `HeadFixesRows` says that two intact chains with the same head are
the same: the last row in which they differed (`OneIsLast`) would have the hash of the
other chain's row, since the head or the next row determines it, and a hash determines
its row (`SameHashSameRow`). Hence `AnyAlterationIsNoticed`, whatever the table was
altered to, and with the invariant that what the service wrote is intact
(`TamperInv`), `VerificationIsRight` and `TamperingIsEvident`. `AlarmsAreExplained` is
about the verifier beside live requests: the rows it has read stay in the table from
the first one on (`ReadRowsStay`), and every row's hash is a beginning of the head's
(`HashesArePrefixes`), so the walk blames no row and the head can only be ahead.

**`RefreshRotationProofs`.** `RotationInv` joins the four invariants to be shown
with `HolderOwnsRow` (who has read a token row still holds its lock),
`RotatesUnspent` (a decided rotation is of a token that is still unspent, which
the lock guarantees until the commit) and `LateIsRejected` (a request that began
on a revoked session can only be on the way to a 401 or 500). From
`RotationInvariant` follow `NeverTwoLiveTokens`, `FamiliesAreLinear`,
`ReuseAlwaysRevokes`, `NoTokenSpentTwice` and `RevokedStaysDead`;
`HistoryIsKept` proves the action property `NothingComesBack`.

**`SessionClientProofs`** builds on these: `ClientUsesServer` shows that the client's
specification implies the server's, so that all of the above holds behind the
browser. `ClientInv`: unless something went wrong, a tab is waiting for every refresh
under way, no two present the same token (`OwnCalls`), what is presented is unspent
(`PresentsUnspent`, from `CookieUnspent` and `AnswerIsNews`: the cookie is unspent but
for an answer on its way, and that answer brings a token nobody has presented). Hence
`SessionLossIsExplained`; `CleanLogoutHolds` and `TokensAreKeptFresh` are inductive with
`CleanTabs`.

**`RateLimiterProofs`.** An admitted request has its entry in the set until it is older
than the window by the clock (`StillCounted`): whoever prunes has a timestamp no
newer than the clock, and the key lives as long as its entries
(`KeyOutlivesEntries`). A new admission therefore counts all others of its shortened
window, which gives `WindowsAreBounded` with the cardinality of finite sets;
`RejectionsAreExplained` keeps the rivals that were counted when the check ran.

**`TenantConnectionsProofs`.** A connection nobody holds has no setting, and one whose
holder has run `set_config` has the holder's tenant (`PinnedToHolder`), each unit has
one connection of its own pool (`OneConnectionEach`): `TenantsAreIsolated`. The keys in
the table *or in a commit in doubt* are one per tenant (`OneKeyEach`), and what is
sealed, planned to be or in doubt, is sealed with keys that are committed
(`SealedWithKeys`): `SecretsStayOpenable`. `RegistersItself` and `ProvisionedHasKey` give
`KeylessTenantsAreExplained`.

**`InvitationsProofs`.** An invitation that is flushed and not committed holds the
index entry of its address, where no committed one is pending (`IndexHeld`):
`OnePendingInvitation`. `MembersAreInvited` and `OnlyOwnersMakeAdmins` need that
committed invitations were allowed (`LettersAllowed`) and that each stage of a request
has what the earlier ones made sure of (`JobsInOrder`). `LateAcceptancesFail`: nothing
makes an invitation pending again.

**`MfaEnrollmentProofs`.** A recovery code about to open a session is locked by the
request that presents it, one that has opened a session is gone for good
(`CodeIsHeld`, `OpenedIsSpent`): `RecoveryCodesOpenOnce`. `ConfirmedMfaIsEnabled` rests on
`ReadIsFresh`: what an undisturbed confirmation has read of `mfa_enabled` still holds
when it decides not to write it.

**`TenantDataProofs`.** `RowsInv`: the row a request has locked is as its statement
found it (`RowsHeld`); who came too late stays too late (`LateIsStopped`); versions are
numbered without gaps and sealed for their place (`SealedInPlace`). Only two kinds of
step exist for the log: quiet ones, which leave rows and log alone, and commits, which
move only rows the request has locked, only forwards (`RowsMove`), and append one entry.
So `LateRequestsFail`, `RotationsReadCurrent` and the action property `HistoryKept`;
and, since each entry agrees with the effect it is committed with (`SecretLogStep`,
`GrantLogStep`, `RoleLogStep`, `VaultLogStep`, `UpsertLogStep`), `SecretsAsLogged`, `AccessAsLogged` and
`UpsertsToldTruly`. `PolicyIsDocumented` is a case analysis over roles and actions.

Checked by TLC only: the four `EveryRequestAnswered`. They rest on weak fairness,
whose meaning involves ENABLED, which this prover does not reason about. The three
violations are counterexamples and have nothing to prove.

## 6. What is not modelled

- *Listings, previews and other reads* that change nothing, except revelation.
- *Content of inputs*: schemas, password rules, the forbidden-key guard of
  audit metadata, e-mail normalisation.
- *Cryptography*: AES-GCM, Argon2, TOTP, JWT signatures and SHA-256 are ideal;
  token lifetimes are an expiry that may happen at any time.
- *Presentation*: headers, cookies other than the refresh cookie, CSRF, logging,
  error texts. A status is kept where it tells outcomes apart.
- *The client's caches*: step-up tokens and React Query.
- *Which bucket has which limit*, and the file walk of `scripts/rls/apply.py`
  that gives each table its policy.
- *Web pages* and *migrations*: rendering, and one-shot DDL whose constraints
  appear where requests meet them.
- *Administrators of the database*, except as the alterations of `AuditTamper`.

Simplifications inside the models, all towards more behaviours or none lost:
`TenantData` starts with members already there, one vault and one secret;
`RateLimiter` has one clock for all workers and bounds how long a check is under
way; `SessionClient` lets an access token expire at any time;
`MfaEnrollment` keeps issued challenge and step-up tokens valid for ever;
`Invitations` lets any owner or admin act at any time; the audit append of
`Invitations` and `MfaEnrollment` is left out, since it only adds a wait.

## 7. Plan

Done: the modules of section 3, in the order in which they are listed, and a theorem
for every safety property of their runs.

Left:

1. that every request of `MfaEnrollment` is answered, with its deadlock of disabling
   and confirming (`services.py:344`) made explicit: a question for TLC;
2. what section 4 states without a run as theorems about when it can happen: the
   second acceptance of one invitation, and the update of a deleted vault;
3. the safety part of `EveryRequestAnswered`: who waits, waits for a request that is
   running, and (for connections) nobody waits while holding one.

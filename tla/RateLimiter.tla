------------------------------ MODULE RateLimiter ------------------------------
(***************************************************************************)
(* RedisRateLimiter.check for one bucket: a sliding window in a sorted set.  *)
(* A worker reads its clock, and only then sends MULTI / EXEC, so the checks *)
(* of several workers reach Redis in another order than their timestamps;    *)
(* and the entry of a request that turns out to be over the limit is         *)
(* removed by a command of its own.  Any command may fail, before or after   *)
(* Redis has carried it out.                                                 *)
(***************************************************************************)
EXTENDS Integers, FiniteSets

CONSTANTS Request,     \* requests that count against the bucket
          Capacity,    \* capacity of the bucket
          Window,      \* window_seconds
          MaxDelay,    \* bound: longest time from time.time() to EXEC
          Horizon      \* bound: last tick of the clock

ASSUME LimiterAssumption ==
    /\ Capacity \in Nat \ {0}
    /\ Window \in Nat \ {0}
    /\ MaxDelay \in 0 .. Window
    /\ Horizon \in Nat

VARIABLES
    clock,        \* the time, of the workers and of Redis
    fail_closed,  \* the bucket's fail_closed flag
    zset,         \* requests with a member in the sorted set
    expires_at,   \* when the key expires
    pc,           \* where each check is, or how it ended
    stamp,        \* `now` of each check, its member's score
    executed      \* checks whose EXEC was carried out

vars == <<clock, fail_closed, zset, expires_at, pc, stamp, executed>>

Ended == {"admitted", "unmetered", "429", "503"}

Init ==
    /\ clock = 0
    /\ fail_closed \in BOOLEAN
    /\ zset = {}
    /\ expires_at = 0
    /\ pc = [r \in Request |-> "idle"]
    /\ stamp = [r \in Request |-> 0]
    /\ executed = {}

(* now = time.time()                                                         *)
ReadClock(r) ==
    /\ pc[r] = "idle"
    /\ pc' = [pc EXCEPT ![r] = "timed"]
    /\ stamp' = [stamp EXCEPT ![r] = clock]
    /\ UNCHANGED <<clock, fail_closed, zset, expires_at, executed>>

(* Fault: nothing is dropped from the set; only the key's expiry empties it. *)
LiveUnpruned(r) == IF clock >= expires_at THEN {} ELSE zset

(* ZREMRANGEBYSCORE key 0 (now - window_seconds), on a key that is gone once *)
(* its EXPIRE has passed.                                                    *)
Live(r) ==
    IF clock >= expires_at
        THEN {}
        ELSE {q \in zset : stamp[q] > stamp[r] - Window}

(* The pipeline: prune, count, add, expire.                                  *)
Pipeline(r) ==
    /\ zset' = Live(r) \cup {r}
    /\ expires_at' = clock + Window
    /\ executed' = executed \cup {r}

(* Fault: count > capacity.                                                  *)
OverByOne(r) == Cardinality(Live(r)) > Capacity

OverLimit(r) == Cardinality(Live(r)) >= Capacity

Execute(r) ==
    /\ pc[r] = "timed"
    /\ Pipeline(r)
    /\ pc' = [pc EXCEPT ![r] = IF OverLimit(r) THEN "full" ELSE "admitted"]
    /\ UNCHANGED <<clock, fail_closed, stamp>>

(* await self._redis.zrem(key, member); return False                         *)
Remove(r) ==
    /\ pc[r] = "full"
    /\ zset' = zset \ {r}
    /\ pc' = [pc EXCEPT ![r] = "429"]
    /\ UNCHANGED <<clock, fail_closed, expires_at, stamp, executed>>

(* check() on a RedisError: 503 for a credential endpoint, through for the   *)
(* others.                                                                   *)
OnRedisError(r) == pc' = [pc EXCEPT ![r] = IF fail_closed THEN "503" ELSE "unmetered"]

(* EXEC fails before Redis has run it, or its answer is lost.                *)
ExecuteFails(r) ==
    /\ pc[r] = "timed"
    /\ OnRedisError(r)
    /\ \/ Pipeline(r)
       \/ UNCHANGED <<zset, expires_at, executed>>
    /\ UNCHANGED <<clock, fail_closed, stamp>>

(* The same for ZREM: a request over the limit ends as every error ends, and *)
(* its entry may stay.                                                       *)
RemoveFails(r) ==
    /\ pc[r] = "full"
    /\ OnRedisError(r)
    /\ zset' \in {zset, zset \ {r}}
    /\ UNCHANGED <<clock, fail_closed, expires_at, stamp, executed>>

(* Time passes.  MaxDelay is where it is assumed that a check is not held up  *)
(* for longer than that between its clock and Redis.                         *)
Tick ==
    /\ clock < Horizon
    /\ \A r \in Request : pc[r] = "timed" => clock - stamp[r] < MaxDelay
    /\ clock' = clock + 1
    /\ UNCHANGED <<fail_closed, zset, expires_at, pc, stamp, executed>>

Next ==
    \/ \E r \in Request : \/ ReadClock(r) \/ Execute(r) \/ Remove(r)
                          \/ ExecuteFails(r) \/ RemoveFails(r)
    \/ Tick

Spec == Init /\ [][Next]_vars
-------------------------------------------------------------------------------
TypeOK ==
    /\ clock \in Nat
    /\ fail_closed \in BOOLEAN
    /\ zset \subseteq Request
    /\ expires_at \in Nat
    /\ pc \in [Request -> {"idle", "timed", "full"} \cup Ended]
    /\ stamp \in [Request -> Nat]
    /\ executed \subseteq Request

Admitted == {r \in Request : pc[r] = "admitted"}

(* Whatever the order in which racing checks reach Redis, and whatever fails, *)
(* no more than Capacity requests that were let through by the count carry    *)
(* timestamps of one window, shortened by the time a check may be under way:  *)
(* the full window is only guaranteed to checks that execute in the order of  *)
(* their timestamps.                                                          *)
WindowBound ==
    \A a \in Admitted :
        Cardinality({b \in Admitted : stamp[b] \in stamp[a] .. stamp[a] + Window - MaxDelay - 1})
            <= Capacity

(* Nobody is turned away by old requests: a 429 means that Capacity other     *)
(* checks with timestamps of the last Window had reached Redis.  (Not that    *)
(* they were admitted: an entry about to be removed counts.)  So a client     *)
(* that heeds Retry-After, while nobody else calls, gets through.             *)
RejectionExplained ==
    \A r \in Request :
        pc[r] = "429" =>
            Cardinality({q \in executed \ {r} : stamp[q] > stamp[r] - Window}) >= Capacity

(* What makes these inductive.  Where the count can be trusted: an admitted   *)
(* request has its entry in the set until it is older than the window by the  *)
(* clock.                                                                     *)
StillCounted ==
    \A r \in Admitted : r \in zset \/ stamp[r] <= clock - Window

(* Entries come from pipelines that ran, and these were finitely many.        *)
EntriesWereExecuted ==
    /\ IsFiniteSet(executed)
    /\ zset \subseteq executed
    /\ \A r \in Request : r \in executed => pc[r] \notin {"idle", "timed"}
    /\ \A r \in Request : pc[r] \in {"admitted", "full", "429"} => r \in executed

(* No timestamp is ahead of the clock, and that of a check on its way to      *)
(* Redis is not far behind.                                                   *)
StampsAreRecent ==
    \A r \in Request : /\ pc[r] # "idle" => stamp[r] <= clock
                       /\ pc[r] = "timed" => clock <= stamp[r] + MaxDelay

(* The key outlives its entries: EXPIRE is renewed with every one of them.    *)
KeyOutlivesEntries ==
    /\ expires_at <= clock + Window
    /\ \A r \in zset : stamp[r] + Window <= expires_at

(* The checks that count against r.                                           *)
Rivals(r) == {q \in executed \ {r} : stamp[q] > stamp[r] - Window}

FullMeansRivals ==
    \A r \in Request : pc[r] \in {"full", "429"} => Cardinality(Rivals(r)) >= Capacity

LimiterInv ==
    /\ EntriesWereExecuted /\ StampsAreRecent /\ KeyOutlivesEntries
    /\ StillCounted /\ WindowBound /\ FullMeansRivals
===============================================================================

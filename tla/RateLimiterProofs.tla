--------------------------- MODULE RateLimiterProofs ---------------------------
(***************************************************************************)
(* Proofs about RateLimiter, for any number of requests, any capacity and    *)
(* window, and any delay up to the window.                                   *)
(***************************************************************************)
EXTENDS RateLimiter, FiniteSetTheorems, TLAPS

(* Type correctness.                                                         *)
THEOREM TypeCorrect == Spec => []TypeOK
<1> USE LimiterAssumption
<1>1. Init => TypeOK
  BY DEF Init, TypeOK
<1>2. TypeOK /\ [Next]_vars => TypeOK'
  <2> SUFFICES ASSUME TypeOK, [Next]_vars PROVE TypeOK'
    OBVIOUS
  <2> USE DEF TypeOK, Ended
  <2>1. CASE UNCHANGED vars
    BY <2>1 DEF vars
  <2>2. ASSUME NEW r \in Request, ReadClock(r) PROVE TypeOK'
    BY <2>2 DEF ReadClock
  <2>3. ASSUME NEW r \in Request, Execute(r) PROVE TypeOK'
    BY <2>3 DEF Execute, Pipeline, Live
  <2>4. ASSUME NEW r \in Request, Remove(r) PROVE TypeOK'
    BY <2>4 DEF Remove
  <2>5. ASSUME NEW r \in Request, ExecuteFails(r) PROVE TypeOK'
    BY <2>5 DEF ExecuteFails, OnRedisError, Pipeline, Live
  <2>6. ASSUME NEW r \in Request, RemoveFails(r) PROVE TypeOK'
    BY <2>6 DEF RemoveFails, OnRedisError
  <2>7. CASE Tick
    BY <2>7 DEF Tick
  <2> QED
    BY <2>1, <2>2, <2>3, <2>4, <2>5, <2>6, <2>7 DEF Next
<1> QED
  BY <1>1, <1>2, PTL DEF Spec

(* What EXEC does to the sorted set, whether or not its answer arrives: the   *)
(* bookkeeping of entries, timestamps and the key's expiry goes on.           *)
LEMMA PipelineKeepsEntries ==
  ASSUME TypeOK, LimiterInv, NEW r \in Request, pc[r] = "timed",
         Pipeline(r), clock' = clock, stamp' = stamp,
         \A q \in Request : q # r => pc'[q] = pc[q],
         pc'[r] \in {"full"} \cup Ended
  PROVE  EntriesWereExecuted' /\ StampsAreRecent' /\ KeyOutlivesEntries'
<1> USE LimiterAssumption
<1> USE DEF TypeOK
<1>1. IsFiniteSet(executed')
  BY FS_AddElement DEF Pipeline, LimiterInv, EntriesWereExecuted
<1>2. EntriesWereExecuted'
  BY <1>1 DEF Pipeline, Live, LimiterInv, EntriesWereExecuted, Ended
<1>3. StampsAreRecent'
  BY DEF LimiterInv, StampsAreRecent, Ended
<1>4. KeyOutlivesEntries'
  BY DEF Pipeline, Live, LimiterInv, StampsAreRecent, KeyOutlivesEntries
<1> QED
  BY <1>2, <1>3, <1>4

(* A pipeline drops only entries that are older than the window by the clock, *)
(* not merely by the timestamp of the check that runs it.                     *)
LEMMA PipelineKeepsCounted ==
  ASSUME TypeOK, LimiterInv, NEW r \in Request, pc[r] = "timed",
         Pipeline(r), clock' = clock, stamp' = stamp,
         \A q \in Request : q # r => pc'[q] = pc[q]
  PROVE  StillCounted'
<1> USE LimiterAssumption
<1> USE DEF TypeOK
<1> SUFFICES ASSUME NEW q \in Request, pc'[q] = "admitted", q # r
             PROVE  q \in zset' \/ stamp[q] <= clock - Window
  BY DEF StillCounted, Admitted, Pipeline
<1>1. q \in zset \/ stamp[q] <= clock - Window
  BY DEF LimiterInv, StillCounted, Admitted
<1>2. CASE clock >= expires_at
  BY <1>1, <1>2 DEF LimiterInv, KeyOutlivesEntries
<1>3. CASE clock < expires_at
  BY <1>1, <1>3 DEF Pipeline, Live, LimiterInv, StampsAreRecent
<1> QED
  BY <1>2, <1>3

(* A check keeps its rivals: the set only gains what was executed.            *)
LEMMA RivalsOnlyGrow ==
  ASSUME TypeOK, LimiterInv, NEW r \in Request,
         IsFiniteSet(executed'), executed \subseteq executed',
         \A q \in executed \cup {r} : stamp'[q] = stamp[q]
  PROVE  /\ Rivals(r) \subseteq Rivals(r)'
         /\ Cardinality(Rivals(r)') \in Nat /\ Cardinality(Rivals(r)) \in Nat
         /\ Cardinality(Rivals(r)) <= Cardinality(Rivals(r)')
<1>1. Rivals(r) \subseteq Rivals(r)'
  BY DEF Rivals
<1>2. IsFiniteSet(Rivals(r)')
  <2>1. Rivals(r)' \in SUBSET executed'
    BY DEF Rivals
  <2> QED
    BY <2>1, FS_Subset
<1>3. IsFiniteSet(Rivals(r)) /\ Cardinality(Rivals(r)) <= Cardinality(Rivals(r)')
  BY <1>1, <1>2, FS_Subset
<1> QED
  BY <1>1, <1>2, <1>3, FS_CardinalityType

(* The requests admitted with timestamps of the window that begins with a.    *)
WindowOf(a) == {b \in Admitted : stamp[b] \in stamp[a] .. stamp[a] + Window - MaxDelay - 1}

(* Admission under a count below Capacity keeps the bound: whoever shares a   *)
(* window with the new request is still in the set, and was counted.          *)
LEMMA AdmissionKeepsBound ==
  ASSUME TypeOK, LimiterInv, NEW r \in Request, pc[r] = "timed", ~OverLimit(r),
         stamp' = stamp, Admitted' = Admitted \cup {r}
  PROVE  WindowBound'
<1> USE LimiterAssumption
<1> USE DEF TypeOK
<1> SUFFICES ASSUME NEW a \in Admitted' PROVE Cardinality(WindowOf(a)') <= Capacity
  BY DEF WindowBound, WindowOf
<1>1. IsFiniteSet(Live(r)) /\ Live(r) \subseteq executed /\ r \notin Live(r)
  <2>1. Live(r) \in SUBSET executed
    BY DEF Live, LimiterInv, EntriesWereExecuted
  <2> QED
    BY <2>1, FS_Subset DEF LimiterInv, EntriesWereExecuted
<1>2. CASE r \in WindowOf(a)'
  <2>1. WindowOf(a)' \subseteq Live(r) \cup {r}
    <3> SUFFICES ASSUME NEW b \in WindowOf(a)', b # r PROVE b \in Live(r)
      OBVIOUS
    <3>1. b \in Admitted /\ b \in Request /\ stamp[b] \in Nat
      BY DEF WindowOf, Admitted
    <3>2. stamp[r] - stamp[b] <= Window - MaxDelay - 1
      BY <1>2, <3>1 DEF WindowOf, Admitted
    <3>3. clock <= stamp[r] + MaxDelay
      BY DEF LimiterInv, StampsAreRecent
    <3>4. stamp[b] > clock - Window /\ stamp[b] > stamp[r] - Window
      BY <3>1, <3>2, <3>3
    <3>5. b \in zset
      BY <3>1, <3>4 DEF LimiterInv, StillCounted
    <3>6. clock < expires_at
      BY <3>1, <3>4, <3>5 DEF LimiterInv, KeyOutlivesEntries
    <3> QED
      BY <3>4, <3>5, <3>6 DEF Live
  <2>2. /\ IsFiniteSet(Live(r) \cup {r})
        /\ Cardinality(Live(r) \cup {r}) = Cardinality(Live(r)) + 1
        /\ Cardinality(Live(r)) \in Nat
    BY <1>1, FS_AddElement, FS_CardinalityType
  <2>3. IsFiniteSet(WindowOf(a)') /\ Cardinality(WindowOf(a)') <= Cardinality(Live(r) \cup {r})
    BY <2>1, <2>2, FS_Subset
  <2>4. Cardinality(WindowOf(a)') \in Nat
    BY <2>3, FS_CardinalityType
  <2> QED
    BY <2>2, <2>3, <2>4 DEF OverLimit
<1>3. CASE r \notin WindowOf(a)'
  <2>1. CASE a # r
    <3>1. a \in Admitted /\ WindowOf(a)' = WindowOf(a)
      BY <1>3, <2>1 DEF WindowOf
    <3> QED
      BY <3>1 DEF LimiterInv, WindowBound, WindowOf
  <2>2. CASE a = r
    <3>1. stamp[r] \in Nat /\ Window - MaxDelay - 1 < 0
      BY <1>3, <2>2 DEF WindowOf
    <3>2. WindowOf(a)' = {}
      BY <2>2, <3>1 DEF WindowOf
    <3> QED
      BY <3>2, FS_EmptySet
  <2> QED
    BY <2>1, <2>2
<1> QED
  BY <1>2, <1>3

(* Steps that admit nobody and touch no admitted request's timestamp.         *)
LEMMA NoAdmissionKeepsBound ==
  ASSUME LimiterInv, Admitted' = Admitted, \A q \in Admitted : stamp'[q] = stamp[q]
  PROVE  WindowBound'
BY DEF LimiterInv, WindowBound

(* A check found over the limit has its rivals: they are what it counted.     *)
LEMMA FullHasRivals ==
  ASSUME TypeOK, LimiterInv, NEW r \in Request, pc[r] = "timed", OverLimit(r)
  PROVE  Cardinality(Rivals(r)) >= Capacity
<1> USE LimiterAssumption
<1>1. Live(r) \subseteq Rivals(r)
  BY DEF Live, Rivals, LimiterInv, EntriesWereExecuted, TypeOK
<1>2. IsFiniteSet(Rivals(r))
  <2>1. Rivals(r) \in SUBSET executed
    BY DEF Rivals
  <2> QED
    BY <2>1, FS_Subset DEF LimiterInv, EntriesWereExecuted
<1>3. Cardinality(Live(r)) <= Cardinality(Rivals(r)) /\ IsFiniteSet(Live(r))
  BY <1>1, <1>2, FS_Subset
<1>4. Cardinality(Live(r)) \in Nat /\ Cardinality(Rivals(r)) \in Nat
  BY <1>2, <1>3, FS_CardinalityType
<1> QED
  BY <1>3, <1>4 DEF OverLimit

(* A step that changes no timestamp of an executed or rejected check and only *)
(* adds to what was executed keeps every rejection explained.                 *)
LEMMA RejectionsStayExplained ==
  ASSUME TypeOK, LimiterInv, IsFiniteSet(executed'), executed \subseteq executed',
         \A q \in executed : stamp'[q] = stamp[q],
         \A q \in Request : pc'[q] \in {"full", "429"} =>
            \/ pc[q] \in {"full", "429"}
            \/ stamp'[q] = stamp[q] /\ Cardinality(Rivals(q)) >= Capacity
  PROVE  FullMeansRivals'
<1> USE LimiterAssumption
<1> SUFFICES ASSUME NEW q \in Request, pc'[q] \in {"full", "429"}
             PROVE  Cardinality(Rivals(q)') >= Capacity
  BY DEF FullMeansRivals
<1>1. stamp'[q] = stamp[q] /\ Cardinality(Rivals(q)) >= Capacity
  BY DEF LimiterInv, FullMeansRivals, EntriesWereExecuted
<1>2. \A p \in executed \cup {q} : stamp'[p] = stamp[p]
  BY <1>1
<1>3. /\ Cardinality(Rivals(q)') \in Nat /\ Cardinality(Rivals(q)) \in Nat
      /\ Cardinality(Rivals(q)) <= Cardinality(Rivals(q)')
  BY <1>2, RivalsOnlyGrow
<1> QED
  BY <1>1, <1>3

(* Every step keeps the invariant.                                            *)
LEMMA LimiterInductive ==
  ASSUME TypeOK, TypeOK', LimiterInv, [Next]_vars
  PROVE  LimiterInv'
<1> USE LimiterAssumption
<1> USE DEF TypeOK
<1>0. IsFiniteSet(executed)
  BY DEF LimiterInv, EntriesWereExecuted
<1>1. CASE UNCHANGED vars
  BY <1>1 DEF vars, LimiterInv, EntriesWereExecuted, StampsAreRecent, KeyOutlivesEntries,
              StillCounted, WindowBound, FullMeansRivals, Rivals, Admitted
<1>2. ASSUME NEW r \in Request, ReadClock(r) PROVE LimiterInv'
  <2>1. /\ pc[r] = "idle" /\ pc'[r] = "timed" /\ stamp'[r] = clock
        /\ \A q \in Request : q # r => pc'[q] = pc[q] /\ stamp'[q] = stamp[q]
        /\ UNCHANGED <<clock, zset, expires_at, executed>>
    BY <1>2 DEF ReadClock
  <2>2. r \notin executed /\ r \notin zset
    BY <2>1 DEF LimiterInv, EntriesWereExecuted
  <2>3. EntriesWereExecuted' /\ StampsAreRecent' /\ KeyOutlivesEntries'
    BY <2>1, <2>2 DEF LimiterInv, EntriesWereExecuted, StampsAreRecent, KeyOutlivesEntries
  <2>4. Admitted' = Admitted /\ \A q \in Admitted : stamp'[q] = stamp[q]
    BY <2>1 DEF Admitted
  <2>5. WindowBound' /\ StillCounted'
    BY <2>1, <2>4, NoAdmissionKeepsBound DEF LimiterInv, StillCounted
  <2>6. FullMeansRivals'
    BY <1>0, <2>1, <2>2, RejectionsStayExplained
  <2> QED
    BY <2>3, <2>5, <2>6 DEF LimiterInv
<1>3. ASSUME NEW r \in Request, Execute(r) PROVE LimiterInv'
  <2>1. /\ pc[r] = "timed" /\ Pipeline(r) /\ clock' = clock /\ stamp' = stamp
        /\ pc'[r] = IF OverLimit(r) THEN "full" ELSE "admitted"
        /\ \A q \in Request : q # r => pc'[q] = pc[q]
    BY <1>3 DEF Execute
  <2>2. EntriesWereExecuted' /\ StampsAreRecent' /\ KeyOutlivesEntries'
    BY <2>1, PipelineKeepsEntries DEF Ended
  <2>3. StillCounted'
    BY <2>1, PipelineKeepsCounted
  <2>4. WindowBound'
    <3>1. CASE OverLimit(r)
      <4>1. Admitted' = Admitted
        BY <2>1, <3>1 DEF Admitted
      <4> QED
        BY <2>1, <4>1, NoAdmissionKeepsBound
    <3>2. CASE ~OverLimit(r)
      <4>1. Admitted' = Admitted \cup {r}
        BY <2>1, <3>2 DEF Admitted
      <4> QED
        BY <2>1, <3>2, <4>1, AdmissionKeepsBound
    <3> QED
      BY <3>1, <3>2
  <2>5. FullMeansRivals'
    <3>1. pc'[r] = "full" => Cardinality(Rivals(r)) >= Capacity
      BY <2>1, FullHasRivals
    <3>2. IsFiniteSet(executed') /\ executed \subseteq executed'
      BY <2>1, <2>2 DEF Pipeline, EntriesWereExecuted
    <3> QED
      BY <2>1, <3>1, <3>2, RejectionsStayExplained
  <2> QED
    BY <2>2, <2>3, <2>4, <2>5 DEF LimiterInv
<1>4. ASSUME NEW r \in Request, Remove(r) \/ RemoveFails(r) PROVE LimiterInv'
  <2>1. /\ pc[r] = "full" /\ pc'[r] \in {"429", "503", "unmetered"}
        /\ \A q \in Request : q # r => pc'[q] = pc[q]
        /\ zset \ {r} \subseteq zset' /\ zset' \subseteq zset
        /\ UNCHANGED <<clock, expires_at, stamp, executed>>
    BY <1>4 DEF Remove, RemoveFails, OnRedisError
  <2>2. EntriesWereExecuted' /\ StampsAreRecent' /\ KeyOutlivesEntries'
    BY <2>1 DEF LimiterInv, EntriesWereExecuted, StampsAreRecent, KeyOutlivesEntries
  <2>3. Admitted' = Admitted /\ r \notin Admitted
    BY <2>1 DEF Admitted
  <2>4. StillCounted' /\ WindowBound'
    BY <2>1, <2>3, NoAdmissionKeepsBound DEF LimiterInv, StillCounted
  <2>5. FullMeansRivals'
    BY <1>0, <2>1, RejectionsStayExplained
  <2> QED
    BY <2>2, <2>4, <2>5 DEF LimiterInv
<1>5. ASSUME NEW r \in Request, ExecuteFails(r) PROVE LimiterInv'
  <2>1. /\ pc[r] = "timed" /\ pc'[r] \in {"503", "unmetered"}
        /\ \A q \in Request : q # r => pc'[q] = pc[q]
        /\ UNCHANGED <<clock, stamp>>
        /\ Pipeline(r) \/ UNCHANGED <<zset, expires_at, executed>>
    BY <1>5 DEF ExecuteFails, OnRedisError
  <2>2. Admitted' = Admitted
    BY <2>1 DEF Admitted
  <2>3. EntriesWereExecuted' /\ StampsAreRecent' /\ KeyOutlivesEntries' /\ StillCounted'
    <3>1. CASE Pipeline(r)
      BY <2>1, <3>1, PipelineKeepsEntries, PipelineKeepsCounted DEF Ended
    <3>2. CASE UNCHANGED <<zset, expires_at, executed>>
      BY <2>1, <2>2, <3>2 DEF LimiterInv, EntriesWereExecuted, StampsAreRecent,
                              KeyOutlivesEntries, StillCounted
    <3> QED
      BY <2>1, <3>1, <3>2
  <2>4. WindowBound'
    BY <2>1, <2>2, NoAdmissionKeepsBound
  <2>5. FullMeansRivals'
    <3>1. IsFiniteSet(executed') /\ executed \subseteq executed'
      BY <2>1, <2>3 DEF Pipeline, EntriesWereExecuted
    <3> QED
      BY <2>1, <3>1, RejectionsStayExplained
  <2> QED
    BY <2>3, <2>4, <2>5 DEF LimiterInv
<1>6. CASE Tick
  <2>1. /\ clock' = clock + 1
        /\ \A r \in Request : pc[r] = "timed" => clock - stamp[r] < MaxDelay
        /\ UNCHANGED <<zset, expires_at, pc, stamp, executed>>
    BY <1>6 DEF Tick
  <2>2. EntriesWereExecuted' /\ StampsAreRecent' /\ KeyOutlivesEntries'
    BY <2>1 DEF LimiterInv, EntriesWereExecuted, StampsAreRecent, KeyOutlivesEntries
  <2>3. Admitted' = Admitted /\ \A q \in Admitted : q \in Request
    BY <2>1 DEF Admitted
  <2>4. StillCounted' /\ WindowBound'
    BY <2>1, <2>3, NoAdmissionKeepsBound DEF LimiterInv, StillCounted
  <2>5. FullMeansRivals'
    BY <1>0, <2>1, RejectionsStayExplained
  <2> QED
    BY <2>2, <2>4, <2>5 DEF LimiterInv
<1> QED
  BY <1>1, <1>2, <1>3, <1>4, <1>5, <1>6 DEF Next

(* The inductive invariant of the limiter.                                    *)
THEOREM LimiterInvariant == Spec => []LimiterInv
<1> USE LimiterAssumption
<1>1. Init => LimiterInv
  <2> SUFFICES ASSUME Init PROVE LimiterInv
    OBVIOUS
  <2>1. EntriesWereExecuted
    BY FS_EmptySet DEF Init, EntriesWereExecuted
  <2>2. StampsAreRecent /\ KeyOutlivesEntries /\ FullMeansRivals
    BY DEF Init, StampsAreRecent, KeyOutlivesEntries, FullMeansRivals
  <2>3. Admitted = {}
    BY DEF Init, Admitted
  <2> QED
    BY <2>1, <2>2, <2>3 DEF LimiterInv, StillCounted, WindowBound
<1>2. TypeOK /\ TypeOK' /\ LimiterInv /\ [Next]_vars => LimiterInv'
  BY LimiterInductive
<1> QED
  BY <1>1, <1>2, TypeCorrect, PTL DEF Spec

(* Whatever order racing checks reach Redis in and whatever commands fail,    *)
(* no window (less the time a check may be under way) admits more than        *)
(* Capacity.                                                                  *)
THEOREM WindowsAreBounded == Spec => []WindowBound
<1>1. LimiterInv => WindowBound
  BY DEF LimiterInv
<1> QED
  BY <1>1, LimiterInvariant, PTL

(* Every 429 is answered to a request with Capacity rivals in its window.     *)
THEOREM RejectionsAreExplained == Spec => []RejectionExplained
<1>1. LimiterInv => RejectionExplained
  BY DEF LimiterInv, FullMeansRivals, RejectionExplained, Rivals
<1> QED
  BY <1>1, LimiterInvariant, PTL
===============================================================================

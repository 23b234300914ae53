---------------------------- MODULE CacheProofs ----------------------------
(***************************************************************************)
(* Proofs about Cache for every set of workers, requests, keys,            *)
(* namespaces and writes, and every set of faults: its types, StaleIsOwed  *)
(* and DeferredPurgeKept.                                                  *)
(*                                                                         *)
(* IInv is inductive relative to TypeOK: the shape of a purge in progress, *)
(* versions that never run ahead of the database, and the fills that the   *)
(* epoch check would let through.  DeferredPurgeKept needs no more of it   *)
(* than that shape: only three steps touch what is deferred, a replay      *)
(* takes it, ends with it, or fails and puts it back.                      *)
(***************************************************************************)
EXTENDS Cache, TLAPS

-----------------------------------------------------------------------------
(* Types                                                                   *)

LEMMA PurgeConstants ==
    /\ NoPurge \in Purge
    /\ FlushAll \in Purge
    /\ \A p, q \in Purge : Merge(p, q) \in Purge
  BY DEF Purge, NoPurge, FlushAll, Merge

LEMMA IndexNames == Indexes \subseteq Namespaces
  BY NamespaceAssumption DEF Indexes

LEMMA FirstIndexIsIndex ==
    ASSUME NEW k \in Keys
    PROVE  FirstIndex(k) \in Indexes /\ FirstIndex(k) \in Namespaces
  BY NamespaceAssumption, IndexNames DEF FirstIndex, IndexesOf

LEMMA CallsClosed == \A call \in Calls : Command(call) \in Calls /\ Degraded(call) \in Calls
  BY DEF Calls, Command, Degraded

LEMMA JobType == ASSUME TypeOK, NEW r \in Requests PROVE Job(r) \in Purge
  BY DEF TypeOK, Job

\* The state predicate TypeOK holds at the start.
LEMMA InitType == Init => TypeOK
  BY PurgeConstants, BoundAssumption, NamespaceAssumption
     DEF Init, TypeOK, Steps, Calls

LEMMA NextType == TypeOK /\ [Next]_vars => TypeOK'
  <1> SUFFICES ASSUME TypeOK, [Next]_vars PROVE TypeOK'
    OBVIOUS
  <1> USE WorkerAssumption, BoundAssumption DEF TypeOK, Goto, Step
  <1>1. ASSUME NEW r \in Requests, Proceed(r) PROVE TypeOK'
    <2>1. CASE RunCallback(r)
      BY <2>1
         DEF RunCallback, redis, memory, reader, engine, counts, Steps, Calls, Purge
    <2>2. CASE CallbacksDone(r)
      BY <2>2
         DEF CallbacksDone, redis, memory, reader, engine, counts, Steps, Calls, Purge
    <2>3. CASE SkipOpen(r)
      BY <2>3
         DEF SkipOpen, Forget, Degraded, redis, memory, reader, engine, counts, Steps, Calls, Purge
    <2>4. CASE EnterClean(r)
      BY <2>4
         DEF EnterClean, Command, redis, memory, reader, engine, counts, Steps, Calls, Purge
    <2>5. CASE EnterReplay(r)
      BY <2>5, PurgeConstants
         DEF EnterReplay, redis, memory, reader, engine, counts, Steps, Calls, Purge
    <2>6. CASE BumpEpoch(r)
      BY <2>6, PurgeConstants, IndexNames
         DEF BumpEpoch, Job, redis, memory, reader, engine, counts, Steps, Calls, Purge
    <2>7. CASE ReadIndex(r)
      <3>1. PICK n \in left[r] : ReadIndex(r)!2!(n)
        BY <2>7 DEF ReadIndex
      <3>2. n \in Namespaces /\ IndexOf[n] \in Indexes
        BY NamespaceAssumption DEF Indexes
      <3>3. index[IndexOf[n]] \cap Under[n] \in SUBSET Keys
        BY <3>2
      <3>4. step' \in [Requests -> Steps] /\ left' \in [Requests -> SUBSET Namespaces]
        BY <3>1 DEF Steps
      <3>5. at' \in [Requests -> Namespaces] /\ members' \in [Requests -> SUBSET Keys]
            /\ todo' \in [Requests -> SUBSET Keys]
        BY <3>1, <3>2, <3>3
      <3> QED
        BY <2>7, <3>4, <3>5 DEF ReadIndex, redis, memory, reader, engine, counts
    <2>8. CASE UnlinkChunkOf(r)
      BY <2>8
         DEF UnlinkChunkOf, Without, redis, memory, reader, engine, counts, Steps, Calls, Purge
    <2>9. CASE UnindexChunk(r)
      BY <2>9
         DEF UnindexChunk, Unindexed, redis, memory, reader, engine, counts, Steps, Calls, Purge
    <2>10. CASE UnindexTop(r)
      BY <2>10
         DEF UnindexTop, Unindexed, redis, memory, reader, engine, counts, Steps, Calls, Purge
    <2>11. CASE NamespacesDone(r)
      BY <2>11
         DEF NamespacesDone, Job, redis, memory, reader, engine, counts, Steps, Calls, Purge
    <2>12. CASE DropKeys(r)
      BY <2>12, PurgeConstants
         DEF DropKeys, Without, Job, redis, memory, reader, engine, counts, Steps, Calls, Purge
    <2>13. CASE ScanPrefix(r)
      BY <2>13, IndexNames
         DEF ScanPrefix, Live, redis, memory, reader, engine, counts, Steps, Calls, Purge
    <2>14. CASE UnlinkScanned(r)
      BY <2>14
         DEF UnlinkScanned, Without, redis, memory, reader, engine, counts, Steps, Calls, Purge
    <2>15. CASE ReplayDone(r)
      <3>1. pc' \in [Requests -> Calls] /\ step' \in [Requests -> Steps]
        BY <2>15, CallsClosed DEF ReplayDone, Steps
      <3> QED
        BY <2>15, <3>1, PurgeConstants DEF ReplayDone, redis, memory, reader, counts
    <2>23. CASE PurgeDone(r)
      <3>1. pc' \in [Requests -> Calls] /\ step' \in [Requests -> Steps]
        BY <2>23, CallsClosed DEF PurgeDone, Steps
      <3> QED
        BY <2>23, <3>1, PurgeConstants DEF PurgeDone, Success, redis, reader, counts
    <2>16. CASE GetHit(r)
      BY <2>16
         DEF GetHit, Success, redis, memory, reader, engine, counts, Steps, Calls, Purge
    <2>17. CASE GetMiss(r)
      BY <2>17
         DEF GetMiss, Success, redis, memory, reader, engine, counts, Steps, Calls, Purge
    <2>18. CASE TakeEpoch(r)
      BY <2>18
         DEF TakeEpoch, Success, redis, memory, reader, engine, counts, Steps, Calls, Purge
    <2>19. CASE ReadDatabase(r)
      <3>1. data[key[r]] \in Nat
        OBVIOUS
      <3>2. (val' = val \/ val' = [val EXCEPT ![r] = data[key[r]]])
            /\ (pc' = [pc EXCEPT ![r] = "idle"] \/ pc' = [pc EXCEPT ![r] = "set"])
        BY <2>19 DEF ReadDatabase
      <3>3. val' \in [Requests -> Nat] /\ pc' \in [Requests -> Calls]
        BY <3>1, <3>2 DEF Calls
      <3> QED
        BY <2>19, <3>3 DEF ReadDatabase, redis, memory, engine, counts
    <2>20. CASE SetValue(r)
      <3>1. store' \in [Keys -> Nat \cup {NoValue}] /\ index' \in [Indexes -> SUBSET Keys]
        BY <2>20 DEF SetValue, Stored
      <3>2. pc' \in [Requests -> Calls] /\ step' \in [Requests -> Steps]
        BY <2>20 DEF SetValue, Calls, Steps
      <3>3. left' \in [Requests -> SUBSET Namespaces]
        <4> DEFINE i == FirstIndex(key[r])
        <4>1. i \in Namespaces
          BY FirstIndexIsIndex
        <4>2. left' = left \/ left' = [left EXCEPT ![r] = {i}]
          BY <2>20 DEF SetValue
        <4> HIDE DEF i
        <4> QED
          BY <4>1, <4>2
      <3>4. breaker' \in [Workers -> 0 .. BreakerThreshold]
        BY <2>20 DEF SetValue, Success
      <3>5. val' \in [Requests -> Nat] /\ seen' \in [Requests -> Nat \cup {NoValue}]
        BY <2>20 DEF SetValue, Forget
      <3> QED
        BY <2>20, <3>1, <3>2, <3>3, <3>4, <3>5 DEF SetValue, counts
    <2>21. CASE DropValue(r)
      BY <2>21
         DEF DropValue, Without, Success, redis, memory, reader, engine, counts, Steps, Calls, Purge
    <2>22. QED
      BY <1>1, <2>1, <2>2, <2>3, <2>4, <2>5, <2>6, <2>7, <2>8, <2>9, <2>10, <2>11, <2>12, <2>13, <2>14, <2>15, <2>16, <2>17, <2>18, <2>19, <2>20, <2>21, <2>23 DEF Proceed
  <1>2. ASSUME NEW r \in Requests, NEW k \in Keys, StartRead(r, k) PROVE TypeOK'
    BY <1>2, WriteAssumption
       DEF StartRead, redis, memory, reader, engine, counts, Steps, Calls, Purge
  <1>3. ASSUME NEW r \in Requests, NEW w \in Writes, Commit(r, w) PROVE TypeOK'
    BY <1>3, WriteAssumption
       DEF Commit, redis, memory, reader, engine, counts, Steps, Calls, Purge
  <1>4. ASSUME NEW r \in Requests, NEW w \in Writes, CommitReplyLost(r, w) PROVE TypeOK'
    BY <1>4, WriteAssumption
       DEF CommitReplyLost, Fail, redis, memory, reader, engine, counts, Steps, Calls, Purge
  <1>5. ASSUME NEW r \in Requests, HalfOpen(r) PROVE TypeOK'
    <2>1. BreakerThreshold - 1 \in 0 .. BreakerThreshold
      BY ONLY BoundAssumption
    <2> QED
      BY <1>5, <2>1 DEF HalfOpen, redis, reader, engine, counts
  <1>6. ASSUME NEW r \in Requests, GetUndecodable(r) PROVE TypeOK'
    <2>1. [NoPurge EXCEPT !.keys = {key[r]}] \in Purge
      BY DEF NoPurge, Purge
    <2>2. own' \in [Requests -> Purge]
      BY <1>6, <2>1 DEF GetUndecodable
    <2>3. pc' \in [Requests -> Calls]
      BY <1>6 DEF GetUndecodable, Calls
    <2> QED
      BY <1>6, <2>2, <2>3 DEF GetUndecodable, Fail, Success, redis, reader, engine
  <1>7. ASSUME NEW r \in Requests, PurgeFails(r) PROVE TypeOK'
    <2>1. pending' \in [Workers -> Purge]
      BY <1>7, PurgeConstants DEF PurgeFails
    <2>2. pc' \in [Requests -> Calls] /\ step' \in [Requests -> Steps]
      BY <1>7, CallsClosed DEF PurgeFails, Steps
    <2>3. own' \in [Requests -> Purge] /\ taken' \in [Requests -> Purge]
      BY <1>7, PurgeConstants DEF PurgeFails
    <2>4. breaker' \in [Workers -> 0 .. BreakerThreshold]
      BY <1>7 DEF PurgeFails, RecordFailure
    <2> QED
      BY <1>7, <2>1, <2>2, <2>3, <2>4 DEF PurgeFails, Fail, Forget, redis
  <1>8. ASSUME NEW r \in Requests, CommandFails(r) PROVE TypeOK'
    BY <1>8
       DEF CommandFails, Fail, RecordFailure, Degraded, Forget, redis, memory, reader, engine, counts, Steps, Calls, Purge
  <1>9. ASSUME NEW r \in Requests, SetReplyLost(r) PROVE TypeOK'
    BY <1>9
       DEF SetReplyLost, Fail, Stored, RecordFailure, Forget, redis, memory, reader, engine, counts, Steps, Calls, Purge
  <1>10. ASSUME NEW r \in Requests, DropFails(r) PROVE TypeOK'
    BY <1>10
       DEF DropFails, Fail, RecordFailure, redis, memory, reader, engine, counts, Steps, Calls, Purge
  <1>11. ASSUME NEW k \in Keys, Expire(k) PROVE TypeOK'
    BY <1>11 DEF Expire, Without, redis, memory, reader, engine, counts
  <1>12. ASSUME NEW w \in Workers, Crash(w) PROVE TypeOK'
    BY <1>12, PurgeConstants DEF Crash, Fail, redis, memory, reader, engine, counts, Steps, Calls
  <1>13. CASE UNCHANGED vars
    BY <1>13 DEF vars, redis, memory, reader, engine, counts
  <1> QED
    BY <1>1, <1>2, <1>3, <1>4, <1>5, <1>6, <1>7, <1>8, <1>9, <1>10, <1>11, <1>12, <1>13 DEF Next

\* Every state of the model is well typed.
THEOREM Typing == Spec => []TypeOK
  <1>1. Init => TypeOK
    BY InitType
  <1>2. TypeOK /\ [Next]_vars => TypeOK'
    BY NextType
  <1> QED
    BY <1>1, <1>2, PTL DEF Spec

-----------------------------------------------------------------------------
(* The shape of a purge in progress, and versions                          *)

\* The call a request is in fits the purge it carries, after every step.
LEMMA NextCallShape == TypeOK /\ CallShape /\ [Next]_vars => CallShape'
  <1> SUFFICES ASSUME TypeOK /\ CallShape, [Next]_vars PROVE CallShape'
    OBVIOUS
  <1> USE DEF TypeOK, CallShape,
             redis, memory, reader, engine, counts, Forced, Goto, Step
  <1>1. ASSUME NEW r \in Requests, RunCallback(r) PROVE CallShape'
    BY <1>1 DEF RunCallback
  <1>2. ASSUME NEW r \in Requests, CallbacksDone(r) PROVE CallShape'
    BY <1>2 DEF CallbacksDone
  <1>3. ASSUME NEW r \in Requests, SkipOpen(r) PROVE CallShape'
    BY <1>3 DEF SkipOpen, Entering, Forced, Forget, Degraded
  <1>4. ASSUME NEW r \in Requests, EnterClean(r) PROVE CallShape'
    BY <1>4 DEF EnterClean, Entering, Forced, Command
  <1>5. ASSUME NEW r \in Requests, EnterReplay(r) PROVE CallShape'
    BY <1>5 DEF EnterReplay, Entering, Forced
  <1>6. ASSUME NEW r \in Requests, BumpEpoch(r) PROVE CallShape'
    BY <1>6 DEF BumpEpoch
  <1>7. ASSUME NEW r \in Requests, ReadIndex(r) PROVE CallShape'
    BY <1>7 DEF ReadIndex
  <1>8. ASSUME NEW r \in Requests, UnlinkChunkOf(r) PROVE CallShape'
    BY <1>8 DEF UnlinkChunkOf, Without
  <1>9. ASSUME NEW r \in Requests, UnindexChunk(r) PROVE CallShape'
    BY <1>9 DEF UnindexChunk, Unindexed
  <1>10. ASSUME NEW r \in Requests, UnindexTop(r) PROVE CallShape'
    BY <1>10 DEF UnindexTop, Unindexed
  <1>11. ASSUME NEW r \in Requests, NamespacesDone(r) PROVE CallShape'
    BY <1>11 DEF NamespacesDone
  <1>12. ASSUME NEW r \in Requests, DropKeys(r) PROVE CallShape'
    BY <1>12 DEF DropKeys, Without
  <1>13. ASSUME NEW r \in Requests, ScanPrefix(r) PROVE CallShape'
    BY <1>13 DEF ScanPrefix, Live
  <1>14. ASSUME NEW r \in Requests, UnlinkScanned(r) PROVE CallShape'
    BY <1>14 DEF UnlinkScanned, Without
  <1>15. ASSUME NEW r \in Requests, ReplayDone(r) PROVE CallShape'
    BY <1>15 DEF ReplayDone, Command, Forced
  <1>16. ASSUME NEW r \in Requests, PurgeDone(r) PROVE CallShape'
    BY <1>16 DEF PurgeDone, Degraded, Success
  <1>17. ASSUME NEW r \in Requests, GetHit(r) PROVE CallShape'
    BY <1>17 DEF GetHit, Success
  <1>18. ASSUME NEW r \in Requests, GetMiss(r) PROVE CallShape'
    BY <1>18 DEF GetMiss, Success
  <1>19. ASSUME NEW r \in Requests, TakeEpoch(r) PROVE CallShape'
    BY <1>19 DEF TakeEpoch, Success
  <1>20. ASSUME NEW r \in Requests, ReadDatabase(r) PROVE CallShape'
    BY <1>20 DEF ReadDatabase
  <1>21. ASSUME NEW r \in Requests, SetValue(r) PROVE CallShape'
    BY <1>21 DEF SetValue, Stored, Forget, Success
  <1>22. ASSUME NEW r \in Requests, DropValue(r) PROVE CallShape'
    BY <1>22 DEF DropValue, Without, Success
  <1>23. ASSUME NEW r \in Requests, HalfOpen(r) PROVE CallShape'
    BY <1>23 DEF HalfOpen, Entering
  <1>24. ASSUME NEW r \in Requests, GetUndecodable(r) PROVE CallShape'
    BY <1>24 DEF GetUndecodable, Success
  <1>25. ASSUME NEW r \in Requests, PurgeFails(r) PROVE CallShape'
    BY <1>25 DEF PurgeFails, RecordFailure, Degraded, Forget
  <1>26. ASSUME NEW r \in Requests, CommandFails(r) PROVE CallShape'
    BY <1>26 DEF CommandFails, RecordFailure, Degraded, Forget
  <1>27. ASSUME NEW r \in Requests, SetReplyLost(r) PROVE CallShape'
    BY <1>27 DEF SetReplyLost, Stored, RecordFailure, Forget
  <1>28. ASSUME NEW r \in Requests, DropFails(r) PROVE CallShape'
    BY <1>28 DEF DropFails, RecordFailure
  <1>29. ASSUME NEW r \in Requests, NEW k \in Keys, StartRead(r, k) PROVE CallShape'
    BY <1>29 DEF StartRead
  <1>30. ASSUME NEW r \in Requests, NEW w \in Writes, Commit(r, w) PROVE CallShape'
    BY <1>30 DEF Commit
  <1>31. ASSUME NEW r \in Requests, NEW w \in Writes, CommitReplyLost(r, w) PROVE CallShape'
    BY <1>31 DEF CommitReplyLost
  <1>32. ASSUME NEW k \in Keys, Expire(k) PROVE CallShape'
    BY <1>32 DEF Expire, Without
  <1>33. ASSUME NEW w \in Workers, Crash(w) PROVE CallShape'
    BY <1>33 DEF Crash
  <1>34. CASE UNCHANGED vars
    BY <1>34 DEF vars
  <1> QED
    BY <1>1, <1>2, <1>3, <1>4, <1>5, <1>6, <1>7, <1>8, <1>9, <1>10, <1>11, <1>12, <1>13,
       <1>14, <1>15, <1>16, <1>17, <1>18, <1>19, <1>20, <1>21, <1>22, <1>23, <1>24, <1>25, <1>26,
       <1>27, <1>28, <1>29, <1>30, <1>31, <1>32, <1>33, <1>34 DEF Next, Proceed

\* What is still to visit or remove stays part of what was asked for.
LEMMA NextJobShape == TypeOK /\ CallShape /\ JobShape /\ [Next]_vars => JobShape'
  <1> SUFFICES ASSUME TypeOK /\ CallShape /\ JobShape, [Next]_vars PROVE JobShape'
    OBVIOUS
  <1> USE DEF TypeOK, CallShape, JobShape,
             redis, memory, reader, engine, counts, Forced, Goto, Step, Job
  <1>1. ASSUME NEW r \in Requests, RunCallback(r) PROVE JobShape'
    BY <1>1 DEF RunCallback
  <1>2. ASSUME NEW r \in Requests, CallbacksDone(r) PROVE JobShape'
    BY <1>2 DEF CallbacksDone
  <1>3. ASSUME NEW r \in Requests, SkipOpen(r) PROVE JobShape'
    BY <1>3 DEF SkipOpen, Entering, Forced, Forget, Degraded
  <1>4. ASSUME NEW r \in Requests, EnterClean(r) PROVE JobShape'
    BY <1>4 DEF EnterClean, Entering, Forced, Command
  <1>5. ASSUME NEW r \in Requests, EnterReplay(r) PROVE JobShape'
    BY <1>5 DEF EnterReplay, Entering, Forced
  <1>6. ASSUME NEW r \in Requests, BumpEpoch(r) PROVE JobShape'
    BY <1>6 DEF BumpEpoch
  <1>7. ASSUME NEW r \in Requests, ReadIndex(r) PROVE JobShape'
    BY <1>7 DEF ReadIndex
  <1>8. ASSUME NEW r \in Requests, UnlinkChunkOf(r) PROVE JobShape'
    BY <1>8 DEF UnlinkChunkOf, Without
  <1>9. ASSUME NEW r \in Requests, UnindexChunk(r) PROVE JobShape'
    BY <1>9 DEF UnindexChunk, Unindexed
  <1>10. ASSUME NEW r \in Requests, UnindexTop(r) PROVE JobShape'
    BY <1>10 DEF UnindexTop, Unindexed
  <1>11. ASSUME NEW r \in Requests, NamespacesDone(r) PROVE JobShape'
    BY <1>11 DEF NamespacesDone
  <1>12. ASSUME NEW r \in Requests, DropKeys(r) PROVE JobShape'
    BY <1>12 DEF DropKeys, Without
  <1>13. ASSUME NEW r \in Requests, ScanPrefix(r) PROVE JobShape'
    BY <1>13 DEF ScanPrefix, Live
  <1>14. ASSUME NEW r \in Requests, UnlinkScanned(r) PROVE JobShape'
    BY <1>14 DEF UnlinkScanned, Without
  <1>15. ASSUME NEW r \in Requests, ReplayDone(r) PROVE JobShape'
    BY <1>15 DEF ReplayDone, Command, Forced
  <1>16. ASSUME NEW r \in Requests, PurgeDone(r) PROVE JobShape'
    BY <1>16 DEF PurgeDone, Degraded, Success
  <1>17. ASSUME NEW r \in Requests, GetHit(r) PROVE JobShape'
    BY <1>17 DEF GetHit, Success
  <1>18. ASSUME NEW r \in Requests, GetMiss(r) PROVE JobShape'
    BY <1>18 DEF GetMiss, Success
  <1>19. ASSUME NEW r \in Requests, TakeEpoch(r) PROVE JobShape'
    BY <1>19 DEF TakeEpoch, Success
  <1>20. ASSUME NEW r \in Requests, ReadDatabase(r) PROVE JobShape'
    BY <1>20 DEF ReadDatabase
  <1>21. ASSUME NEW r \in Requests, SetValue(r) PROVE JobShape'
    BY <1>21 DEF SetValue, Stored, Forget, Success
  <1>22. ASSUME NEW r \in Requests, DropValue(r) PROVE JobShape'
    BY <1>22 DEF DropValue, Without, Success
  <1>23. ASSUME NEW r \in Requests, HalfOpen(r) PROVE JobShape'
    BY <1>23 DEF HalfOpen, Entering
  <1>24. ASSUME NEW r \in Requests, GetUndecodable(r) PROVE JobShape'
    BY <1>24 DEF GetUndecodable, Success
  <1>25. ASSUME NEW r \in Requests, PurgeFails(r) PROVE JobShape'
    BY <1>25 DEF PurgeFails, RecordFailure, Degraded, Forget
  <1>26. ASSUME NEW r \in Requests, CommandFails(r) PROVE JobShape'
    BY <1>26 DEF CommandFails, RecordFailure, Degraded, Forget
  <1>27. ASSUME NEW r \in Requests, SetReplyLost(r) PROVE JobShape'
    BY <1>27 DEF SetReplyLost, Stored, RecordFailure, Forget
  <1>28. ASSUME NEW r \in Requests, DropFails(r) PROVE JobShape'
    BY <1>28 DEF DropFails, RecordFailure
  <1>29. ASSUME NEW r \in Requests, NEW k \in Keys, StartRead(r, k) PROVE JobShape'
    BY <1>29 DEF StartRead
  <1>30. ASSUME NEW r \in Requests, NEW w \in Writes, Commit(r, w) PROVE JobShape'
    BY <1>30 DEF Commit
  <1>31. ASSUME NEW r \in Requests, NEW w \in Writes, CommitReplyLost(r, w) PROVE JobShape'
    BY <1>31 DEF CommitReplyLost
  <1>32. ASSUME NEW k \in Keys, Expire(k) PROVE JobShape'
    BY <1>32 DEF Expire, Without
  <1>33. ASSUME NEW w \in Workers, Crash(w) PROVE JobShape'
    BY <1>33 DEF Crash
  <1>34. CASE UNCHANGED vars
    BY <1>34 DEF vars
  <1> QED
    BY <1>1, <1>2, <1>3, <1>4, <1>5, <1>6, <1>7, <1>8, <1>9, <1>10, <1>11, <1>12, <1>13,
       <1>14, <1>15, <1>16, <1>17, <1>18, <1>19, <1>20, <1>21, <1>22, <1>23, <1>24, <1>25, <1>26,
       <1>27, <1>28, <1>29, <1>30, <1>31, <1>32, <1>33, <1>34 DEF Next, Proceed

\* No step stores a version newer than the database, or an epoch from the future.
LEMMA NextNothingAhead == TypeOK /\ NothingAhead /\ [Next]_vars => NothingAhead'
  <1> SUFFICES ASSUME TypeOK /\ NothingAhead, [Next]_vars PROVE NothingAhead'
    OBVIOUS
  <1> USE DEF TypeOK, NothingAhead,
             redis, memory, reader, engine, counts, Goto, Step
  <1>1. ASSUME NEW r \in Requests, RunCallback(r) PROVE NothingAhead'
    BY <1>1 DEF RunCallback
  <1>2. ASSUME NEW r \in Requests, CallbacksDone(r) PROVE NothingAhead'
    BY <1>2 DEF CallbacksDone
  <1>3. ASSUME NEW r \in Requests, SkipOpen(r) PROVE NothingAhead'
    BY <1>3 DEF SkipOpen, Entering, Forced, Forget, Degraded
  <1>4. ASSUME NEW r \in Requests, EnterClean(r) PROVE NothingAhead'
    BY <1>4 DEF EnterClean, Entering, Forced, Command
  <1>5. ASSUME NEW r \in Requests, EnterReplay(r) PROVE NothingAhead'
    BY <1>5 DEF EnterReplay, Entering, Forced
  <1>6. ASSUME NEW r \in Requests, BumpEpoch(r) PROVE NothingAhead'
    BY <1>6 DEF BumpEpoch
  <1>7. ASSUME NEW r \in Requests, ReadIndex(r) PROVE NothingAhead'
    BY <1>7 DEF ReadIndex
  <1>8. ASSUME NEW r \in Requests, UnlinkChunkOf(r) PROVE NothingAhead'
    BY <1>8 DEF UnlinkChunkOf, Without
  <1>9. ASSUME NEW r \in Requests, UnindexChunk(r) PROVE NothingAhead'
    BY <1>9 DEF UnindexChunk, Unindexed
  <1>10. ASSUME NEW r \in Requests, UnindexTop(r) PROVE NothingAhead'
    BY <1>10 DEF UnindexTop, Unindexed
  <1>11. ASSUME NEW r \in Requests, NamespacesDone(r) PROVE NothingAhead'
    BY <1>11 DEF NamespacesDone
  <1>12. ASSUME NEW r \in Requests, DropKeys(r) PROVE NothingAhead'
    BY <1>12 DEF DropKeys, Without
  <1>13. ASSUME NEW r \in Requests, ScanPrefix(r) PROVE NothingAhead'
    BY <1>13 DEF ScanPrefix, Live
  <1>14. ASSUME NEW r \in Requests, UnlinkScanned(r) PROVE NothingAhead'
    BY <1>14 DEF UnlinkScanned, Without
  <1>15. ASSUME NEW r \in Requests, ReplayDone(r) PROVE NothingAhead'
    BY <1>15 DEF ReplayDone, Command, Forced
  <1>16. ASSUME NEW r \in Requests, PurgeDone(r) PROVE NothingAhead'
    BY <1>16 DEF PurgeDone, Degraded, Success
  <1>17. ASSUME NEW r \in Requests, GetHit(r) PROVE NothingAhead'
    BY <1>17 DEF GetHit, Success
  <1>18. ASSUME NEW r \in Requests, GetMiss(r) PROVE NothingAhead'
    BY <1>18 DEF GetMiss, Success
  <1>19. ASSUME NEW r \in Requests, TakeEpoch(r) PROVE NothingAhead'
    BY <1>19 DEF TakeEpoch, Success
  <1>20. ASSUME NEW r \in Requests, ReadDatabase(r) PROVE NothingAhead'
    BY <1>20 DEF ReadDatabase
  <1>21. ASSUME NEW r \in Requests, SetValue(r) PROVE NothingAhead'
    BY <1>21 DEF SetValue, Stored, Forget, Success
  <1>22. ASSUME NEW r \in Requests, DropValue(r) PROVE NothingAhead'
    BY <1>22 DEF DropValue, Without, Success
  <1>23. ASSUME NEW r \in Requests, HalfOpen(r) PROVE NothingAhead'
    BY <1>23 DEF HalfOpen, Entering
  <1>24. ASSUME NEW r \in Requests, GetUndecodable(r) PROVE NothingAhead'
    BY <1>24 DEF GetUndecodable, Success
  <1>25. ASSUME NEW r \in Requests, PurgeFails(r) PROVE NothingAhead'
    BY <1>25 DEF PurgeFails, RecordFailure, Degraded, Forget
  <1>26. ASSUME NEW r \in Requests, CommandFails(r) PROVE NothingAhead'
    BY <1>26 DEF CommandFails, RecordFailure, Degraded, Forget
  <1>27. ASSUME NEW r \in Requests, SetReplyLost(r) PROVE NothingAhead'
    BY <1>27 DEF SetReplyLost, Stored, RecordFailure, Forget
  <1>28. ASSUME NEW r \in Requests, DropFails(r) PROVE NothingAhead'
    BY <1>28 DEF DropFails, RecordFailure
  <1>29. ASSUME NEW r \in Requests, NEW k \in Keys, StartRead(r, k) PROVE NothingAhead'
    BY <1>29 DEF StartRead
  <1>30. ASSUME NEW r \in Requests, NEW w \in Writes, Commit(r, w) PROVE NothingAhead'
    BY <1>30 DEF Commit
  <1>31. ASSUME NEW r \in Requests, NEW w \in Writes, CommitReplyLost(r, w) PROVE NothingAhead'
    BY <1>31 DEF CommitReplyLost
  <1>32. ASSUME NEW k \in Keys, Expire(k) PROVE NothingAhead'
    BY <1>32 DEF Expire, Without
  <1>33. ASSUME NEW w \in Workers, Crash(w) PROVE NothingAhead'
    BY <1>33 DEF Crash
  <1>34. CASE UNCHANGED vars
    BY <1>34 DEF vars
  <1> QED
    BY <1>1, <1>2, <1>3, <1>4, <1>5, <1>6, <1>7, <1>8, <1>9, <1>10, <1>11, <1>12, <1>13,
       <1>14, <1>15, <1>16, <1>17, <1>18, <1>19, <1>20, <1>21, <1>22, <1>23, <1>24, <1>25, <1>26,
       <1>27, <1>28, <1>29, <1>30, <1>31, <1>32, <1>33, <1>34 DEF Next, Proceed

-----------------------------------------------------------------------------
(* Who owes what, from one state to the next                               *)

\* What request q owes depends on its own locals alone.
Same(q) ==
    /\ pc'[q] = pc[q] /\ key'[q] = key[q] /\ queue'[q] = queue[q]
    /\ own'[q] = own[q] /\ taken'[q] = taken[q] /\ step'[q] = step[q]
    /\ left'[q] = left[q] /\ members'[q] = members[q]
    /\ todo'[q] = todo[q] /\ cut'[q] = cut[q]

\* Everything request r owes.
OwedBy(r, k) ==
    OwedBeforeBump(r, k) \/ OwedAfterBump(r, k) \/ (pc[r] = "DROP" /\ key[r] = k)

\* k is not excused from having an owner.
Counts(k) == Stale(k) /\ Indexed(k) /\ store[k] >= lost[k]

\* A request whose locals did not move owes what it owed.
LEMMA SameOwes ==
    ASSUME NEW q \in Requests, NEW k \in Keys, Same(q)
    PROVE  /\ OwedBeforeBump(q, k)' <=> OwedBeforeBump(q, k)
           /\ OwedBy(q, k)' <=> OwedBy(q, k)
  <1>1. OwedBeforeBump(q, k)' <=> OwedBeforeBump(q, k)
    BY DEF Same, OwedBeforeBump, Forced
  <1>2. OwedAfterBump(q, k)' <=> OwedAfterBump(q, k)
    BY DEF Same, OwedAfterBump, Job
  <1> QED
    BY <1>1, <1>2 DEF Same, OwedBy

\* Remembering a purge forgets no key, even past the bound.
LEMMA MergeCovers ==
    ASSUME NEW p \in Purge, NEW q \in Purge, NEW k \in Keys,
           k \in Covered(p) \/ k \in Covered(q)
    PROVE  k \in Covered(Merge(p, q))
  BY DEF Purge, Covered, Merge, FlushAll

\* A step of the program taken by request r.
RequestStep(r) ==
    \/ Proceed(r) \/ HalfOpen(r) \/ GetUndecodable(r) \/ PurgeFails(r) \/ CommandFails(r)
    \/ SetReplyLost(r) \/ DropFails(r) \/ \E k \in Keys : StartRead(r, k)
    \/ \E w \in Writes : Commit(r, w) \/ CommitReplyLost(r, w)

\* A step of one request leaves the locals of every other alone.
LEMMA OthersSame ==
    ASSUME TypeOK, NEW r \in Requests, RequestStep(r), NEW q \in Requests, q # r
    PROVE  Same(q)
  <1> USE DEF TypeOK, Same, Goto, Step, redis, memory, reader, engine, counts
  <1>1. CASE RunCallback(r)
    BY <1>1 DEF RunCallback
  <1>2. CASE CallbacksDone(r)
    BY <1>2 DEF CallbacksDone
  <1>3. CASE SkipOpen(r)
    BY <1>3 DEF SkipOpen, Forget
  <1>4. CASE EnterClean(r)
    BY <1>4 DEF EnterClean
  <1>5. CASE EnterReplay(r)
    BY <1>5 DEF EnterReplay
  <1>6. CASE BumpEpoch(r)
    BY <1>6 DEF BumpEpoch
  <1>7. CASE ReadIndex(r)
    BY <1>7 DEF ReadIndex
  <1>8. CASE UnlinkChunkOf(r)
    BY <1>8 DEF UnlinkChunkOf
  <1>9. CASE UnindexChunk(r)
    BY <1>9 DEF UnindexChunk
  <1>10. CASE UnindexTop(r)
    BY <1>10 DEF UnindexTop
  <1>11. CASE NamespacesDone(r)
    BY <1>11 DEF NamespacesDone
  <1>12. CASE DropKeys(r)
    BY <1>12 DEF DropKeys
  <1>13. CASE ScanPrefix(r)
    BY <1>13 DEF ScanPrefix
  <1>14. CASE UnlinkScanned(r)
    BY <1>14 DEF UnlinkScanned
  <1>15. CASE ReplayDone(r)
    BY <1>15 DEF ReplayDone
  <1>16. CASE PurgeDone(r)
    BY <1>16 DEF PurgeDone
  <1>17. CASE GetHit(r)
    BY <1>17 DEF GetHit
  <1>18. CASE GetMiss(r)
    BY <1>18 DEF GetMiss
  <1>19. CASE TakeEpoch(r)
    BY <1>19 DEF TakeEpoch
  <1>20. CASE ReadDatabase(r)
    BY <1>20 DEF ReadDatabase
  <1>21. CASE SetValue(r)
    BY <1>21 DEF SetValue, Forget
  <1>22. CASE DropValue(r)
    BY <1>22 DEF DropValue
  <1>23. CASE HalfOpen(r)
    BY <1>23 DEF HalfOpen
  <1>24. CASE GetUndecodable(r)
    BY <1>24 DEF GetUndecodable
  <1>25. CASE PurgeFails(r)
    BY <1>25 DEF PurgeFails, Forget
  <1>26. CASE CommandFails(r)
    BY <1>26 DEF CommandFails, Forget
  <1>27. CASE SetReplyLost(r)
    BY <1>27 DEF SetReplyLost, Forget
  <1>28. CASE DropFails(r)
    BY <1>28 DEF DropFails
  <1>29. ASSUME NEW k \in Keys, StartRead(r, k) PROVE Same(q)
    BY <1>29 DEF StartRead
  <1>30. ASSUME NEW w \in Writes, Commit(r, w) \/ CommitReplyLost(r, w) PROVE Same(q)
    BY <1>30 DEF Commit, CommitReplyLost
  <1> QED
    BY <1>1, <1>2, <1>3, <1>4, <1>5, <1>6, <1>7, <1>8, <1>9, <1>10, <1>11, <1>12, <1>13,
       <1>14, <1>15, <1>16, <1>17, <1>18, <1>19, <1>20, <1>21, <1>22, <1>23, <1>24, <1>25, <1>26,
       <1>27, <1>28, <1>29, <1>30 DEF RequestStep, Proceed

\* Unless it runs its INCR, a request keeps what it owes before one, or hands it
\* to the memory of its worker.
LEMMA BumpOwedByKept ==
    ASSUME TypeOK, CallShape, JobShape, NEW r \in Requests, RequestStep(r), ~BumpEpoch(r),
           NEW k \in Keys, OwedBeforeBump(r, k)
    PROVE  OwedBeforeBump(r, k)' \/ k \in Covered(pending[WorkerOf[r]])'
  <1> DEFINE G == OwedBeforeBump(r, k)' \/ k \in Covered(pending[WorkerOf[r]])'
  <1> USE DEF TypeOK, Goto, Step, redis, memory, reader, engine, counts, CallShape,
              OwedBeforeBump, Forced
  <1>1. CASE RunCallback(r)
    BY <1>1 DEF RunCallback
  <1>2. CASE CallbacksDone(r)
    BY <1>2 DEF CallbacksDone
  <1>3. CASE SkipOpen(r)
    BY <1>3 DEF SkipOpen, Entering, Forced, Forget, Degraded
  <1>4. CASE EnterClean(r)
    BY <1>4 DEF EnterClean, Entering, Forced, Command
  <1>5. CASE EnterReplay(r)
    BY <1>5 DEF EnterReplay, Entering, Forced
  <1>6. CASE ReadIndex(r)
    BY <1>6 DEF ReadIndex
  <1>7. CASE UnlinkChunkOf(r)
    BY <1>7 DEF UnlinkChunkOf
  <1>8. CASE UnindexChunk(r)
    BY <1>8 DEF UnindexChunk
  <1>9. CASE UnindexTop(r)
    BY <1>9 DEF UnindexTop
  <1>10. CASE NamespacesDone(r)
    BY <1>10 DEF NamespacesDone
  <1>11. CASE DropKeys(r)
    BY <1>11 DEF DropKeys
  <1>12. CASE ScanPrefix(r)
    BY <1>12 DEF ScanPrefix, Live
  <1>13. CASE UnlinkScanned(r)
    BY <1>13 DEF UnlinkScanned
  <1>14. CASE ReplayDone(r)
    BY <1>14 DEF ReplayDone, Command, Forced
  <1>15. CASE PurgeDone(r)
    BY <1>15 DEF PurgeDone, Degraded
  <1>16. CASE GetHit(r)
    BY <1>16 DEF GetHit
  <1>17. CASE GetMiss(r)
    BY <1>17 DEF GetMiss
  <1>18. CASE TakeEpoch(r)
    BY <1>18 DEF TakeEpoch
  <1>19. CASE ReadDatabase(r)
    BY <1>19 DEF ReadDatabase
  <1>20. CASE SetValue(r)
    BY <1>20 DEF SetValue, Forget
  <1>21. CASE DropValue(r)
    BY <1>21 DEF DropValue
  <1>22. CASE HalfOpen(r)
    BY <1>22 DEF HalfOpen, Entering
  <1>23. CASE GetUndecodable(r)
    BY <1>23 DEF GetUndecodable
  <1>24. CASE PurgeFails(r)
    <2>1. pending'[WorkerOf[r]] = Merge(Merge(pending[WorkerOf[r]], taken[r]), own[r])
      BY <1>24, WorkerAssumption DEF PurgeFails
    <2>2. Merge(pending[WorkerOf[r]], taken[r]) \in Purge
      BY PurgeConstants, WorkerAssumption
    <2>3. k \in Covered(taken[r]) \/ k \in Covered(own[r]) => G
      BY <2>1, <2>2, MergeCovers, WorkerAssumption
    <2>4. ASSUME NEW p \in queue[r], k \in Covered(p) PROVE G
      BY <1>24, <2>4 DEF PurgeFails, Degraded
    <2> QED
      BY <2>3, <2>4
  <1>25. CASE CommandFails(r)
    BY <1>25 DEF CommandFails, Degraded, Forget
  <1>26. CASE SetReplyLost(r)
    BY <1>26 DEF SetReplyLost, Forget
  <1>27. CASE DropFails(r)
    BY <1>27 DEF DropFails
  <1>28. ASSUME NEW j \in Keys, StartRead(r, j) PROVE G
    BY <1>28 DEF StartRead
  <1>29. ASSUME NEW w \in Writes, Commit(r, w) \/ CommitReplyLost(r, w) PROVE G
    BY <1>29 DEF Commit, CommitReplyLost
  <1> QED
    BY <1>1, <1>2, <1>3, <1>4, <1>5, <1>6, <1>7, <1>8, <1>9, <1>10, <1>11, <1>12, <1>13,
       <1>14, <1>15, <1>16, <1>17, <1>18, <1>19, <1>20, <1>21, <1>22, <1>23, <1>24, <1>25, <1>26,
       <1>27, <1>28, <1>29 DEF RequestStep, Proceed

\* A remembered purge leaves the memory of its worker only into a replay.
LEMMA PendingKept ==
    ASSUME TypeOK, NEW r \in Requests, RequestStep(r),
           NEW w \in Workers, NEW k \in Keys, k \in Covered(pending[w])
    PROVE  k \in Covered(pending[w])' \/ OwedBeforeBump(r, k)'
  <1> DEFINE G == k \in Covered(pending[w])' \/ OwedBeforeBump(r, k)'
  <1> USE DEF TypeOK, redis, memory, reader, engine, counts
  <1>1. CASE RunCallback(r)
    BY <1>1 DEF RunCallback
  <1>2. CASE CallbacksDone(r)
    BY <1>2 DEF CallbacksDone
  <1>3. CASE SkipOpen(r)
    BY <1>3 DEF SkipOpen
  <1>4. CASE EnterClean(r)
    BY <1>4 DEF EnterClean
  <1>5. CASE EnterReplay(r)
    BY <1>5 DEF EnterReplay, Step, OwedBeforeBump
  <1>6. CASE BumpEpoch(r)
    BY <1>6 DEF BumpEpoch
  <1>7. CASE ReadIndex(r)
    BY <1>7 DEF ReadIndex
  <1>8. CASE UnlinkChunkOf(r)
    BY <1>8 DEF UnlinkChunkOf
  <1>9. CASE UnindexChunk(r)
    BY <1>9 DEF UnindexChunk
  <1>10. CASE UnindexTop(r)
    BY <1>10 DEF UnindexTop
  <1>11. CASE NamespacesDone(r)
    BY <1>11 DEF NamespacesDone
  <1>12. CASE DropKeys(r)
    BY <1>12 DEF DropKeys
  <1>13. CASE ScanPrefix(r)
    BY <1>13 DEF ScanPrefix
  <1>14. CASE UnlinkScanned(r)
    BY <1>14 DEF UnlinkScanned
  <1>15. CASE ReplayDone(r)
    BY <1>15 DEF ReplayDone
  <1>16. CASE PurgeDone(r)
    BY <1>16 DEF PurgeDone
  <1>17. CASE GetHit(r)
    BY <1>17 DEF GetHit
  <1>18. CASE GetMiss(r)
    BY <1>18 DEF GetMiss
  <1>19. CASE TakeEpoch(r)
    BY <1>19 DEF TakeEpoch
  <1>20. CASE ReadDatabase(r)
    BY <1>20 DEF ReadDatabase
  <1>21. CASE SetValue(r)
    BY <1>21 DEF SetValue
  <1>22. CASE DropValue(r)
    BY <1>22 DEF DropValue
  <1>23. CASE HalfOpen(r)
    BY <1>23 DEF HalfOpen
  <1>24. CASE GetUndecodable(r)
    BY <1>24 DEF GetUndecodable
  <1>25. CASE PurgeFails(r)
    <2>1. CASE w = WorkerOf[r]
      <3>1. pending'[w] = Merge(Merge(pending[w], taken[r]), own[r])
        BY <1>25, <2>1 DEF PurgeFails
      <3>2. Merge(pending[w], taken[r]) \in Purge
        BY PurgeConstants
      <3> QED
        BY <3>1, <3>2, MergeCovers
    <2> QED
      BY <1>25, <2>1 DEF PurgeFails
  <1>26. CASE CommandFails(r)
    BY <1>26 DEF CommandFails
  <1>27. CASE SetReplyLost(r)
    BY <1>27 DEF SetReplyLost
  <1>28. CASE DropFails(r)
    BY <1>28 DEF DropFails
  <1>29. ASSUME NEW j \in Keys, StartRead(r, j) PROVE G
    BY <1>29 DEF StartRead
  <1>30. ASSUME NEW u \in Writes, Commit(r, u) \/ CommitReplyLost(r, u) PROVE G
    BY <1>30 DEF Commit, CommitReplyLost
  <1> QED
    BY <1>1, <1>2, <1>3, <1>4, <1>5, <1>6, <1>7, <1>8, <1>9, <1>10, <1>11, <1>12, <1>13,
       <1>14, <1>15, <1>16, <1>17, <1>18, <1>19, <1>20, <1>21, <1>22, <1>23, <1>24, <1>25, <1>26,
       <1>27, <1>28, <1>29, <1>30 DEF RequestStep, Proceed

\* A request goes on owing a key, hands it to its worker's memory, or has
\* removed it.
LEMMA OwedByKept ==
    ASSUME TypeOK, CallShape, JobShape, NothingAhead, NEW r \in Requests, RequestStep(r),
           NEW k \in Keys, OwedBy(r, k), Counts(k)'
    PROVE  OwedBy(r, k)' \/ k \in Covered(pending[WorkerOf[r]])'
  <1> DEFINE G == OwedBy(r, k)' \/ k \in Covered(pending[WorkerOf[r]])'
  <1>1. CASE OwedBeforeBump(r, k) /\ ~BumpEpoch(r)
    BY <1>1, BumpOwedByKept DEF OwedBy
  <1>2. CASE BumpEpoch(r)
    <2> USE <1>2 DEF BumpEpoch, TypeOK, Step, redis, memory, reader, engine, counts
    <2>1. /\ pc'[r] = pc[r] /\ queue'[r] = queue[r] /\ own'[r] = own[r]
          /\ taken'[r] = taken[r] /\ left'[r] = Job(r).ns
          /\ step'[r] = IF Job(r).flush THEN "scan" ELSE "next"
      OBVIOUS
    <2>2. Job(r)' = Job(r)
      BY <2>1 DEF Job
    <2>3. pc[r] # "trim" /\ pc[r] # "DROP"
      BY DEF CallShape
    <2>4. ASSUME NEW p \in queue[r], k \in Covered(p) PROVE G
      BY <2>1, <2>4 DEF OwedBy, OwedBeforeBump
    <2>5. ASSUME k \in Covered(own[r]), taken[r] # NoPurge, Forced(r) PROVE G
      BY <2>1, <2>5 DEF OwedBy, OwedBeforeBump, Forced
    <2>6. ASSUME k \in Covered(Job(r)) PROVE G
      <3>1. OwedAfterBump(r, k)'
        BY <2>1, <2>2, <2>3, <2>6 DEF OwedAfterBump, Covered
      <3> QED
        BY <3>1 DEF OwedBy
    <2>7. ASSUME k \in Covered(taken[r]) PROVE k \in Covered(Job(r))
      BY <2>7 DEF Job, Covered, NoPurge
    <2> QED
      BY <2>3, <2>4, <2>5, <2>6, <2>7 DEF OwedBy, OwedBeforeBump, OwedAfterBump, Job
  <1>3. ASSUME OwedAfterBump(r, k) \/ (pc[r] = "DROP" /\ key[r] = k), ~BumpEpoch(r) PROVE G
    <2> USE <1>3 DEF TypeOK, CallShape, JobShape, OwedBy, OwedAfterBump, Job, Goto, Step,
                redis, memory, reader, engine, counts
    <2>1. CASE RunCallback(r)
      BY <2>1 DEF RunCallback
    <2>2. CASE CallbacksDone(r)
      BY <2>2 DEF CallbacksDone
    <2>3. CASE SkipOpen(r)
      BY <2>3 DEF SkipOpen, Entering, Forced, Forget, Degraded
    <2>4. CASE EnterClean(r)
      BY <2>4 DEF EnterClean, Entering, Forced, Command
    <2>5. CASE EnterReplay(r)
      BY <2>5 DEF EnterReplay, Entering, Forced
    <2>6. CASE ReadIndex(r)
      <3>1. PICK n \in left[r] : ReadIndex(r)!2!(n)
        BY <2>6 DEF ReadIndex
      <3>2. ASSUME k \in Under[n], pc[r] # "trim" PROVE k \in index[IndexOf[n]] \cap Under[n]
        BY <2>6, <3>1, <3>2, NamespaceAssumption
           DEF ReadIndex, Counts, Indexed, IndexesOf, Indexes
      <3>3. ASSUME pc[r] # "trim", k \in Job(r).keys \/ \E m \in left[r] : k \in Under[m] PROVE G
        BY <2>6, <3>1, <3>2, <3>3 DEF ReadIndex
      <3> QED
        BY <2>6, <3>3 DEF ReadIndex
    <2>7. CASE UnlinkChunkOf(r)
      BY ValueAssumption, <2>7 DEF UnlinkChunkOf, Without, Counts, Stale, Live
    <2>8. CASE UnindexChunk(r)
      BY <2>8 DEF UnindexChunk, Unindexed
    <2>9. CASE UnindexTop(r)
      BY <2>9 DEF UnindexTop, Unindexed
    <2>10. CASE NamespacesDone(r)
      BY <2>10 DEF NamespacesDone
    <2>11. CASE DropKeys(r)
      BY ValueAssumption, <2>11 DEF DropKeys, Without, Counts, Stale, Live
    <2>12. CASE ScanPrefix(r)
      BY <2>12 DEF ScanPrefix, Live, Counts, Stale
    <2>13. CASE UnlinkScanned(r)
      BY ValueAssumption, <2>13 DEF UnlinkScanned, Without, Counts, Stale, Live
    <2>14. CASE ReplayDone(r)
      BY <2>14 DEF ReplayDone, Command, Forced
    <2>15. CASE PurgeDone(r)
      BY <2>15 DEF PurgeDone, Degraded
    <2>16. CASE GetHit(r)
      BY <2>16 DEF GetHit
    <2>17. CASE GetMiss(r)
      BY <2>17 DEF GetMiss
    <2>18. CASE TakeEpoch(r)
      BY <2>18 DEF TakeEpoch
    <2>19. CASE ReadDatabase(r)
      BY <2>19 DEF ReadDatabase
    <2>20. CASE SetValue(r)
      BY <2>20 DEF SetValue, Stored, Forget
    <2>21. CASE DropValue(r)
      BY ValueAssumption, <2>21 DEF DropValue, Without, Counts, Stale, Live
    <2>22. CASE HalfOpen(r)
      BY <2>22 DEF HalfOpen, Entering
    <2>23. CASE GetUndecodable(r)
      BY <2>23 DEF GetUndecodable
    <2>24. CASE PurgeFails(r)
      <3>1. pc[r] # "DROP" /\ pc[r] # "trim"
        BY <2>24 DEF PurgeFails
      <3>2. k \in Covered(Job(r))
        BY <2>24, <3>1 DEF PurgeFails, Covered
      <3>3. pending'[WorkerOf[r]] = Merge(Merge(pending[WorkerOf[r]], taken[r]), own[r])
        BY <2>24, WorkerAssumption DEF PurgeFails
      <3>4. Merge(pending[WorkerOf[r]], taken[r]) \in Purge
        BY PurgeConstants, WorkerAssumption
      <3> QED
        BY <3>2, <3>3, <3>4, MergeCovers, WorkerAssumption
    <2>25. CASE CommandFails(r)
      BY <2>25 DEF CommandFails, Degraded, Forget
    <2>26. CASE SetReplyLost(r)
      BY <2>26 DEF SetReplyLost, Stored, Forget
    <2>27. CASE DropFails(r)
      <3>1. pc[r] = "DROP"
        BY <2>27 DEF DropFails
      <3>2. k = key[r] => /\ lost'[k] = data[k] /\ store'[k] = store[k] /\ data' = data
        BY <2>27 DEF DropFails
      <3>5. store'[k] # NoValue /\ store'[k] # data'[k] /\ store'[k] >= lost'[k]
        BY DEF Counts, Stale, Live
      <3>6. store[k] # NoValue => store[k] <= data[k]
        BY DEF NothingAhead
      <3>7. data[k] \in Nat /\ store[k] \in Nat \cup {NoValue}
        OBVIOUS
      <3>3. ASSUME k = key[r] PROVE FALSE
        <4>1. store'[k] = store[k] /\ data'[k] = data[k] /\ lost'[k] = data[k]
          BY <3>2, <3>3
        <4>2. store[k] # NoValue /\ store[k] # data[k] /\ store[k] >= data[k]
          BY <4>1, <3>5
        <4>3. store[k] \in Nat /\ data[k] \in Nat
          BY <4>2, <3>7
        <4> QED
          <5> HIDE DEF TypeOK, CallShape, JobShape, OwedBy, OwedAfterBump, Job, Goto, Step
          <5> QED
            BY <4>2, <4>3, <3>6
      <3>4. step[r] = "off"
        BY <3>1 DEF CallShape
      <3> QED
        BY <3>3, <3>4
    <2>28. ASSUME NEW j \in Keys, StartRead(r, j) PROVE G
      BY <2>28 DEF StartRead
    <2>29. ASSUME NEW w \in Writes, Commit(r, w) \/ CommitReplyLost(r, w) PROVE G
      BY <2>29 DEF Commit, CommitReplyLost
    <2> QED
      BY <2>1, <2>2, <2>3, <2>4, <2>5, <2>6, <2>7, <2>8, <2>9, <2>10, <2>11, <2>12, <2>13,
         <2>14, <2>15, <2>16, <2>17, <2>18, <2>19, <2>20, <2>21, <2>22, <2>23, <2>24, <2>25, <2>26,
         <2>27, <2>28, <2>29 DEF RequestStep, Proceed
  <1> QED
    BY <1>1, <1>2, <1>3 DEF OwedBy

\* Removing payloads and index entries makes no key count anew.
LEMMA CountsShrinks ==
    ASSUME TypeOK, NEW k \in Keys, Counts(k)', data' = data, lost' = lost,
           store'[k] = store[k] \/ store'[k] = NoValue,
           \A i \in Indexes : index'[i] \subseteq index[i]
    PROVE  Counts(k)
  BY DEF TypeOK, Counts, Stale, Live, Indexed, IndexesOf

\* A key that counts now did before, or its writer or filler owes it.
LEMMA CountsBefore ==
    ASSUME TypeOK, NothingAhead, FillIsWatched, NEW r \in Requests, RequestStep(r),
           NEW k \in Keys, Counts(k)'
    PROVE  Counts(k) \/ BumpOwed(k) \/ OwedBy(r, k)'
  <1> DEFINE G == Counts(k) \/ BumpOwed(k) \/ OwedBy(r, k)'
  <1> USE ValueAssumption DEF TypeOK, Counts, Stale, Live, Indexed, redis, memory, reader,
     engine, counts
  <1>1. CASE RunCallback(r)
    BY <1>1 DEF RunCallback
  <1>2. CASE CallbacksDone(r)
    BY <1>2 DEF CallbacksDone
  <1>3. CASE SkipOpen(r)
    BY <1>3 DEF SkipOpen
  <1>4. CASE EnterClean(r)
    BY <1>4 DEF EnterClean
  <1>5. CASE EnterReplay(r)
    BY <1>5 DEF EnterReplay
  <1>6. CASE BumpEpoch(r)
    BY <1>6 DEF BumpEpoch
  <1>7. CASE ReadIndex(r)
    BY <1>7 DEF ReadIndex
  <1>8. CASE UnlinkChunkOf(r)
    BY <1>8 DEF UnlinkChunkOf, Without
  <1>9. CASE UnindexChunk(r)
    <2>1. store'[k] = store[k] \/ store'[k] = NoValue
      BY <1>9 DEF UnindexChunk, Without
    <2>2. \A i \in Indexes : index'[i] \subseteq index[i]
      BY <1>9 DEF UnindexChunk, Unindexed
    <2>3. data' = data /\ lost' = lost
      BY <1>9 DEF UnindexChunk
    <2> QED
      BY <2>1, <2>2, <2>3, CountsShrinks
  <1>10. CASE UnindexTop(r)
    <2>1. store'[k] = store[k] \/ store'[k] = NoValue
      BY <1>10 DEF UnindexTop, Without
    <2>2. \A i \in Indexes : index'[i] \subseteq index[i]
      BY <1>10 DEF UnindexTop, Unindexed
    <2>3. data' = data /\ lost' = lost
      BY <1>10 DEF UnindexTop
    <2> QED
      BY <2>1, <2>2, <2>3, CountsShrinks
  <1>11. CASE NamespacesDone(r)
    BY <1>11 DEF NamespacesDone
  <1>12. CASE DropKeys(r)
    <2>1. store'[k] = store[k] \/ store'[k] = NoValue
      BY <1>12 DEF DropKeys, Without
    <2>2. \A i \in Indexes : index'[i] \subseteq index[i]
      BY <1>12 DEF DropKeys, Unindexed
    <2>3. data' = data /\ lost' = lost
      BY <1>12 DEF DropKeys
    <2> QED
      BY <2>1, <2>2, <2>3, CountsShrinks
  <1>13. CASE ScanPrefix(r)
    BY <1>13 DEF ScanPrefix
  <1>14. CASE UnlinkScanned(r)
    <2>1. store'[k] = store[k] \/ store'[k] = NoValue
      BY <1>14 DEF UnlinkScanned, Without
    <2>2. \A i \in Indexes : index'[i] \subseteq index[i]
      BY <1>14 DEF UnlinkScanned, Unindexed
    <2>3. data' = data /\ lost' = lost
      BY <1>14 DEF UnlinkScanned
    <2> QED
      BY <2>1, <2>2, <2>3, CountsShrinks
  <1>15. CASE ReplayDone(r)
    BY <1>15 DEF ReplayDone
  <1>16. CASE PurgeDone(r)
    BY <1>16 DEF PurgeDone
  <1>17. CASE GetHit(r)
    BY <1>17 DEF GetHit
  <1>18. CASE GetMiss(r)
    BY <1>18 DEF GetMiss
  <1>19. CASE TakeEpoch(r)
    BY <1>19 DEF TakeEpoch
  <1>20. CASE ReadDatabase(r)
    BY <1>20 DEF ReadDatabase
  <1>21. CASE SetValue(r)
    <2>1. CASE k # key[r]
      BY <1>21, <2>1 DEF SetValue, Stored, IndexesOf
    <2>2. CASE k = key[r] /\ EpochMoved(r)
      BY <1>21, <2>2 DEF SetValue, Goto, OwedBy
    <2>3. CASE k = key[r] /\ ~EpochMoved(r)
      <3>1. store'[k] = val[r] /\ data' = data /\ lost' = lost
        BY <1>21, <2>3 DEF SetValue, Stored
      <3>2. pc[r] = "EXEC" /\ seen[r] = epoch
        BY <1>21, <2>3 DEF SetValue, EpochMoved
      <3> QED
        BY <2>3, <3>1, <3>2 DEF FillIsWatched
    <2> QED
      BY <2>1, <2>2, <2>3
  <1>22. CASE DropValue(r)
    <2>1. store'[k] = store[k] \/ store'[k] = NoValue
      BY <1>22 DEF DropValue, Without
    <2>2. \A i \in Indexes : index'[i] \subseteq index[i]
      BY <1>22 DEF DropValue, Unindexed
    <2>3. data' = data /\ lost' = lost
      BY <1>22 DEF DropValue
    <2> QED
      BY <2>1, <2>2, <2>3, CountsShrinks
  <1>23. CASE HalfOpen(r)
    BY <1>23 DEF HalfOpen
  <1>24. CASE GetUndecodable(r)
    BY <1>24 DEF GetUndecodable
  <1>25. CASE PurgeFails(r)
    BY <1>25 DEF PurgeFails
  <1>26. CASE CommandFails(r)
    BY <1>26 DEF CommandFails
  <1>27. CASE SetReplyLost(r)
    <2>1. CASE k # key[r]
      BY <1>27, <2>1 DEF SetReplyLost, Stored, IndexesOf
    <2>2. CASE k = key[r]
      <3>1. store'[k] = val[r] /\ data' = data
        BY <1>27, <2>2 DEF SetReplyLost, Stored
      <3>2. pc[r] = "EXEC" /\ lost'[k] = IF EpochMoved(r) THEN data[k] ELSE lost[k]
        BY <1>27, <2>2 DEF SetReplyLost
      <3>3. val[r] <= data[k]
        BY <2>2, <3>2 DEF NothingAhead
      <3>4. ~EpochMoved(r)
        BY <3>1, <3>2, <3>3
      <3> QED
        BY <2>2, <3>1, <3>2, <3>4 DEF FillIsWatched, EpochMoved
    <2> QED
      BY <2>1, <2>2
  <1>28. CASE DropFails(r)
    BY <1>28 DEF DropFails, NothingAhead
  <1>29. ASSUME NEW j \in Keys, StartRead(r, j) PROVE G
    BY <1>29 DEF StartRead
  <1>30. ASSUME NEW w \in Writes, Commit(r, w) PROVE G
    <2>1. CASE k \in w.changes
      <3>1. PICK p \in w.purges : k \in Covered(p)
        BY <2>1, WriteAssumption
      <3> QED
        BY <1>30, <3>1 DEF Commit, OwedBy, OwedBeforeBump
    <2> QED
      BY <1>30, <2>1 DEF Commit
  <1>31. ASSUME NEW w \in Writes, CommitReplyLost(r, w) PROVE G
    BY <1>31 DEF CommitReplyLost, NothingAhead
  <1> QED
    BY <1>1, <1>2, <1>3, <1>4, <1>5, <1>6, <1>7, <1>8, <1>9, <1>10, <1>11, <1>12, <1>13,
       <1>14, <1>15, <1>16, <1>17, <1>18, <1>19, <1>20, <1>21, <1>22, <1>23, <1>24, <1>25, <1>26,
       <1>27, <1>28, <1>29, <1>30, <1>31 DEF RequestStep, Proceed

\* A step of one request keeps every stale indexed payload owned.
LEMMA RequestKeepsOwner ==
    ASSUME TypeOK, IInv, NEW r \in Requests, RequestStep(r)
    PROVE  StaleIsOwed'
  <1> USE DEF IInv
  <1> SUFFICES ASSUME NEW k \in Keys, Counts(k)'
               PROVE  PurgeOwed(k)' \/ DropOwed(k)'
    BY DEF StaleIsOwed, Counts
  <1>1. ASSUME NEW q \in Requests, OwedBy(q, k)' PROVE PurgeOwed(k)' \/ DropOwed(k)'
    BY <1>1 DEF OwedBy, PurgeOwed, DropOwed
  <1>2. ASSUME NEW w \in Workers, k \in Covered(pending[w])'
        PROVE  PurgeOwed(k)'
    BY <1>2 DEF PurgeOwed
  <1>3. ASSUME NEW q \in Requests, OwedBy(q, k) PROVE PurgeOwed(k)' \/ DropOwed(k)'
    <2>1. CASE q = r
      BY <1>1, <1>2, <1>3, <2>1, OwedByKept, WorkerAssumption
    <2>2. CASE q # r
      BY <1>1, <1>3, <2>2, OthersSame, SameOwes
    <2> QED
      BY <2>1, <2>2
  <1>4. ASSUME NEW w \in Workers, k \in Covered(pending[w])
        PROVE  PurgeOwed(k)' \/ DropOwed(k)'
    <2>1. k \in Covered(pending[w])' \/ OwedBeforeBump(r, k)'
      BY <1>4, PendingKept
    <2> QED
      BY <1>1, <1>2, <2>1 DEF OwedBy
  <1>5. CASE Counts(k)
    <2>1. PurgeOwed(k) \/ DropOwed(k)
      BY <1>5 DEF StaleIsOwed, Counts
    <2> QED
      BY <1>3, <1>4, <2>1 DEF PurgeOwed, DropOwed, OwedBy
  <1>6. CASE BumpOwed(k)
    BY <1>3, <1>4, <1>6 DEF BumpOwed, OwedBy
  <1>7. CASE OwedBy(r, k)'
    BY <1>1, <1>7
  <1> QED
    BY <1>5, <1>6, <1>7, CountsBefore

\* What a purge with its INCR still ahead owes stays so until an INCR.
LEMMA BumpOwedKept ==
    ASSUME TypeOK, IInv, NEW r \in Requests, RequestStep(r), ~BumpEpoch(r),
           NEW k \in Keys, BumpOwed(k)
    PROVE  BumpOwed(k)'
  <1> USE DEF IInv
  <1>1. ASSUME NEW q \in Requests, OwedBeforeBump(q, k) PROVE BumpOwed(k)'
    <2>1. CASE q = r
      BY <1>1, <2>1, BumpOwedByKept, WorkerAssumption DEF BumpOwed
    <2>2. CASE q # r
      BY <1>1, <2>2, OthersSame, SameOwes DEF BumpOwed
    <2> QED
      BY <2>1, <2>2
  <1>2. ASSUME NEW w \in Workers, k \in Covered(pending[w]) PROVE BumpOwed(k)'
    BY <1>2, PendingKept DEF BumpOwed
  <1> QED
    BY <1>1, <1>2 DEF BumpOwed

\* A fill the epoch check will pass, whose payload is stale and counts.
BadFill(q) ==
    /\ pc[q] \in {"set", "EXEC"}
    /\ seen[q] = epoch
    /\ val[q] # data[key[q]]
    /\ val[q] >= lost[key[q]]

\* A bad fill was bad before the step, or its key has a purge before its INCR.
LEMMA FillBefore ==
    ASSUME TypeOK, CallShape, NothingAhead, NEW r \in Requests, RequestStep(r),
           NEW q \in Requests, BadFill(q)'
    PROVE  /\ ~BumpEpoch(r)
           /\ key'[q] = key[q]
           /\ BadFill(q) \/ BumpOwed(key[q])'
  <1> DEFINE G == ~BumpEpoch(r) /\ key'[q] = key[q] /\ (BadFill(q) \/ BumpOwed(key[q])')
  <1> USE ValueAssumption DEF TypeOK, BadFill, CallShape, Goto, Step, redis, memory, reader,
     engine, counts
  <1>1. CASE RunCallback(r)
    <2>1. ~BumpEpoch(r)
      BY <1>1 DEF RunCallback, BumpEpoch
    <2>2. key'[q] = key[q] /\ BadFill(q)
      BY <1>1 DEF RunCallback
    <2> QED
      BY <2>1, <2>2
  <1>2. CASE CallbacksDone(r)
    <2>1. ~BumpEpoch(r)
      BY <1>2 DEF CallbacksDone, BumpEpoch
    <2>2. key'[q] = key[q] /\ BadFill(q)
      BY <1>2 DEF CallbacksDone
    <2> QED
      BY <2>1, <2>2
  <1>3. CASE SkipOpen(r)
    <2>1. q # r
      BY <1>3 DEF SkipOpen, Forget
    <2> QED
      BY <1>3, <2>1 DEF SkipOpen, Forget, BumpEpoch, Entering
  <1>4. CASE EnterClean(r)
    <2>1. ~BumpEpoch(r)
      BY <1>4 DEF EnterClean, BumpEpoch, Entering
    <2>2. key'[q] = key[q] /\ BadFill(q)
      BY <1>4 DEF EnterClean, Forced, Entering, Command
    <2> QED
      BY <2>1, <2>2
  <1>5. CASE EnterReplay(r)
    <2>1. ~BumpEpoch(r)
      BY <1>5 DEF EnterReplay, BumpEpoch, Entering
    <2>2. key'[q] = key[q] /\ BadFill(q)
      BY <1>5 DEF EnterReplay
    <2> QED
      BY <2>1, <2>2
  <1>6. CASE BumpEpoch(r)
    <2>1. seen[q] = epoch + 1
      BY <1>6 DEF BumpEpoch
    <2>2. seen[q] # NoValue /\ seen[q] <= epoch
      BY <2>1 DEF NothingAhead
    <2> QED
      BY <2>1, <2>2
  <1>7. CASE ReadIndex(r)
    <2>1. ~BumpEpoch(r)
      BY <1>7 DEF ReadIndex, BumpEpoch
    <2>2. key'[q] = key[q] /\ BadFill(q)
      BY <1>7 DEF ReadIndex
    <2> QED
      BY <2>1, <2>2
  <1>8. CASE UnlinkChunkOf(r)
    <2>1. ~BumpEpoch(r)
      BY <1>8 DEF UnlinkChunkOf, BumpEpoch
    <2>2. key'[q] = key[q] /\ BadFill(q)
      BY <1>8 DEF UnlinkChunkOf
    <2> QED
      BY <2>1, <2>2
  <1>9. CASE UnindexChunk(r)
    <2>1. ~BumpEpoch(r)
      BY <1>9 DEF UnindexChunk, BumpEpoch
    <2>2. key'[q] = key[q] /\ BadFill(q)
      BY <1>9 DEF UnindexChunk
    <2> QED
      BY <2>1, <2>2
  <1>10. CASE UnindexTop(r)
    <2>1. ~BumpEpoch(r)
      BY <1>10 DEF UnindexTop, BumpEpoch
    <2>2. key'[q] = key[q] /\ BadFill(q)
      BY <1>10 DEF UnindexTop
    <2> QED
      BY <2>1, <2>2
  <1>11. CASE NamespacesDone(r)
    <2>1. ~BumpEpoch(r)
      BY <1>11 DEF NamespacesDone, BumpEpoch
    <2>2. key'[q] = key[q] /\ BadFill(q)
      BY <1>11 DEF NamespacesDone
    <2> QED
      BY <2>1, <2>2
  <1>12. CASE DropKeys(r)
    <2>1. ~BumpEpoch(r)
      BY <1>12 DEF DropKeys, BumpEpoch
    <2>2. key'[q] = key[q] /\ BadFill(q)
      BY <1>12 DEF DropKeys
    <2> QED
      BY <2>1, <2>2
  <1>13. CASE ScanPrefix(r)
    <2>1. ~BumpEpoch(r)
      BY <1>13 DEF ScanPrefix, BumpEpoch
    <2>2. key'[q] = key[q] /\ BadFill(q)
      BY <1>13 DEF ScanPrefix
    <2> QED
      BY <2>1, <2>2
  <1>14. CASE UnlinkScanned(r)
    <2>1. ~BumpEpoch(r)
      BY <1>14 DEF UnlinkScanned, BumpEpoch
    <2>2. key'[q] = key[q] /\ BadFill(q)
      BY <1>14 DEF UnlinkScanned
    <2> QED
      BY <2>1, <2>2
  <1>15. CASE ReplayDone(r)
    <2>1. ~BumpEpoch(r)
      BY <1>15 DEF ReplayDone, BumpEpoch
    <2>2. key'[q] = key[q] /\ BadFill(q)
      BY <1>15 DEF ReplayDone, Command
    <2> QED
      BY <2>1, <2>2
  <1>16. CASE PurgeDone(r)
    <2>1. ~BumpEpoch(r)
      BY <1>16 DEF PurgeDone, BumpEpoch
    <2>2. key'[q] = key[q] /\ BadFill(q)
      BY <1>16 DEF PurgeDone, Degraded
    <2> QED
      BY <2>1, <2>2
  <1>17. CASE GetHit(r)
    <2>1. ~BumpEpoch(r)
      BY <1>17 DEF GetHit, BumpEpoch
    <2>2. key'[q] = key[q] /\ BadFill(q)
      BY <1>17 DEF GetHit
    <2> QED
      BY <2>1, <2>2
  <1>18. CASE GetMiss(r)
    <2>1. ~BumpEpoch(r)
      BY <1>18 DEF GetMiss, BumpEpoch
    <2>2. key'[q] = key[q] /\ BadFill(q)
      BY <1>18 DEF GetMiss
    <2> QED
      BY <2>1, <2>2
  <1>19. CASE TakeEpoch(r)
    <2>1. ~BumpEpoch(r)
      BY <1>19 DEF TakeEpoch, BumpEpoch
    <2>2. key'[q] = key[q] /\ BadFill(q)
      BY <1>19 DEF TakeEpoch
    <2> QED
      BY <2>1, <2>2
  <1>20. CASE ReadDatabase(r)
    <2>1. ~BumpEpoch(r)
      BY <1>20 DEF ReadDatabase, BumpEpoch
    <2>2. key'[q] = key[q] /\ BadFill(q)
      BY <1>20 DEF ReadDatabase
    <2> QED
      BY <2>1, <2>2
  <1>21. CASE SetValue(r)
    <2>1. ~BumpEpoch(r)
      BY <1>21 DEF SetValue, BumpEpoch
    <2>2. key'[q] = key[q] /\ BadFill(q)
      BY <1>21 DEF SetValue, Forget
    <2> QED
      BY <2>1, <2>2
  <1>22. CASE DropValue(r)
    <2>1. ~BumpEpoch(r)
      BY <1>22 DEF DropValue, BumpEpoch
    <2>2. key'[q] = key[q] /\ BadFill(q)
      BY <1>22 DEF DropValue
    <2> QED
      BY <2>1, <2>2
  <1>23. CASE HalfOpen(r)
    <2>1. ~BumpEpoch(r)
      BY <1>23 DEF HalfOpen, BumpEpoch, Entering
    <2>2. key'[q] = key[q] /\ BadFill(q)
      BY <1>23 DEF HalfOpen
    <2> QED
      BY <2>1, <2>2
  <1>24. CASE GetUndecodable(r)
    <2>1. ~BumpEpoch(r)
      BY <1>24 DEF GetUndecodable, BumpEpoch
    <2>2. key'[q] = key[q] /\ BadFill(q)
      BY <1>24 DEF GetUndecodable
    <2> QED
      BY <2>1, <2>2
  <1>25. CASE PurgeFails(r)
    <2>1. ~BumpEpoch(r)
      BY <1>25 DEF PurgeFails, BumpEpoch
    <2>2. key'[q] = key[q] /\ BadFill(q)
      BY <1>25 DEF PurgeFails, Forget
    <2> QED
      BY <2>1, <2>2
  <1>26. CASE CommandFails(r)
    <2>1. ~BumpEpoch(r)
      BY <1>26 DEF CommandFails, BumpEpoch
    <2>2. key'[q] = key[q] /\ BadFill(q)
      BY <1>26 DEF CommandFails, Forget
    <2> QED
      BY <2>1, <2>2
  <1>27. CASE SetReplyLost(r)
    <2>1. ~BumpEpoch(r)
      BY <1>27 DEF SetReplyLost, BumpEpoch
    <2>2. /\ pc[q] \in {"set", "EXEC"} /\ seen[q] = epoch /\ key'[q] = key[q]
          /\ val[q] # data[key[q]] /\ val'[q] = val[q]
      BY <1>27 DEF SetReplyLost, Forget
    <2>3. val[q] <= data[key[q]]
      BY <2>2 DEF NothingAhead
    <2>4. val[q] >= lost[key[q]]
      <3>1. val[q] >= lost'[key[q]]
        BY <2>2
      <3>2. lost'[key[q]] = lost[key[q]] \/ lost'[key[q]] = data[key[q]]
        BY <1>27 DEF SetReplyLost
      <3>3. val[q] \in Nat /\ data[key[q]] \in Nat /\ val[q] # data[key[q]]
        BY <2>2
      <3> HIDE DEF TypeOK, BadFill, CallShape
      <3> QED
        BY <2>3, <3>1, <3>2, <3>3
    <2> QED
      BY <2>1, <2>2, <2>4
  <1>28. CASE DropFails(r)
    <2>1. ~BumpEpoch(r)
      BY <1>28 DEF DropFails, BumpEpoch
    <2>2. /\ pc[q] \in {"set", "EXEC"} /\ seen[q] = epoch /\ key'[q] = key[q]
          /\ val[q] # data[key[q]] /\ val'[q] = val[q]
      BY <1>28 DEF DropFails
    <2>3. val[q] <= data[key[q]]
      BY <2>2 DEF NothingAhead
    <2>4. val[q] >= lost[key[q]]
      <3>1. val[q] >= lost'[key[q]]
        BY <2>2
      <3>2. lost'[key[q]] = lost[key[q]] \/ lost'[key[q]] = data[key[q]]
        BY <1>28 DEF DropFails
      <3>3. val[q] \in Nat /\ data[key[q]] \in Nat /\ val[q] # data[key[q]]
        BY <2>2
      <3> HIDE DEF TypeOK, BadFill, CallShape
      <3> QED
        BY <2>3, <3>1, <3>2, <3>3
    <2> QED
      BY <2>1, <2>2, <2>4
  <1>29. ASSUME NEW j \in Keys, StartRead(r, j) PROVE G
    <2>1. ~BumpEpoch(r)
      BY <1>29 DEF StartRead, BumpEpoch
    <2>2. key'[q] = key[q] /\ BadFill(q)
      BY <1>29 DEF StartRead
    <2> QED
      BY <2>1, <2>2
  <1>30. ASSUME NEW w \in Writes, Commit(r, w) PROVE G
    <2>1. ~BumpEpoch(r) /\ key'[q] = key[q]
      BY <1>30 DEF Commit, BumpEpoch
    <2>2. CASE key[q] \in w.changes
      <3>1. PICK p \in w.purges : key[q] \in Covered(p)
        BY <2>2, WriteAssumption
      <3>2. OwedBeforeBump(r, key[q])'
        BY <1>30, <3>1 DEF Commit, OwedBeforeBump
      <3> QED
        BY <2>1, <3>2 DEF BumpOwed
    <2>3. CASE key[q] \notin w.changes
      BY <1>30, <2>1, <2>3 DEF Commit
    <2> QED
      BY <2>2, <2>3
  <1>31. ASSUME NEW w \in Writes, CommitReplyLost(r, w) PROVE G
    <2>1. ~BumpEpoch(r)
      BY <1>31 DEF CommitReplyLost, BumpEpoch, CallShape
    <2>2. /\ pc[q] \in {"set", "EXEC"} /\ seen[q] = epoch /\ key'[q] = key[q]
          /\ val'[q] = val[q] /\ val[q] <= data[key[q]]
      BY <1>31 DEF CommitReplyLost, NothingAhead
    <2>3. key[q] \notin w.changes
      BY <1>31, <2>2 DEF CommitReplyLost
    <2> QED
      BY <1>31, <2>1, <2>2, <2>3 DEF CommitReplyLost
  <1> QED
    BY <1>1, <1>2, <1>3, <1>4, <1>5, <1>6, <1>7, <1>8, <1>9, <1>10, <1>11, <1>12, <1>13,
       <1>14, <1>15, <1>16, <1>17, <1>18, <1>19, <1>20, <1>21, <1>22, <1>23, <1>24, <1>25, <1>26,
       <1>27, <1>28, <1>29, <1>30, <1>31 DEF RequestStep, Proceed

\* A step of one request keeps every stale fill watched.
LEMMA RequestKeepsWatch ==
    ASSUME TypeOK, IInv, NEW r \in Requests, RequestStep(r)
    PROVE  FillIsWatched'
  <1> SUFFICES ASSUME NEW q \in Requests, BadFill(q)' PROVE BumpOwed(key[q])' /\ key'[q] = key[q]
    BY DEF FillIsWatched, BadFill
  <1>1. ~BumpEpoch(r) /\ key'[q] = key[q] /\ (BadFill(q) \/ BumpOwed(key[q])')
    BY FillBefore DEF IInv
  <1>2. BadFill(q) => BumpOwed(key[q])
    BY DEF IInv, FillIsWatched, BadFill
  <1> QED
    BY <1>1, <1>2, BumpOwedKept DEF TypeOK

\* Expiry owes nothing and makes nothing stale.
LEMMA ExpireKeeps ==
    ASSUME TypeOK, IInv, NEW j \in Keys, Expire(j)
    PROVE  StaleIsOwed' /\ FillIsWatched'
  <1> USE DEF TypeOK, IInv, Expire, redis, memory, reader, engine, counts
  <1>1. \A q \in Requests : Same(q)
    BY DEF Same
  <1>2. \A k \in Keys : Counts(k)' => Counts(k)
    BY DEF Without, Counts, Stale, Live, Indexed
  <1>3. \A k \in Keys : (PurgeOwed(k) => PurgeOwed(k)') /\ (DropOwed(k) => DropOwed(k)')
    BY <1>1, SameOwes DEF PurgeOwed, DropOwed, OwedBeforeBump, OwedAfterBump, Forced, Job
  <1>4. \A k \in Keys : BumpOwed(k) => BumpOwed(k)'
    BY <1>1, SameOwes DEF BumpOwed
  <1>5. StaleIsOwed'
    BY <1>2, <1>3 DEF StaleIsOwed, Counts
  <1>6. FillIsWatched'
    BY <1>4 DEF FillIsWatched
  <1> QED
    BY <1>5, <1>6

\* A crash: what the worker owed is written off in lost, the rest is untouched.
LEMMA CrashKeeps ==
    ASSUME TypeOK, IInv, NEW w \in Workers, Crash(w)
    PROVE  StaleIsOwed' /\ FillIsWatched'
  <1> USE DEF TypeOK, IInv
  <1>1. \A q \in Requests : WorkerOf[q] # w => Same(q) /\ val'[q] = val[q] /\ seen'[q] = seen[q]
    BY DEF Crash, Same
  <1>2. \A q \in Requests : WorkerOf[q] = w => pc'[q] = "idle"
    BY DEF Crash
  <1>3. data' = data /\ store' = store /\ index' = index /\ epoch' = epoch /\ key' = key
    BY DEF Crash, redis
  <1>4. ASSUME NEW k \in Keys, NEW q \in Requests, WorkerOf[q] = w, OwedBy(q, k)
        PROVE  lost'[k] = data[k]
    BY <1>4 DEF Crash, OwedBy
  <1>5. ASSUME NEW k \in Keys, k \in Covered(pending[w]) PROVE lost'[k] = data[k]
    BY <1>5 DEF Crash
  <1>6. \A k \in Keys : lost'[k] = data[k] \/ lost'[k] = lost[k]
    BY DEF Crash
  <1>7. \A u \in Workers : u # w => pending'[u] = pending[u]
    BY DEF Crash
  <1>8. ASSUME NEW k \in Keys, Counts(k)' PROVE PurgeOwed(k)' \/ DropOwed(k)'
    <2>1. /\ store[k] # NoValue /\ store[k] # data[k] /\ store[k] >= lost'[k]
          /\ store[k] <= data[k] /\ store[k] \in Nat /\ data[k] \in Nat
      BY <1>3, <1>8 DEF Counts, Stale, Live, NothingAhead
    <2>2. lost'[k] # data[k]
      BY <2>1
    <2>3. Counts(k)
      BY <1>3, <1>6, <1>8, <2>2 DEF Counts, Stale, Live, Indexed
    <2>4. PurgeOwed(k) \/ DropOwed(k)
      BY <2>3 DEF StaleIsOwed, Counts
    <2>5. ASSUME NEW q \in Requests, OwedBy(q, k) PROVE PurgeOwed(k)' \/ DropOwed(k)'
      <3>1. WorkerOf[q] # w
        BY <1>4, <2>2, <2>5
      <3>2. OwedBy(q, k)'
        BY <1>1, <2>5, <3>1, SameOwes
      <3> QED
        BY <3>2 DEF OwedBy, PurgeOwed, DropOwed
    <2>6. ASSUME NEW u \in Workers, k \in Covered(pending[u]) PROVE PurgeOwed(k)'
      BY <1>5, <1>7, <2>2, <2>6 DEF PurgeOwed
    <2> QED
      BY <2>4, <2>5, <2>6 DEF PurgeOwed, DropOwed, OwedBy
  <1>9. ASSUME NEW q \in Requests, BadFill(q)' PROVE BumpOwed(key[q])'
    <2>1. WorkerOf[q] # w
      BY <1>2, <1>9 DEF BadFill
    <2>2. /\ pc[q] \in {"set", "EXEC"} /\ seen[q] = epoch /\ val[q] # data[key[q]]
          /\ val[q] >= lost'[key[q]]
      BY <1>1, <1>3, <1>9, <2>1 DEF BadFill, Same
    <2>3. lost'[key[q]] # data[key[q]]
      <3>1. val[q] <= data[key[q]] /\ val[q] \in Nat /\ data[key[q]] \in Nat
        BY <2>2 DEF NothingAhead
      <3> QED
        BY <2>2, <3>1
    <2>4. BadFill(q)
      BY <1>6, <2>2, <2>3 DEF BadFill
    <2>5. BumpOwed(key[q])
      BY <2>4 DEF FillIsWatched, BadFill
    <2>6. ASSUME NEW k \in Keys, BumpOwed(k), lost'[k] # data[k] PROVE BumpOwed(k)'
      <3>1. ASSUME NEW p \in Requests, OwedBeforeBump(p, k) PROVE BumpOwed(k)'
        <4>1. WorkerOf[p] # w
          BY <1>4, <2>6, <3>1 DEF OwedBy
        <4>2. OwedBeforeBump(p, k)'
          BY <1>1, <3>1, <4>1, SameOwes
        <4> QED
          BY <4>2 DEF BumpOwed
      <3>2. ASSUME NEW u \in Workers, k \in Covered(pending[u]) PROVE BumpOwed(k)'
        <4>1. u # w
          BY <1>5, <2>6, <3>2
        <4>2. pending'[u] = pending[u]
          BY <1>7, <4>1
        <4>3. k \in Covered(pending'[u])
          BY <3>2, <4>2
        <4> QED
          BY <4>3 DEF BumpOwed
      <3> QED
        BY <2>6, <3>1, <3>2 DEF BumpOwed
    <2>7. PICK k \in Keys : k = key[q] /\ k = key'[q]
      BY <1>3
    <2>8. BumpOwed(k)'
      BY <2>3, <2>5, <2>6, <2>7
    <2> QED
      BY <2>7, <2>8
  <1>10. StaleIsOwed'
    BY <1>8 DEF StaleIsOwed, Counts
  <1>11. FillIsWatched'
    BY <1>3, <1>9 DEF FillIsWatched, BadFill
  <1> QED
    BY <1>10, <1>11

-----------------------------------------------------------------------------
(* The theorem                                                             *)

\* The inductive invariant holds at the start.
LEMMA InitIInv == Init => IInv
  <1> SUFFICES ASSUME Init PROVE IInv
    OBVIOUS
  <1>1. CallShape /\ JobShape
    BY DEF Init, CallShape, JobShape
  <1>2. NothingAhead /\ FillIsWatched
    BY DEF Init, NothingAhead, FillIsWatched
  <1>3. StaleIsOwed
    BY DEF Init, StaleIsOwed, Stale, Live
  <1> QED
    BY <1>1, <1>2, <1>3 DEF IInv

\* Every step of the model keeps the inductive invariant.
LEMMA NextIInv == TypeOK /\ IInv /\ [Next]_vars => IInv'
  <1> SUFFICES ASSUME TypeOK, IInv, [Next]_vars PROVE IInv'
    OBVIOUS
  <1>1. CallShape' /\ JobShape' /\ NothingAhead'
    BY NextCallShape, NextJobShape, NextNothingAhead DEF IInv
  <1>2. ASSUME NEW r \in Requests, RequestStep(r) PROVE StaleIsOwed' /\ FillIsWatched'
    BY <1>2, RequestKeepsOwner, RequestKeepsWatch
  <1>3. ASSUME NEW k \in Keys, Expire(k) PROVE StaleIsOwed' /\ FillIsWatched'
    BY <1>3, ExpireKeeps
  <1>4. ASSUME NEW w \in Workers, Crash(w) PROVE StaleIsOwed' /\ FillIsWatched'
    BY <1>4, CrashKeeps
  <1>5. ASSUME UNCHANGED vars PROVE StaleIsOwed' /\ FillIsWatched'
    <2>1. \A q \in Requests : Same(q)
      BY <1>5 DEF vars, reader, engine, Same
    <2>2. /\ store' = store /\ data' = data /\ index' = index /\ lost' = lost
          /\ pending' = pending /\ epoch' = epoch /\ val' = val /\ seen' = seen
          /\ key' = key /\ pc' = pc
      BY <1>5 DEF vars, redis, memory, reader
    <2>3. \A k \in Keys : (PurgeOwed(k) => PurgeOwed(k)') /\ (DropOwed(k) => DropOwed(k)')
      BY <1>5 DEF vars, redis, memory, reader, engine, PurgeOwed, DropOwed,
                  OwedBeforeBump, OwedAfterBump, Forced, Job
    <2>4. \A k \in Keys : BumpOwed(k) => BumpOwed(k)'
      BY <2>1, <2>2, SameOwes DEF BumpOwed
    <2>5. StaleIsOwed'
      BY <2>2, <2>3 DEF IInv, StaleIsOwed, Stale, Live, Indexed
    <2>6. FillIsWatched'
      <3>1. SUFFICES ASSUME NEW q \in Requests, BadFill(q)' PROVE BumpOwed(key[q])'
        BY DEF FillIsWatched, BadFill
      <3>2. PICK k \in Keys : k = key[q] /\ k = key'[q]
        BY <2>2 DEF TypeOK
      <3>3. BadFill(q)
        BY <2>2, <3>1 DEF BadFill
      <3>4. BumpOwed(k)
        BY <3>2, <3>3 DEF IInv, FillIsWatched, BadFill
      <3> QED
        BY <2>4, <3>2, <3>4
    <2> QED
      BY <2>5, <2>6
  <1>6. \/ \E r \in Requests : RequestStep(r)
        \/ \E k \in Keys : Expire(k)
        \/ \E w \in Workers : Crash(w)
        \/ UNCHANGED vars
    <2>1. CASE Next
      <3>1. CASE \E r \in Requests : Next!1!(r)
        BY <3>1 DEF RequestStep
      <3> QED
        BY <2>1, <3>1 DEF Next
    <2> QED
      BY <2>1
  <1>7. StaleIsOwed' /\ FillIsWatched'
    <2>1. CASE \E r \in Requests : RequestStep(r)
      BY <1>2, <2>1
    <2>2. CASE \E k \in Keys : Expire(k)
      BY <1>3, <2>2
    <2>3. CASE \E w \in Workers : Crash(w)
      BY <1>4, <2>3
    <2> QED
      BY <1>5, <1>6, <2>1, <2>2, <2>3
  <1> QED
    BY <1>1, <1>7 DEF IInv

\* A stale payload that the indexes list is always on its way out, unless an
\* invalidation of its key was lost: in every state some request, or some
\* worker's memory, still owes its removal.
THEOREM StaleOwned == Spec => []StaleIsOwed
  <1>1. Init => TypeOK /\ IInv
    BY InitType, InitIInv
  <1>2. TypeOK /\ IInv /\ [Next]_vars => TypeOK' /\ IInv'
    BY NextType, NextIInv
  <1>3. IInv => StaleIsOwed
    BY DEF IInv
  <1> QED
    BY <1>1, <1>2, <1>3, PTL DEF Spec

-----------------------------------------------------------------------------
(* Deferred purges                                                         *)

\* What is deferred changes only with the worker's memory and its replays.
LEMMA DeferredSame ==
  ASSUME NEW w \in Workers, UNCHANGED <<pending, taken>>
  PROVE  Deferred(w)' = Deferred(w)
  BY DEF Deferred, Covered

\* A key is deferred by the worker's memory or by one of its replays.
LEMMA DeferredBy ==
  ASSUME NEW w \in Workers, NEW k
  PROVE  k \in Deferred(w) <=> \/ k \in Covered(pending[w])
                               \/ \E r \in Requests : WorkerOf[r] = w /\ k \in Covered(taken[r])
  BY DEF Deferred

\* A replay takes over all that was remembered; it had nothing of its own yet.
LEMMA ReplayTakesAll ==
  ASSUME TypeOK, CallShape, NEW r \in Requests, EnterReplay(r),
         NEW w \in Workers, NEW k \in Deferred(w)
  PROVE  k \in Deferred(w)'
  <1>1. taken[r] = NoPurge
    BY DEF EnterReplay, Entering, CallShape
  <1>2. k \notin Covered(taken[r])
    BY <1>1 DEF Covered, NoPurge
  <1>3. /\ taken'[r] = pending[WorkerOf[r]]
        /\ \A q \in Requests : q # r => taken'[q] = taken[q]
        /\ \A v \in Workers : v # WorkerOf[r] => pending'[v] = pending[v]
    BY DEF EnterReplay, TypeOK
  <1>4. CASE k \in Covered(pending[w])
    <2>1. k \in Covered(pending'[w]) \/ (WorkerOf[r] = w /\ k \in Covered(taken'[r]))
      BY <1>3, <1>4
    <2> QED
      BY <2>1 DEF Deferred, Covered
  <1>5. CASE \E q \in Requests : WorkerOf[q] = w /\ k \in Covered(taken[q])
    <2>1. \E q \in Requests : WorkerOf[q] = w /\ k \in Covered(taken'[q])
      BY <1>2, <1>3, <1>5
    <2> QED
      BY <2>1 DEF Deferred, Covered
  <1> QED
    BY <1>4, <1>5, DeferredBy

\* A replay that fails gives back what it took.
LEMMA FailureGivesBack ==
  ASSUME TypeOK, NEW r \in Requests, PurgeFails(r),
         NEW w \in Workers, NEW k \in Deferred(w)
  PROVE  k \in Deferred(w)'
  <1> DEFINE v == WorkerOf[r]
             back == Merge(Merge(pending[v], taken[r]), own[r])
  <1>1. /\ v \in Workers /\ pending[v] \in Purge /\ taken[r] \in Purge /\ own[r] \in Purge
        /\ Merge(pending[v], taken[r]) \in Purge
    BY WorkerAssumption, PurgeConstants DEF TypeOK
  <1>2. /\ pending' = [pending EXCEPT ![v] = back]
        /\ taken' = [taken EXCEPT ![r] = NoPurge]
    BY DEF PurgeFails
  <1>3. /\ pending'[v] = back
        /\ \A u \in Workers : u # v => pending'[u] = pending[u]
        /\ \A q \in Requests : q # r => taken'[q] = taken[q]
    BY <1>1, <1>2 DEF TypeOK
  <1>4. k \in Keys
    <2>1. \A p \in Purge : Covered(p) \subseteq Keys
      BY NamespaceAssumption DEF Covered, Purge
    <2>2. \A q \in Requests : taken[q] \in Purge
      BY DEF TypeOK
    <2> QED
      BY <2>1, <2>2, DeferredBy DEF TypeOK
  <1>5. k \in Covered(pending[v]) \/ k \in Covered(taken[r]) => k \in Covered(back)
    BY <1>1, <1>4, MergeCovers
  <1> HIDE DEF back
  <1>6. CASE k \in Covered(pending[w])
    BY <1>3, <1>5, <1>6 DEF Deferred, Covered
  <1>7. CASE \E q \in Requests : WorkerOf[q] = w /\ k \in Covered(taken[q])
    <2>1. PICK q \in Requests : WorkerOf[q] = w /\ k \in Covered(taken[q])
      BY <1>7
    <2>2. CASE q = r
      BY <1>3, <1>5, <2>1, <2>2 DEF Deferred, Covered
    <2>3. CASE q # r
      BY <1>3, <2>1, <2>3 DEF Deferred, Covered
    <2> QED
      BY <2>2, <2>3
  <1> QED
    BY <1>6, <1>7, DeferredBy

\* A replay that ends was applied; what others took or what is remembered stays.
LEMMA OnlyAppliedLeaves ==
  ASSUME TypeOK, NEW r \in Requests, ReplayDone(r),
         NEW w \in Workers, NEW k \in Deferred(w), k \notin Deferred(w)'
  PROVE  WorkerOf[r] = w /\ step[r] = "done" /\ k \in Covered(taken[r])
  <1>1. /\ step[r] = "done" /\ pending' = pending
        /\ \A q \in Requests : q # r => taken'[q] = taken[q]
    BY DEF ReplayDone, TypeOK, memory
  <1>2. k \notin Covered(pending[w])
    BY <1>1 DEF Deferred, Covered
  <1>3. PICK q \in Requests : WorkerOf[q] = w /\ k \in Covered(taken[q])
    BY <1>2, DeferredBy
  <1>4. q = r
    BY <1>1, <1>3 DEF Deferred, Covered
  <1> QED
    BY <1>1, <1>3, <1>4

\* "Invalidation is never silently lost" (client.py): through failing replays,
\* merges with newer purges and the collapse into a flush, a deferred key stays
\* deferred until a replay that covers it has ended, or its worker has.
THEOREM DeferredKept == Spec => DeferredPurgeKept
  <1> DEFINE Kept ==
        \A w \in Workers : \A k \in Deferred(w) :
          \/ k \in Deferred(w)'
          \/ \E r \in Requests : /\ WorkerOf[r] = w
                                 /\ step[r] = "done" /\ k \in Covered(taken[r])
          \/ Crash(w)
  <1>1. TypeOK /\ IInv /\ [Next]_vars => [Kept]_vars
    <2> SUFFICES ASSUME TypeOK, CallShape, Next, NEW w \in Workers, NEW k \in Deferred(w)
                 PROVE  \/ k \in Deferred(w)'
                        \/ \E r \in Requests : /\ WorkerOf[r] = w
                                               /\ step[r] = "done" /\ k \in Covered(taken[r])
                        \/ Crash(w)
      BY DEF IInv
    <2>1. CASE UNCHANGED <<pending, taken>>
      BY <2>1, DeferredSame
    <2>2. ASSUME NEW r \in Requests, EnterReplay(r) PROVE k \in Deferred(w)'
      BY <2>2, ReplayTakesAll
    <2>3. ASSUME NEW r \in Requests, PurgeFails(r) PROVE k \in Deferred(w)'
      BY <2>3, FailureGivesBack
    <2>4. ASSUME NEW r \in Requests, ReplayDone(r), k \notin Deferred(w)'
          PROVE  WorkerOf[r] = w /\ step[r] = "done" /\ k \in Covered(taken[r])
      BY <2>4, OnlyAppliedLeaves
    <2>5. ASSUME NEW v \in Workers, v # w, Crash(v) PROVE k \in Deferred(w)'
      <3>1. pending'[w] = pending[w]
        BY <2>5 DEF Crash, TypeOK
      <3>2. \A q \in Requests : WorkerOf[q] = w => taken'[q] = taken[q]
        BY <2>5 DEF Crash
      <3> QED
        BY <3>1, <3>2 DEF Deferred, Covered
    <2>6. ASSUME NEW r \in Requests, RequestStep(r)
          PROVE  \/ UNCHANGED <<pending, taken>>
                 \/ EnterReplay(r) \/ PurgeFails(r) \/ ReplayDone(r)
      <3> USE DEF memory, engine
      <3>1. CASE Proceed(r)
        BY <3>1
           DEF Proceed, RunCallback, CallbacksDone, SkipOpen, EnterClean, BumpEpoch, ReadIndex,
               UnlinkChunkOf, UnindexChunk, UnindexTop, NamespacesDone, DropKeys, ScanPrefix,
               UnlinkScanned, PurgeDone, GetHit, GetMiss, TakeEpoch, ReadDatabase, SetValue,
               DropValue
      <3>2. CASE ~Proceed(r)
        BY <2>6, <3>2
           DEF RequestStep, HalfOpen, GetUndecodable, CommandFails, SetReplyLost, DropFails,
               StartRead, Commit, CommitReplyLost
      <3> QED
        BY <3>1, <3>2
    <2>7. ASSUME NEW j \in Keys, Expire(j) PROVE UNCHANGED <<pending, taken>>
      BY <2>7 DEF Expire, memory, engine
    <2> QED
      BY <2>1, <2>2, <2>3, <2>4, <2>5, <2>6, <2>7 DEF Next, RequestStep
  <1>2. Init => TypeOK /\ IInv
    BY InitType, InitIInv
  <1>3. TypeOK /\ IInv /\ [Next]_vars => TypeOK' /\ IInv'
    BY NextType, NextIInv
  <1> QED
    BY <1>1, <1>2, <1>3, PTL DEF Spec, DeferredPurgeKept
=============================================================================

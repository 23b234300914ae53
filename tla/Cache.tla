------------------------------- MODULE Cache -------------------------------
(***************************************************************************)
(* The Redis read cache of the backend: core/cache/client.py (the store,   *)
(* its namespace indexes, the invalidation epoch, the purges a worker      *)
(* remembers when Redis fails, the circuit breaker), the cache-aside read  *)
(* of core/cache/decorator.py and the purges that core/base/transaction.py *)
(* runs after a commit.                                                    *)
(*                                                                         *)
(* A step is what one coroutine does between two awaits that touch shared  *)
(* state: one Redis command, one database statement, or one look at the    *)
(* memory of its worker.  Any other coroutine, of this worker or another,  *)
(* may run in between.  A payload is the version of the database rows it   *)
(* was computed from: data[k] is what a fresh read of k returns now.       *)
(***************************************************************************)
EXTENDS Integers, FiniteSets

CONSTANTS
    Workers,          \* server processes; each has its own memory
    Requests,         \* coroutines, each serving one request after another
    WorkerOf,         \* the worker a coroutine runs in
    Keys,             \* data keys
    Namespaces,       \* namespaces purged by name, index names among them
    Under,            \* the keys below a namespace
    IndexOf,          \* the index a purge of the namespace walks
    Top,              \* the first-segment index of the namespace
    Writes,           \* what the services write, and what they purge for it
    Faults,           \* the failures that may happen in this instance
    NoValue,          \* an absent key, and a failed epoch read
    IndexMax,         \* CACHE_INDEX_MAX_KEYS
    PendingMax,       \* _PENDING_MAX_KEYS
    UnlinkChunk,      \* _UNLINK_CHUNK
    BreakerThreshold, \* _BREAKER_THRESHOLD
    MaxCommits,       \* bound of the instance: commits
    MaxFailures       \* bound of the instance: failures

Purge == [ns : SUBSET Namespaces, keys : SUBSET Keys, flush : BOOLEAN]
NoPurge == [ns |-> {}, keys |-> {}, flush |-> FALSE]
FlushAll == [ns |-> {}, keys |-> {}, flush |-> TRUE]

\* The keys a purge is responsible for.
Covered(p) == IF p.flush THEN Keys ELSE p.keys \cup UNION {Under[n] : n \in p.ns}

Indexes == {IndexOf[n] : n \in Namespaces}
IndexesOf(k) == {i \in Indexes : k \in Under[i]}

FaultKinds == {"get", "decode", "epoch", "exec", "execReply", "drop", "purge",
               "trim", "commitReply", "crash"}

ASSUME WorkerAssumption == WorkerOf \in [Requests -> Workers]
ASSUME NamespaceAssumption ==
    /\ Under \in [Namespaces -> SUBSET Keys]
    /\ IndexOf \in [Namespaces -> Namespaces]
    /\ Top \in [Namespaces -> Indexes]
    /\ \A n \in Namespaces : Under[n] \subseteq Under[IndexOf[n]]
    /\ \A k \in Keys : \E i \in IndexesOf(k) : Top[i] = i
    /\ Keys # {} /\ Namespaces # {}
ASSUME ValueAssumption == NoValue \notin Int
ASSUME FaultAssumption == Faults \subseteq FaultKinds
ASSUME BoundAssumption ==
    /\ BreakerThreshold \in Nat \ {0}
    /\ UnlinkChunk \in Nat \ {0}
    /\ {IndexMax, PendingMax, MaxCommits, MaxFailures} \subseteq Nat
\* A service purges every key whose payload its write changes.
ASSUME WriteAssumption ==
    \A w \in Writes :
        /\ w.changes \subseteq Keys
        /\ w.purges \subseteq Purge
        /\ w.changes \subseteq UNION {Covered(p) : p \in w.purges}

VARIABLES
    data,      \* committed version behind each key
    store,     \* cached payload of each key, or NoValue
    index,     \* index sets
    epoch,     \* the invalidation counter
    pending,   \* per worker: the purges Redis refused
    breaker,   \* per worker: consecutive failures; the threshold means open
    pc,        \* per request: the call it is in
    key, val, seen,      \* its key, the payload it computed, the epoch it took
    queue,     \* after-commit purges not yet started
    own,       \* the purge it was asked for
    taken,     \* the remembered purge it is replaying
    step,      \* the next command of the purge it is applying
    left,      \* namespaces (of a flush: indexes) still to visit
    at,        \* the namespace being purged
    members,   \* its keys, as SMEMBERS (of a flush: SCAN) returned them
    todo,      \* those not yet removed from the index
    cut,       \* the chunk just unlinked
    lost,      \* history: version of each key when an invalidation of it was lost
    commits, failures    \* counted against the bounds

redis == <<store, index, epoch>>
memory == <<pending, breaker>>
reader == <<key, val, seen>>
engine == <<taken, step, left, at, members, todo, cut>>
counts == <<commits, failures>>
vars == <<data, redis, memory, pc, reader, queue, own, engine, lost, counts>>

Steps == {"off", "incr", "next", "unlink", "srem", "top", "drop", "scan", "sweep", "done"}
Calls == {"idle", "get", "GET", "epoch", "EPOCH", "read", "set", "EXEC", "DROP", "trim",
          "callbacks", "purge", "repair"}

-----------------------------------------------------------------------------
(* Helpers                                                                 *)

Live == {k \in Keys : store[k] # NoValue}
Indexed(k) == \A i \in IndexesOf(k) : k \in index[i]
Stale(k) == k \in Live /\ store[k] # data[k]

Open(r) == breaker[WorkerOf[r]] = BreakerThreshold
Success(r) == breaker' = [breaker EXCEPT ![WorkerOf[r]] = 0]
\* _CircuitBreaker.failure: past the threshold the breaker just stays open.
RecordFailure(r) ==
    breaker' = [breaker EXCEPT ![WorkerOf[r]] = IF @ < BreakerThreshold THEN @ + 1 ELSE @]

\* Mutant of Merge: past the limit the lists are cleared, the marker is not set.
MergeForgetsFlush(p, q) ==
    LET ns == p.ns \cup q.ns
        ks == p.keys \cup q.keys
    IN IF Cardinality(ns) + Cardinality(ks) > PendingMax
       THEN NoPurge
       ELSE [ns |-> ns, keys |-> ks, flush |-> p.flush \/ q.flush]
\* _PendingPurges.add
Merge(p, q) ==
    LET ns == p.ns \cup q.ns
        ks == p.keys \cup q.keys
    IN IF p.flush \/ q.flush \/ Cardinality(ns) + Cardinality(ks) > PendingMax
       THEN FlushAll
       ELSE [ns |-> ns, keys |-> ks, flush |-> FALSE]

Without(ks) == [k \in Keys |-> IF k \in ks THEN NoValue ELSE store[k]]
Unindexed(ks, is) == [i \in Indexes |-> IF i \in is THEN index[i] \ ks ELSE index[i]]

Fail(kind) ==
    /\ kind \in Faults
    /\ failures < MaxFailures
    /\ failures' = failures + 1
Goto(r, call) == pc' = [pc EXCEPT ![r] = call]
Step(r, s) == step' = [step EXCEPT ![r] = s]

\* The locals of a read end with it.
Forget(r) ==
    /\ val' = [val EXCEPT ![r] = 0]
    /\ seen' = [seen EXCEPT ![r] = NoValue]

\* The purge being applied: a remembered one first, then the request's own.
Job(r) == IF taken[r] # NoPurge THEN taken[r] ELSE own[r]

-----------------------------------------------------------------------------
(* Requests: a read through @use_cache, or a write in atomic()             *)

StartRead(r, k) ==
    /\ pc[r] = "idle"
    /\ key' = [key EXCEPT ![r] = k]
    /\ Goto(r, "get")
    /\ UNCHANGED <<data, redis, memory, val, seen, queue, own, engine, lost, counts>>

\* COMMIT, after which the purges registered in the block are run.  A block
\* that rolls back discards them and leaves no trace here.
Commit(r, w) ==
    /\ pc[r] = "idle"
    /\ commits < MaxCommits
    /\ commits' = commits + 1
    /\ data' = [k \in Keys |-> IF k \in w.changes THEN data[k] + 1 ELSE data[k]]
    /\ queue' = [queue EXCEPT ![r] = w.purges]
    /\ Goto(r, "callbacks")
    /\ UNCHANGED <<redis, memory, reader, own, engine, lost, failures>>

\* The database committed but the reply was lost: atomic() sees an exception
\* and clears the registered purges.
CommitReplyLost(r, w) ==
    /\ pc[r] = "idle"
    /\ commits < MaxCommits
    /\ Fail("commitReply")
    /\ commits' = commits + 1
    /\ data' = [k \in Keys |-> IF k \in w.changes THEN data[k] + 1 ELSE data[k]]
    /\ lost' = [k \in Keys |-> IF k \in w.changes THEN data'[k] ELSE lost[k]]
    /\ UNCHANGED <<redis, memory, pc, reader, queue, own, engine>>

\* _run_pending: each callback once, whatever the others did.
RunCallback(r) ==
    /\ pc[r] = "callbacks"
    /\ \E p \in queue[r] :
        /\ queue' = [queue EXCEPT ![r] = @ \ {p}]
        /\ own' = [own EXCEPT ![r] = p]
    /\ Goto(r, "purge")
    /\ UNCHANGED <<data, redis, memory, reader, engine, lost, counts>>

CallbacksDone(r) ==
    /\ pc[r] = "callbacks"
    /\ queue[r] = {}
    /\ Goto(r, "idle")
    /\ UNCHANGED <<data, redis, memory, reader, queue, own, engine, lost, counts>>

-----------------------------------------------------------------------------
(* Entering a cache operation: the breaker, then the remembered purges     *)

Forced(r) == pc[r] \in {"purge", "repair"}
Entering(r) == pc[r] \in {"get", "epoch", "set", "purge", "repair"} /\ step[r] = "off"

\* What the operation does after its replay: its own command, or its own purge.
Command(call) ==
    CASE call = "get" -> "GET"
      [] call = "epoch" -> "EPOCH"
      [] call = "set" -> "EXEC"
      [] OTHER -> call

\* Where a request goes on after an operation that failed or that the breaker
\* skipped (a miss, no epoch, no store), and after a purge, failed or not.
Degraded(call) ==
    CASE call \in {"get", "GET"} -> "epoch"
      [] call \in {"epoch", "EPOCH"} -> "read"
      [] call = "purge" -> "callbacks"
      [] call = "repair" -> "epoch"
      [] OTHER -> "idle"

SkipOpen(r) ==
    /\ Entering(r) /\ ~Forced(r) /\ Open(r)
    /\ Goto(r, Degraded(pc[r]))
    /\ Forget(r)
    /\ UNCHANGED <<data, redis, memory, key, queue, own, engine, lost, counts>>

\* The 5 s window is over: allow() lets one operation try again.
HalfOpen(r) ==
    /\ Entering(r) /\ ~Forced(r) /\ Open(r)
    /\ breaker' = [breaker EXCEPT ![WorkerOf[r]] = BreakerThreshold - 1]
    /\ UNCHANGED <<data, redis, pending, pc, reader, queue, own, engine, lost, counts>>

EnterClean(r) ==
    /\ Entering(r)
    /\ Forced(r) \/ ~Open(r)
    /\ pending[WorkerOf[r]] = NoPurge
    /\ Goto(r, Command(pc[r]))
    /\ Step(r, IF Forced(r) THEN "incr" ELSE "off")
    /\ UNCHANGED <<data, redis, memory, reader, queue, own, taken, left, at, members,
                   todo, cut, lost, counts>>

\* _replay_pending takes the remembered purges out of the worker's memory.
EnterReplay(r) ==
    /\ Entering(r)
    /\ Forced(r) \/ ~Open(r)
    /\ pending[WorkerOf[r]] # NoPurge
    /\ taken' = [taken EXCEPT ![r] = pending[WorkerOf[r]]]
    /\ pending' = [pending EXCEPT ![WorkerOf[r]] = NoPurge]
    /\ Step(r, "incr")
    /\ UNCHANGED <<data, redis, breaker, pc, reader, queue, own, left, at, members,
                   todo, cut, lost, counts>>

-----------------------------------------------------------------------------
(* Applying a purge: _apply_purge, _purge_namespace, _purge_index,         *)
(* _drop_keys                                                              *)

BumpEpoch(r) ==
    /\ step[r] = "incr"
    /\ epoch' = epoch + 1
    /\ Step(r, IF Job(r).flush THEN "scan" ELSE "next")
    /\ left' = [left EXCEPT ![r] = Job(r).ns]
    /\ UNCHANGED <<data, store, index, memory, pc, reader, queue, own, taken, at,
                   members, todo, cut, lost, counts>>

\* SMEMBERS of the next namespace's index, filtered for a deeper namespace.
ReadIndex(r) ==
    /\ step[r] = "next"
    /\ \E n \in left[r] :
        LET found == index[IndexOf[n]] \cap Under[n]
        IN /\ left' = [left EXCEPT ![r] = @ \ {n}]
           /\ at' = [at EXCEPT ![r] = n]
           /\ members' = [members EXCEPT ![r] = found]
           /\ todo' = [todo EXCEPT ![r] = found]
           /\ Step(r, IF found = {} THEN "next" ELSE "unlink")
    /\ UNCHANGED <<data, redis, memory, pc, reader, queue, own, taken, cut, lost, counts>>

\* UNLINK of one chunk.
UnlinkChunkOf(r) ==
    /\ step[r] = "unlink"
    /\ \E chunk \in SUBSET todo[r] :
        /\ chunk # {}
        /\ \/ Cardinality(chunk) = UnlinkChunk
           \/ chunk = todo[r] /\ Cardinality(chunk) < UnlinkChunk
        /\ store' = Without(chunk)
        /\ cut' = [cut EXCEPT ![r] = chunk]
    /\ Step(r, "srem")
    /\ UNCHANGED <<data, index, epoch, memory, pc, reader, queue, own, taken, left, at,
                   members, todo, lost, counts>>

\* Mutant of UnindexChunk: only the first chunk is removed.
UnindexOneChunk(r) ==
    /\ step[r] = "srem"
    /\ index' = Unindexed(cut[r], {IndexOf[at[r]]})
    /\ todo' = [todo EXCEPT ![r] = {}]
    /\ cut' = [cut EXCEPT ![r] = {}]
    /\ Step(r, IF Top[at[r]] # IndexOf[at[r]] THEN "top" ELSE "next")
    /\ UNCHANGED <<data, store, epoch, memory, pc, reader, queue, own, taken, left, at,
                   members, lost, counts>>
\* SREM of the chunk, by now unlinked; then the next chunk.
UnindexChunk(r) ==
    /\ step[r] = "srem"
    /\ index' = Unindexed(cut[r], {IndexOf[at[r]]})
    /\ todo' = [todo EXCEPT ![r] = @ \ cut[r]]
    /\ cut' = [cut EXCEPT ![r] = {}]
    /\ Step(r, IF todo'[r] # {} THEN "unlink"
               ELSE IF Top[at[r]] # IndexOf[at[r]] THEN "top" ELSE "next")
    /\ UNCHANGED <<data, store, epoch, memory, pc, reader, queue, own, taken, left, at,
                   members, lost, counts>>

\* A longer namespace also leaves its first-segment index.
UnindexTop(r) ==
    /\ step[r] = "top"
    /\ index' = Unindexed(members[r], {Top[at[r]]})
    /\ Step(r, "next")
    /\ UNCHANGED <<data, store, epoch, memory, pc, reader, queue, own, taken, left, at,
                   members, todo, cut, lost, counts>>

\* No namespace left: one transaction drops the exact keys, if any.
NamespacesDone(r) ==
    /\ step[r] = "next"
    /\ left[r] = {}
    /\ Step(r, IF Job(r).keys = {} THEN "done" ELSE "drop")
    /\ UNCHANGED <<data, redis, memory, pc, reader, queue, own, taken, left, at, members,
                   todo, cut, lost, counts>>

DropKeys(r) ==
    /\ step[r] = "drop"
    /\ store' = Without(Job(r).keys)
    /\ index' = [i \in Indexes |-> index[i] \ Job(r).keys]
    /\ Step(r, "done")
    /\ UNCHANGED <<data, epoch, memory, pc, reader, queue, own, taken, left, at, members,
                   todo, cut, lost, counts>>

\* A flush: SCAN the prefix, then UNLINK what it returned, index sets included.
ScanPrefix(r) ==
    /\ step[r] = "scan"
    /\ members' = [members EXCEPT ![r] = Live]
    /\ left' = [left EXCEPT ![r] = {i \in Indexes : index[i] # {}}]
    /\ Step(r, "sweep")
    /\ UNCHANGED <<data, redis, memory, pc, reader, queue, own, taken, at, todo, cut,
                   lost, counts>>

UnlinkScanned(r) ==
    /\ step[r] = "sweep"
    /\ store' = Without(members[r])
    /\ index' = [i \in Indexes |-> IF i \in left[r] THEN {} ELSE index[i]]
    /\ left' = [left EXCEPT ![r] = {}]
    /\ Step(r, "done")
    /\ UNCHANGED <<data, epoch, memory, pc, reader, queue, own, taken, at, members, todo,
                   cut, lost, counts>>

\* A replay is applied: the operation that ran it goes on.
ReplayDone(r) ==
    /\ step[r] = "done"
    /\ taken[r] # NoPurge
    /\ taken' = [taken EXCEPT ![r] = NoPurge]
    /\ members' = [members EXCEPT ![r] = {}]
    /\ Goto(r, Command(pc[r]))
    /\ Step(r, IF Forced(r) THEN "incr" ELSE "off")
    /\ UNCHANGED <<data, redis, memory, reader, queue, own, left, at, todo, cut, lost, counts>>

\* The request's own purge (or overflow flush) is applied.
PurgeDone(r) ==
    /\ step[r] = "done"
    /\ taken[r] = NoPurge
    /\ own' = [own EXCEPT ![r] = NoPurge]
    /\ members' = [members EXCEPT ![r] = {}]
    /\ Success(r)
    /\ Goto(r, Degraded(pc[r]))
    /\ Step(r, "off")
    /\ UNCHANGED <<data, redis, pending, reader, queue, taken, left, at, todo, cut, lost,
                   counts>>

\* A command of the purge failed, or its reply was lost (then the step after
\* it fails).  What was taken goes back, a purge of its own is remembered, an
\* overflow flush is given up.
PurgeFails(r) ==
    /\ step[r] # "off"
    /\ Fail(IF pc[r] = "trim" THEN "trim" ELSE "purge")
    /\ pending' = [pending EXCEPT ![WorkerOf[r]] = Merge(Merge(@, taken[r]), own[r])]
    /\ RecordFailure(r)
    /\ taken' = [taken EXCEPT ![r] = NoPurge]
    /\ own' = [own EXCEPT ![r] = NoPurge]
    /\ left' = [left EXCEPT ![r] = {}]
    /\ members' = [members EXCEPT ![r] = {}]
    /\ todo' = [todo EXCEPT ![r] = {}]
    /\ cut' = [cut EXCEPT ![r] = {}]
    /\ Goto(r, Degraded(pc[r]))
    /\ Step(r, "off")
    /\ Forget(r)
    /\ UNCHANGED <<data, redis, key, queue, at, lost, commits>>

-----------------------------------------------------------------------------
(* The commands of the cache-aside read                                    *)

\* cache_get: a hit ends the read.
GetHit(r) ==
    /\ pc[r] = "GET"
    /\ key[r] \in Live
    /\ Success(r)
    /\ Goto(r, "idle")
    /\ UNCHANGED <<data, redis, pending, reader, queue, own, engine, lost, counts>>

\* A payload that no longer decodes is deleted, and the read goes on.
GetUndecodable(r) ==
    /\ pc[r] = "GET"
    /\ key[r] \in Live
    /\ Fail("decode")
    /\ Success(r)
    /\ own' = [own EXCEPT ![r] = [NoPurge EXCEPT !.keys = {key[r]}]]
    /\ Goto(r, "repair")
    /\ UNCHANGED <<data, redis, pending, reader, queue, engine, lost, commits>>

GetMiss(r) ==
    /\ pc[r] = "GET"
    /\ key[r] \notin Live
    /\ Success(r)
    /\ Goto(r, "epoch")
    /\ UNCHANGED <<data, redis, pending, reader, queue, own, engine, lost, counts>>

\* cache_epoch
TakeEpoch(r) ==
    /\ pc[r] = "EPOCH"
    /\ seen' = [seen EXCEPT ![r] = epoch]
    /\ Success(r)
    /\ Goto(r, "read")
    /\ UNCHANGED <<data, redis, pending, key, val, queue, own, engine, lost, counts>>

\* The decorated function.  Its payload is as old as its first query.
ReadDatabase(r) ==
    /\ pc[r] = "read"
    /\ IF seen[r] = NoValue
       THEN Goto(r, "idle") /\ UNCHANGED val
       ELSE Goto(r, "set") /\ val' = [val EXCEPT ![r] = data[key[r]]]
    /\ UNCHANGED <<data, redis, memory, key, seen, queue, own, engine, lost, counts>>

\* The value and its index entries, written by one MULTI/EXEC.
Stored(r) ==
    /\ store' = [store EXCEPT ![key[r]] = val[r]]
    /\ index' = [i \in Indexes |-> IF i \in IndexesOf(key[r]) THEN index[i] \cup {key[r]}
                                   ELSE index[i]]

\* Mutant of EpochMoved: the epoch is not compared.
EpochTrusted(r) == FALSE
\* Some purge has bumped the counter since the reader took it.
EpochMoved(r) == seen[r] # epoch

FirstIndex(k) == CHOOSE i \in IndexesOf(k) : Top[i] = i

\* cache_set: EXEC also returns the index size and the epoch.
SetValue(r) ==
    /\ pc[r] = "EXEC"
    /\ Stored(r)
    /\ Forget(r)
    /\ IF EpochMoved(r)
       THEN Goto(r, "DROP") /\ UNCHANGED <<breaker, step, left>>
       ELSE IF Cardinality(index'[FirstIndex(key[r])]) > IndexMax
       THEN /\ Goto(r, "trim")
            /\ Step(r, "next")
            /\ left' = [left EXCEPT ![r] = {FirstIndex(key[r])}]
            /\ UNCHANGED breaker
       ELSE Goto(r, "idle") /\ Success(r) /\ UNCHANGED <<step, left>>
    /\ UNCHANGED <<data, epoch, pending, key, queue, own, taken, at, members, todo, cut,
                   lost, counts>>

\* The EXEC ran but its reply did not arrive, so nobody compares the epochs.
SetReplyLost(r) ==
    /\ pc[r] = "EXEC"
    /\ Fail("execReply")
    /\ Stored(r)
    /\ lost' = [lost EXCEPT ![key[r]] = IF EpochMoved(r) THEN data[key[r]] ELSE @]
    /\ RecordFailure(r)
    /\ Forget(r)
    /\ Goto(r, "idle")
    /\ UNCHANGED <<data, epoch, pending, key, queue, own, engine, commits>>

\* A purge ran since the epoch was taken: the value goes again.
DropValue(r) ==
    /\ pc[r] = "DROP"
    /\ store' = Without({key[r]})
    /\ index' = [i \in Indexes |-> index[i] \ {key[r]}]
    /\ Success(r)
    /\ Goto(r, "idle")
    /\ UNCHANGED <<data, epoch, pending, reader, queue, own, engine, lost, counts>>

\* The drop failed: cache_set swallows the error and remembers nothing.
DropFails(r) ==
    /\ pc[r] = "DROP"
    /\ Fail("drop")
    /\ lost' = [lost EXCEPT ![key[r]] = data[key[r]]]
    /\ RecordFailure(r)
    /\ Goto(r, "idle")
    /\ UNCHANGED <<data, redis, pending, reader, queue, own, engine, commits>>

CommandFails(r) ==
    /\ \/ pc[r] = "GET" /\ Fail("get")
       \/ pc[r] = "EPOCH" /\ Fail("epoch")
       \/ pc[r] = "EXEC" /\ Fail("exec")
    /\ RecordFailure(r)
    /\ Goto(r, Degraded(pc[r]))
    /\ Forget(r)
    /\ UNCHANGED <<data, redis, pending, key, queue, own, engine, lost, commits>>

-----------------------------------------------------------------------------
(* What is owed                                                            *)

\* k is behind a purge whose INCR is still to come: whoever reads the database
\* now, with the epoch of now, will see that epoch change.
OwedBeforeBump(r, k) ==
    \/ \E p \in queue[r] : k \in Covered(p)
    \/ /\ Forced(r)
       /\ step[r] = "off" \/ taken[r] # NoPurge \/ step[r] = "incr"
       /\ k \in Covered(own[r])
    \/ step[r] = "incr" /\ k \in Covered(taken[r])

\* k is still to be deleted by the purge in progress.
OwedAfterBump(r, k) ==
    /\ pc[r] # "trim"
    /\ \/ step[r] \in {"next", "unlink", "srem", "top", "drop"} /\ k \in Job(r).keys
       \/ step[r] \in {"next", "unlink", "srem", "top"} /\ \E n \in left[r] : k \in Under[n]
       \/ step[r] = "unlink" /\ k \in todo[r]
       \/ step[r] = "srem" /\ k \in todo[r] \ cut[r]
       \/ step[r] = "scan"
       \/ step[r] = "sweep" /\ k \in members[r]

PurgeOwed(k) ==
    \/ \E r \in Requests : OwedBeforeBump(r, k) \/ OwedAfterBump(r, k)
    \/ \E w \in Workers : k \in Covered(pending[w])
DropOwed(k) == \E r \in Requests : pc[r] = "DROP" /\ key[r] = k

-----------------------------------------------------------------------------
(* The environment                                                         *)

\* TTL expiry or eviction: the index keeps the member.
Expire(k) ==
    /\ k \in Live
    /\ store' = Without({k})
    /\ UNCHANGED <<data, index, epoch, memory, pc, reader, queue, own, engine, lost, counts>>

\* A worker dies: its memory and its coroutines are gone, Redis is not.
Crash(w) ==
    /\ Fail("crash")
    /\ LET gone == {r \in Requests : WorkerOf[r] = w}
           reset(f, v) == [r \in Requests |-> IF r \in gone THEN v ELSE f[r]]
       IN /\ pc' = reset(pc, "idle")
          /\ queue' = reset(queue, {})
          /\ own' = reset(own, NoPurge)
          /\ taken' = reset(taken, NoPurge)
          /\ step' = reset(step, "off")
          /\ left' = reset(left, {})
          /\ members' = reset(members, {})
          /\ todo' = reset(todo, {})
          /\ cut' = reset(cut, {})
          /\ val' = reset(val, 0)
          /\ seen' = reset(seen, NoValue)
          /\ lost' = [k \in Keys |->
                        IF \/ k \in Covered(pending[w])
                           \/ \E r \in gone : \/ OwedBeforeBump(r, k)
                                              \/ OwedAfterBump(r, k)
                                              \/ pc[r] = "DROP" /\ key[r] = k
                        THEN data[k] ELSE lost[k]]
    /\ pending' = [pending EXCEPT ![w] = NoPurge]
    /\ breaker' = [breaker EXCEPT ![w] = 0]
    /\ UNCHANGED <<data, redis, key, at, commits>>

-----------------------------------------------------------------------------
Init ==
    /\ data = [k \in Keys |-> 0]
    /\ store = [k \in Keys |-> NoValue]
    /\ index = [i \in Indexes |-> {}]
    /\ epoch = 0
    /\ pending = [w \in Workers |-> NoPurge]
    /\ breaker = [w \in Workers |-> 0]
    /\ pc = [r \in Requests |-> "idle"]
    /\ key \in [Requests -> {CHOOSE k \in Keys : TRUE}]
    /\ val = [r \in Requests |-> 0]
    /\ seen = [r \in Requests |-> NoValue]
    /\ queue = [r \in Requests |-> {}]
    /\ own = [r \in Requests |-> NoPurge]
    /\ taken = [r \in Requests |-> NoPurge]
    /\ step = [r \in Requests |-> "off"]
    /\ left = [r \in Requests |-> {}]
    /\ at \in [Requests -> {CHOOSE n \in Namespaces : TRUE}]
    /\ members = [r \in Requests |-> {}]
    /\ todo = [r \in Requests |-> {}]
    /\ cut = [r \in Requests |-> {}]
    /\ lost = [k \in Keys |-> 0]
    /\ commits = 0
    /\ failures = 0

\* What a request in progress does next.
Proceed(r) ==
    \/ RunCallback(r) \/ CallbacksDone(r)
    \/ SkipOpen(r) \/ EnterClean(r) \/ EnterReplay(r)
    \/ BumpEpoch(r) \/ ReadIndex(r) \/ UnlinkChunkOf(r) \/ UnindexChunk(r)
    \/ UnindexTop(r) \/ NamespacesDone(r) \/ DropKeys(r)
    \/ ScanPrefix(r) \/ UnlinkScanned(r) \/ ReplayDone(r) \/ PurgeDone(r)
    \/ GetHit(r) \/ GetMiss(r) \/ TakeEpoch(r) \/ ReadDatabase(r)
    \/ SetValue(r) \/ DropValue(r)

Next ==
    \/ \E r \in Requests :
        \/ Proceed(r)
        \/ \E k \in Keys : StartRead(r, k)
        \/ \E w \in Writes : Commit(r, w) \/ CommitReplyLost(r, w)
        \/ HalfOpen(r) \/ GetUndecodable(r)
        \/ PurgeFails(r) \/ CommandFails(r) \/ SetReplyLost(r) \/ DropFails(r)
    \/ \E k \in Keys : Expire(k)
    \/ \E w \in Workers : Crash(w)

Spec == Init /\ [][Next]_vars

\* A request that was accepted runs on: its coroutine is scheduled again after
\* every await.  Nothing is assumed about new requests, expiry or failures.
FairSpec == Spec /\ \A r \in Requests : WF_vars(Proceed(r))

-----------------------------------------------------------------------------
(* Properties                                                              *)

TypeOK ==
    /\ data \in [Keys -> Nat]
    /\ store \in [Keys -> Nat \cup {NoValue}]
    /\ index \in [Indexes -> SUBSET Keys]
    /\ epoch \in Nat
    /\ pending \in [Workers -> Purge]
    /\ breaker \in [Workers -> 0 .. BreakerThreshold]
    /\ pc \in [Requests -> Calls]
    /\ key \in [Requests -> Keys]
    /\ val \in [Requests -> Nat]
    /\ seen \in [Requests -> Nat \cup {NoValue}]
    /\ queue \in [Requests -> SUBSET Purge]
    /\ own \in [Requests -> Purge]
    /\ taken \in [Requests -> Purge]
    /\ step \in [Requests -> Steps]
    /\ left \in [Requests -> SUBSET Namespaces]
    /\ at \in [Requests -> Namespaces]
    /\ members \in [Requests -> SUBSET Keys]
    /\ todo \in [Requests -> SUBSET Keys]
    /\ cut \in [Requests -> SUBSET Keys]
    /\ lost \in [Keys -> Nat]
    /\ commits \in Nat
    /\ failures \in Nat

\* A stale payload that its indexes list is on its way out: some request, or
\* some worker's memory, still owes the command that removes it.  The only
\* exception is a payload from before the last invalidation of that key that
\* was lost (a crash, a commit whose reply was lost, an unchecked store).
\* This is what the epoch, the index order (UNLINK before SREM) and the
\* remembered purges are for.
StaleIsOwed ==
    \A k \in Keys :
        Stale(k) /\ Indexed(k) /\ store[k] >= lost[k] => PurgeOwed(k) \/ DropOwed(k)

(* The inductive strengthening of StaleIsOwed                              *)

\* A request holds a purge, and is at a command of it, only in these calls.
CallShape ==
    \A r \in Requests :
        /\ step[r] # "off" => pc[r] \in {"get", "epoch", "set", "purge", "repair", "trim"}
        /\ taken[r] # NoPurge => step[r] # "off" /\ pc[r] # "trim"
        /\ own[r] # NoPurge => Forced(r)
        /\ pc[r] \in {"get", "epoch", "set"} /\ step[r] # "off" => taken[r] # NoPurge
        /\ pc[r] = "trim" => step[r] \notin {"off", "incr", "scan", "sweep"}
        /\ queue[r] # {} => pc[r] \in {"callbacks", "purge"}

\* What a purge still has to visit or remove is part of what it was asked for.
JobShape ==
    \A r \in Requests : pc[r] # "trim" =>
        /\ step[r] \in {"next", "unlink", "srem", "top"} => left[r] \subseteq Job(r).ns
        /\ step[r] \in {"unlink", "srem"} =>
              at[r] \in Job(r).ns /\ todo[r] \subseteq Under[at[r]]
        /\ step[r] \in {"scan", "sweep"} => Job(r).flush
        /\ step[r] \in {"next", "unlink", "srem", "top", "drop"} => ~Job(r).flush

\* Nothing is newer than the database, no epoch newer than the counter.
NothingAhead ==
    /\ \A k \in Keys : /\ store[k] # NoValue => store[k] <= data[k]
                       /\ lost[k] <= data[k]
    /\ \A r \in Requests : /\ pc[r] \in {"set", "EXEC"} => val[r] <= data[key[r]]
                           /\ seen[r] # NoValue => seen[r] <= epoch

\* A purge of k whose INCR is still to come.
BumpOwed(k) ==
    \/ \E r \in Requests : OwedBeforeBump(r, k)
    \/ \E w \in Workers : k \in Covered(pending[w])

\* A fill that would pass the epoch check holds the current payload, or one
\* that a purge with its INCR still ahead of it will remove.
FillIsWatched ==
    \A r \in Requests :
        /\ pc[r] \in {"set", "EXEC"}
        /\ seen[r] = epoch
        /\ val[r] # data[key[r]]
        /\ val[r] >= lost[key[r]]
        => BumpOwed(key[r])

IInv == CallShape /\ JobShape /\ NothingAhead /\ FillIsWatched /\ StaleIsOwed

\* What worker w has been asked to purge, could not, and must replay.
Deferred(w) ==
    Covered(pending[w]) \cup
        UNION {Covered(taken[r]) : r \in {q \in Requests : WorkerOf[q] = w}}

\* "Invalidation is never silently lost": a deferred key leaves the worker's
\* memory only when a replay that covers it has been applied to the end, or
\* with the worker itself.  It survives the replay's own failure, being merged
\* with other purges and the collapse into a flush.
DeferredPurgeKept ==
    [][\A w \in Workers : \A k \in Deferred(w) :
          \/ k \in Deferred(w)'
          \/ \E r \in Requests : /\ WorkerOf[r] = w
                                 /\ step[r] = "done" /\ k \in Covered(taken[r])
          \/ Crash(w)]_vars

\* Without failures a stale indexed payload goes for good or is refreshed,
\* though readers keep filling the cache meanwhile.
StaleEventuallyGone ==
    \A k \in Keys : (Stale(k) /\ Indexed(k)) ~> ~(Stale(k) /\ Indexed(k))
=============================================================================

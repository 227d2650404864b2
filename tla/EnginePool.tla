----------------------------- MODULE EnginePool -----------------------------
(***************************************************************************)
(* The pool of Docling engines: class DoclingEngineRegistry and the way    *)
(* DoclingConversionScheduler and warmup use it.                           *)
(*                                                                         *)
(* A thread takes a permit of _parse_semaphore, then under _lock either    *)
(* leases a pooled engine that nobody leases or builds one; when its work  *)
(* is done it returns the lease under _lock and then the permit.  A lease  *)
(* is recorded as id(engine), a memory address: an engine that died frees  *)
(* its address for the next one, so Engines are addresses here and a new   *)
(* engine gets any address no live engine has.                             *)
(*                                                                         *)
(* Abstractions.  build_docling_engine_key hashes cache_enabled with the   *)
(* other options, so a key is of an engine that is cached or is not, and   *)
(* the engine a thread has is of the key it asked for.  The list of a      *)
(* key's engines is a set (any free one may be leased), idle time is a     *)
(* free choice (any engine that is not leased may have been idle too       *)
(* long), and counters, snapshots and log lines are left out.  The         *)
(* engine's own semaphore, which would hide a second lease of it, is left  *)
(* out too: OneThreadPerEngine says that it never blocks.                  *)
(***************************************************************************)
EXTENDS Naturals, FiniteSets

CONSTANTS
  Threads,
  Engines,     \* addresses engines can live at
  Keys,        \* engine keys
  CachedKeys,  \* those whose settings have docling_engine_cache_enabled
  Permits,     \* settings.effective_docling_parse_concurrency
  NoThread, NoEngine

ASSUME PermitsArePositive == Permits \in Nat \ {0}
ASSUME SetsAreFinite == IsFiniteSet(Threads) /\ CachedKeys \subseteq Keys
ASSUME NobodyIsFresh ==
  NoThread \notin Threads /\ NoEngine \notin Engines \union (Keys \X Engines)

VARIABLES
  permits,  \* value of _parse_semaphore
  lock,     \* the thread that keeps _lock between two steps, or NoThread
  pool,     \* _engines; {} for a key that has no entry
  leased,   \* _leased_engine_ids
  pc,       \* what each thread is doing
  key,      \* the key of the engine it asked for
  engine    \* the engine it was given

vars == <<permits, lock, pool, leased, pc, key, engine>>

States == {"idle", "waiting", "permitted", "building", "building_uncached",
           "refunding", "working", "succeeded", "failed", "returning"}
\* acquire_engine returned and release_engine has not run its locked part.
Holding == {"working", "succeeded", "failed"}
\* Between the acquire() and the release() of the semaphore.
Permitted == States \ {"idle", "waiting"}

TypeOK ==
  /\ permits \in 0..Permits
  /\ lock \in Threads \union {NoThread}
  /\ pool \in [Keys -> SUBSET Engines]
  /\ leased \in SUBSET Engines
  /\ pc \in [Threads -> States]
  /\ key \in [Threads -> Keys]
  /\ engine \in [Threads -> Engines \union {NoEngine}]

Init ==
  /\ permits = Permits
  /\ lock = NoThread
  /\ pool = [k \in Keys |-> {}]
  /\ leased = {}
  /\ pc = [t \in Threads |-> "idle"]
  /\ key \in [Threads -> Keys]
  /\ engine = [t \in Threads |-> NoEngine]

Holders == {t \in Threads : pc[t] \in Holding}
Pooled == UNION {pool[k] : k \in Keys}
Live == Pooled \union {engine[t] : t \in Holders}
LockFree == lock = NoThread
Goes(t, s) == pc' = [pc EXCEPT ![t] = s]

\* Faulty variants, each the slip a change to this class could make; nothing
\* refers to them, they are substituted to see which property notices.
AnyPooled(k) == pool[k]
AllPooled == Pooled
RefundForgotten == permits
RefundedTwice == permits + 2
LeaseKept(e) == leased
PooledAnyway(t) == pool

\* The engines of a key that a thread may be given, and those evict_idle may
\* throw away.
Free(k) == pool[k] \ leased
Evictable == Pooled \ leased

Refund == permits + 1
Unleased(e) == leased \ {e}
WithLease(e) == leased \union {e}

-----------------------------------------------------------------------------
(* DoclingConversionScheduler.convert and convert_all start with           *)
(* evict_idle; warmup, and any call while docling_engine_idle_ttl_seconds  *)
(* is not positive, goes to acquire_engine directly.                       *)

BeginEvicting(t, k) ==
  /\ pc[t] = "idle"
  /\ LockFree
  /\ \E idle \in SUBSET Evictable : pool' = [c \in Keys |-> pool[c] \ idle]
  /\ key' = [key EXCEPT ![t] = k]
  /\ Goes(t, "waiting")
  /\ UNCHANGED <<permits, lock, leased, engine>>

Begin(t, k) ==
  /\ pc[t] = "idle"
  /\ key' = [key EXCEPT ![t] = k]
  /\ Goes(t, "waiting")
  /\ UNCHANGED <<permits, lock, pool, leased, engine>>

-----------------------------------------------------------------------------
(* acquire_engine                                                          *)

TakePermit(t) ==
  /\ pc[t] = "waiting"
  /\ permits > 0
  /\ permits' = permits - 1
  /\ Goes(t, "permitted")
  /\ UNCHANGED <<lock, pool, leased, key, engine>>

\* A cached engine that is free, found under the lock.
Reuse(t) ==
  /\ pc[t] = "permitted"
  /\ key[t] \in CachedKeys
  /\ LockFree
  /\ \E e \in Free(key[t]) :
       /\ leased' = WithLease(e)
       /\ engine' = [engine EXCEPT ![t] = e]
  /\ Goes(t, "working")
  /\ UNCHANGED <<permits, lock, pool, key>>

\* No engine is free: build one.  The lock stays taken while a cached engine
\* is built; an engine that will not be cached is built without it.
StartBuild(t) ==
  /\ pc[t] = "permitted"
  /\ key[t] \in CachedKeys
  /\ LockFree
  /\ Free(key[t]) = {}
  /\ lock' = t
  /\ Goes(t, "building")
  /\ UNCHANGED <<permits, pool, leased, key, engine>>

Built(t) ==
  /\ pc[t] = "building"
  /\ \E e \in Engines \ Live :
       /\ pool' = [pool EXCEPT ![key[t]] = @ \union {e}]
       /\ leased' = WithLease(e)
       /\ engine' = [engine EXCEPT ![t] = e]
  /\ lock' = NoThread
  /\ Goes(t, "working")
  /\ UNCHANGED <<permits, key>>

StartUncachedBuild(t) ==
  /\ pc[t] = "permitted"
  /\ key[t] \notin CachedKeys
  /\ Goes(t, "building_uncached")
  /\ UNCHANGED <<permits, lock, pool, leased, key, engine>>

BuiltUncached(t) ==
  /\ pc[t] = "building_uncached"
  /\ \E e \in Engines \ Live : engine' = [engine EXCEPT ![t] = e]
  /\ Goes(t, "working")
  /\ UNCHANGED <<permits, lock, pool, leased, key>>

\* The converter factory raises: the with-block lets the lock go, then the
\* except clause gives the permit back.
BuildFails(t) ==
  /\ \/ pc[t] = "building" /\ lock' = NoThread
     \/ pc[t] = "building_uncached" /\ UNCHANGED lock
  /\ Goes(t, "refunding")
  /\ UNCHANGED <<permits, pool, leased, key, engine>>

RefundPermit(t) ==
  /\ pc[t] = "refunding"
  /\ permits' = Refund
  /\ Goes(t, "idle")
  /\ UNCHANGED <<lock, pool, leased, key, engine>>

-----------------------------------------------------------------------------
(* The work (initialize and convert, convert_all, or only initialize in    *)
(* warmup), then release_engine with discard set unless the work was done. *)

WorkEnds(t) ==
  /\ pc[t] = "working"
  /\ \E outcome \in {"succeeded", "failed"} : Goes(t, outcome)
  /\ UNCHANGED <<permits, lock, pool, leased, key, engine>>

WithoutDiscarded(t) ==
  IF pc[t] = "failed" THEN [pool EXCEPT ![key[t]] = @ \ {engine[t]}] ELSE pool

\* The locked part of release_engine.  Only a cached engine is in the pool,
\* so for an uncached one there is nothing to remove.
ReturnLease(t) ==
  /\ pc[t] \in {"succeeded", "failed"}
  /\ LockFree
  /\ leased' = Unleased(engine[t])
  /\ pool' = WithoutDiscarded(t)
  /\ engine' = [engine EXCEPT ![t] = NoEngine]
  /\ Goes(t, "returning")
  /\ UNCHANGED <<permits, lock, key>>

ReturnPermit(t) ==
  /\ pc[t] = "returning"
  /\ permits' = Refund
  /\ Goes(t, "idle")
  /\ UNCHANGED <<lock, pool, leased, key, engine>>

-----------------------------------------------------------------------------
Acquire(t) ==
  \/ TakePermit(t) \/ Reuse(t)
  \/ StartBuild(t) \/ Built(t)
  \/ StartUncachedBuild(t) \/ BuiltUncached(t)
  \/ BuildFails(t) \/ RefundPermit(t)

Release(t) == WorkEnds(t) \/ ReturnLease(t) \/ ReturnPermit(t)

Starts(t) == \E k \in Keys : BeginEvicting(t, k) \/ Begin(t, k)

Next == \E t \in Threads : Starts(t) \/ Acquire(t) \/ Release(t)

Spec == Init /\ [][Next]_vars

\* A thread that can run is scheduled again, and builds and conversions end
\* (a parser's time limit sees to that).  Neither the semaphore nor the lock
\* is assumed to be fair.
FairSpec == Spec /\ \A t \in Threads : WF_vars(Acquire(t) \/ Release(t))

-----------------------------------------------------------------------------
(* Properties                                                              *)

\* No path through acquire_engine and release_engine, failing builds and
\* failing conversions included, loses a permit or returns it twice.
PermitsAddUp ==
  permits + Cardinality({t \in Threads : pc[t] \in Permitted}) = Permits

\* Two threads never work with the same engine.
OneThreadPerEngine ==
  \A t, u \in Holders : engine[t] = engine[u] => t = u

\* The ids in _leased_engine_ids are exactly those of the pooled engines
\* threads have: no id outlives its engine, where it would make a new engine
\* at the same address look leased for ever, and evict_idle never drops an
\* engine somebody works with.
LeasesMatchHolders ==
  /\ leased = {engine[t] : t \in {h \in Holders : key[h] \in CachedKeys}}
  /\ \A t \in Holders : key[t] \in CachedKeys <=> engine[t] \in pool[key[t]]

\* A key never has more engines than may parse at once: the pool does not
\* grow, whatever order leases, discards and evictions come in.  (Engines of
\* different keys do add up: memory is bounded by Permits per key.)
PoolStaysSmall == \A k \in Keys : Cardinality(pool[k]) <= Permits

\* What the state means to a user of the registry: who has which engine,
\* which engines wait to be leased, and whose engine failed at its work.
Lease == [t \in Threads |->
            IF pc[t] \in Holding THEN <<key[t], engine[t]>> ELSE NoEngine]
Ready == {p \in Keys \X Engines : p[2] \in Free(p[1])}
Spoiled == {t \in Threads : pc[t] = "failed"}

Promise == INSTANCE LeasePool WITH
  Converters <- Engines, Kinds <- Keys, NoLease <- NoEngine,
  lease <- Lease, ready <- Ready, spoiled <- Spoiled

\* The registry implements LeasePool: in particular an engine whose work
\* failed is never leased again, and no more than Permits threads have one.
PromiseKept == Promise!LPSpec

\* Once no new work arrives, every thread that waits for a permit, the lock
\* or an engine gets through: nobody waits for ever on something that was
\* never given back.
WaitingEnds ==
  <>[][\A t \in Threads : ~Starts(t)]_vars => \A t \in Threads : <>[](pc[t] = "idle")
=============================================================================

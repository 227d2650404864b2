-------------------------- MODULE EnginePoolProofs --------------------------
(***************************************************************************)
(* Theorems about EnginePool, for every number of threads and permits, all *)
(* keys and any supply of addresses: its invariants, and that it           *)
(* implements LeasePool.                                                   *)
(***************************************************************************)
EXTENDS EnginePool, FiniteSetTheorems, TLAPS

PermitHolders == {t \in Threads : pc[t] \in Permitted}
CachedHolders == {h \in Holders : key[h] \in CachedKeys}

\* The lock is kept between two steps by the thread that builds a cached
\* engine, and by no other; nothing of its key came free since it looked.
BuilderHasLock ==
  \A t \in Threads :
    /\ lock = t <=> pc[t] = "building"
    /\ pc[t] = "building" => key[t] \in CachedKeys /\ Free(key[t]) = {}

UncachedBuilder ==
  \A t \in Threads : pc[t] = "building_uncached" => key[t] \notin CachedKeys

\* A thread in Holding has an engine, of its own key and of no other.
HoldersHaveEngines ==
  \A t \in Holders :
    /\ engine[t] \in Engines
    /\ \A k \in Keys : engine[t] \in pool[k] => k = key[t]

\* Only cached keys have a pool, and an engine is in the pool of one key.
PoolsAreDisjoint ==
  \A k \in Keys :
    /\ k \notin CachedKeys => pool[k] = {}
    /\ IsFiniteSet(pool[k])
    /\ \A c \in Keys : k # c => pool[k] \intersect pool[c] = {}

Inv ==
  /\ TypeOK
  /\ BuilderHasLock
  /\ UncachedBuilder
  /\ PermitsAddUp
  /\ OneThreadPerEngine
  /\ HoldersHaveEngines
  /\ LeasesMatchHolders
  /\ PoolsAreDisjoint
  /\ PoolStaysSmall

-----------------------------------------------------------------------------
(* Counting.                                                               *)

\* The image of a finite set under a function is finite and not larger.
LEMMA ImageIsSmaller ==
  ASSUME NEW S, IsFiniteSet(S), NEW f
  PROVE  /\ IsFiniteSet({f[x] : x \in S})
         /\ Cardinality({f[x] : x \in S}) <= Cardinality(S)
<1> DEFINE T == {f[x] : x \in S}
           g == [x \in S |-> f[x]]
<1>1. g \in Surjection(S, T)
  BY DEF Surjection
<1>2. QED
  BY <1>1, FS_Surjection

\* The permit holders are finitely many, and with the permits that are left
\* they always make up Permits.
LEMMA PermitHoldersAreFinite == IsFiniteSet(PermitHolders)
  BY SetsAreFinite, FS_Subset DEF PermitHolders

\* A step of one thread keeps the sum of free and held permits, as long as
\* the semaphore moves with the thread.
LEMMA PermitsStep ==
  ASSUME TypeOK, PermitsAddUp,
         NEW t \in Threads, NEW s \in States, Goes(t, s),
         \/ (pc[t] \in Permitted <=> s \in Permitted) /\ permits' = permits
         \/ pc[t] \notin Permitted /\ s \in Permitted /\ permits > 0 /\ permits' = permits - 1
         \/ pc[t] \in Permitted /\ s \notin Permitted /\ permits' = permits + 1
  PROVE  PermitsAddUp' /\ permits' \in 0..Permits
<1> USE PermitHoldersAreFinite
<1>0. /\ permits \in 0..Permits /\ Permits \in Nat
      /\ permits + Cardinality(PermitHolders) = Permits
      /\ Cardinality(PermitHolders) \in Nat
  BY PermitsArePositive, FS_CardinalityType DEF TypeOK, PermitsAddUp, PermitHolders
<1>1. \A u \in Threads : pc'[u] = IF u = t THEN s ELSE pc[u]
  BY DEF TypeOK, Goes
<1>2. SUFFICES permits' + Cardinality(PermitHolders') = Permits /\ permits' \in 0..Permits
  BY DEF PermitsAddUp, PermitHolders
<1>3. CASE (pc[t] \in Permitted <=> s \in Permitted) /\ permits' = permits
  <2>1. PermitHolders' = PermitHolders
    BY <1>1, <1>3 DEF PermitHolders, Permitted, States
  <2>2. QED
    BY <1>0, <1>3, <2>1
<1>4. CASE pc[t] \notin Permitted /\ s \in Permitted /\ permits > 0 /\ permits' = permits - 1
  <2>1. PermitHolders' = PermitHolders \union {t} /\ t \notin PermitHolders
    BY <1>1, <1>4 DEF PermitHolders
  <2>2. Cardinality(PermitHolders') = Cardinality(PermitHolders) + 1
    BY <2>1, FS_AddElement
  <2>3. QED
    BY <1>0, <1>4, <2>2
<1>5. CASE pc[t] \in Permitted /\ s \notin Permitted /\ permits' = permits + 1
  <2>1. PermitHolders' = PermitHolders \ {t} /\ t \in PermitHolders
    BY <1>1, <1>5 DEF PermitHolders
  <2>2. /\ Cardinality(PermitHolders') = Cardinality(PermitHolders) - 1
        /\ Cardinality(PermitHolders') \in Nat
    BY <2>1, FS_RemoveElement, FS_CardinalityType
  <2>3. QED
    BY <1>0, <1>5, <2>2
<1>6. QED
  BY <1>3, <1>4, <1>5

\* A thread that is inside acquire_engine with a permit sees fewer than
\* Permits threads with an engine.
LEMMA FewerHolders ==
  ASSUME TypeOK, PermitsAddUp, NEW t \in Threads, pc[t] \in Permitted, t \notin Holders
  PROVE  /\ IsFiniteSet(Holders)
         /\ Cardinality(Holders) \in Nat
         /\ Cardinality(Holders) < Permits
<1>1. /\ Holders \in SUBSET (PermitHolders \ {t})
      /\ t \in PermitHolders
  BY DEF Holders, Holding, PermitHolders, Permitted, States
<1>2. /\ IsFiniteSet(PermitHolders \ {t})
      /\ Cardinality(PermitHolders \ {t}) = Cardinality(PermitHolders) - 1
      /\ Cardinality(PermitHolders) \in Nat
  BY <1>1, PermitHoldersAreFinite, FS_RemoveElement, FS_CardinalityType
<1>3. permits + Cardinality(PermitHolders) = Permits /\ permits \in Nat
  BY DEF PermitsAddUp, PermitHolders, TypeOK
<1>4. IsFiniteSet(Holders) /\ Cardinality(Holders) <= Cardinality(PermitHolders \ {t})
  BY <1>1, <1>2, FS_Subset
<1>5. Cardinality(Holders) \in Nat
  BY <1>4, FS_CardinalityType
<1>6. QED
  BY <1>2, <1>3, <1>4, <1>5, PermitsArePositive

\* There is room in the pool for the engine of a thread that found none free.
LEMMA RoomForOneMore ==
  ASSUME Inv, NEW t \in Threads, pc[t] = "building"
  PROVE  /\ IsFiniteSet(pool[key[t]])
         /\ Cardinality(pool[key[t]]) \in Nat
         /\ Cardinality(pool[key[t]]) < Permits
<1>1. /\ IsFiniteSet(Holders)
      /\ Cardinality(Holders) \in Nat
      /\ Cardinality(Holders) < Permits
  <2>1. pc[t] \in Permitted /\ t \notin Holders
    BY DEF Permitted, States, Holders, Holding
  <2>2. QED
    BY <2>1, FewerHolders DEF Inv
<1>2. /\ IsFiniteSet({engine[h] : h \in Holders})
      /\ Cardinality({engine[h] : h \in Holders}) <= Cardinality(Holders)
  BY <1>1, ImageIsSmaller
<1>3. pool[key[t]] \in SUBSET {engine[h] : h \in Holders}
  BY DEF Inv, BuilderHasLock, Free, LeasesMatchHolders, CachedHolders
<1>4. /\ IsFiniteSet(pool[key[t]])
      /\ Cardinality(pool[key[t]]) <= Cardinality({engine[h] : h \in Holders})
  BY <1>2, <1>3, FS_Subset
<1>5. Cardinality(pool[key[t]]) \in Nat /\ Cardinality({engine[h] : h \in Holders}) \in Nat
  BY <1>2, <1>4, FS_CardinalityType
<1>6. QED
  BY <1>1, <1>2, <1>4, <1>5, PermitsArePositive

-----------------------------------------------------------------------------
(* Every step keeps the invariant.                                         *)

\* A step that touches neither the pool nor a lease nor the lock keeps the
\* parts of the invariant that speak of them: the thread goes from one state
\* without an engine to another, or from one state with an engine to another.
LEMMA QuietStep ==
  ASSUME Inv, NEW t \in Threads, NEW s \in States, Goes(t, s),
         pc[t] \in Holding <=> s \in Holding,
         UNCHANGED <<lock, pool, leased, engine>>,
         key' \in [Threads -> Keys],
         \A u \in Threads : u # t \/ pc[t] \in Holding => key'[u] = key[u],
         pc[t] # "building", s # "building",
         s = "building_uncached" => key'[t] \notin CachedKeys,
         PermitsAddUp', permits' \in 0..Permits
  PROVE  Inv'
<1>1. /\ \A u \in Threads : pc'[u] = IF u = t THEN s ELSE pc[u]
      /\ \A u \in Threads : u # t \/ u \in Holders => key'[u] = key[u]
      /\ Holders' = Holders
  BY DEF Inv, TypeOK, Goes, Holders
<1>2. TypeOK'
  BY <1>1 DEF Inv, TypeOK, Goes
<1>3. BuilderHasLock' /\ UncachedBuilder'
  BY <1>1 DEF Inv, BuilderHasLock, UncachedBuilder, Free
<1>4. OneThreadPerEngine' /\ HoldersHaveEngines' /\ LeasesMatchHolders'
  BY <1>1 DEF Inv, OneThreadPerEngine, HoldersHaveEngines, LeasesMatchHolders, Holders
<1>5. PoolsAreDisjoint' /\ PoolStaysSmall'
  BY DEF Inv, PoolsAreDisjoint, PoolStaysSmall
<1>6. QED
  BY <1>2, <1>3, <1>4, <1>5 DEF Inv

\* Starting work without evict_idle.
LEMMA BeginStep ==
  ASSUME Inv, NEW t \in Threads, NEW k \in Keys, Begin(t, k)
  PROVE  Inv'
<1>1. PermitsAddUp' /\ permits' \in 0..Permits
  BY PermitsStep, "waiting" \in States DEF Inv, Begin, Permitted, States
<1>2. /\ Goes(t, "waiting") /\ "waiting" \in States /\ pc[t] = "idle"
      /\ pc[t] \in Holding <=> "waiting" \in Holding
      /\ pc[t] \notin Holding
      /\ UNCHANGED <<lock, pool, leased, engine>>
      /\ key' \in [Threads -> Keys]
      /\ \A u \in Threads : u # t => key'[u] = key[u]
  BY DEF Begin, Holding, States, Inv, TypeOK
<1>3. QED
  BY <1>1, <1>2, QuietStep

\* evict_idle takes only engines that nobody leases out of the pool.
LEMMA BeginEvictingStep ==
  ASSUME Inv, NEW t \in Threads, NEW k \in Keys, BeginEvicting(t, k)
  PROVE  Inv'
<1>1. PermitsAddUp' /\ permits' \in 0..Permits
  BY PermitsStep, "waiting" \in States DEF Inv, BeginEvicting, Permitted, States
<1>2. PICK idle \in SUBSET Evictable : pool' = [c \in Keys |-> pool[c] \ idle]
  BY DEF BeginEvicting
<1>3. /\ \A u \in Threads : pc'[u] = IF u = t THEN "waiting" ELSE pc[u]
      /\ \A u \in Holders : key'[u] = key[u]
      /\ Holders' = Holders
      /\ lock = NoThread /\ UNCHANGED <<leased, lock, engine>>
      /\ idle \intersect leased = {}
      /\ \A c \in Keys : pool'[c] = pool[c] \ idle
  BY <1>2 DEF Inv, TypeOK, BeginEvicting, Goes, Holders, Holding, LockFree, Evictable
<1>4. TypeOK'
  BY <1>1, <1>2 DEF Inv, TypeOK, BeginEvicting, Goes, States
<1>5. BuilderHasLock' /\ UncachedBuilder'
  BY <1>3, NobodyIsFresh, "waiting" # "building", "waiting" # "building_uncached"
  DEF Inv, BuilderHasLock, UncachedBuilder, BeginEvicting, TypeOK
<1>6. OneThreadPerEngine' /\ HoldersHaveEngines'
  BY <1>3 DEF Inv, OneThreadPerEngine, HoldersHaveEngines, Holders
<1>7. LeasesMatchHolders'
  <2>1. leased' = {engine'[u] : u \in {h \in Holders' : key'[h] \in CachedKeys}}
    BY <1>3 DEF Inv, LeasesMatchHolders
  <2>2. ASSUME NEW u \in Holders'
        PROVE  key'[u] \in CachedKeys <=> engine'[u] \in pool'[key'[u]]
    <3>1. /\ u \in Holders /\ key[u] \in Keys
          /\ key[u] \in CachedKeys <=> engine[u] \in pool[key[u]]
          /\ key[u] \in CachedKeys => engine[u] \in leased
      BY <1>3 DEF Inv, LeasesMatchHolders, TypeOK, Holders
    <3>2. QED
      BY <1>3, <3>1
  <2>3. QED
    BY <2>1, <2>2 DEF LeasesMatchHolders
<1>8. PoolsAreDisjoint' /\ PoolStaysSmall'
  <2>1. ASSUME NEW c \in Keys
        PROVE  IsFiniteSet(pool'[c]) /\ Cardinality(pool'[c]) <= Permits
    <3>1. IsFiniteSet(pool[c]) /\ Cardinality(pool[c]) <= Permits
      BY DEF Inv, PoolsAreDisjoint, PoolStaysSmall
    <3>2. pool'[c] \in SUBSET pool[c]
      BY <1>3
    <3>3. IsFiniteSet(pool'[c]) /\ Cardinality(pool'[c]) <= Cardinality(pool[c])
      BY <3>1, <3>2, FS_Subset
    <3>4. Cardinality(pool'[c]) \in Nat /\ Cardinality(pool[c]) \in Nat
      BY <3>1, <3>3, FS_CardinalityType
    <3>5. QED
      BY <3>1, <3>3, <3>4, PermitsArePositive
  <2>2. QED
    BY <1>3, <2>1 DEF Inv, PoolsAreDisjoint, PoolStaysSmall
<1>9. QED
  BY <1>1, <1>4, <1>5, <1>6, <1>7, <1>8 DEF Inv

\* Taking a permit.
LEMMA TakePermitStep ==
  ASSUME Inv, NEW t \in Threads, TakePermit(t)
  PROVE  Inv'
<1>1. PermitsAddUp' /\ permits' \in 0..Permits
  BY PermitsStep, "permitted" \in States DEF Inv, TakePermit, Permitted, States
<1>2. /\ Goes(t, "permitted") /\ "permitted" \in States
      /\ pc[t] = "waiting"
      /\ pc[t] \in Holding <=> "permitted" \in Holding
      /\ UNCHANGED <<lock, pool, leased, engine>> 
      /\ key' \in [Threads -> Keys] /\ key' = key
  BY DEF TakePermit, Holding, States, Inv, TypeOK
<1>3. QED
  BY <1>1, <1>2, QuietStep

\* Starting to build an engine that will not be cached.
LEMMA StartUncachedBuildStep ==
  ASSUME Inv, NEW t \in Threads, StartUncachedBuild(t)
  PROVE  Inv'
<1>1. /\ Goes(t, "building_uncached") /\ "building_uncached" \in States
      /\ pc[t] = "permitted"
      /\ pc[t] \in Holding <=> "building_uncached" \in Holding
      /\ UNCHANGED <<lock, pool, leased, engine>>
      /\ key' \in [Threads -> Keys] /\ key' = key
      /\ key'[t] \notin CachedKeys
  BY DEF StartUncachedBuild, Holding, States, Inv, TypeOK
<1>2. PermitsAddUp' /\ permits' \in 0..Permits
  BY <1>1, PermitsStep DEF Inv, StartUncachedBuild, Permitted, States, Refund
<1>3. QED
  BY <1>1, <1>2, QuietStep

\* Giving the permit back after a failed build.
LEMMA RefundPermitStep ==
  ASSUME Inv, NEW t \in Threads, RefundPermit(t)
  PROVE  Inv'
<1>1. /\ Goes(t, "idle") /\ "idle" \in States
      /\ pc[t] = "refunding"
      /\ pc[t] \in Holding <=> "idle" \in Holding
      /\ UNCHANGED <<lock, pool, leased, engine>>
      /\ key' \in [Threads -> Keys] /\ key' = key
  BY DEF RefundPermit, Holding, States, Inv, TypeOK
<1>2. PermitsAddUp' /\ permits' \in 0..Permits
  BY <1>1, PermitsStep DEF Inv, RefundPermit, Permitted, States, Refund
<1>3. QED
  BY <1>1, <1>2, QuietStep

\* Giving the permit back after the lease.
LEMMA ReturnPermitStep ==
  ASSUME Inv, NEW t \in Threads, ReturnPermit(t)
  PROVE  Inv'
<1>1. /\ Goes(t, "idle") /\ "idle" \in States
      /\ pc[t] = "returning"
      /\ pc[t] \in Holding <=> "idle" \in Holding
      /\ UNCHANGED <<lock, pool, leased, engine>>
      /\ key' \in [Threads -> Keys] /\ key' = key
  BY DEF ReturnPermit, Holding, States, Inv, TypeOK
<1>2. PermitsAddUp' /\ permits' \in 0..Permits
  BY <1>1, PermitsStep DEF Inv, ReturnPermit, Permitted, States, Refund
<1>3. QED
  BY <1>1, <1>2, QuietStep

\* The end of the work, well or badly.
LEMMA WorkEndsStep ==
  ASSUME Inv, NEW t \in Threads, WorkEnds(t)
  PROVE  Inv'
<1>1. PICK outcome \in {"succeeded", "failed"} : Goes(t, outcome)
  BY DEF WorkEnds
<1>2. /\ outcome \in States /\ outcome \notin {"building", "building_uncached"}
      /\ pc[t] = "working"
      /\ pc[t] \in Holding <=> outcome \in Holding
      /\ UNCHANGED <<permits, lock, pool, leased, engine>>
      /\ key' \in [Threads -> Keys] /\ key' = key
  BY <1>1 DEF WorkEnds, Holding, States, Inv, TypeOK
<1>3. PermitsAddUp' /\ permits' \in 0..Permits
  BY <1>1, <1>2, PermitsStep DEF Inv, Permitted, States
<1>4. QED
  BY <1>1, <1>2, <1>3, QuietStep

\* Starting to build a cached engine: the thread takes the lock, having seen
\* that no engine of its key is free.
LEMMA StartBuildStep ==
  ASSUME Inv, NEW t \in Threads, StartBuild(t)
  PROVE  Inv'
<1>1. PermitsAddUp' /\ permits' \in 0..Permits
  BY PermitsStep, "building" \in States DEF Inv, StartBuild, Permitted, States
<1>2. /\ \A u \in Threads : pc'[u] = IF u = t THEN "building" ELSE pc[u]
      /\ Holders' = Holders
      /\ UNCHANGED <<pool, leased, engine, key>>
      /\ lock = NoThread /\ lock' = t
      /\ key[t] \in CachedKeys /\ Free(key[t]) = {}
  BY DEF Inv, TypeOK, StartBuild, Goes, Holders, Holding, LockFree
<1>3. TypeOK'
  BY <1>1 DEF Inv, TypeOK, StartBuild, Goes, States
<1>4. BuilderHasLock' /\ UncachedBuilder'
  BY <1>2, NobodyIsFresh DEF Inv, BuilderHasLock, UncachedBuilder, Free
<1>5. OneThreadPerEngine' /\ HoldersHaveEngines' /\ LeasesMatchHolders'
  BY <1>2 DEF Inv, OneThreadPerEngine, HoldersHaveEngines, LeasesMatchHolders
<1>6. PoolsAreDisjoint' /\ PoolStaysSmall'
  BY <1>2 DEF Inv, PoolsAreDisjoint, PoolStaysSmall
<1>7. QED
  BY <1>1, <1>3, <1>4, <1>5, <1>6 DEF Inv

\* A build that fails, with the lock taken or without it.
LEMMA BuildFailsStep ==
  ASSUME Inv, NEW t \in Threads, BuildFails(t)
  PROVE  Inv'
<1>1. PermitsAddUp' /\ permits' \in 0..Permits
  BY PermitsStep, "refunding" \in States DEF Inv, BuildFails, Permitted, States
<1>2. /\ \A u \in Threads : pc'[u] = IF u = t THEN "refunding" ELSE pc[u]
      /\ Holders' = Holders
      /\ UNCHANGED <<pool, leased, engine, key>>
      /\ \/ pc[t] = "building" /\ lock = t /\ lock' = NoThread
         \/ pc[t] = "building_uncached" /\ lock # t /\ lock' = lock
  BY DEF Inv, TypeOK, BuildFails, Goes, Holders, Holding, BuilderHasLock
<1>3. TypeOK'
  BY <1>1 DEF Inv, TypeOK, BuildFails, Goes, States
<1>4. BuilderHasLock' /\ UncachedBuilder'
  BY <1>2, NobodyIsFresh DEF Inv, BuilderHasLock, UncachedBuilder, Free
<1>5. OneThreadPerEngine' /\ HoldersHaveEngines' /\ LeasesMatchHolders'
  BY <1>2 DEF Inv, OneThreadPerEngine, HoldersHaveEngines, LeasesMatchHolders
<1>6. PoolsAreDisjoint' /\ PoolStaysSmall'
  BY <1>2 DEF Inv, PoolsAreDisjoint, PoolStaysSmall
<1>7. QED
  BY <1>1, <1>3, <1>4, <1>5, <1>6 DEF Inv

\* A thread is given an engine e and starts to work: what Reuse, Built and
\* BuiltUncached have in common.
LEMMA GivenEngine ==
  ASSUME Inv, NEW t \in Threads, NEW e \in Engines,
         pc[t] \in Permitted, t \notin Holders,
         Goes(t, "working"), engine' = [engine EXCEPT ![t] = e], key' = key,
         \A h \in Holders : engine[h] # e,
         \A k \in Keys : e \in pool'[k] => k = key[t],
         key[t] \in CachedKeys <=> e \in pool'[key[t]],
         leased' = IF key[t] \in CachedKeys THEN WithLease(e) ELSE leased,
         \A k \in Keys : pool'[k] = pool[k] \/ pool'[k] = pool[k] \union {e}
  PROVE  /\ OneThreadPerEngine'
         /\ HoldersHaveEngines'
         /\ LeasesMatchHolders'
<1>1. /\ Holders' = Holders \union {t}
      /\ \A h \in Holders : engine'[h] = engine[h] /\ key'[h] = key[h]
      /\ engine'[t] = e /\ key'[t] = key[t] /\ key[t] \in Keys
      /\ Holders \subseteq Threads
  BY DEF Inv, TypeOK, Goes, Holders, Holding
<1>2. OneThreadPerEngine'
  BY <1>1 DEF Inv, OneThreadPerEngine
<1>3. HoldersHaveEngines'
  <2>1. ASSUME NEW h \in Holders
        PROVE  /\ engine'[h] \in Engines
               /\ \A k \in Keys : engine'[h] \in pool'[k] => k = key'[h]
    BY <1>1 DEF Inv, HoldersHaveEngines
  <2>2. QED
    BY <1>1, <2>1 DEF HoldersHaveEngines
<1>4. LeasesMatchHolders'
  <2>1. leased = {engine[u] : u \in {h \in Holders : key[h] \in CachedKeys}}
    BY DEF Inv, LeasesMatchHolders
  <2>2. leased' = {engine'[u] : u \in {h \in Holders' : key'[h] \in CachedKeys}}
    <3>1. CASE key[t] \in CachedKeys
      <4>1. {h \in Holders' : key'[h] \in CachedKeys}
              = {h \in Holders : key[h] \in CachedKeys} \union {t}
        BY <1>1, <3>1
      <4>2. leased' = leased \union {e}
        BY <3>1 DEF WithLease
      <4>3. QED
        BY <1>1, <2>1, <4>1, <4>2
    <3>2. CASE key[t] \notin CachedKeys
      <4>1. {h \in Holders' : key'[h] \in CachedKeys}
              = {h \in Holders : key[h] \in CachedKeys}
        BY <1>1, <3>2
      <4>2. QED
        BY <1>1, <2>1, <3>2, <4>1
    <3>3. QED
      BY <3>1, <3>2
  <2>3. ASSUME NEW h \in Holders
        PROVE  key'[h] \in CachedKeys <=> engine'[h] \in pool'[key'[h]]
    <3>1. /\ key[h] \in Keys /\ engine[h] # e
          /\ key[h] \in CachedKeys <=> engine[h] \in pool[key[h]]
      BY DEF Inv, LeasesMatchHolders, TypeOK, Holders
    <3>2. QED
      BY <1>1, <3>1
  <2>4. QED
    BY <1>1, <2>2, <2>3 DEF LeasesMatchHolders
<1>5. QED
  BY <1>2, <1>3, <1>4

\* Leasing a pooled engine.
LEMMA ReuseStep ==
  ASSUME Inv, NEW t \in Threads, Reuse(t)
  PROVE  Inv'
<1>1. PICK e \in Free(key[t]) :
        leased' = WithLease(e) /\ engine' = [engine EXCEPT ![t] = e]
  BY DEF Reuse
<1>2. /\ pc[t] = "permitted" /\ Goes(t, "working")
      /\ key[t] \in Keys /\ key[t] \in CachedKeys /\ lock = NoThread
      /\ UNCHANGED <<permits, lock, pool, key>>
  BY DEF Reuse, LockFree, Inv, TypeOK
<1>3. e \in Engines /\ e \in pool[key[t]] /\ e \notin leased
  BY <1>1, <1>2 DEF Free, Inv, TypeOK
<1>4. PermitsAddUp' /\ permits' \in 0..Permits
  BY <1>2, PermitsStep, "working" \in States DEF Inv, Permitted, States
<1>5. TypeOK'
  BY <1>1, <1>2, <1>3, <1>4 DEF Inv, TypeOK, Goes, States, WithLease
<1>6. BuilderHasLock' /\ UncachedBuilder'
  BY <1>2, NobodyIsFresh DEF Inv, TypeOK, Goes, BuilderHasLock, UncachedBuilder
<1>7. \A h \in Holders : engine[h] # e
  BY <1>2, <1>3 DEF Inv, LeasesMatchHolders, HoldersHaveEngines
<1>8. \A k \in Keys : e \in pool'[k] => k = key[t]
  BY <1>2, <1>3 DEF Inv, PoolsAreDisjoint
<1>9. OneThreadPerEngine' /\ HoldersHaveEngines' /\ LeasesMatchHolders'
  <2>1. pc[t] \in Permitted /\ t \notin Holders
    BY <1>2 DEF Permitted, States, Holders, Holding
  <2>2. QED
    BY <1>1, <1>2, <1>3, <1>7, <1>8, <2>1, GivenEngine
<1>10. PoolsAreDisjoint' /\ PoolStaysSmall'
  BY <1>2 DEF Inv, PoolsAreDisjoint, PoolStaysSmall
<1>11. QED
  BY <1>4, <1>5, <1>6, <1>9, <1>10 DEF Inv

\* The new cached engine lives at an address no live engine has, and there is
\* room for it in the pool.
LEMMA BuiltStep ==
  ASSUME Inv, NEW t \in Threads, Built(t)
  PROVE  Inv'
<1>1. PICK e \in Engines \ Live :
        /\ pool' = [pool EXCEPT ![key[t]] = @ \union {e}]
        /\ leased' = WithLease(e)
        /\ engine' = [engine EXCEPT ![t] = e]
  BY DEF Built
<1>2. /\ pc[t] = "building" /\ Goes(t, "working")
      /\ key[t] \in Keys /\ key[t] \in CachedKeys
      /\ lock = t /\ lock' = NoThread
      /\ UNCHANGED <<permits, key>>
  BY DEF Built, Inv, BuilderHasLock, TypeOK
<1>3. /\ \A h \in Holders : engine[h] # e
      /\ \A k \in Keys : e \notin pool[k]
  BY <1>1 DEF Live, Pooled
<1>4. \A k \in Keys : pool'[k] = IF k = key[t] THEN pool[k] \union {e} ELSE pool[k]
  BY <1>1 DEF Inv, TypeOK
<1>5. PermitsAddUp' /\ permits' \in 0..Permits
  BY <1>2, PermitsStep, "working" \in States DEF Inv, Permitted, States
<1>6. TypeOK'
  BY <1>1, <1>2, <1>5 DEF Inv, TypeOK, Goes, States, WithLease
<1>7. BuilderHasLock' /\ UncachedBuilder'
  BY <1>2, NobodyIsFresh DEF Inv, TypeOK, Goes, BuilderHasLock, UncachedBuilder
<1>8. OneThreadPerEngine' /\ HoldersHaveEngines' /\ LeasesMatchHolders'
  <2>1. pc[t] \in Permitted /\ t \notin Holders
    BY <1>2 DEF Permitted, States, Holders, Holding
  <2>2. /\ \A k \in Keys : e \in pool'[k] => k = key[t]
        /\ e \in pool'[key[t]]
        /\ \A k \in Keys : pool'[k] = pool[k] \/ pool'[k] = pool[k] \union {e}
    BY <1>2, <1>3, <1>4
  <2>3. QED
    BY <1>1, <1>2, <1>3, <2>1, <2>2, GivenEngine
<1>9. PoolsAreDisjoint' /\ PoolStaysSmall'
  <2>1. ASSUME NEW k \in Keys
        PROVE  IsFiniteSet(pool'[k]) /\ Cardinality(pool'[k]) <= Permits
    <3>1. CASE k = key[t]
      <4>1. /\ IsFiniteSet(pool[key[t]])
            /\ Cardinality(pool[key[t]]) \in Nat
            /\ Cardinality(pool[key[t]]) < Permits
        BY <1>2, RoomForOneMore
      <4>2. /\ IsFiniteSet(pool[key[t]] \union {e})
            /\ Cardinality(pool[key[t]] \union {e}) = Cardinality(pool[key[t]]) + 1
        BY <1>2, <1>3, <4>1, FS_AddElement
      <4>3. pool'[k] = pool[key[t]] \union {e}
        BY <1>2, <1>4, <3>1
      <4>4. QED
        BY <4>1, <4>2, <4>3, PermitsArePositive
    <3>2. CASE k # key[t]
      BY <1>4, <3>2 DEF Inv, PoolsAreDisjoint, PoolStaysSmall
    <3>3. QED
      BY <3>1, <3>2
  <2>2. \A k \in Keys : k \notin CachedKeys => pool'[k] = {}
    BY <1>2, <1>4 DEF Inv, PoolsAreDisjoint
  <2>3. ASSUME NEW k \in Keys, NEW c \in Keys, k # c
        PROVE  pool'[k] \intersect pool'[c] = {}
    <3>1. pool[k] \intersect pool[c] = {} /\ e \notin pool[k] /\ e \notin pool[c]
      BY <1>3, <2>3 DEF Inv, PoolsAreDisjoint
    <3>2. /\ pool'[k] \subseteq pool[k] \union {e}
          /\ pool'[c] \subseteq pool[c] \union {e}
          /\ pool'[k] = pool[k] \/ pool'[c] = pool[c]
      BY <1>4, <2>3
    <3>3. QED
      BY <3>1, <3>2
  <2>4. QED
    BY <2>1, <2>2, <2>3 DEF PoolsAreDisjoint, PoolStaysSmall
<1>10. QED
  BY <1>5, <1>6, <1>7, <1>8, <1>9 DEF Inv

\* The uncached engine too; it goes to nobody else.
LEMMA BuiltUncachedStep ==
  ASSUME Inv, NEW t \in Threads, BuiltUncached(t)
  PROVE  Inv'
<1>1. PICK e \in Engines \ Live : engine' = [engine EXCEPT ![t] = e]
  BY DEF BuiltUncached
<1>2. /\ pc[t] = "building_uncached" /\ Goes(t, "working")
      /\ key[t] \in Keys /\ key[t] \notin CachedKeys
      /\ UNCHANGED <<permits, lock, pool, leased, key>>
  BY DEF BuiltUncached, Inv, UncachedBuilder, TypeOK
<1>3. /\ \A h \in Holders : engine[h] # e
      /\ \A k \in Keys : e \notin pool[k]
  BY <1>1 DEF Live, Pooled
<1>4. PermitsAddUp' /\ permits' \in 0..Permits
  BY <1>2, PermitsStep, "working" \in States DEF Inv, Permitted, States
<1>5. TypeOK'
  BY <1>1, <1>2, <1>4 DEF Inv, TypeOK, Goes, States
<1>6. BuilderHasLock' /\ UncachedBuilder'
  BY <1>2, NobodyIsFresh DEF Inv, TypeOK, Goes, BuilderHasLock, UncachedBuilder, Free
<1>7. OneThreadPerEngine' /\ HoldersHaveEngines' /\ LeasesMatchHolders'
  <2>1. pc[t] \in Permitted /\ t \notin Holders
    BY <1>2 DEF Permitted, States, Holders, Holding
  <2>2. QED
    BY <1>1, <1>2, <1>3, <2>1, GivenEngine
<1>8. PoolsAreDisjoint' /\ PoolStaysSmall'
  BY <1>2 DEF Inv, PoolsAreDisjoint, PoolStaysSmall
<1>9. QED
  BY <1>4, <1>5, <1>6, <1>7, <1>8 DEF Inv

\* Returning a lease; the engine leaves the pool if its work failed.
LEMMA ReturnLeaseStep ==
  ASSUME Inv, NEW t \in Threads, ReturnLease(t)
  PROVE  Inv'
<1> DEFINE e == engine[t]
<1>1. /\ pc[t] \in {"succeeded", "failed"} /\ t \in Holders
      /\ Goes(t, "returning")
      /\ key[t] \in Keys /\ lock = NoThread
      /\ leased' = leased \ {e}
      /\ engine' = [engine EXCEPT ![t] = NoEngine]
      /\ UNCHANGED <<permits, lock, key>>
  BY DEF ReturnLease, Unleased, LockFree, Inv, TypeOK, Holders, Holding
<1>2. /\ pool' \in [Keys -> SUBSET Engines]
      /\ \A k \in Keys :
           pool'[k] = pool[k] \/ (k = key[t] /\ pool'[k] = pool[k] \ {e})
  <2>1. pool' = pool \/ pool' = [pool EXCEPT ![key[t]] = @ \ {e}]
    BY DEF ReturnLease, WithoutDiscarded
  <2>2. pool \in [Keys -> SUBSET Engines]
    BY DEF Inv, TypeOK
  <2>3. CASE pool' = pool
    BY <2>2, <2>3
  <2>4. CASE pool' = [pool EXCEPT ![key[t]] = @ \ {e}]
    BY <1>1, <2>2, <2>4
  <2>5. QED
    BY <2>1, <2>3, <2>4
<1>3. PermitsAddUp' /\ permits' \in 0..Permits
  BY <1>1, PermitsStep, "returning" \in States DEF Inv, Permitted, States
<1>4. TypeOK'
  BY <1>1, <1>2, <1>3 DEF Inv, TypeOK, Goes, States
<1>5. BuilderHasLock' /\ UncachedBuilder'
  BY <1>1, NobodyIsFresh DEF Inv, TypeOK, Goes, BuilderHasLock, UncachedBuilder
<1>6. /\ Holders' = Holders \ {t}
      /\ \A h \in Holders' : engine'[h] = engine[h] /\ key'[h] = key[h] /\ engine[h] # e
  BY <1>1 DEF Inv, TypeOK, Goes, Holders, Holding, OneThreadPerEngine
<1>7. OneThreadPerEngine' /\ HoldersHaveEngines'
  BY <1>2, <1>6 DEF Inv, OneThreadPerEngine, HoldersHaveEngines
<1>8. LeasesMatchHolders'
  <2>1. leased = {engine[u] : u \in {h \in Holders : key[h] \in CachedKeys}}
    BY DEF Inv, LeasesMatchHolders
  <2>2. {h \in Holders' : key'[h] \in CachedKeys}
          = {h \in Holders : key[h] \in CachedKeys} \ {t}
    BY <1>6
  <2>3. leased' = {engine'[u] : u \in {h \in Holders' : key'[h] \in CachedKeys}}
    BY <1>1, <1>6, <2>1, <2>2
  <2>4. ASSUME NEW h \in Holders'
        PROVE  key'[h] \in CachedKeys <=> engine'[h] \in pool'[key'[h]]
    <3>1. /\ key[h] \in Keys /\ engine[h] # e
          /\ key[h] \in CachedKeys <=> engine[h] \in pool[key[h]]
      BY <1>6 DEF Inv, LeasesMatchHolders, TypeOK, Holders
    <3>2. QED
      BY <1>2, <1>6, <3>1
  <2>5. QED
    BY <2>3, <2>4 DEF LeasesMatchHolders
<1>9. PoolsAreDisjoint' /\ PoolStaysSmall'
  <2>1. ASSUME NEW c \in Keys
        PROVE  IsFiniteSet(pool'[c]) /\ Cardinality(pool'[c]) <= Permits
    <3>1. IsFiniteSet(pool[c]) /\ Cardinality(pool[c]) <= Permits
      BY DEF Inv, PoolsAreDisjoint, PoolStaysSmall
    <3>2. pool'[c] \in SUBSET pool[c]
      BY <1>2
    <3>3. IsFiniteSet(pool'[c]) /\ Cardinality(pool'[c]) <= Cardinality(pool[c])
      BY <3>1, <3>2, FS_Subset
    <3>4. Cardinality(pool'[c]) \in Nat /\ Cardinality(pool[c]) \in Nat
      BY <3>1, <3>3, FS_CardinalityType
    <3>5. QED
      BY <3>1, <3>3, <3>4, PermitsArePositive
  <2>2. \A k \in Keys : pool'[k] \subseteq pool[k]
    BY <1>2
  <2>3. QED
    BY <2>1, <2>2 DEF Inv, PoolsAreDisjoint, PoolStaysSmall
<1>10. QED
  BY <1>3, <1>4, <1>5, <1>7, <1>8, <1>9 DEF Inv

-----------------------------------------------------------------------------
(* The invariant, and the properties that follow from it.                  *)

\* The registry starts with all permits, no engine and no lease.
LEMMA InvInit == Init => Inv
<1> SUFFICES ASSUME Init PROVE Inv
  OBVIOUS
<1>1. TypeOK
  BY PermitsArePositive DEF Init, TypeOK, States
<1>2. Holders = {} /\ PermitHolders = {} /\ leased = {}
  BY DEF Init, Holders, Holding, PermitHolders, Permitted, States
<1>3. PermitsAddUp
  BY <1>2, FS_EmptySet, PermitsArePositive DEF Init, PermitsAddUp, PermitHolders
<1>4. BuilderHasLock /\ UncachedBuilder
  BY NobodyIsFresh DEF Init, BuilderHasLock, UncachedBuilder
<1>5. OneThreadPerEngine /\ HoldersHaveEngines /\ LeasesMatchHolders
  BY <1>2 DEF OneThreadPerEngine, HoldersHaveEngines, LeasesMatchHolders
<1>6. PoolsAreDisjoint /\ PoolStaysSmall
  BY FS_EmptySet, PermitsArePositive DEF Init, PoolsAreDisjoint, PoolStaysSmall
<1>7. QED
  BY <1>1, <1>3, <1>4, <1>5, <1>6 DEF Inv

\* Every step of every thread keeps the invariant.
LEMMA InvStep == Inv /\ [Next]_vars => Inv'
<1> SUFFICES ASSUME Inv, [Next]_vars PROVE Inv'
  OBVIOUS
<1>1. CASE UNCHANGED vars
  BY <1>1 DEF vars, Inv, TypeOK, BuilderHasLock, UncachedBuilder, PermitsAddUp,
     OneThreadPerEngine, HoldersHaveEngines, LeasesMatchHolders,
     PoolsAreDisjoint, PoolStaysSmall, Holders, Free
<1>2. ASSUME NEW t \in Threads, Starts(t) PROVE Inv'
  BY <1>2, BeginStep, BeginEvictingStep DEF Starts
<1>3. ASSUME NEW t \in Threads, Acquire(t) PROVE Inv'
  BY <1>3, TakePermitStep, ReuseStep, StartBuildStep, BuiltStep,
     StartUncachedBuildStep, BuiltUncachedStep, BuildFailsStep, RefundPermitStep
  DEF Acquire
<1>4. ASSUME NEW t \in Threads, Release(t) PROVE Inv'
  BY <1>4, WorkEndsStep, ReturnLeaseStep, ReturnPermitStep DEF Release
<1>5. QED
  BY <1>1, <1>2, <1>3, <1>4 DEF Next

\* The inductive invariant holds in every reachable state.
THEOREM RegistryInvariant == Spec => []Inv
<1>1. Init => Inv
  BY InvInit
<1>2. Inv /\ [Next]_vars => Inv'
  BY InvStep
<1>3. QED
  BY <1>1, <1>2, PTL DEF Spec

\* The variables keep their types; the semaphore stays within its bounds.
THEOREM RegistryTypeCorrect == Spec => []TypeOK
<1>1. Inv => TypeOK
  BY DEF Inv
<1>2. QED
  BY <1>1, RegistryInvariant, PTL

\* Whatever fails in acquire_engine or in the work, no permit is lost and
\* none is given back twice.
THEOREM NoPermitIsLost == Spec => []PermitsAddUp
<1>1. Inv => PermitsAddUp
  BY DEF Inv
<1>2. QED
  BY <1>1, RegistryInvariant, PTL

\* Two threads never have the same engine: the leases are exclusive.
THEOREM LeasesAreExclusive == Spec => []OneThreadPerEngine
<1>1. Inv => OneThreadPerEngine
  BY DEF Inv
<1>2. QED
  BY <1>1, RegistryInvariant, PTL

\* _leased_engine_ids holds the ids of the pooled engines in use, no others.
THEOREM LeasedIdsAreLive == Spec => []LeasesMatchHolders
<1>1. Inv => LeasesMatchHolders
  BY DEF Inv
<1>2. QED
  BY <1>1, RegistryInvariant, PTL

\* No key ever has more engines than permits.
THEOREM PoolIsBounded == Spec => []PoolStaysSmall
<1>1. Inv => PoolStaysSmall
  BY DEF Inv
<1>2. QED
  BY <1>1, RegistryInvariant, PTL

-----------------------------------------------------------------------------
(* Refinement: every step is a step of LeasePool or leaves it alone.       *)

\* What a user sees, element by element.
LEMMA WhatIsSeen ==
  ASSUME Inv
  PROVE  /\ \A t \in Threads : Lease[t] # NoEngine <=> t \in Holders
         /\ \A t \in Holders : Lease[t] = <<key[t], engine[t]>>
         /\ \A k \in Keys, e \in Engines : <<k, e>> \in Ready <=> e \in Free(k)
         /\ Ready \subseteq Keys \X Engines
         /\ Promise!Leasing = Holders
<1>1. /\ \A t \in Threads : t \in Holders => <<key[t], engine[t]>> \in Keys \X Engines
      /\ \A t \in Holders : t \in Threads
  BY DEF Inv, TypeOK, HoldersHaveEngines, Holders
<1>2. /\ \A t \in Threads : Lease[t] # NoEngine <=> t \in Holders
      /\ \A t \in Holders : Lease[t] = <<key[t], engine[t]>>
  BY <1>1, NobodyIsFresh DEF Lease, Holders
<1>3. /\ \A k \in Keys, e \in Engines : <<k, e>> \in Ready <=> e \in Free(k)
      /\ Ready \subseteq Keys \X Engines
  BY DEF Ready
<1>4. Promise!Leasing = Holders
  BY <1>1, <1>2 DEF Promise!Leasing, Holders
<1>5. QED
  BY <1>2, <1>3, <1>4

\* A step in which nobody gains or loses an engine and no engine comes free
\* or stops being free is invisible to the user.
LEMMA Unseen ==
  ASSUME Inv, Inv', Holders' = Holders,
         \A t \in Holders : key'[t] = key[t] /\ engine'[t] = engine[t],
         UNCHANGED <<pool, leased>>
  PROVE  UNCHANGED <<Lease, Ready>>
<1>1. Lease' = Lease
  BY DEF Lease, Holders
<1>2. Ready' = Ready
  BY DEF Ready, Free
<1>3. QED
  BY <1>1, <1>2

\* LeasePool counts as this module does.
LEMMA SameCardinality == \A S : Promise!Cardinality(S) = Cardinality(S)
  BY DEF Promise!Cardinality, Cardinality

\* Giving a thread an engine is a lease of a ready engine if it was in the
\* pool, and of a new one if it was not.
LEMMA SeenAsLease ==
  ASSUME Inv, Inv', NEW t \in Threads, NEW e \in Engines,
         pc[t] \in Permitted, t \notin Holders,
         Holders' = Holders \union {t}, key' = key,
         engine' = [engine EXCEPT ![t] = e],
         pc'[t] # "failed", \A u \in Threads : u # t => pc'[u] = pc[u]
  PROVE  /\ Lease' = [Lease EXCEPT ![t] = <<key[t], e>>]
         /\ Promise!MayLease(t)
         /\ Spoiled' = Spoiled
<1>1. Promise!MayLease(t)
  <2>1. Lease[t] = NoEngine /\ Promise!Leasing = Holders
    BY WhatIsSeen
  <2>2. Promise!Cardinality(Holders) < Permits
    BY FewerHolders, SameCardinality DEF Inv
  <2>3. QED
    BY <2>1, <2>2 DEF Promise!MayLease
<1>2. Lease' = [Lease EXCEPT ![t] = <<key[t], e>>]
  BY DEF Lease, Inv, TypeOK, Holders
<1>3. Spoiled' = Spoiled
  BY DEF Spoiled, Holders, Holding
<1>4. QED
  BY <1>1, <1>2, <1>3

\* Reuse.
LEMMA ReuseIsLeaseReady ==
  ASSUME Inv, Inv', NEW t \in Threads, Reuse(t)
  PROVE  Promise!LeaseReady(t)
<1>1. PICK e \in Free(key[t]) :
        leased' = leased \union {e} /\ engine' = [engine EXCEPT ![t] = e]
  BY DEF Reuse, WithLease
<1>2. /\ e \in Engines /\ key[t] \in Keys /\ e \in pool[key[t]] /\ e \notin leased
      /\ pc[t] = "permitted" /\ pool' = pool /\ key' = key
      /\ pc' = [pc EXCEPT ![t] = "working"]
  BY <1>1 DEF Reuse, Goes, Free, Inv, TypeOK
<1>3. /\ Lease' = [Lease EXCEPT ![t] = <<key[t], e>>]
      /\ Promise!MayLease(t)
      /\ Spoiled' = Spoiled
  <2>1. /\ pc[t] \in Permitted /\ t \notin Holders
        /\ Holders' = Holders \union {t}
        /\ pc'[t] # "failed" /\ \A u \in Threads : u # t => pc'[u] = pc[u]
    BY <1>2 DEF Permitted, States, Holders, Holding, Inv, TypeOK
  <2>2. QED
    BY <1>1, <1>2, <2>1, SeenAsLease
<1>4. <<key[t], e>> \in Ready
  BY <1>1, <1>2, WhatIsSeen
<1>5. Ready' = Ready \ {<<key[t], e>>}
  <2>1. ASSUME NEW k \in Keys, NEW d \in Engines
        PROVE  d \in Free(k)' <=> (d \in Free(k) /\ <<k, d>> # <<key[t], e>>)
    <3>1. d \in Free(k)' <=> d \in pool[k] /\ d \notin leased /\ d # e
      BY <1>1, <1>2 DEF Free
    <3>2. e \in pool[k] => k = key[t]
      BY <1>2 DEF Inv, PoolsAreDisjoint
    <3>3. QED
      BY <3>1, <3>2 DEF Free
  <2>2. QED
    BY <2>1 DEF Ready
<1>6. QED
  BY <1>3, <1>4, <1>5 DEF Promise!LeaseReady

\* Built and BuiltUncached.
LEMMA BuiltIsLeaseNew ==
  ASSUME Inv, Inv', NEW t \in Threads, Built(t) \/ BuiltUncached(t)
  PROVE  Promise!LeaseNew(t)
<1>1. PICK e \in Engines \ Live :
        /\ engine' = [engine EXCEPT ![t] = e]
        /\ \/ pool' = pool /\ leased' = leased
           \/ /\ pool' = [pool EXCEPT ![key[t]] = @ \union {e}]
              /\ leased' = leased \union {e}
  BY DEF Built, BuiltUncached, WithLease
<1>2. /\ pc[t] \in {"building", "building_uncached"} /\ key[t] \in Keys
      /\ key' = key /\ pc' = [pc EXCEPT ![t] = "working"]
  BY DEF Built, BuiltUncached, Goes, Inv, TypeOK
<1>3. /\ Lease' = [Lease EXCEPT ![t] = <<key[t], e>>]
      /\ Promise!MayLease(t)
      /\ Spoiled' = Spoiled
  <2>1. /\ pc[t] \in Permitted /\ t \notin Holders
        /\ Holders' = Holders \union {t}
        /\ pc'[t] # "failed" /\ \A u \in Threads : u # t => pc'[u] = pc[u]
    BY <1>2 DEF Permitted, States, Holders, Holding, Inv, TypeOK
  <2>2. QED
    BY <1>1, <1>2, <2>1, SeenAsLease
<1>4. /\ \A k \in Keys : e \notin pool[k]
      /\ \A h \in Holders : engine[h] # e
  BY <1>1 DEF Live, Pooled
<1>5. Ready' = Ready
  <2>1. ASSUME NEW k \in Keys
        PROVE  Free(k)' = Free(k)
    BY <1>1, <1>2, <1>4 DEF Free, Inv, TypeOK
  <2>2. QED
    BY <2>1 DEF Ready
<1>6. \A kind \in Keys : <<kind, e>> \notin Promise!InUse
  <2>1. ASSUME NEW kind \in Keys, <<kind, e>> \in Ready PROVE FALSE
    BY <1>1, <1>4, <2>1, WhatIsSeen DEF Free
  <2>2. ASSUME NEW kind \in Keys, NEW h \in Holders, Lease[h] = <<kind, e>> PROVE FALSE
    BY <1>4, <2>2, WhatIsSeen
  <2>3. QED
    BY <2>1, <2>2, WhatIsSeen DEF Promise!InUse
<1>7. QED
  BY <1>1, <1>2, <1>3, <1>5, <1>6 DEF Promise!LeaseNew

\* Eviction drops ready engines, and nothing else.
LEMMA BeginEvictingIsDrop ==
  ASSUME Inv, Inv', NEW t \in Threads, NEW k \in Keys, BeginEvicting(t, k)
  PROVE  Promise!Drop
<1>1. PICK idle \in SUBSET Evictable : pool' = [c \in Keys |-> pool[c] \ idle]
  BY DEF BeginEvicting
<1>2. /\ pc[t] = "idle" /\ pc' = [pc EXCEPT ![t] = "waiting"]
      /\ \A u \in Threads : u # t => key'[u] = key[u]
      /\ UNCHANGED <<leased, engine>>
  BY DEF BeginEvicting, Goes, Inv, TypeOK
<1>3. Lease' = Lease /\ Spoiled' = Spoiled
  BY <1>2 DEF Lease, Spoiled, Holding, Inv, TypeOK
<1>4. Ready' \in SUBSET Ready
  BY <1>1, <1>2 DEF Ready, Free
<1>5. QED
  BY <1>3, <1>4 DEF Promise!Drop

\* Work that fails spoils the engine; work that succeeds is not seen.
LEMMA WorkEndsIsSpoil ==
  ASSUME Inv, Inv', NEW t \in Threads, WorkEnds(t)
  PROVE  Promise!Spoil(t) \/ UNCHANGED <<Lease, Ready, Spoiled>>
<1>1. PICK outcome \in {"succeeded", "failed"} : pc' = [pc EXCEPT ![t] = outcome]
  BY DEF WorkEnds, Goes
<1>2. /\ pc[t] = "working" /\ t \in Holders
      /\ UNCHANGED <<pool, leased, key, engine>>
  BY DEF WorkEnds, Holders, Holding
<1>3. Holders' = Holders
  BY <1>1, <1>2 DEF Holders, Holding, Inv, TypeOK
<1>4. UNCHANGED <<Lease, Ready>>
  BY <1>2, <1>3, Unseen
<1>5. CASE outcome = "succeeded"
  <2>1. Spoiled' = Spoiled
    BY <1>1, <1>2, <1>5 DEF Spoiled, Inv, TypeOK
  <2>2. QED
    BY <1>4, <2>1
<1>6. CASE outcome = "failed"
  <2>1. Spoiled' = Spoiled \union {t}
    BY <1>1, <1>2, <1>6 DEF Spoiled, Inv, TypeOK
  <2>2. Lease[t] # NoEngine
    BY <1>2, WhatIsSeen
  <2>3. QED
    BY <1>4, <2>1, <2>2 DEF Promise!Spoil
<1>7. QED
  BY <1>5, <1>6

\* The lease of a cached engine whose work succeeded ends with the engine
\* ready again; every other engine is disposed of.
LEMMA ReturnLeaseIsGiveBackOrDispose ==
  ASSUME Inv, Inv', NEW t \in Threads, ReturnLease(t)
  PROVE  Promise!GiveBack(t) \/ Promise!Dispose(t)
<1> DEFINE e == engine[t]
           p == <<key[t], e>>
<1>1. /\ pc[t] \in {"succeeded", "failed"} /\ t \in Holders
      /\ pc' = [pc EXCEPT ![t] = "returning"]
      /\ leased' = leased \ {e} /\ key' = key
      /\ engine' = [engine EXCEPT ![t] = NoEngine]
      /\ key[t] \in Keys /\ e \in Engines
  BY DEF ReturnLease, Unleased, Goes, Holders, Holding, Inv, TypeOK, HoldersHaveEngines
<1>2. /\ Lease[t] # NoEngine /\ Lease[t] = p
      /\ Lease' = [Lease EXCEPT ![t] = NoEngine]
      /\ Spoiled' = Spoiled \ {t}
      /\ t \in Spoiled <=> pc[t] = "failed"
  <2>1. Lease[t] # NoEngine /\ Lease[t] = p
    BY <1>1, WhatIsSeen
  <2>2. Lease' = [Lease EXCEPT ![t] = NoEngine]
    BY <1>1 DEF Lease, Holding, Inv, TypeOK
  <2>3. Spoiled' = Spoiled \ {t} /\ (t \in Spoiled <=> pc[t] = "failed")
    BY <1>1 DEF Spoiled, Inv, TypeOK
  <2>4. QED
    BY <2>1, <2>2, <2>3
<1>3. /\ key[t] \in CachedKeys <=> e \in pool[key[t]]
      /\ \A k \in Keys : e \in pool[k] => k = key[t]
      /\ key[t] \in CachedKeys <=> e \in leased
  <2>1. \A h \in Holders : engine[h] = e => h = t
    BY <1>1 DEF Inv, OneThreadPerEngine
  <2>2. QED
    BY <1>1, <2>1 DEF Inv, LeasesMatchHolders, HoldersHaveEngines
<1>4. CASE pc[t] = "succeeded" /\ key[t] \in CachedKeys
  <2>1. pool' = pool
    BY <1>4 DEF ReturnLease, WithoutDiscarded
  <2>2. ASSUME NEW k \in Keys, NEW d \in Engines
        PROVE  d \in Free(k)' <=> (d \in Free(k) \/ <<k, d>> = p)
    BY <1>1, <1>3, <1>4, <2>1 DEF Free
  <2>3. Ready' = Ready \union {p}
    BY <1>1, <2>2 DEF Ready
  <2>4. QED
    BY <1>2, <1>4, <2>3 DEF Promise!GiveBack
<1>5. CASE pc[t] = "failed" \/ key[t] \notin CachedKeys
  <2>1. ASSUME NEW k \in Keys
        PROVE  pool'[k] = pool[k] \ {e} \/ (pool'[k] = pool[k] /\ e \notin pool[k])
    <3>1. pool \in [Keys -> SUBSET Engines]
      BY DEF Inv, TypeOK
    <3>2. CASE pc[t] = "failed"
      <4>1. pool' = [pool EXCEPT ![key[t]] = @ \ {e}]
        BY <3>2 DEF ReturnLease, WithoutDiscarded
      <4>2. QED
        BY <1>1, <1>3, <3>1, <4>1
    <3>3. CASE pc[t] # "failed"
      <4>1. pool' = pool /\ key[t] \notin CachedKeys
        BY <1>5, <3>3 DEF ReturnLease, WithoutDiscarded
      <4>2. QED
        BY <1>1, <1>3, <4>1
    <3>4. QED
      BY <3>2, <3>3
  <2>2. ASSUME NEW k \in Keys
        PROVE  Free(k)' = Free(k)
    <3>1. e \in pool[k] => e \in leased
      BY <1>3
    <3>2. QED
      BY <1>1, <2>1, <3>1 DEF Free
  <2>3. Ready' = Ready
    BY <2>2 DEF Ready
  <2>4. QED
    BY <1>2, <2>3 DEF Promise!Dispose
<1>6. QED
  BY <1>1, <1>4, <1>5

\* The steps that only move a thread between states without an engine.
LEMMA UnseenSteps ==
  ASSUME Inv, Inv', NEW t \in Threads,
         \/ \E k \in Keys : Begin(t, k)
         \/ TakePermit(t) \/ StartBuild(t) \/ StartUncachedBuild(t)
         \/ BuildFails(t) \/ RefundPermit(t) \/ ReturnPermit(t)
  PROVE  UNCHANGED <<Lease, Ready, Spoiled>>
<1>1. /\ pc[t] \notin Holding
      /\ \E s \in States \ Holding : pc' = [pc EXCEPT ![t] = s]
      /\ UNCHANGED <<pool, leased, engine>>
      /\ \A u \in Threads : u # t => key'[u] = key[u]
  BY DEF Begin, TakePermit, StartBuild, StartUncachedBuild, BuildFails,
     RefundPermit, ReturnPermit, Goes, Holding, States, Inv, TypeOK
<1>2. Holders' = Holders /\ t \notin Holders /\ Holders \subseteq Threads
  BY <1>1 DEF Holders, Inv, TypeOK
<1>3. UNCHANGED <<Lease, Ready>>
  BY <1>1, <1>2, Unseen
<1>4. Spoiled' = Spoiled
  BY <1>1 DEF Spoiled, Holding, Inv, TypeOK
<1>5. QED
  BY <1>3, <1>4

\* The registry starts as an empty LeasePool.
LEMMA InitIsSeen == Init => Promise!LPInit
<1> SUFFICES ASSUME Init PROVE Promise!LPInit
  OBVIOUS
<1>1. Lease = [t \in Threads |-> NoEngine] /\ Spoiled = {}
  BY DEF Init, Lease, Holding, Spoiled
<1>2. Ready = {}
  BY DEF Init, Ready, Free
<1>3. QED
  BY <1>1, <1>2 DEF Promise!LPInit

\* Every step is a step of LeasePool or leaves what the user sees unchanged.
LEMMA StepIsSeen ==
  Inv /\ Inv' /\ [Next]_vars => [Promise!LPNext]_(Promise!lpvars)
<1> SUFFICES ASSUME Inv, Inv', [Next]_vars
             PROVE  Promise!LPNext \/ UNCHANGED <<Lease, Ready, Spoiled>>
  BY DEF Promise!lpvars
<1>1. CASE UNCHANGED vars
  BY <1>1 DEF vars, Lease, Ready, Spoiled, Free
<1>2. ASSUME NEW t \in Threads, Starts(t)
      PROVE  Promise!LPNext \/ UNCHANGED <<Lease, Ready, Spoiled>>
  BY <1>2, UnseenSteps, BeginEvictingIsDrop DEF Starts, Promise!LPNext
<1>3. ASSUME NEW t \in Threads, Acquire(t)
      PROVE  Promise!LPNext \/ UNCHANGED <<Lease, Ready, Spoiled>>
  BY <1>3, UnseenSteps, ReuseIsLeaseReady, BuiltIsLeaseNew DEF Acquire, Promise!LPNext
<1>4. ASSUME NEW t \in Threads, Release(t)
      PROVE  Promise!LPNext \/ UNCHANGED <<Lease, Ready, Spoiled>>
  BY <1>4, UnseenSteps, WorkEndsIsSpoil, ReturnLeaseIsGiveBackOrDispose
  DEF Release, Promise!LPNext
<1>5. QED
  BY <1>1, <1>2, <1>3, <1>4 DEF Next

\* The registry implements LeasePool: leases are exclusive and never more
\* than Permits, and an engine whose work failed is not leased again.
THEOREM RegistryKeepsPromise == Spec => PromiseKept
<1>1. Init => Promise!LPInit
  BY InitIsSeen
<1>2. Inv /\ Inv' /\ [Next]_vars => [Promise!LPNext]_(Promise!lpvars)
  BY StepIsSeen
<1>3. QED
  BY <1>1, <1>2, RegistryInvariant, PTL DEF Spec, PromiseKept, Promise!LPSpec

-----------------------------------------------------------------------------
(* Why nobody waits for ever, as far as safety goes: who waits, and for    *)
(* whom; and how far from its end every call is.  TLC checks WaitingEnds   *)
(* itself on a small instance.                                             *)

\* acquire() of the semaphore blocks.
WaitsForPermit(t) == pc[t] = "waiting" /\ permits = 0

\* Entering "with self._lock" blocks: acquire_engine for a cached key, or
\* release_engine, while somebody builds.
WaitsForLock(t) ==
  /\ \/ pc[t] = "permitted" /\ key[t] \in CachedKeys
     \/ pc[t] \in {"succeeded", "failed"}
  /\ ~LockFree

Waits(t) == WaitsForPermit(t) \/ WaitsForLock(t)

\* Whoever waits for the lock waits for a thread that builds, and whoever
\* waits for a permit waits for one that has a permit: the builder itself or
\* a thread that waits for nothing.  No thread waits for one that waits for
\* it, and while any call is under way some thread in a call can go on.
NobodyWaitsInACircle ==
  /\ \A t \in Threads :
       WaitsForLock(t) => \E u \in Threads : lock = u /\ pc[u] = "building" /\ ~Waits(u)
  /\ \A t \in Threads :
       WaitsForPermit(t) => \E u \in Threads : pc[u] \in Permitted /\ ~Waits(u)
  /\ (\E t \in Threads : pc[t] # "idle")
       => \E t \in Threads : pc[t] # "idle" /\ ~Waits(t)

\* How many steps a call has left at most.
StepsLeft(s) ==
  CASE s = "idle" -> 0
    [] s \in {"refunding", "returning"} -> 1
    [] s \in {"succeeded", "failed"} -> 2
    [] s = "working" -> 3
    [] s \in {"building", "building_uncached"} -> 4
    [] s = "permitted" -> 5
    [] s = "waiting" -> 6

\* A step starts a call or brings one call nearer to its end, and it leaves
\* every other call where it is: no step sends a thread back to wait again.
EveryStepIsProgress ==
  [][\E t \in Threads :
       /\ \/ Starts(t)
          \/ StepsLeft(pc'[t]) < StepsLeft(pc[t])
       /\ \A u \in Threads \ {t} : pc'[u] = pc[u]]_vars

\* Without a permit to take, some thread has one.
LEMMA SomebodyHasAPermit ==
  ASSUME Inv, permits = 0
  PROVE  \E u \in Threads : pc[u] \in Permitted
<1>1. Cardinality(PermitHolders) = Permits
  BY PermitsArePositive, PermitHoldersAreFinite, FS_CardinalityType
  DEF Inv, PermitsAddUp, PermitHolders
<1>2. PermitHolders # {}
  BY <1>1, FS_EmptySet, PermitsArePositive
<1>3. QED
  BY <1>2 DEF PermitHolders

\* A thread that finds the lock taken waits for a builder, and a builder
\* waits for nothing.
LEMMA LockIsABuilders ==
  ASSUME Inv, ~LockFree
  PROVE  \E u \in Threads : lock = u /\ pc[u] = "building" /\ ~Waits(u)
<1>1. PICK u \in Threads : lock = u
  BY DEF Inv, TypeOK, LockFree
<1>2. pc[u] = "building"
  BY <1>1 DEF Inv, BuilderHasLock
<1>3. QED
  BY <1>1, <1>2 DEF Waits, WaitsForPermit, WaitsForLock

\* Among the threads with a permit one waits for nothing.
LEMMA APermitHolderGoesOn ==
  ASSUME Inv, NEW t \in Threads, pc[t] \in Permitted
  PROVE  \E u \in Threads : pc[u] \in Permitted /\ ~Waits(u)
<1>1. CASE Waits(t)
  <2>1. ~LockFree
    BY <1>1 DEF Waits, WaitsForPermit, WaitsForLock, Permitted
  <2>2. PICK u \in Threads : lock = u /\ pc[u] = "building" /\ ~Waits(u)
    BY <2>1, LockIsABuilders
  <2>3. pc[u] \in Permitted
    BY <2>2 DEF Permitted, States
  <2>4. QED
    BY <2>2, <2>3
<1>2. QED
  BY <1>1

\* The semaphore and the lock never wait on each other: build_converter runs
\* with the lock and a permit taken, and needs neither again.
THEOREM WaitsAreNotCircular == Spec => []NobodyWaitsInACircle
<1>1. Inv => NobodyWaitsInACircle
  <2> SUFFICES ASSUME Inv PROVE NobodyWaitsInACircle
    OBVIOUS
  <2>1. ASSUME NEW t \in Threads, WaitsForLock(t)
        PROVE  \E u \in Threads : lock = u /\ pc[u] = "building" /\ ~Waits(u)
    BY <2>1, LockIsABuilders DEF WaitsForLock
  <2>2. ASSUME NEW t \in Threads, WaitsForPermit(t)
        PROVE  \E u \in Threads : pc[u] \in Permitted /\ ~Waits(u)
    <3>1. PICK h \in Threads : pc[h] \in Permitted
      BY <2>2, SomebodyHasAPermit DEF WaitsForPermit
    <3>2. QED
      BY <3>1, APermitHolderGoesOn
  <2>3. ASSUME NEW t \in Threads, pc[t] # "idle"
        PROVE  \E u \in Threads : pc[u] # "idle" /\ ~Waits(u)
    <3>1. CASE WaitsForLock(t)
      <4>1. PICK u \in Threads : lock = u /\ pc[u] = "building" /\ ~Waits(u)
        BY <2>1, <3>1
      <4>2. QED
        BY <4>1
    <3>2. CASE WaitsForPermit(t)
      <4>1. PICK u \in Threads : pc[u] \in Permitted /\ ~Waits(u)
        BY <2>2, <3>2
      <4>2. pc[u] # "idle"
        BY <4>1 DEF Permitted
      <4>3. QED
        BY <4>1, <4>2
    <3>3. CASE ~Waits(t)
      BY <2>3, <3>3
    <3>4. QED
      BY <3>1, <3>2, <3>3 DEF Waits
  <2>4. QED
    BY <2>1, <2>2, <2>3 DEF NobodyWaitsInACircle
<1>2. QED
  BY <1>1, RegistryInvariant, PTL

\* acquire_engine and release_engine go forward only, whatever fails: with
\* WaitsAreNotCircular, calls end once no new ones start.
THEOREM CallsGoForward == Spec => EveryStepIsProgress
<1> DEFINE Forward ==
      \E t \in Threads :
        /\ \/ Starts(t)
           \/ StepsLeft(pc'[t]) < StepsLeft(pc[t])
        /\ \A u \in Threads \ {t} : pc'[u] = pc[u]
<1>1. Inv /\ [Next]_vars => [Forward]_vars
  <2> SUFFICES ASSUME Inv, Next PROVE Forward
    BY Zenon
  <2>0. pc \in [Threads -> States]
    BY DEF Inv, TypeOK
  <2>1. PICK t \in Threads : Starts(t) \/ Acquire(t) \/ Release(t)
    BY DEF Next
  <2>2. PICK s : Goes(t, s)
    BY <2>1 DEF Starts, BeginEvicting, Begin, Acquire, TakePermit, Reuse, StartBuild,
       Built, StartUncachedBuild, BuiltUncached, BuildFails, RefundPermit,
       Release, WorkEnds, ReturnLease, ReturnPermit
  <2>3. \A u \in Threads \ {t} : pc'[u] = pc[u]
    BY <2>0, <2>2 DEF Goes
  <2>4. CASE Starts(t)
    BY <2>3, <2>4
  <2>5. CASE Acquire(t) \/ Release(t)
    <3>1. \/ pc[t] = "waiting" /\ pc'[t] = "permitted"
          \/ pc[t] = "permitted" /\ pc'[t] \in {"working", "building", "building_uncached"}
          \/ pc[t] \in {"building", "building_uncached"} /\ pc'[t] \in {"working", "refunding"}
          \/ pc[t] = "working" /\ pc'[t] \in {"succeeded", "failed"}
          \/ pc[t] \in {"succeeded", "failed"} /\ pc'[t] = "returning"
          \/ pc[t] \in {"refunding", "returning"} /\ pc'[t] = "idle"
      BY <2>0, <2>5 DEF Acquire, TakePermit, Reuse, StartBuild, Built, Goes,
         StartUncachedBuild, BuiltUncached, BuildFails, RefundPermit,
         Release, WorkEnds, ReturnLease, ReturnPermit
    <3>2. StepsLeft(pc'[t]) < StepsLeft(pc[t])
      BY <3>1 DEF StepsLeft
    <3>3. QED
      BY <2>3, <3>2
  <2>6. QED
    BY <2>1, <2>4, <2>5
<1>2. QED
  BY <1>1, RegistryInvariant, PTL DEF Spec, EveryStepIsProgress
=============================================================================

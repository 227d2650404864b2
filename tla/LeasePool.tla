----------------------------- MODULE LeasePool -----------------------------
(***************************************************************************)
(* What the engine registry promises the parser, with nothing of how it    *)
(* keeps the promise (docs/docling-engine-lifecycle.md:94-95, "Queued      *)
(* parsing leases one converter per active job instead of making           *)
(* concurrent calls against the same converter"):                          *)
(*   - a thread works on a converter of the kind it asked for, and on one  *)
(*     that no other thread has;                                           *)
(*   - at most Permits threads have a converter at a time;                 *)
(*   - a converter goes back on the shelf only after work that succeeded.  *)
(* EnginePool is shown to implement this specification.                    *)
(***************************************************************************)
EXTENDS Naturals, FiniteSets

CONSTANTS Threads, Converters, Kinds, Permits, NoLease

VARIABLES
  lease,    \* <<kind, converter>> for a thread that has one, or NoLease
  ready,    \* the <<kind, converter>> pairs that wait for the next thread
  spoiled   \* the threads whose converter failed at its work

lpvars == <<lease, ready, spoiled>>

Leasing == {t \in Threads : lease[t] # NoLease}
InUse == {lease[t] : t \in Leasing} \union ready

LPInit ==
  /\ lease = [t \in Threads |-> NoLease]
  /\ ready = {}
  /\ spoiled = {}

MayLease(t) == lease[t] = NoLease /\ Cardinality(Leasing) < Permits

LeaseReady(t) ==
  /\ MayLease(t)
  /\ \E p \in ready :
       /\ lease' = [lease EXCEPT ![t] = p]
       /\ ready' = ready \ {p}
  /\ UNCHANGED spoiled

LeaseNew(t) ==
  /\ MayLease(t)
  /\ \E k \in Kinds, c \in Converters :
       /\ \A kind \in Kinds : <<kind, c>> \notin InUse
       /\ lease' = [lease EXCEPT ![t] = <<k, c>>]
  /\ UNCHANGED <<ready, spoiled>>

Spoil(t) ==
  /\ lease[t] # NoLease
  /\ spoiled' = spoiled \union {t}
  /\ UNCHANGED <<lease, ready>>

GiveBack(t) ==
  /\ lease[t] # NoLease
  /\ t \notin spoiled
  /\ ready' = ready \union {lease[t]}
  /\ lease' = [lease EXCEPT ![t] = NoLease]
  /\ UNCHANGED spoiled

Dispose(t) ==
  /\ lease[t] # NoLease
  /\ lease' = [lease EXCEPT ![t] = NoLease]
  /\ spoiled' = spoiled \ {t}
  /\ UNCHANGED ready

Drop ==
  /\ ready' \in SUBSET ready
  /\ UNCHANGED <<lease, spoiled>>

LPNext ==
  \/ \E t \in Threads :
       LeaseReady(t) \/ LeaseNew(t) \/ Spoil(t) \/ GiveBack(t) \/ Dispose(t)
  \/ Drop

LPSpec == LPInit /\ [][LPNext]_lpvars
=============================================================================

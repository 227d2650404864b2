-------------------------- MODULE IngestionProofs ---------------------------
(***************************************************************************)
(* Theorems about the settings' editors and about Ingestion as a whole.    *)
(*                                                                         *)
(* The stored overrides always construct, for any editors and edits,       *)
(* because each write of an accepted update is one that no other can spoil *)
(* (every validator looks at one field only), and an update that writes    *)
(* alone is stored whole.  A step of Ingestion is a step of the editors or *)
(* leaves the settings alone.                                              *)
(*                                                                         *)
(* create_run_for_job reads the greatest attempt number and inserts        *)
(* afterwards.  As long as no two calls of a document have read before one *)
(* of them inserts, numbers follow the order of the inserts, and go on     *)
(* doing so when a removal deletes the greatest and its number is given    *)
(* again.                                                                  *)
(*                                                                         *)
(* A call keeps the overrides and the request it was accepted with, its    *)
(* worker the file the call read, so what refuses the parse refused the    *)
(* request, too.                                                           *)
(***************************************************************************)
EXTENDS IngestionFileProofs, SequenceTheorems

-----------------------------------------------------------------------------
(* The settings' editors                                                   *)

(* No setting with other spellings may be None.                            *)
LEMMA SpellingsAreNotOptional == DOMAIN Spellings \intersect Optional = {}
BY DEF Spellings, Optional, OptionalText, OptionalPositive

(* What a validator returns, it leaves as it is when it sees it again.     *)
LEMMA CanonicalTwice ==
  ASSUME NEW f, NEW v
  PROVE  Canonical(f, Canonical(f, v)) = Canonical(f, v)
<1> DEFINE respelled == f \in DOMAIN Spellings /\ v # Garbage /\ v \in DOMAIN Spellings[f]
<1>1. CASE respelled
  <2>1. Spellings[f][v] \notin DOMAIN Spellings[f]
    <3>1. f \in {"chunking_strategy", "docling_remote_llm_provider", "embedding_elastic_mapping_version"}
      BY <1>1 DEF Spellings
    <3>2. CASE f = "chunking_strategy"
      BY <1>1, <3>2 DEF Spellings
    <3>3. CASE f = "docling_remote_llm_provider"
      BY <1>1, <3>3 DEF Spellings
    <3>4. CASE f = "embedding_elastic_mapping_version"
      BY <1>1, <3>4 DEF Spellings
    <3> QED BY <3>1, <3>2, <3>3, <3>4
  <2> QED BY <1>1, <2>1, SpellingsAreNotOptional DEF Canonical
<1>2. CASE ~respelled
  BY <1>2, SpellingsAreNotOptional DEF Canonical
<1> QED BY <1>1, <1>2

-----------------------------------------------------------------------------
(* The deletions and the values an update may write.                       *)
WritesOf(e) ==
  {<<k>> : k \in ResetKeys(e)}
  \union {<<e.values[i][1], Canonical(e.values[i][1], e.values[i][2])>> : i \in DOMAIN e.values}

(* A write that leaves overrides from which Settings construct.            *)
Safe(w) ==
  /\ w[1] \in Fields \ BootTime
  /\ Len(w) # 1 => Acceptable(w[1], Canonical(w[1], w[2]))

(* Every edit is a request that IngestorSettingsUpdate accepts.            *)
EditsAreUpdates == \A e \in Editors : edit[e] # None => IsUpdate(edit[e])

PhasesAreRecords ==
  phase = [e \in Editors |-> [at |-> phase[e].at, left |-> phase[e].left]]

(* What an update has left to write is from its edit, and safe.            *)
WritesAreSafe ==
  \A e \in Editors :
    IF edit[e] = None THEN phase[e].left = <<>>
    ELSE /\ phase[e].left \in Seq(WritesOf(edit[e]))
         /\ phase[e].left # <<>> => \A w \in WritesOf(edit[e]) : Safe(w)

StoredIsSound == StoredSettingsConstruct /\ DOMAIN stored \subseteq Fields

(* The inductive invariant of the editors.                                 *)
SettingsInv ==
  EditsAreUpdates /\ PhasesAreRecords /\ WritesAreSafe /\ StoredIsSound

(* A function on 1..n with values in S is a sequence over S.               *)
LEMMA FunctionIsSeq ==
  ASSUME NEW S, NEW n \in Nat, NEW f, f = [i \in 1..n |-> f[i]], \A i \in 1..n : f[i] \in S
  PROVE  f \in Seq(S)
OBVIOUS

(* The list of writes of an update consists of its deletions and its       *)
(* canonical values.                                                       *)
LEMMA WritesAreWritesOf ==
  ASSUME NEW e, IsUpdate(e)
  PROVE  Writes(e) \in Seq(WritesOf(e))
<1> DEFINE deletes == [i \in DOMAIN e.resets |-> <<e.resets[i]>>]
           sets == [i \in DOMAIN e.values |-> <<e.values[i][1], Canonical(e.values[i][1], e.values[i][2])>>]
<1>1. deletes \in Seq(WritesOf(e))
  <2>1. DOMAIN e.resets = 1..Len(e.resets) /\ Len(e.resets) \in Nat
    BY DEF IsUpdate
  <2>2. \A i \in DOMAIN e.resets : <<e.resets[i]>> \in WritesOf(e)
    BY DEF WritesOf, ResetKeys
  <2> QED BY <2>1, <2>2
<1>2. sets \in Seq(WritesOf(e))
  <2>1. DOMAIN e.values = 1..Len(e.values) /\ Len(e.values) \in Nat
    BY DEF IsUpdate
  <2>2. \A i \in DOMAIN e.values : sets[i] \in WritesOf(e)
    BY DEF WritesOf
  <2>3. sets = [i \in 1..Len(e.values) |-> sets[i]]
    BY <2>1
  <2> HIDE DEF sets
  <2> QED BY <2>1, <2>2, <2>3, FunctionIsSeq
<1> HIDE DEF deletes, sets
<1>3. Writes(e) = deletes \o sets
  BY DEF Writes, deletes, sets
<1> QED BY <1>1, <1>2, <1>3, ConcatProperties

(* An update whose keys are allowed and whose merged overrides construct   *)
(* has safe writes only.                                                   *)
LEMMA AcceptedWritesAreSafe ==
  ASSUME NEW e, IsUpdate(e), KeysAllowed(e), NEW overrides,
         Constructs(Merged(overrides, e)), NEW w \in WritesOf(e)
  PROVE  Safe(w)
<1>1. CASE w \in {<<k>> : k \in ResetKeys(e)}
  BY <1>1 DEF KeysAllowed, Safe
<1>2. ASSUME NEW i \in DOMAIN e.values,
             w = <<e.values[i][1], Canonical(e.values[i][1], e.values[i][2])>>
      PROVE  Safe(w)
  <2> DEFINE k == e.values[i][1]
  <2>1. k \in KeysOf(e.values)
    BY DEF KeysOf
  <2>2. k \in Fields \ BootTime
    BY <2>1 DEF KeysAllowed, SetKeys
  <2>3. k \in DOMAIN Merged(overrides, e) /\ Merged(overrides, e)[k] = e.values[i][2]
    <3>1. (CHOOSE j \in DOMAIN e.values : e.values[j][1] = k) = i
      BY DEF IsUpdate
    <3> QED BY <2>1, <3>1 DEF Merged, With
  <2>4. Acceptable(k, Canonical(k, e.values[i][2]))
    BY <2>3 DEF Constructs
  <2> QED BY <1>2, <2>2, <2>4, CanonicalTwice DEF Safe
<1> QED BY <1>1, <1>2 DEF WritesOf

(* A safe write alone: what the table has of its key afterwards, and of    *)
(* every other.                                                            *)
LEMMA OneWrite ==
  ASSUME NEW w, NEW table
  PROVE  /\ Len(w) = 1 => DOMAIN Written(table, w) = DOMAIN table \ {w[1]}
         /\ Len(w) # 1 => /\ DOMAIN Written(table, w) = DOMAIN table \union {w[1]}
                         /\ Written(table, w)[w[1]] = w[2]
         /\ \A f \in DOMAIN table \ {w[1]} : Written(table, w)[f] = table[f]
<1>1. CASE Len(w) = 1
  BY <1>1 DEF Written, Without
<1>2. CASE Len(w) # 1
  <2>1. KeysOf(<<w>>) = {w[1]}
    BY DEF KeysOf
  <2>2. (CHOOSE i \in DOMAIN <<w>> : <<w>>[i][1] = w[1]) = 1
    OBVIOUS
  <2> QED BY <1>2, <2>1, <2>2 DEF Written, With
<1> QED BY <1>1, <1>2

(* Settings construct from a table after a safe write, in any order with   *)
(* others.                                                                 *)
LEMMA WriteKeepsConstructing ==
  ASSUME NEW w, Safe(w), StoredIsSound,
         stored' = Written(stored, w)
  PROVE  StoredIsSound'
<1> DEFINE after == Written(stored, w)
<1>1. /\ Len(w) = 1 => DOMAIN after = DOMAIN stored \ {w[1]}
      /\ Len(w) # 1 => DOMAIN after = DOMAIN stored \union {w[1]} /\ after[w[1]] = w[2]
      /\ \A f \in DOMAIN stored \ {w[1]} : after[f] = stored[f]
  BY OneWrite
<1>2. stored' = after
  OBVIOUS
<1> HIDE DEF after
<1>3. Constructs(after)
  <2> SUFFICES ASSUME NEW f \in DOMAIN after PROVE Acceptable(f, Canonical(f, after[f]))
    BY DEF Constructs
  <2>1. CASE f = w[1]
    BY <1>1, <2>1 DEF Safe
  <2>2. CASE f # w[1]
    BY <1>1, <2>2 DEF StoredIsSound, StoredSettingsConstruct, Constructs
  <2> QED BY <2>1, <2>2
<1>4. DOMAIN after \intersect BootTime = {} /\ DOMAIN after \subseteq Fields
  BY <1>1 DEF StoredIsSound, StoredSettingsConstruct, Safe
<1> QED BY <1>2, <1>3, <1>4 DEF StoredIsSound, StoredSettingsConstruct

(* The invariant holds of the empty table.                                 *)
LEMMA SettingsInvStarts ==
  ASSUME NEW edits, \A e \in Editors : edits[e] # None => IsUpdate(edits[e]), SettingsInit(edits)
  PROVE  SettingsInv
<1>1. EditsAreUpdates /\ PhasesAreRecords
  BY DEF SettingsInit, EditsAreUpdates, PhasesAreRecords
<1>2. WritesAreSafe
  <2> SUFFICES ASSUME NEW e \in Editors, edit[e] # None
               PROVE  phase[e].left \in Seq(WritesOf(edit[e])) /\ phase[e].left = <<>>
    BY DEF SettingsInit, WritesAreSafe
  <2>1. phase[e].left = <<>>
    BY DEF SettingsInit
  <2> QED BY <2>1, EmptySeq
<1>3. StoredIsSound
  BY DEF SettingsInit, StoredIsSound, StoredSettingsConstruct, Constructs
<1> QED BY <1>1, <1>2, <1>3 DEF SettingsInv

(* Every step of an editor keeps it: a check, a write, the answer.         *)
LEMMA SettingsInvStays ==
  ASSUME SettingsInv, [SettingsNext]_settingsVars
  PROVE  SettingsInv'
<1> USE DEF SettingsInv
<1>1. ASSUME NEW e \in Editors, Validate(e)
      PROVE  SettingsInv'
  <2>1. EditsAreUpdates' /\ StoredIsSound'
    BY <1>1 DEF Validate, EditsAreUpdates, StoredIsSound, StoredSettingsConstruct
  <2>2. PhasesAreRecords'
    BY <1>1 DEF Validate, PhasesAreRecords
  <2>3. WritesAreSafe'
    <3>1. CASE KeysAllowed(edit[e]) /\ Constructs(Merged(stored, edit[e]))
      <4>1. Writes(edit[e]) \in Seq(WritesOf(edit[e]))
        BY <1>1, WritesAreWritesOf DEF Validate, EditsAreUpdates
      <4>2. \A w \in WritesOf(edit[e]) : Safe(w)
        BY <1>1, <3>1, AcceptedWritesAreSafe DEF Validate, EditsAreUpdates
      <4>3. phase' = [phase EXCEPT ![e] = [at |-> "writing", left |-> Writes(edit[e])]]
        BY <1>1, <3>1 DEF Validate
      <4> QED BY <1>1, <4>1, <4>2, <4>3 DEF Validate, WritesAreSafe, PhasesAreRecords
    <3>2. CASE ~(KeysAllowed(edit[e]) /\ Constructs(Merged(stored, edit[e])))
      BY <1>1, <3>2 DEF Validate, WritesAreSafe, PhasesAreRecords
    <3> QED BY <3>1, <3>2
  <2> QED BY <2>1, <2>2, <2>3
<1>2. ASSUME NEW e \in Editors, WriteKey(e)
      PROVE  SettingsInv'
  <2> DEFINE left == phase[e].left
             w == Head(left)
  <2>1. edit[e] # None /\ left \in Seq(WritesOf(edit[e])) /\ left # <<>>
    BY <1>2 DEF WriteKey, WritesAreSafe
  <2>2. w \in WritesOf(edit[e]) /\ Tail(left) \in Seq(WritesOf(edit[e]))
    <3> HIDE DEF left
    <3> QED BY <2>1, HeadTailProperties
  <2>3. Safe(w)
    BY <2>1, <2>2 DEF WritesAreSafe
  <2>4. StoredIsSound'
    BY <1>2, <2>3, WriteKeepsConstructing DEF WriteKey
  <2>5. EditsAreUpdates'
    BY <1>2 DEF WriteKey, EditsAreUpdates
  <2>6. PhasesAreRecords'
    <3> DEFINE tail == Tail(left)
    <3>1. phase' = [phase EXCEPT ![e].left = tail]
      BY <1>2 DEF WriteKey
    <3> HIDE DEF tail
    <3> QED BY <3>1 DEF PhasesAreRecords
  <2>7. WritesAreSafe'
    <3> DEFINE tail == Tail(left)
    <3>1. phase' = [phase EXCEPT ![e].left = tail] /\ edit' = edit
      BY <1>2 DEF WriteKey
    <3> HIDE DEF tail
    <3>2. phase'[e].left = tail /\ \A d \in Editors \ {e} : phase'[d].left = phase[d].left
      BY <3>1 DEF PhasesAreRecords
    <3>3. tail \in Seq(WritesOf(edit[e])) /\ \A x \in WritesOf(edit[e]) : Safe(x)
      BY <2>1, <2>2 DEF tail, WritesAreSafe
    <3> QED BY <2>1, <3>1, <3>2, <3>3 DEF WritesAreSafe
  <2> QED BY <2>4, <2>5, <2>6, <2>7
<1>3. ASSUME NEW e \in Editors, Answer(e)
      PROVE  SettingsInv'
  <2>1. EditsAreUpdates' /\ StoredIsSound'
    BY <1>3 DEF Answer, EditsAreUpdates, StoredIsSound, StoredSettingsConstruct
  <2>2. PhasesAreRecords'
    BY <1>3 DEF Answer, PhasesAreRecords
  <2>3. WritesAreSafe'
    BY <1>3 DEF Answer, WritesAreSafe, PhasesAreRecords
  <2> QED BY <2>1, <2>2, <2>3
<1>4. CASE UNCHANGED settingsVars
  BY <1>4 DEF settingsVars, EditsAreUpdates, PhasesAreRecords, WritesAreSafe, StoredIsSound,
     StoredSettingsConstruct
<1> QED BY <1>1, <1>2, <1>3, <1>4 DEF SettingsNext

-----------------------------------------------------------------------------
(* The table shows this write.                                             *)
Done(w, table) ==
  IF Len(w) = 1 THEN w[1] \notin DOMAIN table
  ELSE w[1] \in DOMAIN table /\ table[w[1]] = w[2]

InOrDone(e) ==
  \A w \in WritesOf(edit[e]) : (\E i \in DOMAIN phase[e].left : phase[e].left[i] = w) \/ Done(w, stored)

(* Of an update that no other overlaps, each write is still to come or stands. *)
AloneWrites ==
  \A e \in Editors : (phase[e].at = "writing" /\ e \notin spoiled) =>
    /\ edit[e] # None /\ KeysAllowed(edit[e])
    /\ \A d \in Editors \ {e} : phase[d].at # "writing"
    /\ InOrDone(e)

(* Every deletion and every value of an update is in its list of writes.   *)
LEMMA EveryWriteIsThere ==
  ASSUME NEW e, IsUpdate(e), NEW w \in WritesOf(e)
  PROVE  \E i \in DOMAIN Writes(e) : Writes(e)[i] = w
<1> DEFINE deletes == [i \in DOMAIN e.resets |-> <<e.resets[i]>>]
           sets == [i \in DOMAIN e.values |-> <<e.values[i][1], Canonical(e.values[i][1], e.values[i][2])>>]
           n == Len(e.resets)
           m == Len(e.values)
<1>1. n \in Nat /\ m \in Nat /\ DOMAIN e.resets = 1..n /\ DOMAIN e.values = 1..m
  BY DEF IsUpdate
<1>2. deletes \in Seq(WritesOf(e)) /\ Len(deletes) = n
  <2>1. \A i \in DOMAIN e.resets : deletes[i] \in WritesOf(e)
    BY DEF WritesOf, ResetKeys
  <2>2. deletes = [i \in 1..n |-> deletes[i]] /\ DOMAIN deletes = 1..n
    BY <1>1
  <2> HIDE DEF deletes, n
  <2>3. deletes \in Seq(WritesOf(e))
    BY <1>1, <2>1, <2>2, FunctionIsSeq
  <2> QED BY <1>1, <2>2, <2>3, LenProperties
<1>3. sets \in Seq(WritesOf(e)) /\ Len(sets) = m
  <2>1. \A i \in DOMAIN e.values : sets[i] \in WritesOf(e)
    BY DEF WritesOf
  <2>2. sets = [i \in 1..m |-> sets[i]] /\ DOMAIN sets = 1..m
    BY <1>1
  <2> HIDE DEF sets, m
  <2>3. sets \in Seq(WritesOf(e))
    BY <1>1, <2>1, <2>2, FunctionIsSeq
  <2> QED BY <1>1, <2>2, <2>3, LenProperties
<1>4. Writes(e) = deletes \o sets
  BY DEF Writes
<1>5. /\ DOMAIN Writes(e) = 1..(n + m)
      /\ \A i \in 1..n : Writes(e)[i] = deletes[i]
      /\ \A i \in 1..m : Writes(e)[n + i] = sets[i]
  <2> HIDE DEF deletes, sets, n, m
  <2>1. /\ Len(deletes \o sets) = n + m
        /\ deletes \o sets \in Seq(WritesOf(e))
        /\ \A i \in 1..(n + m) :
             (deletes \o sets)[i] = IF i <= n THEN deletes[i] ELSE sets[i - n]
    BY <1>1, <1>2, <1>3, ConcatProperties
  <2>2. DOMAIN (deletes \o sets) = 1..(n + m)
    BY <2>1, LenProperties
  <2>3. \A i \in 1..n : i \in 1..(n + m) /\ i <= n
    BY <1>1
  <2>4. \A i \in 1..m : n + i \in 1..(n + m) /\ ~(n + i <= n) /\ (n + i) - n = i
    BY <1>1
  <2> QED BY <1>4, <2>1, <2>2, <2>3, <2>4
<1>6. CASE w \in {<<k>> : k \in ResetKeys(e)}
  <2>1. PICK i \in 1..n : w = deletes[i]
    BY <1>1, <1>6 DEF ResetKeys
  <2> HIDE DEF deletes, sets, n, m
  <2>2. i \in 1..(n + m)
    BY <1>1
  <2> QED BY <1>5, <2>1, <2>2
<1>7. CASE w \notin {<<k>> : k \in ResetKeys(e)}
  <2>1. PICK i \in 1..m : w = sets[i]
    BY <1>1, <1>7 DEF WritesOf
  <2> HIDE DEF deletes, sets, n, m
  <2>2. n + i \in 1..(n + m)
    BY <1>1
  <2> QED BY <1>5, <2>1, <2>2
<1> QED BY <1>6, <1>7

(* An allowed update writes each key once.                                 *)
LEMMA WritesOfOneKey ==
  ASSUME NEW e, IsUpdate(e), KeysAllowed(e), NEW v \in WritesOf(e), NEW w \in WritesOf(e),
         v[1] = w[1]
  PROVE  v = w
<1>1. CASE v \in {<<k>> : k \in ResetKeys(e)} /\ w \in {<<k>> : k \in ResetKeys(e)}
  BY <1>1
<1>2. CASE v \notin {<<k>> : k \in ResetKeys(e)} /\ w \notin {<<k>> : k \in ResetKeys(e)}
  <2>1. PICK i \in DOMAIN e.values :
           v = <<e.values[i][1], Canonical(e.values[i][1], e.values[i][2])>>
    BY <1>2 DEF WritesOf
  <2>2. PICK j \in DOMAIN e.values :
           w = <<e.values[j][1], Canonical(e.values[j][1], e.values[j][2])>>
    BY <1>2 DEF WritesOf
  <2>3. i = j
    BY <2>1, <2>2 DEF IsUpdate
  <2> QED BY <2>1, <2>2, <2>3
<1>3. ASSUME NEW x \in WritesOf(e), x \notin {<<k>> : k \in ResetKeys(e)} PROVE x[1] \in SetKeys(e)
  BY <1>3 DEF WritesOf, SetKeys, KeysOf
<1>4. ASSUME NEW x \in {<<k>> : k \in ResetKeys(e)} PROVE x[1] \in ResetKeys(e)
  OBVIOUS
<1> QED BY <1>1, <1>2, <1>3, <1>4 DEF KeysAllowed

(* Nobody writes in the beginning.                                         *)
LEMMA AloneWritesStart ==
  ASSUME NEW edits, SettingsInit(edits)
  PROVE  AloneWrites
BY DEF SettingsInit, AloneWrites

(* An update that writes alone has, of each of its keys, a write to come   *)
(* or done.                                                                *)
LEMMA AloneWritesStay ==
  ASSUME SettingsInv, AloneWrites, [SettingsNext]_settingsVars
  PROVE  AloneWrites'
<1>1. ASSUME NEW e \in Editors, Validate(e)
      PROVE  AloneWrites'
  <2>1. CASE KeysAllowed(edit[e]) /\ Constructs(Merged(stored, edit[e]))
    <3>1. /\ phase' = [phase EXCEPT ![e] = [at |-> "writing", left |-> Writes(edit[e])]]
          /\ spoiled' = IF Writing = {} THEN spoiled ELSE spoiled \union Writing \union {e}
          /\ edit[e] # None /\ edit' = edit /\ stored' = stored
      BY <1>1, <2>1 DEF Validate
    <3>2. /\ phase'[e] = [at |-> "writing", left |-> Writes(edit[e])]
          /\ \A d \in Editors \ {e} : phase'[d] = phase[d]
      BY <3>1 DEF SettingsInv, PhasesAreRecords
    <3> SUFFICES ASSUME NEW d \in Editors, phase'[d].at = "writing", d \notin spoiled'
                 PROVE  /\ edit'[d] # None /\ KeysAllowed(edit'[d])
                        /\ \A c \in Editors \ {d} : phase'[c].at # "writing"
                        /\ InOrDone(d)'
      BY DEF AloneWrites
    <3>3. d = e /\ Writing = {}
      BY <3>1, <3>2 DEF Writing
    <3>4. \A c \in Editors \ {d} : phase'[c].at # "writing"
      BY <3>2, <3>3 DEF Writing
    <3>5. InOrDone(d)'
      BY <3>1, <3>2, <3>3, EveryWriteIsThere DEF InOrDone, SettingsInv, EditsAreUpdates, WritesOf
    <3> QED BY <2>1, <3>1, <3>3, <3>4, <3>5
  <2>2. CASE ~(KeysAllowed(edit[e]) /\ Constructs(Merged(stored, edit[e])))
    <3>1. /\ phase' = [phase EXCEPT ![e].at = "refused"]
          /\ spoiled' = spoiled /\ edit' = edit /\ stored' = stored
      BY <1>1, <2>2 DEF Validate
    <3>2. /\ phase'[e].at = "refused"
          /\ \A d \in Editors \ {e} : phase'[d] = phase[d]
      BY <3>1 DEF SettingsInv, PhasesAreRecords
    <3> QED BY <3>1, <3>2 DEF AloneWrites, InOrDone, Done
  <2> QED BY <2>1, <2>2
<1>2. ASSUME NEW e \in Editors, WriteKey(e)
      PROVE  AloneWrites'
  <2> DEFINE left == phase[e].left
             w == Head(left)
             tail == Tail(left)
  <2>1. /\ phase[e].at = "writing" /\ left # <<>> /\ edit[e] # None
        /\ left \in Seq(WritesOf(edit[e]))
    BY <1>2 DEF WriteKey, SettingsInv, WritesAreSafe
  <2>2. /\ stored' = Written(stored, w)
        /\ phase' = [phase EXCEPT ![e].left = tail]
        /\ edit' = edit /\ spoiled' = spoiled
    BY <1>2 DEF WriteKey
  <2> HIDE DEF tail
  <2>3. /\ phase'[e].left = tail /\ phase'[e].at = "writing"
        /\ \A d \in Editors \ {e} : phase'[d] = phase[d]
    BY <2>1, <2>2 DEF SettingsInv, PhasesAreRecords
  <2> SUFFICES ASSUME NEW d \in Editors, phase'[d].at = "writing", d \notin spoiled'
               PROVE  /\ edit'[d] # None /\ KeysAllowed(edit'[d])
                      /\ \A c \in Editors \ {d} : phase'[c].at # "writing"
                      /\ InOrDone(d)'
    BY DEF AloneWrites
  <2>4. d = e
    BY <2>1, <2>2, <2>3 DEF AloneWrites
  <2>5. KeysAllowed(edit[e]) /\ InOrDone(e) /\ \A c \in Editors \ {e} : phase[c].at # "writing"
    BY <2>1, <2>2, <2>4 DEF AloneWrites
  <2>6. InOrDone(e)'
    <3> SUFFICES ASSUME NEW v \in WritesOf(edit[e])
                 PROVE  (\E i \in DOMAIN tail : tail[i] = v) \/ Done(v, stored')
      BY <2>2, <2>3 DEF InOrDone, WritesOf
    <3>1. w \in WritesOf(edit[e]) /\ tail \in Seq(WritesOf(edit[e]))
          /\ Len(tail) = Len(left) - 1 /\ \A i \in 1..Len(tail) : tail[i] = left[i + 1]
          /\ Len(left) \in Nat /\ DOMAIN left = 1..Len(left) /\ DOMAIN tail = 1..Len(tail)
          /\ w = left[1]
      <4> HIDE DEF left
      <4> QED BY <2>1, HeadTailProperties, LenProperties DEF tail
    <3> DEFINE after == Written(stored, w)
    <3>0. /\ Len(w) = 1 => DOMAIN after = DOMAIN stored \ {w[1]}
          /\ Len(w) # 1 => DOMAIN after = DOMAIN stored \union {w[1]} /\ after[w[1]] = w[2]
          /\ \A f \in DOMAIN stored \ {w[1]} : after[f] = stored[f]
          /\ stored' = after
      <4> HIDE DEF w
      <4> QED BY <2>2, OneWrite
    <3> HIDE DEF after
    <3>2. Done(w, stored')
      <4> HIDE DEF w
      <4> QED BY <3>0 DEF Done
    <3>3. CASE v = w
      BY <3>2, <3>3
    <3>4. CASE v # w
      <4>1. v[1] # w[1]
        BY <2>1, <2>5, <3>1, <3>4, WritesOfOneKey DEF SettingsInv, EditsAreUpdates
      <4>2. CASE Done(v, stored)
        <5> HIDE DEF w
        <5> QED BY <3>0, <4>1, <4>2 DEF Done
      <4>3. CASE \E i \in DOMAIN left : left[i] = v
        <5>1. PICK i \in DOMAIN left : left[i] = v
          BY <4>3
        <5>2. i # 1
          BY <3>1, <3>4, <5>1
        <5> HIDE DEF left
        <5>3. i - 1 \in DOMAIN tail /\ tail[i - 1] = v
          BY <3>1, <5>1, <5>2
        <5> QED BY <5>3
      <4> QED BY <2>5, <4>2, <4>3 DEF InOrDone
    <3> QED BY <3>3, <3>4
  <2> QED BY <2>1, <2>2, <2>3, <2>4, <2>5, <2>6
<1>3. ASSUME NEW e \in Editors, Answer(e)
      PROVE  AloneWrites'
  <2>1. /\ phase' = [phase EXCEPT ![e].at = "answered"]
        /\ spoiled' = spoiled /\ edit' = edit /\ stored' = stored
    BY <1>3 DEF Answer
  <2>2. /\ phase'[e].at = "answered"
        /\ \A d \in Editors \ {e} : phase'[d] = phase[d]
    BY <2>1 DEF SettingsInv, PhasesAreRecords
  <2> QED BY <2>1, <2>2 DEF AloneWrites, InOrDone, Done
<1>4. CASE UNCHANGED settingsVars
  BY <1>4 DEF settingsVars, AloneWrites, InOrDone, Done
<1> QED BY <1>1, <1>2, <1>3, <1>4 DEF SettingsNext

(* So it is whole when no write is left.                                   *)
LEMMA AloneIsWhole ==
  ASSUME SettingsInv, AloneWrites
  PROVE  UpdatesAreWhole
<1> SUFFICES ASSUME NEW e \in Editors, phase[e].at = "writing", phase[e].left = <<>>, e \notin spoiled
             PROVE  /\ ResetKeys(edit[e]) \intersect DOMAIN stored = {}
                    /\ \A i \in DOMAIN edit[e].values :
                         LET k == edit[e].values[i][1]
                         IN k \in DOMAIN stored /\ stored[k] = Canonical(k, edit[e].values[i][2])
  BY DEF UpdatesAreWhole
<1>1. \A w \in WritesOf(edit[e]) : Done(w, stored)
  BY EmptySeq DEF AloneWrites, InOrDone
<1>2. ASSUME NEW k \in ResetKeys(edit[e]) PROVE k \notin DOMAIN stored
  <2>1. <<k>> \in WritesOf(edit[e])
    BY DEF WritesOf
  <2>2. Done(<<k>>, stored)
    BY <1>1, <2>1
  <2> QED BY <2>2 DEF Done
<1>3. ASSUME NEW i \in DOMAIN edit[e].values
      PROVE  LET k == edit[e].values[i][1]
             IN k \in DOMAIN stored /\ stored[k] = Canonical(k, edit[e].values[i][2])
  <2> DEFINE k == edit[e].values[i][1]
             v == Canonical(k, edit[e].values[i][2])
  <2>1. <<k, v>> \in WritesOf(edit[e])
    BY DEF WritesOf
  <2> HIDE DEF k, v
  <2>2. Done(<<k, v>>, stored)
    BY <1>1, <2>1
  <2>3. k \in DOMAIN stored /\ stored[k] = v
    BY <2>2 DEF Done
  <2> QED BY <2>3 DEF k, v
<1> QED BY <1>2, <1>3

-----------------------------------------------------------------------------
(* Ingestion                                                               *)

(* A step of the service is a step of an editor, or leaves the settings    *)
(* alone.                                                                  *)
LEMMA StepsAreSettingsSteps ==
  ASSUME [Next]_vars
  PROVE  [SettingsNext]_settingsVars
<1>1. CASE Update
  BY <1>1 DEF Update
<1>2. ASSUME NEW j \in Jobs, Call(j)
      PROVE  UNCHANGED settingsVars
  BY <1>2 DEF Call, CheckUpload, StoreUpload, UpsertDocument, ReadDocument, ReadStoragePath,
              SaveJob, ReadAttempt, InsertRun, Enqueue, EnqueueFails, quietWork
<1>3. ASSUME NEW j \in Jobs, Work(j)
      PROVE  UNCHANGED settingsVars
  BY <1>3 DEF Work, Take, Refuse, ConversionFails, Convert, Dispatch, WriteFile, WriteFails,
     WriteBreaks,
              StoredLocal, Complete, workOnly
<1>4. CASE \E j \in Jobs : RemovalStarts(j)
  BY <1>4 DEF RemovalStarts
<1>5. CASE RecoverActiveJobs \/ RemoveArtifacts \/ DeleteRow \/ DaysPass \/ Cleanup
  BY <1>5 DEF RecoverActiveJobs, RemoveArtifacts, DeleteRow, DaysPass, Cleanup, CleanupLists,
     CleanupScans,
              SweepUpload, SweepDir, quietSweep
<1>6. CASE UNCHANGED vars
  BY <1>6 DEF vars
<1> QED BY <1>1, <1>2, <1>3, <1>4, <1>5, <1>6 DEF Next

(* Settings construct from the stored overrides at every moment, however   *)
(* the writes of concurrent IngestorSettingsService.update calls           *)
(* interleave.                                                             *)
THEOREM StoredSettingsAlwaysConstruct == Spec => []StoredSettingsConstruct
<1>1. Init => SettingsInv
  BY SettingsInvStarts, ScenariosAssumption DEF Init
<1>2. SettingsInv /\ [Next]_vars => SettingsInv'
  BY SettingsInvStays, StepsAreSettingsSteps
<1>3. SettingsInv => StoredSettingsConstruct
  BY DEF SettingsInv, StoredIsSound
<1> QED BY <1>1, <1>2, <1>3, PTL DEF Spec

(* An update that no other wrote with is stored whole when it answers, in  *)
(* the midst of everything else the service does.                          *)
THEOREM UpdatesAreAlwaysWhole == Spec => []UpdatesAreWhole
<1>1. Init => SettingsInv /\ AloneWrites
  BY SettingsInvStarts, AloneWritesStart, ScenariosAssumption DEF Init
<1>2. SettingsInv /\ AloneWrites /\ [Next]_vars => (SettingsInv /\ AloneWrites)'
  BY SettingsInvStays, AloneWritesStay, StepsAreSettingsSteps
<1>3. SettingsInv /\ AloneWrites => UpdatesAreWhole
  BY AloneIsWhole
<1> QED BY <1>1, <1>2, <1>3, PTL DEF Spec

Ages == {"none", "new", "old"}

(* A directory is a table of jobs by file, apart from its age. *)
DirIsSound(dir) ==
  /\ dir = [f \in DOMAIN dir |-> dir[f]] /\ "age" \in DOMAIN dir
  /\ \A file \in DOMAIN dir \ {"age"} : dir[file] \in Owners

DirsAreSound ==
  /\ dirs = [c \in Contents |-> dirs[c]]
  /\ \A c \in Contents : dirs[c] # NoDir => DirIsSound(dirs[c])

(* Types of what the invariants of books and files leave out.              *)
PlaceInv ==
  /\ budget \in [Disturbances -> Nat]
  /\ uploads \in [Jobs -> Ages]
  /\ DirsAreSound
  /\ cleanup.active \subseteq Jobs
  /\ removal.job \in Owners

(* A new directory belongs to nobody.                                      *)
LEMMA NewDirIsSound == DirIsSound(NewDir)
BY DEF DirIsSound, NewDir, Owners

(* A directory with one more file.                                         *)
LEMMA WrittenDirIsSound ==
  ASSUME NEW dir, DirIsSound(dir), NEW file, NEW age, NEW j \in Jobs
  PROVE  DirIsSound([dir EXCEPT ![file] = j, !.age = age])
BY DEF DirIsSound, Owners

(* The directory of a document is sound, whether it was there or not, and  *)
(* so it is with the next file of a job.                                   *)
LEMMA NextDirIsSound ==
  ASSUME BookInv, PlaceInv, NEW j \in Jobs, CanWrite(j)
  PROVE  /\ ContentOf(j) \in Contents
         /\ DirIsSound(DirOf(ContentOf(j))) /\ DirIsSound(DirWith(j))
<1>1. ContentOf(j) \in Contents
  BY RequestsHaveContents DEF CanWrite, BookInv, JobIsSound, WorkIsSound, Saved, Inserting
<1>2. DirIsSound(DirOf(ContentOf(j)))
  BY <1>1, NewDirIsSound DEF DirOf, PlaceInv, DirsAreSound
<1>3. PICK file, age : DirWith(j) = [DirOf(ContentOf(j)) EXCEPT ![file] = j, !.age = age]
  BY DEF DirWith
<1>4. DirIsSound([DirOf(ContentOf(j)) EXCEPT ![file] = j, !.age = age])
  BY <1>2, WrittenDirIsSound
<1> QED BY <1>1, <1>2, <1>3, <1>4

(* A directory that grows old.                                             *)
LEMMA AgedDirIsSound ==
  ASSUME NEW dir, DirIsSound(dir), NEW age
  PROVE  DirIsSound([dir EXCEPT !.age = age])
BY DEF DirIsSound

(* Every step leaves directories whose files are some job's.               *)
LEMMA DirsStay ==
  ASSUME BookInv, PlaceInv, [Next]_vars
  PROVE  DirsAreSound'
<1>1. ASSUME NEW j \in Jobs, WriteFile(j) \/ WriteBreaks(j)
      PROVE  DirsAreSound'
  <2> DEFINE c == ContentOf(j)
  <2>1. CanWrite(j)
    BY <1>1 DEF WriteFile, WriteBreaks
  <2>2. PICK dir : dir \in {dirs[c], DirOf(c), DirWith(j)} /\ dirs' = [dirs EXCEPT ![c] = dir]
    BY <1>1 DEF WriteFile, WriteBreaks
  <2>3. c \in Contents /\ (dir # NoDir => DirIsSound(dir))
    BY <2>1, <2>2, NextDirIsSound DEF PlaceInv, DirsAreSound
  <2> HIDE DEF c
  <2> QED BY <2>2, <2>3 DEF PlaceInv, DirsAreSound
<1>2. ASSUME NEW c, dirs' = [dirs EXCEPT ![c] = NoDir]
      PROVE  DirsAreSound'
  BY <1>2 DEF PlaceInv, DirsAreSound
<1>3. CASE DaysPass
  <2>1. dirs' = [c \in Contents |-> IF dirs[c] = NoDir THEN NoDir ELSE [dirs[c] EXCEPT !.age = "old"]]
    BY <1>3 DEF DaysPass
  <2>2. \A c \in Contents : dirs'[c] # NoDir => DirIsSound(dirs'[c])
    BY <2>1, AgedDirIsSound DEF PlaceInv, DirsAreSound
  <2> QED BY <2>1, <2>2 DEF DirsAreSound
<1>4. CASE UNCHANGED dirs
  BY <1>4 DEF PlaceInv, DirsAreSound
<1>5. ASSUME NEW j \in Jobs, Call(j) \/ (Work(j) /\ ~WriteFile(j) /\ ~WriteBreaks(j)) \/ RemovalStarts(j)
      PROVE  UNCHANGED dirs
  BY <1>5 DEF Call, CheckUpload, StoreUpload, UpsertDocument, ReadDocument, ReadStoragePath,
     SaveJob, ReadAttempt, InsertRun, Enqueue, EnqueueFails, quietFiles, Work, Take, Refuse,
     ConversionFails, Convert, Dispatch, WriteFails, StoredLocal, Complete, RemovalStarts
<1>6. CASE Update \/ RecoverActiveJobs \/ RemoveArtifacts \/ DeleteRow \/ Cleanup \/ UNCHANGED vars
  <2>1. UNCHANGED dirs \/ \E c : dirs' = [dirs EXCEPT ![c] = NoDir]
    BY <1>6 DEF Update, RecoverActiveJobs, RemoveArtifacts, DeleteRow, quietFiles, Cleanup,
       CleanupLists, CleanupScans,
       SweepUpload, SweepDir, vars
  <2> QED BY <1>2, <1>4, <2>1
<1> QED BY <1>1, <1>3, <1>4, <1>5, <1>6 DEF Next

(* Every step leaves uploads that are missing, new or old.                 *)
LEMMA UploadsStay ==
  ASSUME PlaceInv, [Next]_vars
  PROVE  uploads' \in [Jobs -> Ages]
<1>1. \/ UNCHANGED uploads
      \/ \E i : \E age \in {"none", "new"} : uploads' = [uploads EXCEPT ![i] = age]
      \/ uploads' = [j \in Jobs |-> IF uploads[j] = "none" THEN "none" ELSE "old"]
  BY ZenonT(60) DEF Next, Update, Call, CheckUpload, StoreUpload, UpsertDocument, ReadDocument,
     ReadStoragePath, SaveJob, ReadAttempt, InsertRun, Enqueue, EnqueueFails, quietFiles, Work,
     Take, Refuse, ConversionFails, Convert, Dispatch, WriteFile, WriteFails, WriteBreaks, StoredLocal,
     Complete, workOnly, RemovalStarts, RecoverActiveJobs, RemoveArtifacts, DeleteRow, Cleanup,
     CleanupLists,
     CleanupScans, SweepUpload, SweepDir, DaysPass, vars
<1> QED BY <1>1 DEF PlaceInv, Ages

(* The bound of the model stays a number.                                  *)
LEMMA BudgetStays ==
  ASSUME PlaceInv, [Next]_vars
  PROVE  budget' \in [Disturbances -> Nat]
<1>1. budget' = budget \/ \E d \in Disturbances : Spends(d)
  BY ZenonT(60) DEF Next, Update, Call, CheckUpload, StoreUpload, UpsertDocument, ReadDocument,
     ReadStoragePath, SaveJob, ReadAttempt, InsertRun, Enqueue, EnqueueFails, Work,
     Take, Refuse, ConversionFails, Convert, Dispatch, WriteFile, WriteFails, WriteBreaks, StoredLocal,
     Complete, RemovalStarts, RecoverActiveJobs, RemoveArtifacts, DeleteRow, Cleanup, CleanupLists,
     CleanupScans, SweepUpload, SweepDir, DaysPass, vars, Disturbances
<1> QED BY <1>1 DEF PlaceInv, Spends

(* Cleanup and removal are about jobs.                                     *)
LEMMA SweepersStay ==
  ASSUME BookInv, FileInv, PlaceInv, [Next]_vars
  PROVE  cleanup'.active \subseteq Jobs /\ removal'.job \in Owners
<1>1. cleanup'.active \subseteq Jobs
  <2>1. \/ UNCHANGED cleanup
        \/ cleanup' = [at |-> "listed", active |-> ActiveJobs, todo |-> {}]
        \/ cleanup' = CleanupOver
        \/ \E todo : cleanup' = Left(todo)
    BY ZenonT(60) DEF Next, Update, Call, CheckUpload, StoreUpload, UpsertDocument, ReadDocument,
       ReadStoragePath, SaveJob, ReadAttempt, InsertRun, Enqueue, EnqueueFails, quietWork, Work,
       Take, Refuse, ConversionFails, Convert, Dispatch, WriteFile, WriteFails, WriteBreaks,
       StoredLocal,
       Complete, workOnly, RemovalStarts, RecoverActiveJobs, RemoveArtifacts, DeleteRow, Cleanup,
       CleanupLists,
       CleanupScans, SweepUpload, SweepDir, DaysPass, vars
  <2>2. ASSUME NEW todo, cleanup' = Left(todo)
        PROVE  cleanup'.active \subseteq Jobs
    BY <2>2 DEF Left, CleanupOver, FileInv, PlaceInv
  <2> QED BY <2>1, <2>2 DEF PlaceInv, CleanupOver, ActiveJobs
<1>2. removal'.job \in Owners
  <2>1. CASE \E j \in Jobs : RemovalStarts(j)
    BY <2>1 DEF RemovalStarts, Owners
  <2>2. CASE RemoveArtifacts
    <3>1. removal' = [removal EXCEPT !.at = "row"]
      BY <2>2 DEF RemoveArtifacts
    <3> QED BY <3>1 DEF PlaceInv, BookInv, Shapes
  <2>3. CASE DeleteRow
    BY <2>3 DEF DeleteRow, Owners
  <2>4. CASE ~((\E j \in Jobs : RemovalStarts(j)) \/ RemoveArtifacts \/ DeleteRow)
    <3>1. UNCHANGED removal
      BY <2>4, ZenonT(60) DEF Next, Update, Call, CheckUpload, StoreUpload, UpsertDocument,
         ReadDocument,
         ReadStoragePath, SaveJob, ReadAttempt, InsertRun, Enqueue, EnqueueFails, quietWork, Work,
         Take, Refuse, ConversionFails, Convert, Dispatch, WriteFile, WriteFails, WriteBreaks,
         StoredLocal,
         Complete, workOnly, RecoverActiveJobs, Cleanup, CleanupLists, CleanupScans, SweepUpload,
         SweepDir, DaysPass,
         quietSweep, vars
    <3> QED BY <3>1 DEF PlaceInv
  <2> QED BY <2>1, <2>2, <2>3, <2>4
<1> QED BY <1>1, <1>2

(* The types of every variable, the bound on a row's failures included, in *)
(* every state.                                                            *)
THEOREM IngestionTypes == Spec => []ITypeOK
<1> DEFINE Inv == SettingsInv /\ BookInv /\ DocsAreStored /\ FileInv /\ PlaceInv
<1>1. Init => Inv
  <2> SUFFICES ASSUME Init PROVE Inv
    OBVIOUS
  <2>1. BookInv /\ DocsAreStored /\ FileInv /\ SettingsInv
    BY BooksStart, FilesStart, SettingsInvStarts, ScenariosAssumption DEF Init
  <2>2. PlaceInv
    <3>1. PICK sc \in Scenarios : budget = sc.disturbances
      BY DEF Init
    <3>2. /\ uploads = [j \in Jobs |-> "none"] /\ dirs = [c \in Contents |-> NoDir]
          /\ cleanup = [at |-> "idle", active |-> {}, todo |-> {}]
          /\ removal = [at |-> "idle", job |-> NoJob, row |-> NoRow]
      BY DEF Init
    <3>3. budget \in [Disturbances -> Nat]
      BY <3>1, ScenariosAssumption
    <3> QED BY <3>2, <3>3 DEF PlaceInv, Ages, DirsAreSound, Owners
  <2> QED BY <2>1, <2>2
<1>2. Inv /\ [Next]_vars => Inv'
  <2> SUFFICES ASSUME Inv, [Next]_vars PROVE Inv'
    OBVIOUS
  <2>1. (BookInv /\ DocsAreStored /\ FileInv /\ SettingsInv)'
    BY BooksStay, FileInvStays, SettingsInvStays, StepsAreSettingsSteps
  <2>2. PlaceInv'
    BY DirsStay, UploadsStay, BudgetStays, SweepersStay DEF PlaceInv
  <2> QED BY <2>1, <2>2
<1>3. Inv => ITypeOK
  <2> SUFFICES ASSUME Inv PROVE ITypeOK
    OBVIOUS
  <2>1. \A j \in Jobs : runs[j] # NoRun => runs[j].doc \in Contents /\ runs[j].status \in Statuses
    BY DEF BookInv, Shapes, Run
  <2>2. \A j \in Jobs : call[j].at \in CallSteps /\ call[j].input \in Owners
                        /\ worker[j].at \in WorkSteps
    BY DEF BookInv, JobIsSound, CallIsSound, WorkIsSound
  <2>3. queue \subseteq Jobs /\ rows \in [Jobs -> Row \union {NoRow}]
    BY DEF BookInv, Shapes
  <2>4. DOMAIN stored \subseteq Fields
    BY DEF SettingsInv, StoredIsSound
  <2>5. \A c \in Contents : dirs[c] # NoDir =>
          \A file \in DOMAIN dirs[c] \ {"age"} : dirs[c][file] \in Owners
    BY DEF PlaceInv, DirsAreSound, DirIsSound
  <2>6. \A j \in Jobs : rows[j] # NoRow => rows[j].failures <= MaxRetries + 1 + past.recoveries
    <3> SUFFICES ASSUME NEW j \in Jobs, rows[j] # NoRow
                 PROVE  rows[j].failures <= MaxRetries + 1 + past.recoveries
      OBVIOUS
    <3>1. Affordable(j, rows[j])
      BY DEF BookInv, JobIsSound, BudgetIsSound
    <3> QED BY <3>1, Counts, RetriesAssumption DEF Affordable
  <2> QED BY <2>1, <2>2, <2>3, <2>4, <2>5, <2>6 DEF ITypeOK, PlaceInv, WorkSteps, Ages
<1> HIDE DEF Inv
<1> QED BY <1>1, <1>2, <1>3, PTL DEF Spec

----------------------------------------------------------------------------
(* Attempt numbers *)

(* The call has read the greatest attempt number and not inserted yet.     *)
Counted(j) == call[j].at = "counted"

(* For a document whose runs were never counted twice at once: attempt     *)
(* numbers grow in the order the runs are made, the number a call holds is *)
(* above all of them, and only one call holds a number.                    *)
OrderInv ==
  /\ \A k \in Jobs : runs[k] # NoRun => runs[k].made <= past.runsMade
  /\ \A k, l \in Jobs :
       (/\ runs[k] # NoRun /\ runs[l] # NoRun
        /\ runs[k].doc = runs[l].doc /\ runs[k].doc \notin past.clashed)
       => (runs[l].made > runs[k].made => runs[l].attempt > runs[k].attempt)
  /\ \A j \in Jobs : (Counted(j) /\ ContentOf(j) \notin past.clashed) =>
       \A k \in RunsOf(ContentOf(j)) : runs[k].attempt < call[j].attempt
  /\ \A j, k \in Jobs :
       (Counted(j) /\ Counted(k) /\ ContentOf(j) = ContentOf(k)
          /\ ContentOf(j) \notin past.clashed) => j = k

(* Steps that insert and count no run keep the order.                      *)
LEMMA OrderKept ==
  ASSUME OrderInv, RunsKept, past'.runsMade = past.runsMade, past.clashed \subseteq past'.clashed,
         \A k \in Jobs : call'[k].at = "counted" => call'[k] = call[k] /\ request'[k] = request[k]
  PROVE  OrderInv'
<1>1. \A k \in Jobs : Counted(k)' => Counted(k) /\ ContentOf(k)' = ContentOf(k)
                                     /\ call'[k].attempt = call[k].attempt
  BY DEF Counted, ContentOf
<1>2. \A k \in Jobs : runs'[k] # NoRun => runs'[k].made <= past'.runsMade
  BY DEF OrderInv, RunsKept
<1>3. \A k, l \in Jobs :
        (/\ runs'[k] # NoRun /\ runs'[l] # NoRun
         /\ runs'[k].doc = runs'[l].doc /\ runs'[k].doc \notin past'.clashed)
        => (runs'[l].made > runs'[k].made => runs'[l].attempt > runs'[k].attempt)
  BY DEF OrderInv, RunsKept
<1>4. \A j \in Jobs : (Counted(j)' /\ ContentOf(j)' \notin past'.clashed) =>
        \A k \in RunsOf(ContentOf(j))' : runs'[k].attempt < call'[j].attempt
  <2> SUFFICES ASSUME NEW j \in Jobs, Counted(j)', ContentOf(j)' \notin past'.clashed,
                      NEW k \in RunsOf(ContentOf(j))'
               PROVE  runs'[k].attempt < call'[j].attempt
    OBVIOUS
  <2>1. k \in RunsOf(ContentOf(j)) /\ runs'[k].attempt = runs[k].attempt
    BY <1>1 DEF RunsOf, RunsKept
  <2> QED BY <1>1, <2>1 DEF OrderInv
<1>5. \A j, k \in Jobs :
        (Counted(j)' /\ Counted(k)' /\ ContentOf(j)' = ContentOf(k)'
           /\ ContentOf(j)' \notin past'.clashed) => j = k
  BY <1>1 DEF OrderInv
<1> QED BY <1>2, <1>3, <1>4, <1>5 DEF OrderInv

(* save adds no run.                                                       *)
LEMMA SavingKeepsRuns ==
  ASSUME BookInv, NEW j \in Jobs, NEW row, Save(j, row)
  PROVE  RunsKept
<1>1. CASE runs[j] = NoRun
  BY <1>1 DEF Save, RunSnapshot, RunsKept
<1>2. CASE runs[j] # NoRun
  <2> DEFINE run == [runs[j] EXCEPT !.status = row.status]
  <2>1. run.doc = runs[j].doc /\ run.made = runs[j].made /\ run.attempt = runs[j].attempt
    BY <1>2 DEF BookInv, Shapes, Run
  <2>2. runs' = [runs EXCEPT ![j] = run]
    BY <1>2 DEF Save, RunSnapshot
  <2> HIDE DEF run
  <2> QED BY <1>2, <2>1, <2>2 DEF BookInv, Shapes, RunsKept
<1> QED BY <1>1, <1>2

(* Neither does a step that leaves them alone.                             *)
LEMMA RunsUnchanged == ASSUME UNCHANGED runs PROVE RunsKept
BY DEF RunsKept

(* What the steps of a call other than the two of create_run_for_job do.   *)
LEMMA OtherCallsKeepOrder ==
  ASSUME BookInv, OrderInv, NEW j \in Jobs, Call(j), ~ReadAttempt(j), ~InsertRun(j)
  PROVE  OrderInv'
<1>1. RunsKept
  <2>1. UNCHANGED runs \/ \E row : Save(j, row)
    BY DEF Call, CheckUpload, StoreUpload, UpsertDocument, ReadDocument, ReadStoragePath, SaveJob,
       Enqueue, EnqueueFails, Reject, quietFiles
  <2> QED BY <2>1, SavingKeepsRuns, RunsUnchanged
<1>2. UNCHANGED past /\ \A k \in Jobs \ {j} : call'[k] = call[k] /\ request'[k] = request[k]
  BY DEF Call, CheckUpload, StoreUpload, UpsertDocument, ReadDocument, ReadStoragePath, SaveJob,
     Enqueue, EnqueueFails, Reject, quietFiles, quietWork, BookInv, Shapes
<1>3. call'[j].at # "counted"
  BY DEF Call, CheckUpload, StoreUpload, UpsertDocument, ReadDocument, ReadStoragePath, SaveJob,
     Enqueue, EnqueueFails, Reject, CallAt, BookInv, Shapes
<1> QED BY <1>1, <1>2, <1>3, OrderKept

(* Counting keeps the order: the number is above all, and a second one who *)
(* counts makes the document clashed.                                      *)
LEMMA ReadAttemptKeepsOrder ==
  ASSUME BookInv, OrderInv, NEW j \in Jobs, ReadAttempt(j)
  PROVE  OrderInv'
<1> DEFINE c == ContentOf(j)
           next == NextAttempt(c)
           clashes == IF \E k \in Jobs : Counted(k) /\ ContentOf(k) = c
                      THEN past.clashed \union {c} ELSE past.clashed
<1>0. /\ past' = [past EXCEPT !.clashed = clashes]
      /\ call' = [call EXCEPT ![j] = CallAt("counted", call[j].seen, call[j].input, next)]
      /\ UNCHANGED <<runs, request>>
  BY DEF ReadAttempt, Counted, quietWork
<1>1. \A k \in RunsOf(c) : runs[k].attempt < next
  BY NextAttemptIsNumber
<1> HIDE DEF next
<1>2. past'.runsMade = past.runsMade /\ past'.clashed = clashes
  <2> HIDE DEF clashes
  <2> QED BY <1>0 DEF BookInv, Shapes, IsPast
<1>3. call'[j].attempt = next /\ \A k \in Jobs \ {j} : call'[k] = call[k]
  BY <1>0 DEF BookInv, Shapes, CallAt
<1>4. \A k \in Jobs : ContentOf(k)' = ContentOf(k) /\ (k # j /\ Counted(k)' => Counted(k))
  BY <1>0, <1>3 DEF ContentOf, Counted
<1>5. \A k \in Jobs : RunsOf(ContentOf(k))' = RunsOf(ContentOf(k))
  BY <1>0, <1>4 DEF RunsOf
<1>6. \A i \in Jobs : (Counted(i)' /\ ContentOf(i)' \notin past'.clashed) =>
        \A k \in RunsOf(ContentOf(i))' : runs'[k].attempt < call'[i].attempt
  BY <1>0, <1>1, <1>2, <1>3, <1>4, <1>5 DEF OrderInv
<1>7. \A i, k \in Jobs :
        (Counted(i)' /\ Counted(k)' /\ ContentOf(i)' = ContentOf(k)'
           /\ ContentOf(i)' \notin past'.clashed) => i = k
  BY <1>2, <1>4 DEF OrderInv
<1>8. \A k \in Jobs : runs'[k] # NoRun => runs'[k].made <= past'.runsMade
  BY <1>0, <1>2 DEF OrderInv
<1>9. past.clashed \subseteq past'.clashed
  BY <1>2
<1>10. \A k, l \in Jobs :
         (/\ runs'[k] # NoRun /\ runs'[l] # NoRun
          /\ runs'[k].doc = runs'[l].doc /\ runs'[k].doc \notin past'.clashed)
         => (runs'[l].made > runs'[k].made => runs'[l].attempt > runs'[k].attempt)
  BY <1>0, <1>9 DEF OrderInv
<1> QED BY <1>6, <1>7, <1>8, <1>10 DEF OrderInv

(* Inserting keeps it: the newest run gets the greatest number.            *)
LEMMA InsertRunKeepsOrder ==
  ASSUME BookInv, OrderInv, NEW j \in Jobs, InsertRun(j)
  PROVE  OrderInv'
<1> DEFINE c == ContentOf(j)
           run == [doc |-> c, attempt |-> call[j].attempt,
                   status |-> "PARSER_QUEUED", made |-> past.runsMade + 1]
<1>0. /\ Counted(j) /\ runs' = [runs EXCEPT ![j] = run]
      /\ past' = [past EXCEPT !.runsMade = @ + 1]
      /\ call' = [call EXCEPT ![j].at = "created"] /\ UNCHANGED request
  BY DEF InsertRun, quietWork, Counted
<1>1. run.doc = c /\ run.attempt = call[j].attempt /\ run.made = past.runsMade + 1
  OBVIOUS
<1> HIDE DEF run
<1>2. runs'[j] = run /\ \A k \in Jobs \ {j} : runs'[k] = runs[k]
  BY <1>0 DEF BookInv, Shapes
<1>3. past'.runsMade = past.runsMade + 1 /\ past'.clashed = past.clashed
  BY <1>0 DEF BookInv, Shapes, IsPast
<1>4. ~Counted(j)' /\ \A k \in Jobs \ {j} : call'[k] = call[k]
  BY <1>0 DEF BookInv, Shapes, Counted
<1>5. \A k \in Jobs : /\ ContentOf(k)' = ContentOf(k)
                      /\ Counted(k)' => Counted(k) /\ k # j /\ call'[k] = call[k]
  BY <1>0, <1>4 DEF ContentOf, Counted
<1>6. past.runsMade \in Nat /\ \A k \in Jobs : runs[k] # NoRun => runs[k].made \in Nat
  BY DEF BookInv, Shapes, Run
<1>7. \A k \in Jobs : runs'[k] # NoRun => runs'[k].made <= past'.runsMade
  BY <1>1, <1>2, <1>3, <1>6 DEF OrderInv
<1>8. ASSUME NEW k \in Jobs, NEW l \in Jobs, runs'[k] # NoRun, runs'[l] # NoRun,
             runs'[k].doc = runs'[l].doc, runs'[k].doc \notin past'.clashed,
             runs'[l].made > runs'[k].made
      PROVE  runs'[l].attempt > runs'[k].attempt
  <2>1. k # j
    <3> SUFFICES ASSUME k = j PROVE FALSE
      OBVIOUS
    <3>1. l # j
      BY <1>1, <1>2, <1>6, <1>8
    <3> QED BY <1>1, <1>2, <1>6, <1>8, <3>1 DEF OrderInv
  <2>2. CASE l = j
    <3>1. k \in RunsOf(c) /\ c \notin past.clashed
      BY <1>1, <1>2, <1>3, <1>8, <2>1, <2>2 DEF RunsOf
    <3>2. runs[k].attempt < call[j].attempt
      BY <1>0, <3>1 DEF OrderInv
    <3> QED BY <1>1, <1>2, <2>1, <2>2, <3>2
  <2>3. CASE l # j
    BY <1>2, <1>3, <1>8, <2>1, <2>3 DEF OrderInv
  <2> QED BY <2>2, <2>3
<1>9. ASSUME NEW i \in Jobs, Counted(i)', ContentOf(i)' \notin past'.clashed,
             NEW k \in RunsOf(ContentOf(i))'
      PROVE  runs'[k].attempt < call'[i].attempt
  <2>1. Counted(i) /\ i # j /\ ContentOf(i) \notin past.clashed /\ call'[i] = call[i]
    BY <1>3, <1>5, <1>9
  <2>2. ContentOf(i) # c
    BY <1>0, <2>1 DEF OrderInv
  <2>3. k \in Jobs /\ runs'[k] # NoRun /\ runs'[k].doc = ContentOf(i)
    BY <1>5, <1>9 DEF RunsOf
  <2>4. k # j
    BY <1>1, <1>2, <2>2, <2>3
  <2>5. k \in RunsOf(ContentOf(i))
    BY <1>2, <2>3, <2>4 DEF RunsOf
  <2>6. runs[k].attempt < call[i].attempt
    BY <2>1, <2>5 DEF OrderInv
  <2> QED BY <1>2, <2>1, <2>3, <2>4, <2>6
<1>10. \A i, k \in Jobs :
        (Counted(i)' /\ Counted(k)' /\ ContentOf(i)' = ContentOf(k)'
           /\ ContentOf(i)' \notin past'.clashed) => i = k
  BY <1>3, <1>5 DEF OrderInv
<1> QED BY <1>7, <1>8, <1>9, <1>10 DEF OrderInv

(* The workers keep it.                                                    *)
LEMMA WorkKeepsOrder ==
  ASSUME BookInv, OrderInv, NEW j \in Jobs, Work(j)
  PROVE  OrderInv'
<1>1. RunsKept
  <2>1. UNCHANGED runs \/ \E row : Save(j, row)
    BY DEF Work, Take, Refuse, ConversionFails, Convert, RetryOrFail, Dispatch, WriteFile,
       DispatchFails, WriteFails, WriteBreaks, StoredLocal, Complete
  <2> QED BY <2>1, SavingKeepsRuns, RunsUnchanged
<1>2. UNCHANGED <<call, request>>
  BY DEF Work, Take, Refuse, ConversionFails, Convert, Dispatch, WriteFile, WriteFails, WriteBreaks,
     StoredLocal, Complete, workOnly
<1>3. past'.runsMade = past.runsMade /\ past'.clashed = past.clashed
  <2>1. \/ UNCHANGED past
        \/ \E mixed : past' = [past EXCEPT !.mixed = mixed]
        \/ \E overtaken : past' = [past EXCEPT !.overtaken = overtaken]
        \/ \E reason : RetryOrFail(j, reason)
    BY DEF Work, Take, Refuse, ConversionFails, Convert, Dispatch, WriteFile, WriteFails, WriteBreaks,
       StoredLocal, Complete
  <2>2. CASE \E reason : RetryOrFail(j, reason)
    BY <2>2 DEF RetryOrFail, BookInv, Shapes, IsPast
  <2> QED BY <2>1, <2>2 DEF BookInv, Shapes, IsPast
<1> QED BY <1>1, <1>2, <1>3, OrderKept

(* Every step keeps it, the removal of runs in any order included.         *)
LEMMA OrderStays ==
  ASSUME BookInv, OrderInv, [Next]_vars
  PROVE  OrderInv'
<1>1. ASSUME NEW j \in Jobs, Call(j)
      PROVE  OrderInv'
  BY <1>1, OtherCallsKeepOrder, ReadAttemptKeepsOrder, InsertRunKeepsOrder
<1>2. ASSUME NEW j \in Jobs, Work(j)
      PROVE  OrderInv'
  BY <1>2, WorkKeepsOrder
<1>3. CASE \E j \in Jobs : RemovalStarts(j)
  <2>1. UNCHANGED <<call, request, runs>> /\ \E mixed : past' = [past EXCEPT !.mixed = mixed]
    BY <1>3 DEF RemovalStarts
  <2>2. past'.runsMade = past.runsMade /\ past'.clashed = past.clashed
    BY <2>1 DEF BookInv, Shapes, IsPast
  <2> QED BY <2>1, <2>2, RunsUnchanged, OrderKept
<1>4. CASE DeleteRow
  <2>1. /\ UNCHANGED <<call, request>>
        /\ \E removed, early : past' = [past EXCEPT !.removed = removed, !.early = early]
    BY <1>4 DEF DeleteRow
  <2>2. past'.runsMade = past.runsMade /\ past'.clashed = past.clashed
    BY <2>1 DEF BookInv, Shapes, IsPast
  <2>3. RunsKept
    BY <1>4 DEF DeleteRow, RunsWithout, RunsKept, BookInv, Shapes
  <2> QED BY <2>1, <2>2, <2>3, OrderKept
<1>5. CASE RecoverActiveJobs
  <2>1. /\ UNCHANGED <<call, request, runs>>
        /\ \E recoveries, recovered :
             past' = [past EXCEPT !.recoveries = recoveries, !.recovered = recovered]
    BY <1>5 DEF RecoverActiveJobs
  <2>2. past'.runsMade = past.runsMade /\ past'.clashed = past.clashed
    BY <2>1 DEF BookInv, Shapes, IsPast
  <2> QED BY <2>1, <2>2, RunsUnchanged, OrderKept
<1>6. CASE RemoveArtifacts \/ Update \/ Cleanup \/ DaysPass \/ UNCHANGED vars
  <2>1. UNCHANGED <<call, request, runs, past>>
    BY <1>6 DEF RemoveArtifacts, Update, Cleanup, CleanupLists, CleanupScans, SweepUpload, SweepDir,
       DaysPass, quietSweep, vars
  <2> QED BY <2>1, RunsUnchanged, OrderKept
<1> QED BY <1>1, <1>2, <1>3, <1>4, <1>5, <1>6 DEF Next

(* get_document and list_documents show the run made last, the one with    *)
(* the greatest attempt number, unless two calls of create_run_for_job had *)
(* read the maximum at once.                                               *)
THEOREM LatestRunIsAlwaysNewest == Spec => []LatestRunIsNewest
<1>1. Init => BookInv /\ DocsAreStored /\ OrderInv
  <2> SUFFICES ASSUME Init PROVE OrderInv
    BY BooksStart
  <2>1. \A k \in Jobs : runs[k] = NoRun /\ ~Counted(k)
    BY DEF Init, Counted, CallAt
  <2> QED BY <2>1 DEF OrderInv
<1>2. BookInv /\ DocsAreStored /\ OrderInv /\ [Next]_vars => (BookInv /\ DocsAreStored /\ OrderInv)'
  BY BooksStay, OrderStays
<1>3. BookInv /\ OrderInv => LatestRunIsNewest
  <2> SUFFICES ASSUME BookInv, OrderInv, NEW c \in Contents \ past.clashed,
                      NEW k \in RunsOf(c), NEW l \in RunsOf(c), k \in LatestRuns(c)
               PROVE  runs[l].made <= runs[k].made
    BY DEF LatestRunIsNewest
  <2>1. runs[l].attempt <= runs[k].attempt
    BY DEF LatestRuns
  <2>2. /\ {runs[k].attempt, runs[l].attempt, runs[k].made, runs[l].made} \subseteq Nat
        /\ runs[k] # NoRun /\ runs[l] # NoRun /\ runs[k].doc = c /\ runs[l].doc = c
        /\ k \in Jobs /\ l \in Jobs
    BY DEF BookInv, Shapes, Run, RunsOf
  <2>3. ~(runs[l].made > runs[k].made)
    BY <2>1, <2>2 DEF OrderInv
  <2> QED BY <2>2, <2>3
<1> QED BY <1>1, <1>2, <1>3, PTL DEF Spec

-----------------------------------------------------------------------------
(* Accepted and parsed                                                     *)

(* The fields of a chunking selection are those of Settings or of the      *)
(* request; what Settings holds has been through its validator.            *)
LEMMA StrategyOfSettings ==
  ASSUME NEW overrides, Constructs(overrides)
  PROVE  Settings(overrides).chunking_strategy \in Strategies
<1> DEFINE field == "chunking_strategy"
           kept(f) == IF f \in DOMAIN overrides THEN Canonical(f, overrides[f]) ELSE Defaults[f]
           settings == [f \in Fields |-> kept(f)]
<1>1. /\ field \in Fields /\ field \in DOMAIN Choices /\ Choices[field] = Strategies
      /\ field \notin Positive \union NonNegative \union OptionalPositive \union Flags
  BY DEF Fields, Choices, Strategies, Positive, NonNegative, OptionalPositive, Flags
<1>2. Defaults[field] \in Strategies
  BY <1>1 DEF Defaults, Strategies
<1>3. CASE field \in DOMAIN overrides
  <2>1. Acceptable(field, Canonical(field, overrides[field]))
    BY <1>3 DEF Constructs
  <2> DEFINE canonical == Canonical(field, overrides[field])
  <2>2. canonical \in Strategies
    <3>1. Acceptable(field, canonical)
      BY <2>1
    <3> HIDE DEF canonical, field
    <3>2. /\ field # "confidence_min_document_score" /\ field # "docling_pdf_ocr_use_gpu"
          /\ field \notin NonEmptyText \union AnyText \union OptionalText
      BY DEF field, NonEmptyText, AnyText, OptionalText
    <3> QED BY <1>1, <3>1, <3>2 DEF Acceptable
  <2> QED BY <1>1, <1>3, <2>2 DEF Settings, Effective
<1>4. CASE field \notin DOMAIN overrides
  BY <1>1, <1>2, <1>4 DEF Settings, Effective
<1> QED BY <1>3, <1>4

(* Chunking that validate_request lets through, chunk does, under the same *)
(* settings.                                                               *)
LEMMA AcceptedChunkingRuns ==
  ASSUME NEW overrides, Constructs(overrides), NEW r, ChunkingAccepted(Settings(overrides), r)
  PROVE  ChunkingRuns(Settings(overrides), r)
<1> DEFINE s == Settings(overrides)
           selection == Selection(s, r)
<1>1. s.chunking_strategy \in Strategies
  BY StrategyOfSettings
<1> HIDE DEF s
<1>2. r.strategy = None => selection.strategy # None
  BY <1>1, NoneAssumption DEF Selection
<1> HIDE DEF selection
<1>3. CASE selection.enabled
  BY <1>3, NoneAssumption DEF ChunkingAccepted, ChunkingRuns, ValidStrategy, SupportsStrategy,
     selection, s, Strategies
<1>4. CASE ~selection.enabled
  BY <1>2, <1>4, NoneAssumption DEF ChunkingAccepted, ChunkingRuns, SupportsStrategy, selection, s,
     Strategies
<1> QED BY <1>3, <1>4

(* Calls past the checks, and files whose upload's name no longer changes. *)
AcceptedSteps == CallSteps \ {"none", "waiting", "refused"}
Started(k) == k \in Jobs /\ call[k].at \notin {"none", "waiting"}

(* The request of an accepted call was valid under the overrides it saw.   *)
AcceptedIsValid(j) ==
  call[j].at \in AcceptedSteps =>
    RequestValid(Settings(call[j].seen), request[j]) /\ Constructs(call[j].seen)

(* What a call reads has been uploaded by a call under way.                *)
InputIsStarted(j) ==
  /\ call[j].at \in {"stored", "checked"} \union Saved => Started(call[j].input)
  /\ call[j].at = "found" => Started(docs[ContentOf(j)].file)

(* A worker that has had a job has had it of its call, which has saved it. *)
HasJob(j) ==
  worker[j].job # NoRow /\ call[j].at \in Saved /\ worker[j].job.input = call[j].input

SameName(j) ==
  InputName(j).extension = StoredExtension(InputName(j)) /\ InputName(j) = request[j].name

(* A refusal under the overrides of the call is of a file of another name. *)
RefusalIsSound(j) ==
  LET refused == past.refused[j]
  IN  /\ refused.reason \in {"format", "chunking"} => worker[j].job # NoRow
      /\ refused.reason = "format" => refused.using # call[j].seen \/ ~SameName(j)
      /\ refused.reason = "chunking" => refused.using # call[j].seen

(* A document handed over has a format and a pipeline.                     *)
Parsed == {"handed", "writing", "stored", "done"}
ParseFits(j) ==
  FormatAndPipelineFit(Settings(worker[j].using), StoredExtension(InputName(j)),
                       PipelineOf(Settings(worker[j].using), request[j]))

(* The inductive invariant of what is accepted and parsed.                 *)
AcceptInv ==
  /\ past.refused = [j \in Jobs |-> past.refused[j]]
  /\ \A c \in Contents : docs[c] # NoDoc => Started(docs[c].file)
  /\ \A j \in Jobs :
       /\ AcceptedIsValid(j) /\ InputIsStarted(j)
       /\ worker[j].job # NoRow => HasJob(j)
       /\ RefusalIsSound(j)
       /\ worker[j].at \in Parsed => worker[j].job # NoRow /\ ParseFits(j)

(* A validated request of a parser we have has a format and a pipeline.    *)
LEMMA ValidRequestFits ==
  ASSUME NEW s, NEW r, RequestValid(s, r), r.parser \in Parsers
  PROVE  FormatAndPipelineFit(s, r.name.extension, PipelineOf(s, r)) /\ ChunkingAccepted(s, r)
BY DEF RequestValid, DoclingAccepts

(* What refuses a parse.                                                   *)
LEMMA RefusalReasons ==
  ASSUME NEW s, NEW r, NEW exists \in BOOLEAN, NEW extension
  PROVE  LET reason == ParseRefusal(s, r, exists, extension)
             fits == FormatAndPipelineFit(s, extension, PipelineOf(s, r))
         IN  /\ reason # "chunking"
             /\ reason = "format" => r.parser \in Parsers /\ ~fits
             /\ reason = "no" => r.parser \in Parsers /\ fits
BY DEF ParseRefusal

(* What refuses a result.                                                  *)
LEMMA ResultReasons ==
  ASSUME NEW s, NEW r
  PROVE  /\ ResultRefusal(s, r) # "format"
         /\ ResultRefusal(s, r) = "chunking" => ~ChunkingRuns(s, r)
BY DEF ResultRefusal

(* Only the routes of the VLM are given its pipeline, and are of its kind.  *)
LEMMA RouteKinds ==
  ASSUME NEW format, NEW pipeline
  PROVE  /\ BuildFormatOption(RouteSpecFor(format, pipeline)).pipeline = "IngestProgressVlmPipeline"
              <=> ActivePipeline(format, pipeline) = "vlm"
         /\ MetadataRouteSpecFor(format, pipeline).kind = "vlm"
              <=> ActivePipeline(format, pipeline) = "vlm"
<1>1. ASSUME NEW f \in DOMAIN StandardRoutes
      PROVE  StandardRoutes[f].pipeline # "IngestProgressVlmPipeline" /\ StandardRoutes[f].kind # "vlm"
  BY <1>1 DEF StandardRoutes, Converts, StandardPdf, Route
<1>2. DefaultRoute.pipeline # "IngestProgressVlmPipeline" /\ DefaultRoute.kind # "vlm"
  BY DEF DefaultRoute, Route
<1>3. ASSUME NEW f \in VlmFormats
      PROVE  /\ VlmRoutes[f].pipeline = "IngestProgressVlmPipeline" /\ VlmRoutes[f].kind = "vlm"
             /\ VlmRoutes[f].builder = "vlm_pipeline" /\ VlmRoutes[f].reported
  BY <1>3 DEF VlmFormats, VlmRoutes, Vlm, Route
<1>4. ASSUME NEW route
      PROVE  BuildFormatOption(route).pipeline \in {None, route.pipeline}
  BY DEF BuildFormatOption
<1>5. ASSUME NEW route, route.builder = "vlm_pipeline"
      PROVE  BuildFormatOption(route).pipeline = route.pipeline
  BY <1>5 DEF BuildFormatOption
<1>6. None # "IngestProgressVlmPipeline"
  BY PipelineAssumption
<1> QED BY <1>1, <1>2, <1>3, <1>4, <1>5, <1>6 DEF RouteSpecFor, MetadataRouteSpecFor, ActivePipeline

(* The active options name the option of the route, where they name one.   *)
LEMMA RouteOptions ==
  ASSUME NEW format, NEW pipeline
  PROVE  ActiveFormatOption(format, pipeline) \in {None, RouteSpecFor(format, pipeline).option}
<1>1. CASE format = "pdf"
  BY <1>1 DEF ActiveFormatOption, RouteSpecFor, VlmFormats, VlmRoutes, Vlm, StandardRoutes,
     StandardPdf, Route
<1>2. CASE format = "image"
  BY <1>2 DEF ActiveFormatOption, RouteSpecFor, VlmFormats, VlmRoutes, Vlm, StandardRoutes,
     StandardPdf, Route
<1>3. CASE format = "xml_xbrl"
  BY <1>3 DEF ActiveFormatOption, RouteSpecFor, VlmFormats, StandardRoutes, Converts, Route
<1>4. CASE format \notin {"pdf", "image", "xml_xbrl"}
  BY <1>4 DEF ActiveFormatOption
<1> QED BY <1>1, <1>2, <1>3, <1>4

(* The metadata names the route of every format but two.                   *)
LEMMA ReportedRoutes ==
  ASSUME NEW format, NEW pipeline, format \notin {"mets_gbs", "audio"}
  PROVE  RouteSpecFor(format, pipeline).reported
<1>1. ASSUME NEW f \in DOMAIN StandardRoutes, f \notin {"mets_gbs", "audio"}
      PROVE  StandardRoutes[f].reported
  BY <1>1 DEF StandardRoutes, Converts, StandardPdf, Route
<1>2. DefaultRoute.reported
  BY DEF DefaultRoute, Route
<1>3. ASSUME NEW f \in VlmFormats
      PROVE  VlmRoutes[f].reported
  BY <1>3 DEF VlmFormats, VlmRoutes, Vlm, Route
<1> QED BY <1>1, <1>2, <1>3 DEF RouteSpecFor

(* Of a format that is allowed, with a pipeline that resolves, the         *)
(* metadata names what the converter is built with.                        *)
LEMMA ReportsWhatIsBuilt ==
  ASSUME NEW s, NEW r, NEW extension, FormatAndPipelineFit(s, extension, PipelineOf(s, r))
  PROVE  LET report == ReportOf(s, r, extension)
             built == BuildOf(s, r, extension)
         IN  /\ DetectInputFormat(extension) \notin {"mets_gbs", "audio"} =>
                  /\ report.option = built.option
                  /\ report.pipeline = built.pipeline \/ built.pipeline = None
                  /\ report.backend = built.backend \/ built.backend = None
                  /\ report.active \in {None, built.option}
             /\ report.mode = "vlm" <=> built.pipeline = "IngestProgressVlmPipeline"
             /\ report.mode = "vlm" <=> report.kind = "vlm"
<1> DEFINE format == DetectInputFormat(extension)
           pipeline == ResolvePipeline(PipelineOf(s, r), format)
           route == RouteSpecFor(format, pipeline)
<1>1. BuildOf(s, r, extension) = BuildFormatOption(route)
  <2>1. format \in AllowedFormats(s)
    BY DEF FormatAndPipelineFit, FormatAllowed
  <2> HIDE DEF format, pipeline
  <2>2. FormatRoutes(s, pipeline, format)[format] = RouteSpecFor(format, pipeline)
    BY <2>1 DEF FormatRoutes
  <2> QED BY <2>2 DEF BuildOf, BuiltFor, format, pipeline
<1>2. ReportOf(s, r, extension) = Reported(format, pipeline)
  BY DEF ReportOf
<1> HIDE DEF pipeline
<1>3. format \notin {"mets_gbs", "audio"} => route.reported
  BY ReportedRoutes
<1> HIDE DEF format
<1>4. /\ Reported(format, pipeline).active = ActiveFormatOption(format, pipeline)
      /\ Reported(format, pipeline).mode = ActivePipeline(format, pipeline)
      /\ Reported(format, pipeline).kind = MetadataRouteSpecFor(format, pipeline).kind
      /\ route.reported =>
           /\ Reported(format, pipeline).option = route.option
           /\ Reported(format, pipeline).pipeline = route.pipeline
           /\ Reported(format, pipeline).backend = route.backend
  BY DEF Reported, MetadataRouteSpecFor
<1>5. /\ BuildFormatOption(route).option = route.option
      /\ BuildFormatOption(route).pipeline \in {None, route.pipeline}
      /\ BuildFormatOption(route).backend \in {None, route.backend}
  BY DEF BuildFormatOption
<1> HIDE DEF route
<1>6. ActiveFormatOption(format, pipeline) \in {None, route.option}
  BY RouteOptions DEF route
<1>7. BuildFormatOption(route).pipeline = "IngestProgressVlmPipeline"
        <=> ActivePipeline(format, pipeline) = "vlm"
  BY RouteKinds DEF route
<1>8. MetadataRouteSpecFor(format, pipeline).kind = "vlm" <=> ActivePipeline(format, pipeline) = "vlm"
  BY RouteKinds
<1> QED BY <1>1, <1>2, <1>3, <1>4, <1>5, <1>6, <1>7, <1>8 DEF format

(* A call moves by its own steps only, and only ReadDocument completes a   *)
(* request.                                                                *)
LEMMA CallsMoveThemselves ==
  ASSUME BookInv, [Next]_vars, NEW j \in Jobs
  PROVE  /\ call'[j] = call[j] \/ Call(j)
         /\ request'[j] = request[j] \/ ReadDocument(j)
<1>1. ASSUME NEW k \in Jobs, Call(k), k # j
      PROVE  call'[j] = call[j] /\ request'[j] = request[j]
  <2>1. \E moved : call' = [call EXCEPT ![k] = moved]
    BY <1>1 DEF Call, CheckUpload, StoreUpload, UpsertDocument, ReadDocument, ReadStoragePath,
       SaveJob, ReadAttempt, InsertRun, Enqueue, EnqueueFails, Reject
  <2>2. request' = request \/ \E r : request' = [request EXCEPT ![k] = r]
    BY <1>1 DEF Call, CheckUpload, StoreUpload, UpsertDocument, ReadDocument, ReadStoragePath,
       SaveJob, ReadAttempt, InsertRun, Enqueue, EnqueueFails, quietWork
  <2> QED BY <1>1, <2>1, <2>2 DEF BookInv, Shapes
<1>2. CASE Call(j)
  BY <1>2 DEF Call, CheckUpload, StoreUpload, UpsertDocument, ReadStoragePath, SaveJob,
     ReadAttempt, InsertRun, Enqueue, EnqueueFails, quietWork
<1>3. CASE ~\E k \in Jobs : Call(k)
  <2>1. UNCHANGED <<call, request>>
    BY <1>3, ZenonT(60) DEF Next, Update, Work, Take, Refuse, ConversionFails, Convert, Dispatch,
       WriteFile, WriteFails, WriteBreaks, StoredLocal, Complete, workOnly, RemovalStarts,
       RecoverActiveJobs, RemoveArtifacts,
       DeleteRow, Cleanup, CleanupLists, CleanupScans, SweepUpload, SweepDir, DaysPass,
       quietSweep, vars
  <2> QED BY <2>1
<1> QED BY <1>1, <1>2, <1>3

(* What a call of each kind has become.                                    *)
LEMMA CallSteppedTo ==
  ASSUME BookInv, NEW j \in Jobs, Call(j)
  PROVE  \/ /\ call[j].at = "waiting" /\ call'[j].at \in {"receiving", "found"}
            /\ call'[j].seen = stored /\ RequestValid(Settings(stored), request'[j])
            /\ call'[j].at = "found" => docs[ContentOf(j)] # NoDoc /\ UNCHANGED docs
         \/ call'[j].at = "refused"
         \/ /\ call[j].at \in AcceptedSteps /\ call'[j].at \in AcceptedSteps \ {"found"}
            /\ call'[j].seen = call[j].seen /\ request'[j] = request[j]
            /\ \/ call'[j].at = "stored" /\ call'[j].input = j
               \/ call[j].at = "found" /\ call'[j].input = docs[ContentOf(j)].file
               \/ call[j].at \in {"stored", "checked"} \union Saved /\ call'[j].input = call[j].input
<1> USE DEF AcceptedSteps, CallSteps, CallAt, BookInv, Shapes
<1>1. CASE CheckUpload(j)
  BY <1>1 DEF CheckUpload, UploadAccepted, Reject, quietWork
<1>2. CASE StoreUpload(j)
  BY <1>2 DEF StoreUpload, Reject, quietWork
<1>3. CASE ReadDocument(j)
  BY <1>3 DEF ReadDocument, RerunAccepted, quietFiles
<1>4. CASE UpsertDocument(j) \/ ReadStoragePath(j)
  BY <1>4 DEF UpsertDocument, ReadStoragePath, quietWork
<1>5. CASE SaveJob(j) \/ ReadAttempt(j)
  BY <1>5 DEF SaveJob, ReadAttempt, quietWork, Saved, Inserting
<1>6. CASE InsertRun(j) \/ EnqueueFails(j)
  BY <1>6 DEF InsertRun, EnqueueFails, quietWork, Saved, Inserting
<1>7. CASE Enqueue(j)
  BY <1>7 DEF Enqueue, Saved, Inserting
<1> QED BY <1>1, <1>2, <1>3, <1>4, <1>5, <1>6, <1>7 DEF Call

(* A call under way keeps its request.                                     *)
LEMMA StartedStays ==
  ASSUME BookInv, [Next]_vars, NEW k, Started(k)
  PROVE  Started(k)' /\ request'[k] = request[k]
<1>1. k \in Jobs
  BY DEF Started
<1>2. request'[k] = request[k]
  BY <1>1, CallsMoveThemselves DEF Started, ReadDocument
<1>3. CASE Call(k)
  BY <1>1, <1>2, <1>3, CallSteppedTo DEF Started, AcceptedSteps
<1> QED BY <1>1, <1>2, <1>3, CallsMoveThemselves DEF Started

(* A document moves to the file of an upload under way only.               *)
LEMMA DocsMove ==
  ASSUME BookInv, [Next]_vars, NEW c \in Contents
  PROVE  docs'[c] = docs[c] \/ Started(docs[c].file)'
<1>1. ASSUME NEW j \in Jobs, UpsertDocument(j)
      PROVE  docs'[c] = docs[c] \/ Started(docs[c].file)'
  <2> DEFINE upserted == [name |-> request[j].name, file |-> j]
  <2>1. docs' = [docs EXCEPT ![ContentOf(j)] = upserted] /\ upserted.file = j /\ Started(j)
    BY <1>1 DEF UpsertDocument, Started
  <2> HIDE DEF upserted
  <2>2. docs'[c].file = j \/ docs'[c] = docs[c]
    BY <2>1 DEF BookInv, Shapes
  <2>3. Started(j)'
    BY <2>1, StartedStays
  <2> QED BY <2>2, <2>3 DEF Started
<1>2. CASE ~\E j \in Jobs : UpsertDocument(j)
  BY <1>2, ZenonT(60) DEF Next, Update, Call, CheckUpload, StoreUpload, ReadDocument, ReadStoragePath,
     SaveJob, ReadAttempt, InsertRun, Enqueue, EnqueueFails, quietFiles, Work, Take, Refuse,
     ConversionFails, Convert, Dispatch, WriteFile, WriteFails, WriteBreaks, StoredLocal, Complete,
     workOnly,
     RemovalStarts, RecoverActiveJobs, RemoveArtifacts, DeleteRow, Cleanup, CleanupLists,
     CleanupScans, SweepUpload,
     SweepDir, DaysPass, quietSweep, vars
<1> QED BY <1>1, <1>2

(* A document keeps a file whose upload is under way.                      *)
LEMMA DocsStayStarted ==
  ASSUME BookInv, [Next]_vars, NEW c \in Contents, Started(docs[c].file)
  PROVE  Started(docs[c].file)'
<1>1. PICK k : k = docs[c].file
  OBVIOUS
<1>2. Started(k)'
  BY <1>1, StartedStays
<1> QED BY <1>1, <1>2, DocsMove DEF Started

(* What a call was accepted for stays as it was accepted.                  *)
LEMMA AcceptedStays ==
  ASSUME BookInv, StoredSettingsConstruct, [Next]_vars, NEW j \in Jobs, AcceptedIsValid(j)
  PROVE  AcceptedIsValid(j)'
<1>1. CASE call'[j] = call[j]
  <2>1. ASSUME call[j].at \in AcceptedSteps
        PROVE  request'[j] = request[j]
    BY <2>1, StartedStays DEF Started, AcceptedSteps
  <2> QED BY <1>1, <2>1 DEF AcceptedIsValid
<1>2. CASE Call(j)
  BY <1>2, CallSteppedTo DEF AcceptedIsValid, StoredSettingsConstruct, AcceptedSteps
<1> QED BY <1>1, <1>2, CallsMoveThemselves

(* So does what it reads.                                                  *)
LEMMA InputsStayStarted ==
  ASSUME BookInv, [Next]_vars, NEW j \in Jobs, InputIsStarted(j),
         \A c \in Contents : docs[c] # NoDoc => Started(docs[c].file)
  PROVE  InputIsStarted(j)'
<1>0. ASSUME NEW k, Started(k) PROVE Started(k)'
  BY <1>0, StartedStays
<1>1. CASE call'[j] = call[j]
  <2>1. ASSUME call[j].at = "found"
        PROVE  Started(docs[ContentOf(j)].file)'
    <3>1. request'[j] = request[j]
      BY <2>1, StartedStays DEF Started
    <3>2. ContentOf(j) \in Contents /\ Started(docs[ContentOf(j)].file)
      BY <2>1, RequestsHaveContents DEF InputIsStarted
    <3>3. PICK c \in Contents : c = ContentOf(j)
      BY <3>2
    <3>4. Started(docs[c].file)'
      BY <3>2, <3>3, DocsStayStarted
    <3> QED BY <3>1, <3>3, <3>4 DEF ContentOf
  <2>2. ASSUME call[j].at \in {"stored", "checked"} \union Saved
        PROVE  Started(call[j].input)'
    <3>1. PICK k : k = call[j].input /\ Started(k)
      BY <2>2 DEF InputIsStarted
    <3>2. Started(k)'
      BY <1>0, <3>1
    <3> QED BY <1>1, <3>1, <3>2 DEF Started
  <2> QED BY <1>1, <2>1, <2>2 DEF InputIsStarted
<1>2. CASE Call(j)
  <2>1. CASE call'[j].at = "found"
    <3>1. call[j].at = "waiting" /\ docs[ContentOf(j)] # NoDoc /\ UNCHANGED docs
      BY <1>2, <2>1, CallSteppedTo
    <3>2. ContentOf(j)' = ContentOf(j) /\ ContentOf(j) \in Contents
      <4>1. ContentOf(j) \in Contents
        BY <3>1, RequestsHaveContents
      <4>2. request'[j] = request[j] \/ \E name : request'[j] = [request[j] EXCEPT !.name = name]
        <5>1. ReadDocument(j) => \E name : request' = [request EXCEPT ![j] = [request[j] EXCEPT !.name = name]]
          BY DEF ReadDocument
        <5> QED BY <5>1, CallsMoveThemselves DEF BookInv, Shapes
      <4>3. IsRequest(request[j])
        BY <3>1 DEF BookInv, JobIsSound, CallIsSound
      <4> QED BY <4>1, <4>2, <4>3 DEF ContentOf, IsRequest
    <3>3. PICK k : k = docs[ContentOf(j)].file /\ Started(k)
      BY <3>1, <3>2
    <3>4. Started(k)'
      BY <1>0, <3>3
    <3> QED BY <2>1, <3>1, <3>2, <3>3, <3>4 DEF InputIsStarted, Started, Saved, Inserting
  <2>2. CASE call'[j].at \in {"stored", "checked"} \union Saved
    <3>1. PICK k : k = call'[j].input
      OBVIOUS
    <3>2. \/ k = j /\ Started(j)'
          \/ Started(k)
      BY <1>2, <2>2, <3>1, CallSteppedTo DEF InputIsStarted, Started, Saved, Inserting
    <3>3. Started(k)'
      BY <1>0, <3>2
    <3> QED BY <2>2, <3>1, <3>3 DEF InputIsStarted, Started, Saved, Inserting
  <2>3. CASE call'[j].at \notin {"found", "stored", "checked"} \union Saved
    BY <2>3 DEF InputIsStarted
  <2> QED BY <2>1, <2>2, <2>3
<1> QED BY <1>1, <1>2, CallsMoveThemselves

(* What a step does to the worker of a job and to its last refusal.        *)
WorkerStays(j) ==
  /\ worker'[j].job = worker[j].job /\ worker'[j].using = worker[j].using
  /\ worker'[j].at \in Parsed => worker[j].at \in Parsed
WorkerTakes(j) ==
  /\ call[j].at \in Saved /\ worker'[j].at = "parsing"
  /\ worker'[j].job # NoRow /\ worker'[j].job.input = call[j].input
  /\ worker[j].job # NoRow => worker[j].job.input = call[j].input
WorkerRefuses(j) ==
  /\ worker[j].at = "parsing" /\ worker'[j] = [worker[j] EXCEPT !.at = "idle"]
  /\ \E reason : /\ past'.refused[j] = [reason |-> reason, using |-> worker[j].using]
                 /\ \/ reason = RefusalOf(j)
                    \/ reason = "conversion"
                    \/ /\ RefusalOf(j) = "no"
                       /\ reason = ResultRefusal(Settings(worker[j].using), request[j])
WorkerConverts(j) ==
  /\ worker[j].at = "parsing" /\ worker'[j] = [worker[j] EXCEPT !.at = "handed"]
  /\ RefusalOf(j) = "no"

(* A refusal is written down for its job only.                             *)
LEMMA RefusalsAreWritten ==
  ASSUME BookInv, past.refused = [k \in Jobs |-> past.refused[k]], NEW k \in Jobs, NEW refusal,
         past' = [past EXCEPT !.refused[k] = refusal]
  PROVE  /\ past'.refused = [l \in Jobs |-> past'.refused[l]]
         /\ past'.refused[k] = refusal /\ \A l \in Jobs \ {k} : past'.refused[l] = past.refused[l]
<1>1. past'.refused = [past.refused EXCEPT ![k] = refusal]
  BY DEF BookInv, Shapes, IsPast
<1> QED BY <1>1

(* History that changes elsewhere keeps the refusals.                      *)
RefusalsKept ==
  \/ UNCHANGED past
  \/ \E clashed : past' = [past EXCEPT !.clashed = clashed]
  \/ \E mixed : past' = [past EXCEPT !.mixed = mixed]
  \/ \E overtaken : past' = [past EXCEPT !.overtaken = overtaken]
  \/ \E recoveries, recovered :
       past' = [past EXCEPT !.recoveries = recoveries, !.recovered = recovered]
  \/ \E made : past' = [past EXCEPT !.runsMade = made]
  \/ \E removed, early : past' = [past EXCEPT !.removed = removed, !.early = early]

LEMMA RefusalsAreKept == ASSUME BookInv, RefusalsKept PROVE past'.refused = past.refused
BY DEF BookInv, Shapes, IsPast, RefusalsKept

WorkerStep(j) ==
  \/ past'.refused[j] = past.refused[j] /\ (WorkerStays(j) \/ WorkerTakes(j) \/ WorkerConverts(j))
  \/ WorkerRefuses(j)
TableStays == past'.refused = [l \in Jobs |-> past'.refused[l]]

(* A refused parse is a step of its own worker.                            *)
LEMMA RetryOrFailSteps ==
  ASSUME BookInv, past.refused = [l \in Jobs |-> past.refused[l]], NEW j \in Jobs,
         NEW k \in Jobs, worker[k].at = "parsing", NEW reason, RetryOrFail(k, reason),
         \/ reason = RefusalOf(k)
         \/ reason = "conversion"
         \/ /\ RefusalOf(k) = "no"
            /\ reason = ResultRefusal(Settings(worker[k].using), request[k])
  PROVE  WorkerStep(j) /\ TableStays
<1> DEFINE refusal == [reason |-> reason, using |-> worker[k].using]
<1>1. past' = [past EXCEPT !.refused[k] = refusal] /\ worker' = [worker EXCEPT ![k].at = "idle"]
  BY DEF RetryOrFail
<1> HIDE DEF refusal
<1>2. /\ TableStays /\ past'.refused[k] = refusal
      /\ \A l \in Jobs \ {k} : past'.refused[l] = past.refused[l]
  BY <1>1, RefusalsAreWritten DEF TableStays
<1>3. CASE j = k
  <2>1. worker'[k] = [worker[k] EXCEPT !.at = "idle"]
    BY <1>1 DEF BookInv, Shapes
  <2> QED BY <1>2, <1>3, <2>1 DEF WorkerStep, WorkerRefuses, refusal
<1>4. CASE j # k
  <2>1. worker'[j] = worker[j]
    BY <1>1, <1>4 DEF BookInv, Shapes
  <2> QED BY <1>2, <1>4, <2>1 DEF WorkerStep, WorkerStays
<1> QED BY <1>3, <1>4, <1>2

(* Taking a job: from its row, which is of its call.                       *)
LEMMA TakeSteps ==
  ASSUME BookInv, NEW j \in Jobs, NEW k \in Jobs, Take(k), worker[j].job # NoRow => HasJob(j)
  PROVE  WorkerStays(j) \/ WorkerTakes(j)
<1>1. CASE j = k /\ rows[j] # NoRow
  <2> DEFINE running == [rows[j] EXCEPT !.status = "PARSING"]
  <2>1. PICK using : worker' = [worker EXCEPT ![j] =
                       [at |-> "parsing", using |-> using, job |-> running, left |-> <<>>]]
    BY <1>1 DEF Take
  <2>2. rows[j] \in Row /\ rows[j].input = call[j].input /\ call[j].at \in Saved
    BY <1>1 DEF Take, BookInv, Shapes, JobIsSound, RowIsSound, WorkIsSound
  <2>3. running \in Row /\ running.input = call[j].input
    BY <2>2 DEF Row, Statuses
  <2> HIDE DEF running
  <2>4. worker'[j].at = "parsing" /\ worker'[j].job = running
    BY <2>1 DEF BookInv, Shapes
  <2> QED BY <2>2, <2>3, <2>4, AbsenceAssumption DEF WorkerTakes, HasJob
<1>2. CASE j # k \/ rows[j] = NoRow
  <2>1. worker'[j] = worker[j]
    BY <1>2 DEF Take, BookInv, Shapes
  <2> QED BY <2>1 DEF WorkerStays
<1> QED BY <1>1, <1>2

(* The steps after a conversion.                                           *)
LEMMA StoreSteps ==
  ASSUME BookInv, NEW j \in Jobs, NEW k \in Jobs,
         Dispatch(k) \/ WriteFile(k) \/ WriteFails(k) \/ WriteBreaks(k) \/ StoredLocal(k) \/ Complete(k)
  PROVE  WorkerStays(j) /\ RefusalsKept
<1>1. RefusalsKept
  BY DEF Dispatch, WriteFile, WriteFails, WriteBreaks, StoredLocal, Complete, RefusalsKept
<1>2. CASE j # k
  <2>1. \E after : worker' = [worker EXCEPT ![k] = after]
    BY DEF Dispatch, WriteFile, WriteFails, WriteBreaks, DispatchFails, StoredLocal, Complete
  <2> QED BY <1>1, <1>2, <2>1 DEF BookInv, Shapes, WorkerStays
<1>3. CASE j = k
  <2>1. \/ \E at : worker' = [worker EXCEPT ![j].at = at]
        \/ \E left : worker' = [worker EXCEPT ![j].left = left]
        \/ \E at, left : worker' = [worker EXCEPT ![j] = [at |-> at, using |-> @.using,
                                                        job |-> @.job, left |-> left]]
    BY <1>3 DEF Dispatch, WriteFile, WriteFails, WriteBreaks, DispatchFails, StoredLocal, Complete
  <2>2. worker[j].at \in Parsed
    BY <1>3 DEF Dispatch, WriteFile, WriteFails, WriteBreaks, CanWrite, StoredLocal, Complete, Parsed
  <2> QED BY <1>1, <2>1, <2>2 DEF BookInv, Shapes, WorkerStays
<1> QED BY <1>2, <1>3

(* A conversion that went well.                                            *)
LEMMA ConvertSteps ==
  ASSUME BookInv, past.refused = [l \in Jobs |-> past.refused[l]], NEW j \in Jobs,
         NEW k \in Jobs, Convert(k)
  PROVE  WorkerStep(j) /\ TableStays
<1> DEFINE reason == ResultRefusal(Settings(worker[k].using), request[k])
<1>1. worker[k].at = "parsing" /\ RefusalOf(k) = "no"
  BY DEF Convert
<1>2. CASE reason # "no"
  <2>1. RetryOrFail(k, reason)
    BY <1>2 DEF Convert
  <2> QED BY <1>1, <2>1, RetryOrFailSteps
<1>3. CASE reason = "no"
  <2>1. worker' = [worker EXCEPT ![k].at = "handed"] /\ UNCHANGED past
    BY <1>3 DEF Convert
  <2>2. worker'[j] = (IF j = k THEN [worker[k] EXCEPT !.at = "handed"] ELSE worker[j])
    BY <2>1 DEF BookInv, Shapes
  <2> QED BY <1>1, <2>1, <2>2 DEF WorkerStep, WorkerStays, WorkerConverts, TableStays
<1> QED BY <1>2, <1>3

(* Every step does one of these to a worker.                               *)
LEMMA WorkersStep ==
  ASSUME BookInv, past.refused = [l \in Jobs |-> past.refused[l]], [Next]_vars, NEW j \in Jobs,
         worker[j].job # NoRow => HasJob(j)
  PROVE  WorkerStep(j) /\ TableStays
<1>1. ASSUME RefusalsKept, WorkerStays(j) \/ WorkerTakes(j)
      PROVE  WorkerStep(j) /\ TableStays
  BY <1>1, RefusalsAreKept DEF WorkerStep, TableStays
<1>2. ASSUME NEW k \in Jobs, Work(k)
      PROVE  WorkerStep(j) /\ TableStays
  <2>1. CASE Take(k)
    BY <1>1, <2>1, TakeSteps DEF Take, RefusalsKept
  <2>2. CASE Refuse(k)
    BY <2>2, RetryOrFailSteps DEF Refuse
  <2>3. CASE ConversionFails(k)
    BY <2>3, RetryOrFailSteps DEF ConversionFails
  <2>4. CASE Convert(k)
    BY <2>4, ConvertSteps
  <2>5. CASE Dispatch(k) \/ WriteFile(k) \/ WriteFails(k) \/ WriteBreaks(k) \/ StoredLocal(k) \/ Complete(k)
    BY <1>1, <2>5, StoreSteps
  <2> QED BY <1>2, <2>1, <2>2, <2>3, <2>4, <2>5 DEF Work
<1>3. ASSUME NEW k \in Jobs, RemovalStarts(k)
      PROVE  WorkerStep(j) /\ TableStays
  <2>1. PICK killed : worker' = [l \in Jobs |-> IF l \in killed THEN [worker[l] EXCEPT !.at = "lost"]
                                               ELSE worker[l]]
    BY <1>3 DEF RemovalStarts
  <2>2. WorkerStays(j)
    BY <2>1 DEF BookInv, Shapes, WorkerStays, Parsed
  <2>3. RefusalsKept
    BY <1>3 DEF RemovalStarts, RefusalsKept
  <2> QED BY <1>1, <2>2, <2>3
<1>4. CASE ~\E k \in Jobs : Work(k) \/ RemovalStarts(k)
  <2>1. UNCHANGED worker /\ RefusalsKept
    BY <1>4, ZenonT(60) DEF Next, Update, Call, CheckUpload, StoreUpload, UpsertDocument, ReadDocument,
       ReadStoragePath, SaveJob, ReadAttempt, InsertRun, Enqueue, EnqueueFails, quietWork,
       RecoverActiveJobs, RemoveArtifacts, DeleteRow, Cleanup, CleanupLists, CleanupScans,
       SweepUpload, SweepDir,
       DaysPass, quietSweep, vars, RefusalsKept
  <2> QED BY <1>1, <2>1 DEF WorkerStays
<1> QED BY <1>2, <1>3, <1>4

(* A call that has saved its job keeps the overrides, the file and the     *)
(* request it was accepted with.                                           *)
SavedStays(j) ==
  /\ call'[j].at \in Saved /\ call'[j].seen = call[j].seen /\ call'[j].input = call[j].input
  /\ request'[j] = request[j]

LEMMA SavedCallStays ==
  ASSUME BookInv, [Next]_vars, NEW j \in Jobs, call[j].at \in Saved
  PROVE  SavedStays(j)
<1>1. CASE call'[j] = call[j]
  BY <1>1, StartedStays DEF SavedStays, Started, Saved, Inserting
<1>2. CASE Call(j)
  <2>1. call'[j].at \in Saved
    BY <1>2 DEF Call, CheckUpload, StoreUpload, UpsertDocument, ReadDocument, ReadStoragePath,
       SaveJob, ReadAttempt, InsertRun, Enqueue, EnqueueFails, CallAt, Saved, Inserting,
       BookInv, Shapes
  <2> QED BY <1>2, <2>1, CallSteppedTo DEF SavedStays, Saved, Inserting
<1> QED BY <1>1, <1>2, CallsMoveThemselves

(* The job of a worker keeps its request, its call and the name of its     *)
(* file.                                                                   *)
LEMMA NamesStay ==
  ASSUME BookInv, AcceptInv, [Next]_vars, NEW j \in Jobs, HasJob(j),
         worker'[j].job # NoRow, worker'[j].job.input = worker[j].job.input
  PROVE  /\ SavedStays(j) /\ InputName(j)' = InputName(j)
         /\ HasJob(j)'
<1>1. call[j].at \in Saved /\ worker[j].job.input = call[j].input
  BY DEF HasJob
<1>2. SavedStays(j)
  BY <1>1, SavedCallStays
<1>3. call[j].at \notin {"none", "waiting"}
  BY <1>1 DEF Saved, Inserting
<1>4. PICK k : k = call[j].input /\ Started(k)
  BY <1>1 DEF AcceptInv, InputIsStarted, Saved
<1>5. request'[k] = request[k]
  BY <1>4, StartedStays
<1>6. InputName(j)' = InputName(j)
  BY <1>1, <1>4, <1>5 DEF InputName
<1> QED BY <1>1, <1>2, <1>6 DEF HasJob, SavedStays

(* A parse is refused for its format or its chunking only under other      *)
(* overrides than its call saw, or if its file has another name.           *)
LEMMA SoundRefusals ==
  ASSUME BookInv, AcceptInv, NEW j \in Jobs, worker[j].at = "parsing", HasJob(j), NEW reason,
         \/ reason = RefusalOf(j)
         \/ reason = "conversion"
         \/ /\ RefusalOf(j) = "no"
            /\ reason = ResultRefusal(Settings(worker[j].using), request[j])
  PROVE  /\ reason = "format" => worker[j].using # call[j].seen \/ ~SameName(j)
         /\ reason = "chunking" => worker[j].using # call[j].seen
<1> DEFINE s == Settings(worker[j].using)
           r == request[j]
           extension == StoredExtension(InputName(j))
           fits == FormatAndPipelineFit(s, extension, PipelineOf(s, r))
<1>1. RequestValid(Settings(call[j].seen), r) /\ Constructs(call[j].seen)
  BY DEF HasJob, Saved, Inserting, AcceptInv, AcceptedIsValid, AcceptedSteps, CallSteps
<1>2. /\ RefusalOf(j) # "chunking"
      /\ RefusalOf(j) = "format" => r.parser \in Parsers /\ ~fits
      /\ RefusalOf(j) = "no" => r.parser \in Parsers
  <2>1. (uploads[worker[j].job.input] # "none") \in BOOLEAN
    OBVIOUS
  <2> QED BY <2>1, RefusalReasons DEF RefusalOf
<1>3. ASSUME RefusalOf(j) = "format", worker[j].using = call[j].seen, SameName(j)
      PROVE  FALSE
  <2>1. FormatAndPipelineFit(s, r.name.extension, PipelineOf(s, r))
    BY <1>1, <1>2, <1>3, ValidRequestFits
  <2>2. extension = r.name.extension
    BY <1>3 DEF SameName
  <2> QED BY <1>2, <1>3, <2>1, <2>2
<1>4. ASSUME RefusalOf(j) = "no", ResultRefusal(s, r) = "chunking", worker[j].using = call[j].seen
      PROVE  FALSE
  <2>1. ~ChunkingRuns(s, r)
    BY <1>4, ResultReasons
  <2>2. ChunkingAccepted(Settings(call[j].seen), r)
    BY <1>1, <1>2, <1>4, ValidRequestFits
  <2>3. ChunkingRuns(Settings(call[j].seen), r)
    BY <1>1, <2>2, AcceptedChunkingRuns
  <2> QED BY <1>4, <2>1, <2>3
<1>5. ResultRefusal(s, r) # "format"
  BY ResultReasons
<1> QED BY <1>2, <1>3, <1>4, <1>5

(* A worker and what it has refused or parsed stay sound.                  *)
ParseIsSound(j) ==
  /\ worker[j].job # NoRow => HasJob(j)
  /\ RefusalIsSound(j)
  /\ worker[j].at \in Parsed => worker[j].job # NoRow /\ ParseFits(j)

LEMMA ParsesStay ==
  ASSUME BookInv, AcceptInv, [Next]_vars, NEW j \in Jobs
  PROVE  ParseIsSound(j)'
<1>0. ParseIsSound(j) /\ WorkerStep(j)
  BY WorkersStep DEF AcceptInv, ParseIsSound
<1>1. ASSUME worker[j].at = "parsing"
      PROVE  HasJob(j)
  BY <1>1, Working, AbsenceAssumption DEF HasJob, Busy
<1>2. CASE past'.refused[j] = past.refused[j] /\ WorkerStays(j)
  <2>1. CASE worker[j].job = NoRow
    BY <1>0, <1>2, <2>1 DEF ParseIsSound, RefusalIsSound, WorkerStays
  <2>2. CASE worker[j].job # NoRow
    <3>1. HasJob(j)
      BY <1>0, <2>2 DEF ParseIsSound
    <3>2. /\ SavedStays(j) /\ InputName(j)' = InputName(j)
          /\ HasJob(j)'
      BY <1>2, <2>2, <3>1, NamesStay DEF WorkerStays
    <3> QED BY <1>0, <1>2, <2>2, <3>2
            DEF ParseIsSound, RefusalIsSound, SameName, ParseFits, WorkerStays, SavedStays
  <2> QED BY <2>1, <2>2
<1>3. CASE past'.refused[j] = past.refused[j] /\ WorkerTakes(j)
  <2>1. worker'[j].at \notin Parsed
    BY <1>3 DEF WorkerTakes, Parsed
  <2>2. CASE worker[j].job = NoRow
    <3>1. SavedStays(j)
      BY <1>3, SavedCallStays DEF WorkerTakes
    <3>2. HasJob(j)'
      BY <1>3, <3>1 DEF WorkerTakes, HasJob, SavedStays
    <3> QED BY <1>0, <1>3, <2>1, <2>2, <3>2 DEF ParseIsSound, RefusalIsSound
  <2>3. CASE worker[j].job # NoRow
    <3>1. HasJob(j)
      BY <1>0, <2>3 DEF ParseIsSound
    <3>2. /\ SavedStays(j) /\ InputName(j)' = InputName(j)
          /\ HasJob(j)'
      BY <1>3, <2>3, <3>1, NamesStay DEF WorkerTakes
    <3> QED BY <1>0, <1>3, <2>1, <2>3, <3>2 DEF ParseIsSound, RefusalIsSound, SameName,
       WorkerTakes, SavedStays
  <2> QED BY <2>2, <2>3
<1>4. CASE WorkerRefuses(j)
  <2>1. HasJob(j)
    BY <1>1, <1>4 DEF WorkerRefuses
  <2>2. /\ worker'[j].job = worker[j].job /\ worker'[j].using = worker[j].using
        /\ worker'[j].at = "idle"
    BY <1>4 DEF WorkerRefuses, BookInv, Shapes
  <2>3. /\ SavedStays(j) /\ InputName(j)' = InputName(j)
        /\ HasJob(j)'
    BY <2>1, <2>2, NamesStay DEF HasJob
  <2>4. PICK reason :
             /\ past'.refused[j] = [reason |-> reason, using |-> worker[j].using]
             /\ reason = "format" => worker[j].using # call[j].seen \/ ~SameName(j)
             /\ reason = "chunking" => worker[j].using # call[j].seen
    BY <1>4, <2>1, SoundRefusals DEF WorkerRefuses
  <2>5. SameName(j)' <=> SameName(j)
    BY <2>3 DEF SameName, SavedStays
  <2>6. RefusalIsSound(j)'
    BY <2>2, <2>3, <2>4, <2>5 DEF RefusalIsSound, HasJob, SavedStays
  <2> QED BY <2>2, <2>3, <2>6 DEF ParseIsSound, Parsed
<1>5. CASE past'.refused[j] = past.refused[j] /\ WorkerConverts(j)
  <2>1. HasJob(j)
    BY <1>1, <1>5 DEF WorkerConverts
  <2>2. worker'[j].job = worker[j].job /\ worker'[j].using = worker[j].using
    BY <1>5 DEF WorkerConverts, BookInv, Shapes
  <2>3. /\ SavedStays(j) /\ InputName(j)' = InputName(j)
        /\ HasJob(j)'
    BY <2>1, <2>2, NamesStay DEF HasJob
  <2>4. ParseFits(j)
    <3>1. (uploads[worker[j].job.input] # "none") \in BOOLEAN
      OBVIOUS
    <3>2. RefusalOf(j) = "no"
      BY <1>5 DEF WorkerConverts
    <3> DEFINE s == Settings(worker[j].using)
               extension == StoredExtension(InputName(j))
    <3>3. RefusalOf(j) = "no" => FormatAndPipelineFit(s, extension, PipelineOf(s, request[j]))
      BY <3>1, RefusalReasons DEF RefusalOf
    <3> QED BY <3>2, <3>3 DEF ParseFits
  <2>5. ParseFits(j)'
    BY <2>2, <2>3, <2>4 DEF ParseFits, SavedStays
  <2>6. RefusalIsSound(j)'
    BY <1>0, <1>5, <2>2, <2>3 DEF ParseIsSound, RefusalIsSound, SameName, SavedStays
  <2> QED BY <2>3, <2>5, <2>6 DEF ParseIsSound, HasJob
<1> QED BY <1>0, <1>2, <1>3, <1>4, <1>5 DEF WorkerStep

(* The invariant holds before anything is accepted.                        *)
LEMMA AcceptStarts == ASSUME Init PROVE AcceptInv
<1>1. PICK sc \in Scenarios :
        call = [j \in Jobs |->
                  CallAt(IF sc.requests[j] = None THEN "none" ELSE "waiting", <<>>, NoJob, 0)]
  BY DEF Init
<1>2. /\ docs = [c \in Contents |-> NoDoc]
      /\ worker = [j \in Jobs |-> [at |-> "idle", using |-> <<>>, job |-> NoRow, left |-> <<>>]]
      /\ past.refused = [j \in Jobs |-> [reason |-> "no", using |-> <<>>]]
  BY DEF Init
<1>3. ASSUME NEW j \in Jobs
      PROVE  /\ AcceptedIsValid(j) /\ InputIsStarted(j) /\ RefusalIsSound(j)
             /\ worker[j].job = NoRow /\ worker[j].at \notin Parsed
  BY <1>1, <1>2 DEF AcceptedIsValid, AcceptedSteps, InputIsStarted, RefusalIsSound, CallAt, Saved,
     Inserting, Parsed
<1> QED BY <1>2, <1>3 DEF AcceptInv

(* Every step keeps it.                                                    *)
LEMMA AcceptStays ==
  ASSUME BookInv, StoredSettingsConstruct, AcceptInv, [Next]_vars
  PROVE  AcceptInv'
<1>1. ASSUME NEW j \in Jobs
      PROVE  (AcceptedIsValid(j) /\ InputIsStarted(j) /\ ParseIsSound(j))'
  BY AcceptedStays, InputsStayStarted, ParsesStay DEF AcceptInv
<1>2. past'.refused = [j \in Jobs |-> past'.refused[j]]
  <2>1. CASE Jobs = {}
    <3>1. \A k \in Jobs : FALSE
      BY <2>1
    <3>2. RefusalsKept
      BY <3>1, ZenonT(60) DEF Next, Update, RecoverActiveJobs, RemoveArtifacts, DeleteRow, Cleanup,
         CleanupLists,
         CleanupScans, SweepUpload, SweepDir, DaysPass, quietSweep, vars, RefusalsKept
    <3> QED BY <3>2, RefusalsAreKept DEF AcceptInv
  <2>2. ASSUME NEW j \in Jobs
        PROVE  TableStays
    BY WorkersStep DEF AcceptInv
  <2> QED BY <2>1, <2>2 DEF TableStays
<1>3. ASSUME NEW c \in Contents, docs'[c] # NoDoc
      PROVE  Started(docs[c].file)'
  BY <1>3, DocsMove, DocsStayStarted DEF AcceptInv
<1> QED BY <1>1, <1>2, <1>3 DEF AcceptInv, ParseIsSound

(* A job the API accepted, in its checks of format, pipeline and chunking, *)
(* passes those of DoclingDocumentParser and ParserChunkingService later,  *)
(* unless the settings or the name of its file are others by then.         *)
THEOREM AcceptedIsAlwaysParsed == Spec => []AcceptedIsParsed
<1> DEFINE Inv == SettingsInv /\ BookInv /\ DocsAreStored /\ AcceptInv
<1>1. Init => Inv
  BY BooksStart, AcceptStarts, SettingsInvStarts, ScenariosAssumption DEF Init
<1>2. Inv /\ [Next]_vars => Inv'
  BY BooksStay, AcceptStays, SettingsInvStays, StepsAreSettingsSteps DEF SettingsInv, StoredIsSound
<1>3. Inv => AcceptedIsParsed
  BY DEF AcceptInv, RefusalIsSound, SameName, AcceptedIsParsed
<1> HIDE DEF Inv
<1> QED BY <1>1, <1>2, <1>3, PTL DEF Spec

(* The tables docling_options_metadata reads and those the converter is    *)
(* built from agree about every document that is handed over.              *)
THEOREM MetadataAlwaysNamesWhatWasBuilt == Spec => []MetadataNamesWhatWasBuilt
<1> DEFINE Inv == SettingsInv /\ BookInv /\ DocsAreStored /\ AcceptInv
<1>1. Init => Inv
  BY BooksStart, AcceptStarts, SettingsInvStarts, ScenariosAssumption DEF Init
<1>2. Inv /\ [Next]_vars => Inv'
  BY BooksStay, AcceptStays, SettingsInvStays, StepsAreSettingsSteps DEF SettingsInv, StoredIsSound
<1>3. Inv => MetadataNamesWhatWasBuilt
  <2> SUFFICES ASSUME AcceptInv, NEW j \in Jobs, worker[j].at = "handed"
               PROVE  LET extension == StoredExtension(InputName(j))
                          report == ReportOf(Settings(worker[j].using), request[j], extension)
                          built == BuildOf(Settings(worker[j].using), request[j], extension)
                      IN  /\ DetectInputFormat(extension) \notin {"mets_gbs", "audio"} =>
                               /\ report.option = built.option
                               /\ report.pipeline = built.pipeline \/ built.pipeline = None
                               /\ report.backend = built.backend \/ built.backend = None
                               /\ report.active \in {None, built.option}
                          /\ report.mode = "vlm" <=> built.pipeline = "IngestProgressVlmPipeline"
                          /\ report.mode = "vlm" <=> report.kind = "vlm"
    BY DEF MetadataNamesWhatWasBuilt
  <2>1. ParseFits(j)
    BY DEF AcceptInv, Parsed
  <2> QED BY <2>1, ReportsWhatIsBuilt DEF ParseFits
<1> HIDE DEF Inv
<1> QED BY <1>1, <1>2, <1>3, PTL DEF Spec

-----------------------------------------------------------------------------
(* Updates that overlap                                                    *)

(* The edits of nobody else name the key.                                  *)
OnlyOf(e, k) ==
  \A d \in Editors \ {e} : edit[d] # None => k \notin ResetKeys(edit[d]) \union SetKeys(edit[d])

Accepted(e) == phase[e].at \in {"writing", "answered"}

(* Of an accepted update, the write of a key that is its own is still to   *)
(* come or stands, whatever overlaps.                                      *)
OwnWrites ==
  \A e \in Editors : Accepted(e) =>
    /\ edit[e] # None /\ KeysAllowed(edit[e])
    /\ phase[e].at = "answered" => phase[e].left = <<>>
    /\ \A w \in WritesOf(edit[e]) : OnlyOf(e, w[1]) =>
         (\E i \in DOMAIN phase[e].left : phase[e].left[i] = w) \/ Done(w, stored)

(* Every override was asked for by an accepted update, in these words or   *)
(* in a spelling of them.                                                  *)
OverridesWereAsked ==
  \A k \in DOMAIN stored : \E e \in Editors :
    /\ Accepted(e)
    /\ \E i \in DOMAIN edit[e].values :
         edit[e].values[i][1] = k /\ stored[k] = Canonical(k, edit[e].values[i][2])

(* The key of a write is one the edit names.                               *)
LEMMA WritesNameTheirKeys ==
  ASSUME NEW e, NEW w \in WritesOf(e)
  PROVE  w[1] \in ResetKeys(e) \union SetKeys(e)
BY DEF WritesOf, SetKeys, KeysOf

(* A write of two parts sets the key to its canonical value.               *)
LEMMA SetsAreOfValues ==
  ASSUME NEW e, NEW w \in WritesOf(e), Len(w) # 1
  PROVE  \E i \in DOMAIN e.values : e.values[i][1] = w[1] /\ w[2] = Canonical(w[1], e.values[i][2])
BY DEF WritesOf

(* A write takes the first of the writes left, and no other.               *)
LEMMA FirstWriteGoes ==
  ASSUME NEW S, NEW left \in Seq(S), left # <<>>
  PROVE  /\ Head(left) \in S
         /\ \A i \in DOMAIN left : left[i] # Head(left) =>
              \E k \in DOMAIN Tail(left) : Tail(left)[k] = left[i]
<1> DEFINE tail == Tail(left)
<1>1. /\ Head(left) \in S /\ Head(left) = left[1] /\ tail \in Seq(S)
      /\ Len(tail) = Len(left) - 1 /\ \A i \in 1..Len(tail) : tail[i] = left[i + 1]
      /\ Len(left) \in Nat /\ DOMAIN left = 1..Len(left) /\ DOMAIN tail = 1..Len(tail)
  BY HeadTailProperties, LenProperties
<1> HIDE DEF tail
<1>2. ASSUME NEW i \in DOMAIN left, left[i] # Head(left)
      PROVE  \E k \in DOMAIN tail : tail[k] = left[i]
  <2>1. i # 1
    BY <1>1, <1>2
  <2>2. i - 1 \in DOMAIN tail /\ tail[i - 1] = left[i]
    BY <1>1, <1>2, <2>1
  <2> QED BY <2>2
<1> QED BY <1>1, <1>2 DEF tail

(* Nobody's update is accepted in the beginning, and nothing overridden.   *)
LEMMA NothingIsAskedYet ==
  ASSUME NEW edits, SettingsInit(edits)
  PROVE  OwnWrites /\ OverridesWereAsked
<1>1. \A e \in Editors : ~Accepted(e)
  BY DEF SettingsInit, Accepted
<1>2. DOMAIN stored = {}
  BY DEF SettingsInit
<1> QED BY <1>1, <1>2 DEF OwnWrites, OverridesWereAsked

(* The writes of keys an update has for itself are not lost to the writes  *)
(* of others.                                                              *)
LEMMA OwnWritesStay ==
  ASSUME SettingsInv, OwnWrites, [SettingsNext]_settingsVars
  PROVE  OwnWrites'
<1> DEFINE Own(e) ==
             /\ edit[e] # None /\ KeysAllowed(edit[e])
             /\ phase[e].at = "answered" => phase[e].left = <<>>
             /\ \A w \in WritesOf(edit[e]) : OnlyOf(e, w[1]) =>
                  (\E i \in DOMAIN phase[e].left : phase[e].left[i] = w) \/ Done(w, stored)
<1>1. ASSUME NEW e \in Editors, Validate(e)
      PROVE  OwnWrites'
  <2>1. CASE KeysAllowed(edit[e]) /\ Constructs(Merged(stored, edit[e]))
    <3>1. /\ phase' = [phase EXCEPT ![e] = [at |-> "writing", left |-> Writes(edit[e])]]
          /\ edit[e] # None /\ edit' = edit /\ stored' = stored
      BY <1>1, <2>1 DEF Validate
    <3>2. /\ phase'[e] = [at |-> "writing", left |-> Writes(edit[e])]
          /\ \A d \in Editors \ {e} : phase'[d] = phase[d]
      BY <3>1 DEF SettingsInv, PhasesAreRecords
    <3>3. \A w \in WritesOf(edit[e]) : \E i \in DOMAIN Writes(edit[e]) : Writes(edit[e])[i] = w
      BY <3>1, EveryWriteIsThere DEF SettingsInv, EditsAreUpdates
    <3> QED BY <2>1, <3>1, <3>2, <3>3 DEF OwnWrites, Accepted, OnlyOf, WritesOf
  <2>2. CASE ~(KeysAllowed(edit[e]) /\ Constructs(Merged(stored, edit[e])))
    <3>1. phase' = [phase EXCEPT ![e].at = "refused"] /\ edit' = edit /\ stored' = stored
      BY <1>1, <2>2 DEF Validate
    <3>2. /\ phase'[e].at = "refused"
          /\ \A d \in Editors \ {e} : phase'[d] = phase[d]
      BY <3>1 DEF SettingsInv, PhasesAreRecords
    <3> QED BY <3>1, <3>2 DEF OwnWrites, Accepted, OnlyOf
  <2> QED BY <2>1, <2>2
<1>2. ASSUME NEW e \in Editors, WriteKey(e)
      PROVE  OwnWrites'
  <2> DEFINE left == phase[e].left
             w == Head(left)
             tail == Tail(left)
  <2>1. /\ phase[e].at = "writing" /\ left # <<>> /\ edit[e] # None
        /\ left \in Seq(WritesOf(edit[e]))
    BY <1>2 DEF WriteKey, SettingsInv, WritesAreSafe
  <2>2. /\ stored' = Written(stored, w)
        /\ phase' = [phase EXCEPT ![e].left = tail]
        /\ edit' = edit
    BY <1>2 DEF WriteKey
  <2>3. /\ w \in WritesOf(edit[e])
        /\ \A i \in DOMAIN left : left[i] # w => \E k \in DOMAIN tail : tail[k] = left[i]
    <3> HIDE DEF left
    <3> QED BY <2>1, FirstWriteGoes
  <2> HIDE DEF tail
  <2>4. /\ phase'[e].left = tail /\ phase'[e].at = "writing"
        /\ \A d \in Editors \ {e} : phase'[d] = phase[d]
    BY <2>1, <2>2 DEF SettingsInv, PhasesAreRecords
  <2> HIDE DEF w
  <2> DEFINE after == Written(stored, w)
  <2>0. /\ Len(w) = 1 => DOMAIN after = DOMAIN stored \ {w[1]}
        /\ Len(w) # 1 => DOMAIN after = DOMAIN stored \union {w[1]} /\ after[w[1]] = w[2]
        /\ \A f \in DOMAIN stored \ {w[1]} : after[f] = stored[f]
        /\ stored' = after
    BY <2>2, OneWrite
  <2> HIDE DEF after
  <2>5. \A v : v[1] # w[1] /\ Done(v, stored) => Done(v, stored')
    BY <2>0 DEF Done
  <2>6. Done(w, stored')
    BY <2>0 DEF Done
  <2>7. KeysAllowed(edit[e])
    BY <2>1 DEF OwnWrites, Accepted
  <2> SUFFICES ASSUME NEW d \in Editors, Accepted(d)', NEW v \in WritesOf(edit[d]), OnlyOf(d, v[1])
               PROVE  (\E i \in DOMAIN phase'[d].left : phase'[d].left[i] = v) \/ Done(v, stored')
    <3>1. \A d \in Editors : Accepted(d)' => Accepted(d)
      BY <2>1, <2>4 DEF Accepted
    <3> QED BY <2>2, <2>4, <3>1 DEF OwnWrites, OnlyOf, WritesOf
  <2>8. Accepted(d) /\ ((\E i \in DOMAIN phase[d].left : phase[d].left[i] = v) \/ Done(v, stored))
    BY <2>1, <2>4 DEF Accepted, OwnWrites
  <2>9. CASE d = e
    <3>1. CASE v = w
      BY <2>6, <3>1
    <3>2. CASE v # w
      <4>1. v[1] # w[1]
        BY <2>1, <2>3, <2>7, <2>9, <3>2, WritesOfOneKey DEF SettingsInv, EditsAreUpdates
      <4> QED BY <2>3, <2>4, <2>5, <2>8, <2>9, <3>2, <4>1
    <3> QED BY <3>1, <3>2
  <2>10. CASE d # e
    <3>1. w[1] \in ResetKeys(edit[e]) \union SetKeys(edit[e])
      BY <2>3, WritesNameTheirKeys
    <3>2. v[1] # w[1]
      BY <2>1, <2>10, <3>1 DEF OnlyOf
    <3> QED BY <2>4, <2>5, <2>8, <2>10, <3>2
  <2> QED BY <2>9, <2>10
<1>3. ASSUME NEW e \in Editors, Answer(e)
      PROVE  OwnWrites'
  <2>1. /\ phase[e].at = "writing" /\ phase[e].left = <<>>
        /\ phase' = [phase EXCEPT ![e].at = "answered"] /\ edit' = edit /\ stored' = stored
    BY <1>3 DEF Answer
  <2>2. /\ phase'[e].at = "answered" /\ phase'[e].left = phase[e].left
        /\ \A d \in Editors \ {e} : phase'[d] = phase[d]
    BY <2>1 DEF SettingsInv, PhasesAreRecords
  <2> QED BY <2>1, <2>2 DEF OwnWrites, Accepted, OnlyOf
<1>4. CASE UNCHANGED settingsVars
  BY <1>4 DEF settingsVars, OwnWrites, Accepted, OnlyOf
<1> QED BY <1>1, <1>2, <1>3, <1>4 DEF SettingsNext

(* What stands was asked for: a refused update leaves nothing.             *)
LEMMA AskedStays ==
  ASSUME SettingsInv, OverridesWereAsked, [SettingsNext]_settingsVars
  PROVE  OverridesWereAsked'
<1>1. ASSUME edit' = edit, stored' = stored, \A d \in Editors : Accepted(d) => Accepted(d)'
      PROVE  OverridesWereAsked'
  BY <1>1 DEF OverridesWereAsked
<1>2. ASSUME NEW e \in Editors, Validate(e)
      PROVE  OverridesWereAsked'
  <2>1. edit' = edit /\ stored' = stored
    BY <1>2 DEF Validate
  <2>2. \A d \in Editors : Accepted(d) => Accepted(d)'
    BY <1>2 DEF Validate, Accepted, SettingsInv, PhasesAreRecords
  <2> QED BY <1>1, <2>1, <2>2
<1>3. ASSUME NEW e \in Editors, WriteKey(e)
      PROVE  OverridesWereAsked'
  <2> DEFINE left == phase[e].left
             w == Head(left)
             tail == Tail(left)
  <2>1. /\ phase[e].at = "writing" /\ left # <<>> /\ edit[e] # None
        /\ left \in Seq(WritesOf(edit[e]))
    BY <1>3 DEF WriteKey, SettingsInv, WritesAreSafe
  <2>2. /\ stored' = Written(stored, w)
        /\ phase' = [phase EXCEPT ![e].left = tail]
        /\ edit' = edit
    BY <1>3 DEF WriteKey
  <2>3. w \in WritesOf(edit[e])
    <3> HIDE DEF left
    <3> QED BY <2>1, FirstWriteGoes
  <2> HIDE DEF tail
  <2>4. \A d \in Editors : Accepted(d) => Accepted(d)'
    BY <2>2 DEF SettingsInv, PhasesAreRecords, Accepted
  <2> HIDE DEF w
  <2> DEFINE after == Written(stored, w)
  <2>0. /\ Len(w) = 1 => DOMAIN after = DOMAIN stored \ {w[1]}
        /\ Len(w) # 1 => DOMAIN after = DOMAIN stored \union {w[1]} /\ after[w[1]] = w[2]
        /\ \A f \in DOMAIN stored \ {w[1]} : after[f] = stored[f]
        /\ stored' = after
    BY <2>2, OneWrite
  <2> HIDE DEF after
  <2>5. ASSUME NEW k \in DOMAIN stored', k # w[1]
        PROVE  k \in DOMAIN stored /\ stored'[k] = stored[k]
    BY <2>0, <2>5
  <2>6. ASSUME w[1] \in DOMAIN stored' PROVE Len(w) # 1 /\ stored'[w[1]] = w[2]
    BY <2>0, <2>6
  <2>7. Accepted(e)'
    BY <2>1, <2>4 DEF Accepted
  <2> SUFFICES ASSUME NEW k \in DOMAIN stored'
               PROVE  \E d \in Editors :
                        /\ Accepted(d)'
                        /\ \E i \in DOMAIN edit[d].values :
                             /\ edit[d].values[i][1] = k
                             /\ stored'[k] = Canonical(k, edit[d].values[i][2])
    BY <2>2 DEF OverridesWereAsked
  <2>8. CASE k = w[1]
    <3>1. \E i \in DOMAIN edit[e].values :
            edit[e].values[i][1] = k /\ stored'[k] = Canonical(k, edit[e].values[i][2])
      BY <2>3, <2>6, <2>8, SetsAreOfValues
    <3> QED BY <2>7, <3>1
  <2>9. CASE k # w[1]
    BY <2>4, <2>5, <2>9 DEF OverridesWereAsked
  <2> QED BY <2>8, <2>9
<1>4. ASSUME NEW e \in Editors, Answer(e)
      PROVE  OverridesWereAsked'
  <2>1. edit' = edit /\ stored' = stored
    BY <1>4 DEF Answer
  <2>2. \A d \in Editors : Accepted(d) => Accepted(d)'
    BY <1>4 DEF Answer, Accepted, SettingsInv, PhasesAreRecords
  <2> QED BY <1>1, <2>1, <2>2
<1>5. CASE UNCHANGED settingsVars
  BY <1>1, <1>5 DEF settingsVars, Accepted
<1> QED BY <1>2, <1>3, <1>4, <1>5 DEF SettingsNext

(* Where an update is the only one to name a key, the key is, from the     *)
(* last of its writes on, as the update asked.                             *)
OwnKeysStand ==
  \A e \in Editors : (Accepted(e) /\ phase[e].left = <<>>) =>
    /\ \A k \in ResetKeys(edit[e]) : OnlyOf(e, k) => k \notin DOMAIN stored
    /\ \A i \in DOMAIN edit[e].values :
         LET k == edit[e].values[i][1]
         IN OnlyOf(e, k) => k \in DOMAIN stored /\ stored[k] = Canonical(k, edit[e].values[i][2])

(* When no write is left, those of its own keys are done.                  *)
LEMMA OwnKeysAreWhole ==
  ASSUME OwnWrites
  PROVE  OwnKeysStand
<1> SUFFICES ASSUME NEW e \in Editors, Accepted(e), phase[e].left = <<>>
             PROVE  /\ \A k \in ResetKeys(edit[e]) : OnlyOf(e, k) => k \notin DOMAIN stored
                    /\ \A i \in DOMAIN edit[e].values :
                         LET k == edit[e].values[i][1]
                         IN OnlyOf(e, k) => k \in DOMAIN stored /\ stored[k] = Canonical(k, edit[e].values[i][2])
  BY DEF OwnKeysStand
<1>1. \A w \in WritesOf(edit[e]) : OnlyOf(e, w[1]) => Done(w, stored)
  BY EmptySeq DEF OwnWrites
<1>2. ASSUME NEW k \in ResetKeys(edit[e]), OnlyOf(e, k) PROVE k \notin DOMAIN stored
  <2>1. <<k>> \in WritesOf(edit[e])
    BY DEF WritesOf
  <2>2. Done(<<k>>, stored)
    BY <1>1, <1>2, <2>1
  <2> QED BY <2>2 DEF Done
<1>3. ASSUME NEW i \in DOMAIN edit[e].values, OnlyOf(e, edit[e].values[i][1])
      PROVE  LET k == edit[e].values[i][1]
             IN k \in DOMAIN stored /\ stored[k] = Canonical(k, edit[e].values[i][2])
  <2> DEFINE k == edit[e].values[i][1]
             v == Canonical(k, edit[e].values[i][2])
  <2>1. <<k, v>> \in WritesOf(edit[e])
    BY DEF WritesOf
  <2>2. OnlyOf(e, k)
    BY <1>3
  <2> HIDE DEF k, v
  <2>3. Done(<<k, v>>, stored)
    BY <1>1, <2>1, <2>2
  <2>4. k \in DOMAIN stored /\ stored[k] = v
    BY <2>3 DEF Done
  <2> QED BY <2>4 DEF k, v
<1> QED BY <1>2, <1>3

(* Two updates that overlap mix key by key only: a key that only one of    *)
(* them names is as that update asked once it has written, and stays so.   *)
(* UpdatesAreWhole is about all keys of an update nobody overlapped.       *)
THEOREM OwnKeysAlwaysStand == Spec => []OwnKeysStand
<1>1. Init => SettingsInv /\ OwnWrites
  BY SettingsInvStarts, NothingIsAskedYet, ScenariosAssumption DEF Init
<1>2. SettingsInv /\ OwnWrites /\ [Next]_vars => (SettingsInv /\ OwnWrites)'
  BY SettingsInvStays, OwnWritesStay, StepsAreSettingsSteps
<1>3. OwnWrites => OwnKeysStand
  BY OwnKeysAreWhole
<1> QED BY <1>1, <1>2, <1>3, PTL DEF Spec

(* No override appears that no accepted update asked for: a refused update *)
(* leaves nothing, and a half-written one only its own values.             *)
THEOREM OverridesWereAlwaysAsked == Spec => []OverridesWereAsked
<1>1. Init => SettingsInv /\ OverridesWereAsked
  BY SettingsInvStarts, NothingIsAskedYet, ScenariosAssumption DEF Init
<1>2. SettingsInv /\ OverridesWereAsked /\ [Next]_vars => (SettingsInv /\ OverridesWereAsked)'
  BY SettingsInvStays, AskedStays, StepsAreSettingsSteps
<1> QED BY <1>1, <1>2, PTL DEF Spec
=============================================================================

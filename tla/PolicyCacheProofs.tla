-------------------------- MODULE PolicyCacheProofs --------------------------
(***************************************************************************)
(* The policy cache for any processes, any number of settings versions and  *)
(* any bounds.  An entry is followed from its making to its use: wherever   *)
(* it is (in the worker's hands, in the map, in the hook's hands) a policy  *)
(* that says `smooth` rests on settings at least as new as the generation   *)
(* it is stamped with, and no entry the worker holds or published is        *)
(* stamped with a generation older than the one the worker observed.        *)
(***************************************************************************)
EXTENDS PolicyCache, TLAPS, FiniteSetTheorems

\* The generation follows the settings, one behind inside UpdateSettings, and
\* the worker's view follows the generation.
GenerationTrails ==
  /\ settings = IF updater = "stored" THEN generation + 1 ELSE generation
  /\ observed <= generation

\* A policy for p stamped with its generation rests on recent enough settings.
Vouched(p, entry) == entry.smooth => SmoothedSince(entry.generation, p)

\* Stamped by a generation the worker has not left behind.
Stamped(entry) == observed <= entry.generation /\ entry.generation <= generation

MapVouched ==
  \A p \in DOMAIN policies : Stamped(policies[p]) /\ Vouched(p, policies[p])

WorkerVouched ==
  worker \in Resolution =>
    /\ Stamped(worker.entry)
    /\ worker.step \in {"naming", "deciding"} => ~worker.entry.smooth
    /\ Vouched(worker.process, worker.entry)

\* What a lookup holds is vouched for, and a hit was stamped after the lookup began.
HookVouched ==
  hook \in Lookup =>
    /\ Vouched(hook.process, hook.entry)
    /\ hook.since <= generation
    /\ hook.step = "hit" => hook.since <= hook.entry.generation

IInv == TypeOK /\ GenerationTrails /\ MapVouched /\ WorkerVouched /\ HookVouched

\* Idle is no resolution and no lookup.
LEMMA IdleApart == Idle \notin Resolution /\ Idle \notin Lookup
BY DEF Idle, Resolution, Lookup

LEMMA InitIInv == Init => IInv
BY IdleApart, VersionAssumption, TimeAssumption
   DEF Init, IInv, TypeOK, GenerationTrails, MapVouched, WorkerVouched, HookVouched,
       EmptyMap, Version, Time

\* Newer settings only widen the range a policy may rest on.
LEMMA VouchedStays ==
  ASSUME IInv, settings' \in Version, settings' >= settings,
         NEW p, NEW e \in Entry, Vouched(p, e)
  PROVE  Vouched(p, e)'
BY DEF IInv, TypeOK, Vouched, SmoothedSince, Version, Entry

\* A step that leaves map, worker and hook alone keeps what they vouch for.
LEMMA UpdaterStep ==
  ASSUME IInv, settings' \in Version, settings' >= settings,
         generation' \in Version, generation' >= generation,
         UNCHANGED <<policies, worker, observed, hook>>
  PROVE  MapVouched' /\ WorkerVouched' /\ HookVouched'
<1>1. MapVouched'
  <2> SUFFICES ASSUME NEW p \in DOMAIN policies
               PROVE  Stamped(policies[p])' /\ Vouched(p, policies[p])'
    BY DEF MapVouched
  <2>1. policies[p] \in Entry /\ Stamped(policies[p]) /\ Vouched(p, policies[p])
    BY DEF IInv, TypeOK, MapVouched
  <2>2. Vouched(p, policies[p])'
    <3>1. \A e \in Entry : Vouched(p, e) => (Vouched(p, e))'
      BY VouchedStays
    <3>2. QED
      BY <2>1, <3>1 DEF Vouched, SmoothedSince
  <2>3. Stamped(policies[p])'
    BY <2>1 DEF Stamped, IInv, TypeOK, Entry, Version
  <2>4. QED
    BY <2>2, <2>3
<1>2. WorkerVouched'
  <2> SUFFICES ASSUME worker \in Resolution PROVE WorkerVouched'
    BY DEF WorkerVouched
  <2>1. worker.entry \in Entry /\ WorkerVouched
    BY DEF IInv, Resolution
  <2>2. Vouched(worker.process, worker.entry)'
    BY <2>1, VouchedStays DEF WorkerVouched, Vouched, SmoothedSince, IInv, TypeOK, Version, Entry
  <2>3. Stamped(worker.entry)'
    BY <2>1 DEF WorkerVouched, Stamped, IInv, TypeOK, Entry, Version
  <2>4. QED
    BY <2>1, <2>2, <2>3 DEF WorkerVouched
<1>3. HookVouched'
  <2> SUFFICES ASSUME hook \in Lookup PROVE HookVouched'
    BY DEF HookVouched
  <2>1. hook.entry \in Entry /\ hook.since \in Version /\ HookVouched
    BY DEF IInv, Lookup
  <2>2. Vouched(hook.process, hook.entry)'
    BY <2>1 DEF HookVouched, Vouched, SmoothedSince, IInv, TypeOK, Version, Entry
  <2>3. hook.since <= generation'
    BY <2>1 DEF HookVouched, IInv, TypeOK, Version
  <2>4. QED
    BY <2>1, <2>2, <2>3 DEF HookVouched
<1>4. QED
  BY <1>1, <1>2, <1>3

LEMMA NextIInv == IInv /\ [Next]_vars => IInv'
<1> SUFFICES ASSUME IInv, [Next]_vars PROVE IInv'
  OBVIOUS
<1>t. TypeOK /\ GenerationTrails /\ MapVouched /\ WorkerVouched /\ HookVouched
  BY DEF IInv
<1>v. /\ settings \in Version /\ generation \in Version /\ observed \in Version
      /\ clock \in Time /\ workerNow \in Time
  BY <1>t DEF TypeOK
<1>1. CASE Tick
  <2>1. TypeOK' /\ GenerationTrails'
    <3>1. clock' \in Time
      BY <1>1, <1>v, TimeAssumption DEF Tick, Time
    <3>2. QED
      BY <1>1, <1>t, <3>1 DEF Tick, TypeOK, GenerationTrails
  <2>2. MapVouched' /\ WorkerVouched' /\ HookVouched'
    BY <1>1, <1>t DEF Tick, MapVouched, WorkerVouched, HookVouched, Stamped, Vouched,
                      SmoothedSince
  <2>3. QED
    BY <2>1, <2>2 DEF IInv
<1>2. CASE StoreSettings
  <2>1. settings' \in Version /\ settings' >= settings
    BY <1>2, <1>v, VersionAssumption DEF StoreSettings, Version
  <2>2. MapVouched' /\ WorkerVouched' /\ HookVouched'
    BY <1>2, <1>v, <2>1, UpdaterStep DEF StoreSettings, Version
  <2>3. TypeOK' /\ GenerationTrails'
    BY <1>2, <1>t, <1>v, <2>1 DEF StoreSettings, TypeOK, GenerationTrails, Version
  <2>4. QED
    BY <2>2, <2>3 DEF IInv
<1>3. CASE AdvanceGeneration
  <2>1. generation' \in Version /\ generation' >= generation
    BY <1>3, <1>t, <1>v DEF AdvanceGeneration, GenerationTrails, Version
  <2>2. MapVouched' /\ WorkerVouched' /\ HookVouched'
    BY <1>3, <1>v, <2>1, UpdaterStep DEF AdvanceGeneration, Version
  <2>3. TypeOK' /\ GenerationTrails'
    BY <1>3, <1>t, <1>v, <2>1 DEF AdvanceGeneration, TypeOK, GenerationTrails, Version
  <2>4. QED
    BY <2>2, <2>3 DEF IInv
<1>4. CASE UpdaterInvalidate
  <2>1. TypeOK' /\ GenerationTrails'
    BY <1>4, <1>t DEF UpdaterInvalidate, TypeOK, GenerationTrails, EmptyMap
  <2>2. MapVouched'
    BY <1>4 DEF UpdaterInvalidate, MapVouched, EmptyMap
  <2>3. WorkerVouched' /\ HookVouched'
    BY <1>4, <1>t DEF UpdaterInvalidate, WorkerVouched, HookVouched, Stamped, Vouched,
                      SmoothedSince
  <2>4. QED
    BY <2>1, <2>2, <2>3 DEF IInv
<1>5. CASE StartTurn
  <2>1. TypeOK' /\ GenerationTrails'
    BY <1>5, <1>t, <1>v DEF StartTurn, TypeOK, GenerationTrails, EmptyMap, Version
  <2>2. MapVouched'
    <3>1. CASE generation # observed
      BY <1>5, <3>1 DEF StartTurn, MapVouched, EmptyMap
    <3>2. CASE generation = observed
      BY <1>5, <3>2, <1>t DEF StartTurn, MapVouched, Stamped, Vouched, SmoothedSince
    <3>3. QED
      BY <3>1, <3>2
  <2>3. WorkerVouched' /\ HookVouched'
    BY <1>5, <1>t, IdleApart DEF StartTurn, WorkerVouched, HookVouched, Stamped, Vouched,
                      SmoothedSince
  <2>4. QED
    BY <2>1, <2>2, <2>3 DEF IInv
<1>6. ASSUME NEW p \in Process, NEW mark \in BOOLEAN, BeginResolution(p, mark) PROVE IInv'
  <2>1. /\ worker' \in Resolution /\ worker'.entry.generation = generation
        /\ worker'.entry.smooth = FALSE
    BY <1>6, <1>v DEF BeginResolution, Resolution, Entry
  <2>2. TypeOK' /\ GenerationTrails'
    BY <1>6, <1>t, <2>1 DEF BeginResolution, TypeOK, GenerationTrails
  <2>3. MapVouched' /\ HookVouched'
    BY <1>6, <1>t DEF BeginResolution, MapVouched, HookVouched, Stamped, Vouched,
                      SmoothedSince
  <2>4. WorkerVouched'
    BY <1>6, <1>t, <1>v, <2>1 DEF BeginResolution, GenerationTrails, WorkerVouched, Stamped,
                                  Vouched, Version
  <2>5. QED
    BY <2>2, <2>3, <2>4 DEF IInv
<1>7. CASE NameExecutable
  <2>1. PICK found \in BOOLEAN :
          worker' = [worker EXCEPT !.step = "deciding", !.found = found]
    BY <1>7 DEF NameExecutable
  <2>2. worker \in Resolution /\ worker.step = "naming"
    BY <1>7, <1>t DEF NameExecutable, TypeOK, Idle
  <2>3. /\ worker' \in Resolution /\ worker'.entry = worker.entry
        /\ worker'.process = worker.process
    BY <2>1, <2>2 DEF Resolution
  <2>4. TypeOK' /\ GenerationTrails'
    BY <1>7, <1>t, <2>3 DEF NameExecutable, TypeOK, GenerationTrails
  <2>5. MapVouched' /\ HookVouched'
    BY <1>7, <1>t DEF NameExecutable, MapVouched, HookVouched, Stamped, Vouched,
                      SmoothedSince
  <2>6. WorkerVouched'
    BY <1>7, <1>t, <2>2, <2>3 DEF NameExecutable, WorkerVouched, Stamped, Vouched,
                      SmoothedSince
  <2>7. QED
    BY <2>4, <2>5, <2>6 DEF IInv
<1>8. CASE Decide
  <2> DEFINE smooth == ~worker.mark /\ worker.found /\ worker.process \in Smooths[settings]
  <2>1. worker \in Resolution /\ worker.step = "deciding" /\ worker.entry \in Entry
    BY <1>8, <1>t DEF Decide, TypeOK, Idle, Resolution
  <2>2. worker' = [worker EXCEPT !.step = "publishing", !.entry.smooth = smooth]
    BY <1>8 DEF Decide
  <2>3. /\ worker' \in Resolution /\ worker'.step = "publishing"
        /\ worker'.process = worker.process
        /\ worker'.entry.generation = worker.entry.generation
        /\ worker'.entry.smooth = smooth
    <3>1. smooth \in BOOLEAN
      OBVIOUS
    <3> HIDE DEF smooth
    <3>2. [worker.entry EXCEPT !.smooth = smooth] \in Entry
      BY <2>1, <3>1 DEF Entry
    <3>3. QED
      BY <2>1, <2>2, <3>1, <3>2 DEF Resolution, Entry
  <2>4. TypeOK' /\ GenerationTrails'
    BY <1>8, <1>t, <2>3 DEF Decide, TypeOK, GenerationTrails
  <2>5. MapVouched' /\ HookVouched'
    BY <1>8, <1>t DEF Decide, MapVouched, HookVouched, Stamped, Vouched, SmoothedSince
  <2>6. Stamped(worker.entry) /\ worker.entry.generation <= settings
    BY <1>t, <1>v, <2>1 DEF WorkerVouched, Stamped, GenerationTrails, Entry, Version
  <2>7. smooth => SmoothedSince(worker.entry.generation, worker.process)
    BY <1>v, <2>1, <2>6 DEF SmoothedSince, Entry, Version
  <2>8. WorkerVouched'
    <3>1. Stamped(worker.entry)'
      BY <1>8, <2>3, <2>6 DEF Decide, Stamped
    <3>2. Vouched(worker.process, worker.entry)'
      BY <1>8, <2>3, <2>7 DEF Decide, Vouched, SmoothedSince
    <3>3. QED
      BY <2>3, <3>1, <3>2 DEF WorkerVouched
  <2>9. QED
    BY <2>4, <2>5, <2>8 DEF IInv
<1>9. CASE Publish
  <2>1. worker \in Resolution /\ worker.step = "publishing" /\ worker.entry \in Entry
    BY <1>9, <1>t DEF Publish, TypeOK, Idle, Resolution
  <2>2. PICK kept \in Retained(worker.process) :
          policies' = WithEntry(kept, worker.process, worker.entry)
    BY <1>9 DEF Publish
  <2>3. kept \subseteq DOMAIN policies
    BY DEF Retained
  <2>4. /\ DOMAIN policies' = kept \cup {worker.process}
        /\ \A q \in DOMAIN policies' :
              policies'[q] = IF q = worker.process THEN worker.entry ELSE policies[q]
    BY <2>2 DEF WithEntry
  <2>5. TypeOK' /\ GenerationTrails'
    BY <1>9, <1>t, <2>1, <2>3, <2>4 DEF Publish, TypeOK, GenerationTrails, Resolution
  <2>6. MapVouched'
    BY <1>9, <1>t, <2>1, <2>3, <2>4
       DEF Publish, MapVouched, WorkerVouched, Stamped, Vouched, SmoothedSince
  <2>7. WorkerVouched' /\ HookVouched'
    BY <1>9, <1>t, IdleApart DEF Publish, WorkerVouched, HookVouched, Vouched, SmoothedSince
  <2>8. QED
    BY <2>5, <2>6, <2>7 DEF IInv
<1>10. ASSUME NEW p \in Process, LookupLoad(p) PROVE IInv'
  <2>1. policies[p] \in Entry /\ Vouched(p, policies[p])
    BY <1>10, <1>t DEF LookupLoad, TypeOK, MapVouched
  <2>2. /\ hook' \in Lookup /\ hook'.process = p /\ hook'.entry = policies[p]
        /\ hook'.step = "checking" /\ hook'.since = generation
    BY <1>10, <1>v, <2>1 DEF LookupLoad, Lookup
  <2>3. TypeOK' /\ GenerationTrails'
    BY <1>10, <1>t, <2>2 DEF LookupLoad, TypeOK, GenerationTrails
  <2>4. MapVouched' /\ WorkerVouched'
    BY <1>10, <1>t DEF LookupLoad, MapVouched, WorkerVouched, Stamped, Vouched, SmoothedSince
  <2>5. HookVouched'
    BY <1>10, <1>v, <2>1, <2>2 DEF LookupLoad, HookVouched, Vouched, SmoothedSince, Version
  <2>6. QED
    BY <2>3, <2>4, <2>5 DEF IInv
<1>11. CASE LookupCheck
  <2>1. hook \in Lookup
    BY <1>11, <1>t DEF LookupCheck, TypeOK, Idle
  <2>2. \/ hook' = Idle
        \/ /\ hook' \in Lookup /\ hook'.process = hook.process /\ hook'.entry = hook.entry
           /\ hook'.since = hook.since /\ hook.entry.generation = generation
    BY <1>11, <2>1 DEF LookupCheck, Valid, Lookup
  <2>3. TypeOK' /\ GenerationTrails'
    BY <1>11, <1>t, <2>2 DEF LookupCheck, TypeOK, GenerationTrails
  <2>4. MapVouched' /\ WorkerVouched'
    BY <1>11, <1>t DEF LookupCheck, MapVouched, WorkerVouched, Stamped, Vouched, SmoothedSince
  <2>5. HookVouched'
    BY <1>11, <1>t, <2>1, <2>2, IdleApart DEF LookupCheck, HookVouched, Vouched, SmoothedSince
  <2>6. QED
    BY <2>3, <2>4, <2>5 DEF IInv
<1>12. CASE LookupDone
  <2>1. TypeOK' /\ GenerationTrails'
    BY <1>12, <1>t DEF LookupDone, TypeOK, GenerationTrails
  <2>2. MapVouched' /\ WorkerVouched' /\ HookVouched'
    BY <1>12, <1>t, IdleApart DEF LookupDone, MapVouched, WorkerVouched, HookVouched, Stamped,
                                  Vouched, SmoothedSince
  <2>3. QED
    BY <2>1, <2>2 DEF IInv
<1>13. CASE UNCHANGED vars
  BY <1>13, <1>t DEF vars, IInv, TypeOK, GenerationTrails, MapVouched, WorkerVouched,
                     HookVouched, Stamped, Vouched, SmoothedSince
<1>14. QED
  BY <1>1, <1>2, <1>3, <1>4, <1>5, <1>6, <1>7, <1>8, <1>9, <1>10, <1>11, <1>12, <1>13
     DEF Next

\* The state of settings, cache, worker and hook stays in its types.
THEOREM TypeCorrect == Spec => []TypeOK
<1>1. IInv => TypeOK
  BY DEF IInv
<1>2. QED
  BY <1>1, InitIInv, NextIInv, PTL DEF Spec

\* No lookup that swallows an event rests on settings retired before it began.
THEOREM HitsAreCurrent == Spec => []HitIsCurrent
<1>1. IInv => HitIsCurrent
  <2> SUFFICES ASSUME IInv, hook.step = "hit", hook.entry.smooth
               PROVE  SmoothedSince(hook.since, hook.process)
    BY DEF HitIsCurrent
  <2>1. hook \in Lookup /\ hook.entry \in Entry /\ hook.since \in Version /\ settings \in Version
    BY DEF IInv, TypeOK, Idle, Lookup
  <2>2. SmoothedSince(hook.entry.generation, hook.process) /\ hook.since <= hook.entry.generation
    BY <2>1 DEF IInv, HookVouched, Vouched
  <2>3. QED
    BY <2>1, <2>2 DEF SmoothedSince, Entry, Version
<1>2. QED
  BY <1>1, InitIInv, NextIInv, PTL DEF Spec

\* The worker's own Invalidate leaves no entry of a generation it has left behind.
THEOREM RetiredEntriesGo == Spec => []NoRetiredEntries
<1>1. IInv => NoRetiredEntries
  BY DEF IInv, TypeOK, NoRetiredEntries, MapVouched, Stamped, Entry, Version
<1>2. QED
  BY <1>1, InitIInv, NextIInv, PTL DEF Spec

-----------------------------------------------------------------------------
(* The bound on the map.                                                   *)

BInv == IsFiniteSet(DOMAIN policies) /\ BoundedCache

\* Publishing adds one process, and gives one up first if the map is full.
LEMMA PublishBounded ==
  ASSUME BInv, Publish
  PROVE  BInv'
<1> DEFINE p == worker.process
           D == DOMAIN policies
<1>1. PICK kept \in Retained(p) : policies' = WithEntry(kept, p, worker.entry)
  BY DEF Publish
<1>2. DOMAIN policies' = kept \cup {p}
  BY <1>1 DEF WithEntry
<1>3. IsFiniteSet(D) /\ Cardinality(D) \in Nat /\ Cardinality(D) <= MaxCached
  BY FS_CardinalityType DEF BInv, BoundedCache
<1>4. kept \subseteq D
  BY DEF Retained
<1>5. IsFiniteSet(kept) /\ Cardinality(kept) \in Nat /\ Cardinality(kept) <= Cardinality(D)
  BY <1>3, <1>4, FS_Subset, FS_CardinalityType
<1>6. /\ IsFiniteSet(kept \cup {p})
      /\ Cardinality(kept \cup {p}) =
           IF p \in kept THEN Cardinality(kept) ELSE Cardinality(kept) + 1
  BY <1>5, FS_AddElement
<1>7. CASE Cardinality(D) >= MaxCached /\ p \notin D
  <2>1. PICK q \in D : kept = D \ {q}
    BY <1>7 DEF Retained
  <2>2. Cardinality(kept) = Cardinality(D) - 1
    BY <1>3, <2>1, FS_RemoveElement
  <2>3. QED
    BY <1>2, <1>3, <1>6, <2>2, MaxCachedAssumption DEF BInv, BoundedCache
<1>8. CASE Cardinality(D) < MaxCached
  BY <1>2, <1>3, <1>5, <1>6, <1>8, MaxCachedAssumption DEF BInv, BoundedCache
<1>9. CASE p \in D
  <2>1. kept \cup {p} \subseteq D
    BY <1>4, <1>9
  <2>2. Cardinality(kept \cup {p}) <= Cardinality(D)
    BY <1>3, <2>1, FS_Subset
  <2>3. QED
    BY <1>2, <1>3, <1>5, <1>6, <2>2, MaxCachedAssumption DEF BInv, BoundedCache
<1>10. QED
  BY <1>3, <1>7, <1>8, <1>9, MaxCachedAssumption

LEMMA EmptyMapBounded == IsFiniteSet(DOMAIN EmptyMap) /\ Cardinality(DOMAIN EmptyMap) <= MaxCached
BY FS_EmptySet, MaxCachedAssumption DEF EmptyMap

LEMMA NextBInv == BInv /\ [Next]_vars => BInv'
<1> SUFFICES ASSUME BInv, [Next]_vars PROVE BInv'
  OBVIOUS
<1>1. CASE Publish
  BY <1>1, PublishBounded
<1>2. CASE UpdaterInvalidate
  BY <1>2, EmptyMapBounded DEF UpdaterInvalidate, BInv, BoundedCache
<1>3. CASE StartTurn
  BY <1>3, EmptyMapBounded DEF StartTurn, BInv, BoundedCache
<1>4. CASE UNCHANGED policies
  BY <1>4 DEF BInv, BoundedCache
<1>5. QED
  BY <1>1, <1>2, <1>3, <1>4
     DEF Next, vars, Tick, StoreSettings, AdvanceGeneration, BeginResolution,
         NameExecutable, Decide, LookupLoad, LookupCheck, LookupDone

\* The map holds at most MaxCached processes, whatever is resolved and when.
THEOREM CacheBounded == Spec => []BoundedCache
<1>1. Init => BInv
  BY EmptyMapBounded DEF Init, BInv, BoundedCache
<1>2. BInv => BoundedCache
  BY DEF BInv
<1>3. QED
  BY <1>1, <1>2, NextBInv, PTL DEF Spec

=============================================================================

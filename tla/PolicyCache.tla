----------------------------- MODULE PolicyCache -----------------------------
(***************************************************************************)
(* RuntimeState and TargetPolicyCache: how settings reach the mouse hook.   *)
(*                                                                         *)
(* Three threads meet here without a common lock.  The updater (whichever  *)
(* thread runs EngineApp::ApplySettings, one at a time under its mutex)     *)
(* stores the new settings and then advances the generation, two separate   *)
(* atomics, and empties the cache.  The worker resolves the policy of a     *)
(* process from the generation, the executable's name and the settings,     *)
(* read in that order, and publishes a new map.  The hook looks a process   *)
(* up in the map it loads and compares the entry with the generation it     *)
(* loads afterwards.                                                       *)
(*                                                                         *)
(* Settings are named by a version: every UpdateSettings stores the next    *)
(* one.  Smooths says which processes a version lets be smoothed, the       *)
(* result of ResolveAppPolicy.                                             *)
(***************************************************************************)
EXTENDS Integers, FiniteSets

CONSTANTS Process,     \* the processes owning windows
          MaxCached,   \* kMaximumCachedProcesses: 128 in the code
          Lifetime,    \* kPolicyLifetimeMs: 30 s in the code
          MaxVersion,  \* bound of a run: the last version of the settings
          MaxTime,     \* bound of a run: the last instant of the clock
          Smooths      \* the processes each version lets be smoothed

Version == 1 .. MaxVersion

ASSUME MaxCachedAssumption == MaxCached \in Nat /\ MaxCached >= 1
ASSUME TimeAssumption == Lifetime \in Nat /\ MaxTime \in Nat
ASSUME VersionAssumption == MaxVersion \in Nat /\ MaxVersion >= 1
ASSUME SmoothsAssumption == Smooths \in [Version -> SUBSET Process]

VARIABLES settings,    \* RuntimeState::settings_
          generation,  \* RuntimeState::settings_generation_
          policies,    \* TargetPolicyCache::policies_, a function on the PIDs cached
          clock,       \* GetTickCount64
          updater,     \* where the updater is inside ApplySettings
          worker,      \* where the worker is inside Resolve or MarkPassThrough
          observed,    \* MotionWorker::observed_settings_generation_
          workerNow,   \* the worker's now_ms, read once per turn of its loop
          hook         \* where the hook is inside TryGet

vars == <<settings, generation, policies, clock, updater, worker, observed,
          workerNow, hook>>

Time == 0 .. MaxTime

\* ResolvedTarget: the executable's name and the motion settings left out.
Entry == [generation : Version, resolvedAt : Time, smooth : BOOLEAN]

Resolution == [step : {"naming", "deciding", "publishing"}, process : Process,
               mark : BOOLEAN, found : BOOLEAN, entry : Entry]

\* `since` is history: the generation published when the lookup began.
Lookup == [step : {"checking", "hit"}, process : Process, now : Time, entry : Entry,
           since : Version]

Idle == [step |-> "idle"]

EmptyMap == [p \in {} |-> Idle]

Init ==
  /\ settings = 1 /\ generation = 1 /\ observed = 1
  /\ policies = EmptyMap
  /\ clock = 0 /\ workerNow = 0
  /\ updater = "idle" /\ worker = Idle /\ hook = Idle

Tick ==
  /\ clock < MaxTime
  /\ clock' = clock + 1
  /\ UNCHANGED <<settings, generation, policies, updater, worker, observed,
                 workerNow, hook>>

-----------------------------------------------------------------------------
(* The updater: UpdateSettings, then TargetPolicyCache::Invalidate.         *)

StoreSettings ==
  /\ updater = "idle" /\ settings < MaxVersion
  /\ settings' = settings + 1
  /\ updater' = "stored"
  /\ UNCHANGED <<generation, policies, clock, worker, observed, workerNow, hook>>

\* Mutant: the generation runs ahead of the settings stored.
AdvanceGeneration_TooFar ==
  /\ updater = "stored"
  /\ generation' = settings + 1
  /\ updater' = "advanced"
  /\ UNCHANGED <<settings, policies, clock, worker, observed, workerNow, hook>>

AdvanceGeneration ==
  /\ updater = "stored"
  /\ generation' = generation + 1
  /\ updater' = "advanced"
  /\ UNCHANGED <<settings, policies, clock, worker, observed, workerNow, hook>>

UpdaterInvalidate ==
  /\ updater = "advanced"
  /\ policies' = EmptyMap
  /\ updater' = "idle"
  /\ UNCHANGED <<settings, generation, clock, worker, observed, workerNow, hook>>

-----------------------------------------------------------------------------
(* The worker.                                                             *)

\* Mutant: the worker adopts the generation and leaves the map alone.
StartTurn_KeepMap ==
  /\ worker = Idle
  /\ workerNow' = clock
  /\ observed' = generation
  /\ UNCHANGED <<settings, generation, policies, clock, updater, worker, hook>>

\* A turn of MotionWorker::Run reads the time and, if the generation moved on,
\* empties the map itself: the updater's own Invalidate may have come before
\* the worker published an entry of the old generation.
StartTurn ==
  /\ worker = Idle
  /\ workerNow' = clock
  /\ observed' = generation
  /\ policies' = IF generation # observed THEN EmptyMap ELSE policies
  /\ UNCHANGED <<settings, generation, clock, updater, worker, hook>>

\* Resolve (mark = FALSE) and MarkPassThrough (mark = TRUE) read the
\* generation before everything else.
BeginResolution(p, mark) ==
  /\ worker = Idle
  /\ worker' = [step |-> "naming", process |-> p, mark |-> mark, found |-> FALSE,
                entry |-> [generation |-> generation, resolvedAt |-> workerNow,
                           smooth |-> FALSE]]
  /\ UNCHANGED <<settings, generation, policies, clock, updater, observed,
                 workerNow, hook>>

\* ExecutableName asks the system, which may not know the process any more or
\* not let it be opened.
NameExecutable ==
  /\ worker.step = "naming"
  /\ \E found \in BOOLEAN :
       worker' = [worker EXCEPT !.step = "deciding", !.found = found]
  /\ UNCHANGED <<settings, generation, policies, clock, updater, observed,
                 workerNow, hook>>

\* Only now are the settings read; without an executable name, or for a mark,
\* the policy is pass-through whatever they say.
Decide ==
  /\ worker.step = "deciding"
  /\ worker' = [worker EXCEPT !.step = "publishing",
                  !.entry.smooth = /\ ~worker.mark /\ worker.found
                                   /\ worker.process \in Smooths[settings]]
  /\ UNCHANGED <<settings, generation, policies, clock, updater, observed,
                 workerNow, hook>>

\* Mutant: a full map takes the new process without giving one up.
Retained_All(p) == {DOMAIN policies}

\* The processes a Publish for p may keep: all of them, or, when the map is full
\* and p is new, all but one of the oldest (std::min_element over a hash map:
\* any of several equally old ones).
Retained(p) ==
  IF Cardinality(DOMAIN policies) >= MaxCached /\ p \notin DOMAIN policies
  THEN {DOMAIN policies \ {q} : q \in {r \in DOMAIN policies :
          \A o \in DOMAIN policies : policies[r].resolvedAt <= policies[o].resolvedAt}}
  ELSE {DOMAIN policies}

\* The map with p's entry added to the retained ones.
WithEntry(kept, p, entry) ==
  [q \in kept \cup {p} |-> IF q = p THEN entry ELSE policies[q]]

\* Mutant: the entry is stamped with the generation at publication.
Publish_LateStamp ==
  /\ worker.step = "publishing"
  /\ \E kept \in Retained(worker.process) :
       policies' = WithEntry(kept, worker.process,
                             [worker.entry EXCEPT !.generation = generation])
  /\ worker' = Idle
  /\ UNCHANGED <<settings, generation, clock, updater, observed, workerNow, hook>>

\* Publish copies, extends and stores the map under writer_mutex_.
Publish ==
  /\ worker.step = "publishing"
  /\ \E kept \in Retained(worker.process) :
       policies' = WithEntry(kept, worker.process, worker.entry)
  /\ worker' = Idle
  /\ UNCHANGED <<settings, generation, clock, updater, observed, workerNow, hook>>

-----------------------------------------------------------------------------
(* The hook: TryGet.  A process not in the map loaded is a miss at once.    *)

LookupLoad(p) ==
  /\ hook = Idle
  /\ p \in DOMAIN policies
  /\ hook' = [step |-> "checking", process |-> p, now |-> clock, entry |-> policies[p],
              since |-> generation]
  /\ UNCHANGED <<settings, generation, policies, clock, updater, worker, observed,
                 workerNow>>

\* Mutant: the age of the candidate counts and its generation does not.
Valid_AnyGeneration(lookup) ==
  /\ lookup.now >= lookup.entry.resolvedAt
  /\ lookup.now - lookup.entry.resolvedAt <= Lifetime

\* The candidate counts if it is of the present generation and neither from the
\* future nor too old.
Valid(lookup) ==
  /\ lookup.entry.generation = generation
  /\ lookup.now >= lookup.entry.resolvedAt
  /\ lookup.now - lookup.entry.resolvedAt <= Lifetime

LookupCheck ==
  /\ hook.step = "checking"
  /\ hook' = IF Valid(hook) THEN [hook EXCEPT !.step = "hit"] ELSE Idle
  /\ UNCHANGED <<settings, generation, policies, clock, updater, worker, observed,
                 workerNow>>

\* The hook has acted on the hit and returns.
LookupDone ==
  /\ hook.step = "hit"
  /\ hook' = Idle
  /\ UNCHANGED <<settings, generation, policies, clock, updater, worker, observed,
                 workerNow>>

-----------------------------------------------------------------------------
Next ==
  \/ Tick
  \/ StoreSettings \/ AdvanceGeneration \/ UpdaterInvalidate
  \/ StartTurn
  \/ \E p \in Process, mark \in BOOLEAN : BeginResolution(p, mark)
  \/ NameExecutable \/ Decide \/ Publish
  \/ \E p \in Process : LookupLoad(p)
  \/ LookupCheck \/ LookupDone

Spec == Init /\ [][Next]_vars

-----------------------------------------------------------------------------
\* Every variable stays in its type.
TypeOK ==
  /\ {settings, generation, observed} \subseteq Version
  /\ {clock, workerNow} \subseteq Time
  /\ DOMAIN policies \subseteq Process
  /\ \A p \in DOMAIN policies : policies[p] \in Entry
  /\ updater \in {"idle", "stored", "advanced"}
  /\ worker \in Resolution \cup {Idle}
  /\ hook \in Lookup \cup {Idle}

\* Some settings not older than generation g and not newer than the present
\* ones let process p be smoothed.
SmoothedSince(g, p) == \E v \in g .. settings : p \in Smooths[v]

\* A lookup never swallows a wheel event on the word of retired settings: a hit that
\* says `smooth` rests on settings that were in force after the lookup began, however
\* reading, resolving, publishing and invalidating interleave.  It takes the stamp read
\* before the settings (target_policy.cpp:84), the generation stored after them, and the
\* comparison of the two (target_policy.cpp:76): the map may still hold an entry of old
\* when the new generation is already published.
HitIsCurrent ==
  hook.step = "hit" /\ hook.entry.smooth => SmoothedSince(hook.since, hook.process)

\* Once the worker has taken note of a generation, no entry of an older one
\* takes up a place in the map, even one whose resolution was under way when the
\* updater emptied it (the second Invalidate, in MotionWorker::Run).
NoRetiredEntries == \A p \in DOMAIN policies : policies[p].generation >= observed

\* The map never outgrows kMaximumCachedProcesses.
BoundedCache == Cardinality(DOMAIN policies) <= MaxCached
=============================================================================

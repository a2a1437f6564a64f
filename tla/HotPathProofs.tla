---------------------------- MODULE HotPathProofs ----------------------------
(***************************************************************************)
(* The hot path for any windows and processes, a queue of any capacity,      *)
(* gestures of any length and any number of events, moves and updates.  The   *)
(* argument about settings goes by generations: a policy is stamped before    *)
(* the settings are read, so one that carries the present generation smooths  *)
(* only what the present settings smooth, and a gesture stems from such        *)
(* policies alone.                                                           *)
(***************************************************************************)
EXTENDS HotPath, SequenceTheorems, TLAPS

\* What the hook asks the worker: an event over a window.
Asked == [smooth : BOOLEAN, window : Window]
Impulse == [window : Window, basis : Nat]
Gesture == [target : Window \cup {NoWindow}, impulses : SUBSET Impulse, left : 0 .. Samples]

SettingsShape ==
  /\ settings \in [version : Nat \ {0}, enabled : BOOLEAN] /\ generation \in Nat \ {0}
  /\ updater \in {"idle", "stored", "advanced", "invalidated"}
PoliciesShape == policies \in [Process -> Policy \cup {NoPolicy}]
HookShape ==
  /\ pointer \in Window
  /\ hook \in [step : {"idle"}] \cup [step : {"looking"}, window : Window]
                \cup [step : {"pushing", "signalling"}, event : Asked]
QueueShape == queue \in Seq(Asked) /\ event \in Asked \cup {NoEvent} /\ wake \in BOOLEAN
WorkerShape ==
  /\ observed \in 1 .. generation
  /\ timer \in [armed : BOOLEAN, signaled : BOOLEAN]
  /\ worker \in [step : {"waiting", "checking", "draining", "ticking"}]
                  \cup [step : {"sampling"}, over : Window]
                  \cup [step : {"resolving", "marking"}, process : Process, stamp : Nat \ {0}]
  /\ gesture \in Gesture
  /\ worker.step = "sampling" =>
       /\ gesture.target \in Window /\ gesture.impulses # {}
       /\ worker.over = gesture.target
  /\ gesture.impulses # {} => gesture.left # 0

Shape == SettingsShape /\ PoliciesShape /\ HookShape /\ QueueShape /\ WorkerShape

\* Nothing is stamped ahead of the generation.
Stamped ==
  /\ \A p \in Process : policies[p].generation <= generation
  /\ worker.step \in {"resolving", "marking"} => worker.stamp <= generation
  /\ \A i \in gesture.impulses : i.basis \in observed .. generation

\* What carries the present generation is allowed by the present settings.
Allowed ==
  updater # "stored" /\ ~settings.enabled =>
    /\ \A p \in Process : policies[p].generation = generation => ~policies[p].smooth
    /\ \A i \in gesture.impulses : i.basis # generation

\* What a gesture still has to scroll was asked for over its target.
OneTarget == \A i \in gesture.impulses : i.window = gesture.target

\* From the end of the drain on the queue, from the note of the generation on the settings
\* have changed only with a wakeup to come.
Woken ==
  /\ ~wake /\ worker.step \in {"ticking", "sampling", "marking", "waiting"} /\ queue # <<>> =>
       hook.step = "signalling"
  /\ ~wake /\ worker.step # "checking" /\ generation # observed => updater # "idle"

\* The counters are numbers and account for every event.
Counters == [physical : Nat, passed : Nat, smoothed : Nat, overflows : Nat]
Accounted == counters \in Counters /\ EventsAccountedFor

IInv == Shape /\ Stamped /\ Allowed /\ OneTarget /\ Woken /\ TimerRuns /\ Accounted

-----------------------------------------------------------------------------
(* Helpers.                                                                 *)

LEMMA NoPolicies ==
  LET none == [p \in Process |-> NoPolicy]
  IN  none \in [Process -> Policy \cup {NoPolicy}] /\ \A p \in Process : none[p].generation = 0
BY DEF NoPolicy

LEMMA HitsNow ==
  ASSUME Shape, NEW w \in Window, NEW fresh \in BOOLEAN, HitSmooth(w, fresh)
  PROVE  /\ Owner[w] \in Process
         /\ policies[Owner[w]].generation = generation /\ policies[Owner[w]].smooth
BY WindowAssumption DEF HitSmooth, Hit

LEMMA RestGesture == AtRest \in Gesture /\ AtRest.impulses = {} /\ AtRest.target = NoWindow
BY BoundAssumption DEF AtRest, Gesture, Impulse

LEMMA AcceptedGesture ==
  ASSUME gesture \in Gesture, NEW w \in Window, NEW basis \in Nat
  PROVE  /\ Accepted(w, basis) \in Gesture /\ Accepted(w, basis).left # 0
         /\ Accepted(w, basis).target = w
         /\ \A i \in Accepted(w, basis).impulses :
              \/ i.window = w /\ i.basis = basis
              \/ i \in gesture.impulses /\ gesture.target \in {NoWindow, w}
<1>1. Samples \in 0 .. Samples /\ Samples # 0
  BY BoundAssumption
<1> DEFINE kept == IF Retargeted(w) THEN {} ELSE gesture.impulses
           added == [window |-> w, basis |-> basis]
<1>2. kept \cup {added} \in SUBSET Impulse
  BY DEF Impulse, Gesture
<1>3. kept # {} => gesture.target \in {NoWindow, w} /\ kept = gesture.impulses
  BY DEF Retargeted
<1>4. Accepted(w, basis) = [target |-> w, impulses |-> kept \cup {added}, left |-> Samples]
  BY DEF Accepted
<1>5. \A i \in kept : i \in gesture.impulses /\ gesture.target \in {NoWindow, w}
  BY <1>3
<1> HIDE DEF kept
<1>6. QED
  BY <1>1, <1>2, <1>4, <1>5 DEF Gesture

LEMMA SampledGesture ==
  ASSUME gesture \in Gesture, gesture.left # 0
  PROVE  /\ Sampled \in Gesture
         /\ Sampled.impulses # {} => Sampled.left # 0
         /\ Sampled.impulses \subseteq gesture.impulses
         /\ Sampled.impulses # {} => Sampled.target = gesture.target
<1>1. CASE gesture.left = 1
  BY <1>1, RestGesture DEF Sampled
<1>2. CASE gesture.left # 1
  <2>1. gesture.left - 1 \in 0 .. Samples
    BY BoundAssumption DEF Gesture
  <2>2. [gesture EXCEPT !.left = @ - 1] \in Gesture
    BY <2>1 DEF Gesture
  <2>3. QED
    BY <1>2, <2>1, <2>2 DEF Sampled, Gesture
<1>3. QED
  BY <1>1, <1>2

LEMMA CancelledTimer ==
  ASSUME timer \in [armed : BOOLEAN, signaled : BOOLEAN]
  PROVE  Cancelled \in [armed : BOOLEAN, signaled : BOOLEAN]
BY DEF Cancelled

\* An event of the queue is taken: it starts a lookup, or its momentum is accepted
\* under the present generation, or it is dropped.
LEMMA DrainMoves ==
  ASSUME Shape, NEW fresh \in BOOLEAN, DrainEvent(fresh)
  PROVE  /\ queue' \in Seq(Asked) /\ event' \in Asked
         /\ \/ worker' = worker
            \/ \E p \in Process :
                 worker' = [step |-> "resolving", process |-> p, stamp |-> generation]
         /\ \/ gesture' = gesture /\ timer' = timer
            \/ \E w \in Window :
                 /\ policies[Owner[w]].generation = generation /\ policies[Owner[w]].smooth
                 /\ gesture' = Accepted(w, generation) /\ timer' \in {timer, Cancelled}
<1> DEFINE w == event'.window
<1>1. queue' \in Seq(Asked) /\ event' \in Asked
  BY HeadTailProperties DEF Shape, QueueShape, DrainEvent, Fifo!Pop
<1>2. w \in Window /\ Owner[w] \in Process
  BY <1>1, WindowAssumption DEF Asked
<1> HIDE DEF w
<1>3. worker' = IF event'.smooth THEN worker
                ELSE [step |-> "resolving", process |-> Owner[w], stamp |-> generation]
  BY DEF DrainEvent, w
<1>4. CASE event'.smooth /\ HitSmooth(w, fresh)
  <2>1. policies[Owner[w]].generation = generation /\ policies[Owner[w]].smooth
    BY <1>2, <1>4, HitsNow
  <2>2. gesture' = Accepted(w, generation) /\ timer' \in {timer, Cancelled}
    BY <1>4, <2>1 DEF DrainEvent, w
  <2>3. QED
    BY <1>1, <1>2, <1>3, <2>1, <2>2
<1>5. CASE ~(event'.smooth /\ HitSmooth(w, fresh))
  <2>1. gesture' = gesture /\ timer' = timer
    BY <1>5 DEF DrainEvent, w
  <2>2. QED
    BY <1>1, <1>2, <1>3, <2>1
<1>6. QED
  BY <1>4, <1>5

\* A sample leaves less of the gesture, of the same momentum over the same target.
LEMMA SampleMoves ==
  ASSUME Shape, SampleInjected \/ SampleRefused
  PROVE  /\ gesture' \in Gesture
         /\ gesture'.impulses # {} => gesture'.left # 0
         /\ gesture'.impulses \subseteq gesture.impulses
         /\ gesture'.impulses # {} => gesture'.target = gesture.target
<1>1. gesture \in Gesture /\ gesture.left # 0 /\ gesture.target \in Window
  BY DEF Shape, WorkerShape, SampleInjected, SampleRefused
<1>2. CASE SampleInjected
  BY <1>1, <1>2, SampledGesture DEF SampleInjected
<1>3. CASE SampleRefused
  <2>1. /\ Sampled \in Gesture /\ Sampled.impulses \subseteq gesture.impulses
        /\ Sampled.impulses # {} => Sampled.left # 0
    BY <1>1, SampledGesture
  <2> DEFINE rest == Sampled
  <2>2. gesture' = [rest EXCEPT !.target = gesture.target]
    BY <1>3 DEF SampleRefused
  <2> HIDE DEF rest
  <2>3. rest \in Gesture /\ rest.impulses \subseteq gesture.impulses
        /\ (rest.impulses # {} => rest.left # 0)
    BY <2>1 DEF rest
  <2>4. QED
    BY <1>1, <2>2, <2>3 DEF Gesture
<1>4. QED
  BY <1>2, <1>3

-----------------------------------------------------------------------------
(* The shape of the state.                                                  *)

LEMMA SettingsShapeKept == IInv /\ [Next]_vars => SettingsShape'
<1> SUFFICES ASSUME Shape, [Next]_vars PROVE SettingsShape'
  BY DEF IInv
<1> USE DEF Shape, SettingsShape
<1>1. ASSUME NEW enabled \in BOOLEAN, StoreSettings(enabled) PROVE SettingsShape'
  BY <1>1 DEF StoreSettings
<1>2. CASE UpdaterSteps
  BY <1>2 DEF UpdaterSteps, AdvanceGeneration, UpdaterInvalidate, Notify
<1>3. CASE UNCHANGED control
  BY <1>3 DEF control
<1>4. QED
  BY <1>1, <1>2, <1>3
     DEF Next, vars, MovePointer, Age, WheelTurns, TimerFires,
         HookSteps, HookLookup, HookPush, HookOverflow, HookSignal,
         WorkerSteps, WorkerWakes, NoteGeneration, DrainEvent, DrainEnds, FinishResolve,
         TickEnds, TickTargets, SampleInjected, SampleRefused, FinishMark

LEMMA PoliciesShapeKept == IInv /\ [Next]_vars => PoliciesShape'
<1> SUFFICES ASSUME Shape, [Next]_vars PROVE PoliciesShape'
  BY DEF IInv
<1> USE DEF Shape, PoliciesShape
<1>1. ASSUME NEW p \in Process, Age(p) PROVE PoliciesShape'
  <2>1. policies[p] \in Policy
    BY <1>1 DEF Age
  <2>2. [policies[p] EXCEPT !.aged = TRUE] \in Policy
    BY <2>1 DEF Policy
  <2>3. policies' = [policies EXCEPT ![p] = [policies[p] EXCEPT !.aged = TRUE]]
    BY <1>1 DEF Age
  <2>4. QED
    BY <2>2, <2>3
<1>2. ASSUME NEW allowed \in BOOLEAN, FinishResolve(allowed) PROVE PoliciesShape'
  <2>1. worker.stamp \in Nat \ {0} /\ (allowed /\ settings.enabled) \in BOOLEAN
    BY <1>2 DEF FinishResolve, WorkerShape, SettingsShape
  <2>2. [generation |-> worker.stamp, smooth |-> allowed /\ settings.enabled, aged |-> FALSE]
          \in Policy
    BY <2>1 DEF Policy
  <2>3. QED
    BY <1>2, <2>2 DEF FinishResolve
<1>3. CASE FinishMark
  <2>1. [generation |-> worker.stamp, smooth |-> FALSE, aged |-> FALSE] \in Policy
    BY <1>3 DEF FinishMark, WorkerShape, Policy
  <2>2. QED
    BY <1>3, <2>1 DEF FinishMark
<1>4. CASE UpdaterInvalidate \/ NoteGeneration
  BY <1>4, NoPolicies DEF UpdaterInvalidate, NoteGeneration
<1>5. CASE UNCHANGED policies
  BY <1>5
<1>6. QED
  BY <1>1, <1>2, <1>3, <1>4, <1>5
     DEF Next, vars, MovePointer, WheelTurns, StoreSettings, TimerFires,
         HookSteps, HookLookup, HookPush, HookOverflow, HookSignal,
         UpdaterSteps, AdvanceGeneration, Notify,
         WorkerSteps, WorkerWakes, DrainEvent, DrainEnds,
         TickEnds, TickTargets, SampleInjected, SampleRefused

LEMMA HookShapeKept == IInv /\ [Next]_vars => HookShape'
<1> SUFFICES ASSUME Shape, [Next]_vars PROVE HookShape'
  BY DEF IInv
<1> USE DEF Shape, HookShape
<1>1. ASSUME NEW fresh \in BOOLEAN, HookLookup(fresh) PROVE HookShape'
  <2>1. hook.window \in Window
    BY <1>1 DEF HookLookup
  <2>2. HitSmooth(hook.window, fresh) \in BOOLEAN
    <3>1. CASE Hit(hook.window, fresh)
      <4>1. policies[Owner[hook.window]] \in Policy
        BY <2>1, <3>1, WindowAssumption
           DEF Hit, NoPolicy, PoliciesShape, SettingsShape
      <4>2. QED
        BY <4>1 DEF HitSmooth, Policy
    <3>2. QED
      BY <3>1 DEF HitSmooth
  <2>3. [smooth |-> HitSmooth(hook.window, fresh), window |-> hook.window] \in Asked
    BY <2>1, <2>2 DEF Asked
  <2>4. QED
    BY <1>1, <2>3 DEF HookLookup
<1>2. CASE HookPush
  BY <1>2 DEF HookPush
<1>3. CASE HookOverflow \/ HookSignal
  BY <1>3 DEF HookOverflow, HookSignal
<1>4. ASSUME NEW w \in Window, MovePointer(w) PROVE HookShape'
  BY <1>4 DEF MovePointer
<1>5. ASSUME NEW bypassed \in BOOLEAN, WheelTurns(bypassed) PROVE HookShape'
  BY <1>5 DEF WheelTurns
<1>6. CASE UNCHANGED <<pointer, hook>>
  BY <1>6
<1>7. QED
  BY <1>1, <1>2, <1>3, <1>4, <1>5, <1>6
     DEF Next, vars, input, Age, StoreSettings, TimerFires, HookSteps,
         UpdaterSteps, AdvanceGeneration, UpdaterInvalidate, Notify,
         WorkerSteps, WorkerWakes, NoteGeneration, DrainEvent, DrainEnds, FinishResolve,
         TickEnds, TickTargets, SampleInjected, SampleRefused, FinishMark

LEMMA QueueShapeKept == IInv /\ [Next]_vars => QueueShape'
<1> SUFFICES ASSUME Shape, [Next]_vars PROVE QueueShape'
  BY DEF IInv
<1> USE DEF Shape, QueueShape
<1>1. CASE HookPush
  <2>1. hook.event \in Asked
    BY <1>1 DEF HookPush, HookShape
  <2>2. QED
    BY <1>1, <2>1, AppendProperties DEF HookPush, Fifo!Push
<1>2. ASSUME NEW fresh \in BOOLEAN, DrainEvent(fresh) PROVE QueueShape'
  BY <1>2, DrainMoves DEF DrainEvent
<1>3. CASE DrainEnds
  BY <1>3 DEF DrainEnds, input
<1>4. CASE UNCHANGED <<queue, event>> /\ wake' \in {wake, TRUE, FALSE}
  BY <1>4
<1>5. QED
  BY <1>1, <1>2, <1>3, <1>4
     DEF Next, vars, input, loop, MovePointer, Age, WheelTurns, StoreSettings, TimerFires,
         HookSteps, HookLookup, HookOverflow, HookSignal,
         UpdaterSteps, AdvanceGeneration, UpdaterInvalidate, Notify,
         WorkerSteps, WorkerWakes, NoteGeneration, FinishResolve,
         TickEnds, TickTargets, SampleInjected, SampleRefused, FinishMark

LEMMA WorkerShapeKept == IInv /\ [Next]_vars => WorkerShape'
<1> SUFFICES ASSUME Shape, [Next]_vars PROVE WorkerShape'
  BY DEF IInv
<1> USE DEF Shape, WorkerShape, SettingsShape
<1>1. CASE WorkerWakes
  <2>1. timer' \in [armed : BOOLEAN, signaled : BOOLEAN]
    BY <1>1 DEF WorkerWakes
  <2>2. worker' = [step |-> "checking"] /\ UNCHANGED <<control, observed, gesture>>
    BY <1>1 DEF WorkerWakes
  <2>3. QED
    BY <2>1, <2>2 DEF control
<1>2. CASE NoteGeneration
  BY <1>2, CancelledTimer, RestGesture DEF NoteGeneration, control
<1>3. ASSUME NEW fresh \in BOOLEAN, DrainEvent(fresh) PROVE WorkerShape'
  <2>1. gesture' \in Gesture /\ timer' \in [armed : BOOLEAN, signaled : BOOLEAN]
        /\ (gesture'.impulses # {} => gesture'.left # 0)
    BY <1>3, DrainMoves, AcceptedGesture, CancelledTimer
  <2>2. /\ worker.step = "draining" /\ UNCHANGED <<control, observed>>
        /\ \/ worker' = worker
           \/ \E p \in Process :
                worker' = [step |-> "resolving", process |-> p, stamp |-> generation]
    BY <1>3, DrainMoves DEF DrainEvent
  <2>3. worker' \in [step : {"waiting", "checking", "draining", "ticking"}]
                      \cup [step : {"sampling"}, over : Window]
                      \cup [step : {"resolving", "marking"}, process : Process, stamp : Nat \ {0}]
    BY <2>2
  <2>4. worker'.step # "sampling"
    BY <2>2
  <2>5. QED
    BY <2>1, <2>2, <2>3, <2>4 DEF control
<1>4. CASE TickTargets
  <2>1. pointer \in Window
    BY DEF HookShape
  <2>2. QED
    BY <1>4, <2>1 DEF TickTargets, control
<1>5. CASE SampleInjected
  BY <1>5, SampleMoves DEF SampleInjected, Scheduled, control
<1>6. CASE SampleRefused
  <2>1. Owner[gesture.target] \in Process
    BY <1>6, WindowAssumption DEF SampleRefused
  <2>2. worker' \in [step : {"resolving", "marking"}, process : Process, stamp : Nat \ {0}]
        /\ worker'.step = "marking"
    BY <1>6, <2>1 DEF SampleRefused
  <2>3. QED
    BY <1>6, <2>2, SampleMoves DEF SampleRefused, control
<1>7. CASE TickEnds \/ FinishMark
  BY <1>7, CancelledTimer, RestGesture DEF TickEnds, FinishMark, control
<1>8. CASE \/ DrainEnds
           \/ \E allowed \in BOOLEAN : FinishResolve(allowed)
  <2>1. worker' \in {[step |-> "ticking"], [step |-> "draining"]}
        /\ UNCHANGED <<control, timer, observed, gesture>>
    BY <1>8 DEF DrainEnds, FinishResolve
  <2>2. QED
    BY <2>1 DEF control
<1>9. CASE UpdaterSteps \/ \E enabled \in BOOLEAN : StoreSettings(enabled)
  BY <1>9
     DEF UpdaterSteps, AdvanceGeneration, UpdaterInvalidate, Notify, StoreSettings, loop
<1>10. CASE TimerFires
  BY <1>10 DEF TimerFires, control
<1>11. CASE UNCHANGED <<control, timer, worker, observed, gesture>>
  BY <1>11 DEF control
<1>12. QED
  BY <1>1, <1>2, <1>3, <1>4, <1>5, <1>6, <1>7, <1>8, <1>9, <1>10, <1>11
     DEF Next, vars, loop, MovePointer, Age, WheelTurns,
         HookSteps, HookLookup, HookPush, HookOverflow, HookSignal, WorkerSteps

LEMMA ShapeKept == IInv /\ [Next]_vars => Shape'
BY SettingsShapeKept, PoliciesShapeKept, HookShapeKept, QueueShapeKept, WorkerShapeKept
   DEF Shape

-----------------------------------------------------------------------------
(* The invariants.                                                          *)

\* Stamps are never ahead, and a gesture never behind what the worker has noted.
LEMMA StampedKept == IInv /\ [Next]_vars => Stamped'
<1> SUFFICES ASSUME IInv, [Next]_vars PROVE Stamped'
  OBVIOUS
<1> USE DEF IInv, Shape, Stamped
<1>1. ASSUME NEW p \in Process, Age(p) PROVE Stamped'
  <2>1. \A q \in Process : policies'[q].generation = policies[q].generation
    BY <1>1 DEF Age, PoliciesShape, Policy, NoPolicy
  <2>2. QED
    BY <1>1, <2>1 DEF Age, control, loop
<1>2. CASE UpdaterSteps \/ \E enabled \in BOOLEAN : StoreSettings(enabled)
  <2>1. CASE AdvanceGeneration
    <3>1. generation' = generation + 1 /\ generation \in Nat /\ observed \in Nat
      BY <2>1 DEF AdvanceGeneration, SettingsShape, WorkerShape
    <3>2. /\ \A p \in Process : policies[p].generation \in Nat
          /\ \A i \in gesture.impulses : i.basis \in Nat
      BY DEF PoliciesShape, Policy, NoPolicy, WorkerShape, Gesture, Impulse
    <3>3. worker.step \in {"resolving", "marking"} => worker.stamp \in Nat
      BY DEF WorkerShape
    <3>4. UNCHANGED <<policies, worker, gesture, observed>>
      BY <2>1 DEF AdvanceGeneration, loop
    <3>5. QED
      BY <3>1, <3>2, <3>3, <3>4
  <2>2. CASE UpdaterInvalidate
    BY <2>2, NoPolicies DEF UpdaterInvalidate, SettingsShape, loop
  <2>3. CASE Notify \/ \E enabled \in BOOLEAN : StoreSettings(enabled)
    BY <2>3 DEF Notify, StoreSettings, loop
  <2>4. QED
    BY <1>2, <2>1, <2>2, <2>3 DEF UpdaterSteps
<1>3. CASE NoteGeneration
  BY <1>3, NoPolicies, RestGesture DEF NoteGeneration, SettingsShape, control
<1>4. ASSUME NEW fresh \in BOOLEAN, DrainEvent(fresh) PROVE Stamped'
  <2>1. /\ UNCHANGED <<policies, observed, generation>>
        /\ generation \in observed .. generation
    BY <1>4 DEF DrainEvent, control, SettingsShape, WorkerShape
  <2>2. worker'.step \in {"resolving", "marking"} => worker'.stamp <= generation
    BY <1>4, DrainMoves DEF DrainEvent, SettingsShape
  <2>3. \A i \in gesture'.impulses : i.basis \in observed .. generation
    <3>1. CASE gesture' = gesture
      BY <3>1
    <3>2. ASSUME NEW w \in Window, gesture' = Accepted(w, generation)
          PROVE  \A i \in gesture'.impulses : i.basis \in observed .. generation
      BY <2>1, <3>2, AcceptedGesture DEF WorkerShape, SettingsShape
    <3>3. QED
      BY <1>4, <3>1, <3>2, DrainMoves
  <2>4. QED
    BY <2>1, <2>2, <2>3
<1>5. CASE \/ \E allowed \in BOOLEAN : FinishResolve(allowed)
           \/ FinishMark
  <2>1. \A p \in Process : policies'[p].generation \in {policies[p].generation, worker.stamp}
    <3>1. ASSUME NEW policy, policy.generation = worker.stamp,
                 policies' = [policies EXCEPT ![worker.process] = policy]
          PROVE  \A p \in Process :
                   policies'[p].generation \in {policies[p].generation, worker.stamp}
      BY <3>1 DEF PoliciesShape
    <3>2. CASE FinishMark
      <4> DEFINE marked == [generation |-> worker.stamp, smooth |-> FALSE, aged |-> FALSE]
      <4>1. policies' = [policies EXCEPT ![worker.process] = marked]
        BY <3>2 DEF FinishMark
      <4>2. marked.generation = worker.stamp
        OBVIOUS
      <4> HIDE DEF marked
      <4>3. QED
        BY <3>1, <4>1, <4>2
    <3>3. ASSUME NEW allowed \in BOOLEAN, FinishResolve(allowed)
          PROVE  \A p \in Process :
                   policies'[p].generation \in {policies[p].generation, worker.stamp}
      <4> DEFINE resolved == [generation |-> worker.stamp,
                              smooth |-> allowed /\ settings.enabled, aged |-> FALSE]
      <4>1. policies' = [policies EXCEPT ![worker.process] = resolved]
        BY <3>3 DEF FinishResolve
      <4>2. resolved.generation = worker.stamp
        OBVIOUS
      <4> HIDE DEF resolved
      <4>3. QED
        BY <3>1, <4>1, <4>2
    <3>4. QED
      BY <1>5, <3>2, <3>3
  <2>2. worker.step \in {"resolving", "marking"} /\ UNCHANGED <<generation, observed>>
    BY <1>5 DEF FinishResolve, FinishMark, control
  <2>3. \A p \in Process : policies'[p].generation <= generation
    BY <2>1, <2>2 DEF PoliciesShape
  <2>4. /\ worker' \in {[step |-> "draining"], [step |-> "waiting"]}
        /\ gesture' \in {gesture, AtRest}
    BY <1>5 DEF FinishResolve, FinishMark
  <2>5. /\ worker'.step \in {"draining", "waiting"}
        /\ gesture' = gesture \/ gesture'.impulses = {}
    BY <2>4, RestGesture
  <2>6. QED
    BY <2>2, <2>3, <2>5
<1>6. CASE SampleInjected \/ SampleRefused
  <2>1. \/ worker'.step = "waiting"
        \/ worker'.step = "marking" /\ worker'.stamp = generation
    BY <1>6 DEF SampleInjected, SampleRefused
  <2>2. UNCHANGED <<control, policies, observed>> /\ generation \in Nat
    BY <1>6 DEF SampleInjected, SampleRefused, SettingsShape
  <2>3. QED
    BY <1>6, <2>1, <2>2, SampleMoves DEF control
<1>7. CASE WorkerWakes \/ DrainEnds \/ TickEnds \/ TickTargets
  BY <1>7, RestGesture DEF WorkerWakes, DrainEnds, TickEnds, TickTargets, control
<1>8. CASE UNCHANGED <<control, policies, worker, observed, gesture>>
  BY <1>8 DEF control
<1>9. QED
  BY <1>1, <1>2, <1>3, <1>4, <1>5, <1>6, <1>7, <1>8
     DEF Next, vars, loop, MovePointer, WheelTurns, TimerFires,
         HookSteps, HookLookup, HookPush, HookOverflow, HookSignal, WorkerSteps

\* What carries the present generation follows the present settings.
LEMMA AllowedKept == IInv /\ [Next]_vars => Allowed'
<1> SUFFICES ASSUME IInv, [Next]_vars PROVE Allowed'
  OBVIOUS
<1> USE DEF IInv, Shape, Allowed
<1>1. ASSUME NEW p \in Process, Age(p) PROVE Allowed'
  <2>1. \A q \in Process : policies'[q].generation = generation =>
          policies[q].generation = generation /\ policies'[q].smooth = policies[q].smooth
    BY <1>1 DEF Age, PoliciesShape, Policy, NoPolicy, SettingsShape
  <2>2. QED
    BY <1>1, <2>1 DEF Age, control, loop
<1>2. ASSUME NEW enabled \in BOOLEAN, StoreSettings(enabled) PROVE Allowed'
  BY <1>2 DEF StoreSettings
<1>3. CASE AdvanceGeneration
  <2>1. generation' = generation + 1 /\ generation \in Nat
    BY <1>3 DEF AdvanceGeneration, SettingsShape
  <2>2. /\ \A p \in Process : policies[p].generation <= generation
        /\ \A p \in Process : policies[p].generation \in Nat
    BY DEF Stamped, PoliciesShape, Policy, NoPolicy
  <2>3. \A i \in gesture.impulses : i.basis \in observed .. generation /\ observed \in Nat
    BY DEF Stamped, WorkerShape
  <2>4. UNCHANGED <<policies, gesture>>
    BY <1>3 DEF AdvanceGeneration, loop
  <2>5. QED
    BY <2>1, <2>2, <2>3, <2>4
<1>4. CASE UpdaterInvalidate
  BY <1>4, NoPolicies DEF UpdaterInvalidate, SettingsShape, loop
<1>5. CASE NoteGeneration
  <2>1. policies' = policies \/ \A p \in Process : policies'[p].generation = 0
    BY <1>5, NoPolicies DEF NoteGeneration
  <2>2. gesture' = gesture \/ gesture'.impulses = {}
    BY <1>5, RestGesture DEF NoteGeneration
  <2>3. UNCHANGED control /\ generation # 0
    BY <1>5 DEF NoteGeneration, SettingsShape
  <2>4. QED
    BY <2>1, <2>2, <2>3 DEF control
<1>6. ASSUME NEW fresh \in BOOLEAN, DrainEvent(fresh) PROVE Allowed'
  <2>1. UNCHANGED <<control, policies>> /\ generation \in Nat
    BY <1>6 DEF DrainEvent, SettingsShape
  <2>2. CASE gesture' = gesture
    BY <2>1, <2>2 DEF control
  <2>3. ASSUME NEW w \in Window, gesture' = Accepted(w, generation),
               policies[Owner[w]].generation = generation, policies[Owner[w]].smooth
        PROVE  Allowed'
    <3>1. Owner[w] \in Process
      BY WindowAssumption
    <3>2. updater = "stored" \/ settings.enabled
      BY <2>3, <3>1
    <3>3. QED
      BY <2>1, <3>2 DEF control
  <2>4. QED
    BY <1>6, <2>2, <2>3, DrainMoves
<1>7. ASSUME NEW allowed \in BOOLEAN, FinishResolve(allowed) PROVE Allowed'
  <2> DEFINE resolved == [generation |-> worker.stamp, smooth |-> allowed /\ settings.enabled,
                          aged |-> FALSE]
  <2>1. policies' = [policies EXCEPT ![worker.process] = resolved]
    BY <1>7 DEF FinishResolve
  <2>2. ~settings.enabled => ~resolved.smooth
    OBVIOUS
  <2> HIDE DEF resolved
  <2>3. UNCHANGED <<control, gesture>>
    BY <1>7 DEF FinishResolve
  <2>4. QED
    BY <2>1, <2>2, <2>3 DEF PoliciesShape, control
<1>8. CASE FinishMark
  <2> DEFINE marked == [generation |-> worker.stamp, smooth |-> FALSE, aged |-> FALSE]
  <2>1. policies' = [policies EXCEPT ![worker.process] = marked] /\ UNCHANGED control
    BY <1>8 DEF FinishMark
  <2>2. ~marked.smooth
    OBVIOUS
  <2> HIDE DEF marked
  <2>3. gesture'.impulses = {}
    BY <1>8, RestGesture DEF FinishMark
  <2>4. QED
    BY <2>1, <2>2, <2>3 DEF PoliciesShape, control
<1>9. CASE SampleInjected \/ SampleRefused
  <2>1. UNCHANGED <<control, policies>>
    BY <1>9 DEF SampleInjected, SampleRefused
  <2>2. QED
    BY <1>9, <2>1, SampleMoves DEF control
<1>10. CASE TickEnds
  BY <1>10, RestGesture DEF TickEnds, control
<1>11. CASE Notify
  BY <1>11 DEF Notify
<1>12. CASE UNCHANGED <<control, policies, gesture>>
  BY <1>12 DEF control
<1>13. QED
  BY <1>1, <1>2, <1>3, <1>4, <1>5, <1>6, <1>7, <1>8, <1>9, <1>10, <1>11, <1>12
     DEF Next, vars, loop, MovePointer, WheelTurns, TimerFires, UpdaterSteps,
         HookSteps, HookLookup, HookPush, HookOverflow, HookSignal,
         WorkerSteps, WorkerWakes, DrainEnds, TickTargets

\* A gesture changes its target only with all of its momentum.
LEMMA OneTargetKept == IInv /\ [Next]_vars => OneTarget'
<1> SUFFICES ASSUME IInv, [Next]_vars PROVE OneTarget'
  OBVIOUS
<1> USE DEF IInv, Shape, OneTarget
<1>1. ASSUME NEW fresh \in BOOLEAN, DrainEvent(fresh) PROVE OneTarget'
  <2>1. CASE gesture' = gesture
    BY <2>1
  <2>2. ASSUME NEW w \in Window, gesture' = Accepted(w, generation) PROVE OneTarget'
    <3>1. gesture \in Gesture /\ generation \in Nat
      BY DEF WorkerShape, SettingsShape
    <3>2. \A i \in gesture.impulses : i.window # NoWindow
      BY <3>1, WindowAssumption DEF Gesture, Impulse
    <3>3. QED
      BY <2>2, <3>1, <3>2, AcceptedGesture
  <2>3. QED
    BY <1>1, <2>1, <2>2, DrainMoves
<1>2. CASE SampleInjected \/ SampleRefused
  <2>1. CASE gesture'.impulses = {}
    BY <2>1
  <2>2. CASE gesture'.impulses # {}
    BY <1>2, <2>2, SampleMoves
  <2>3. QED
    BY <2>1, <2>2
<1>3. CASE NoteGeneration \/ TickEnds \/ FinishMark
  BY <1>3, RestGesture DEF NoteGeneration, TickEnds, FinishMark
<1>4. CASE UNCHANGED gesture
  BY <1>4
<1>5. QED
  BY <1>1, <1>2, <1>3, <1>4
     DEF Next, vars, loop, MovePointer, Age, WheelTurns, StoreSettings, TimerFires,
         HookSteps, HookLookup, HookPush, HookOverflow, HookSignal,
         UpdaterSteps, AdvanceGeneration, UpdaterInvalidate, Notify,
         WorkerSteps, WorkerWakes, DrainEnds, FinishResolve, TickTargets

\* Who pushes or updates wakes the worker before it is done.
LEMMA WokenKept == IInv /\ [Next]_vars => Woken'
<1> SUFFICES ASSUME IInv, [Next]_vars PROVE Woken'
  OBVIOUS
<1> USE DEF IInv, Shape, Woken, control, input, loop
<1>1. CASE HookSteps
  BY <1>1 DEF HookSteps, HookLookup, HookPush, Fifo!Push, HookOverflow, HookSignal, HookShape
<1>2. CASE UpdaterSteps \/ \E enabled \in BOOLEAN : StoreSettings(enabled)
  BY <1>2 DEF UpdaterSteps, AdvanceGeneration, UpdaterInvalidate, Notify, StoreSettings
<1>3. CASE WorkerWakes \/ NoteGeneration \/ DrainEnds
  BY <1>3 DEF WorkerWakes, NoteGeneration, DrainEnds
<1>4. ASSUME NEW fresh \in BOOLEAN, DrainEvent(fresh) PROVE Woken'
  <2>1. worker'.step \in {"draining", "resolving"} /\ worker.step = "draining"
    BY <1>4, DrainMoves DEF DrainEvent
  <2>2. QED
    BY <1>4, <2>1 DEF DrainEvent
<1>5. CASE \/ \E allowed \in BOOLEAN : FinishResolve(allowed)
           \/ FinishMark
  <2>1. /\ \/ worker.step = "resolving" /\ worker' = [step |-> "draining"]
           \/ worker.step = "marking" /\ worker' = [step |-> "waiting"]
        /\ UNCHANGED <<generation, updater, hook, queue, wake, observed>>
    BY <1>5 DEF FinishResolve, FinishMark
  <2>2. QED
    BY <2>1
<1>6. CASE TickEnds \/ TickTargets \/ SampleInjected \/ SampleRefused
  BY <1>6 DEF TickEnds, TickTargets, SampleInjected, SampleRefused
<1>7. ASSUME NEW bypassed \in BOOLEAN, WheelTurns(bypassed) PROVE Woken'
  BY <1>7 DEF WheelTurns
<1>8. CASE UNCHANGED <<generation, updater, hook, queue, wake, worker, observed>>
  BY <1>8
<1>9. QED
  BY <1>1, <1>2, <1>3, <1>4, <1>5, <1>6, <1>7, <1>8
     DEF Next, vars, MovePointer, Age, TimerFires, WorkerSteps

\* The worker goes to wait with momentum only from a sample, which sets the timer.
LEMMA TimerRunsKept == IInv /\ [Next]_vars => TimerRuns'
<1> SUFFICES ASSUME IInv, [Next]_vars PROVE TimerRuns'
  OBVIOUS
<1> USE DEF IInv, Shape, TimerRuns, control, input, loop
<1>1. CASE SampleInjected
  BY <1>1 DEF SampleInjected, Scheduled
<1>2. CASE TickEnds \/ FinishMark
  BY <1>2, RestGesture DEF TickEnds, FinishMark
<1>3. CASE WorkerWakes \/ NoteGeneration \/ DrainEnds \/ TickTargets \/ SampleRefused
  BY <1>3 DEF WorkerWakes, NoteGeneration, DrainEnds, TickTargets, SampleRefused
<1>4. ASSUME NEW fresh \in BOOLEAN, DrainEvent(fresh) PROVE TimerRuns'
  BY <1>4, DrainMoves DEF DrainEvent
<1>5. ASSUME NEW allowed \in BOOLEAN, FinishResolve(allowed) PROVE TimerRuns'
  BY <1>5 DEF FinishResolve
<1>6. CASE TimerFires
  BY <1>6 DEF TimerFires
<1>7. CASE UNCHANGED <<timer, worker, gesture>>
  BY <1>7
<1>8. QED
  BY <1>1, <1>2, <1>3, <1>4, <1>5, <1>6, <1>7
     DEF Next, vars, MovePointer, Age, WheelTurns, StoreSettings,
         HookSteps, HookLookup, HookPush, HookOverflow, HookSignal,
         UpdaterSteps, AdvanceGeneration, UpdaterInvalidate, Notify, WorkerSteps

\* What Count does, counter by counter.
LEMMA Counted ==
  ASSUME counters \in Counters, NEW names, counters' = Count(names)
  PROVE  /\ counters' \in Counters
         /\ counters'.physical = counters.physical + IF "physical" \in names THEN 1 ELSE 0
         /\ counters'.passed = counters.passed + IF "passed" \in names THEN 1 ELSE 0
         /\ counters'.smoothed = counters.smoothed + IF "smoothed" \in names THEN 1 ELSE 0
         /\ counters'.overflows = counters.overflows + IF "overflows" \in names THEN 1 ELSE 0
<1> DEFINE add(n) == IF n \in names THEN 1 ELSE 0
<1>1. DOMAIN counters = {"physical", "passed", "smoothed", "overflows"}
  BY DEF Counters
<1>2. \A n \in DOMAIN counters : counters[n] \in Nat /\ counters'[n] = counters[n] + add(n)
  BY <1>1 DEF Count, Counters
<1>3. counters' = [physical |-> counters'["physical"], passed |-> counters'["passed"],
                   smoothed |-> counters'["smoothed"], overflows |-> counters'["overflows"]]
  BY <1>1 DEF Count
<1>4. QED
  BY <1>1, <1>2, <1>3 DEF Counters

\* Every event is counted as physical when the hook begins it and once more, as passed
\* or as smoothed, when the hook is done with it.
LEMMA AccountedKept == IInv /\ [Next]_vars => Accounted'
<1> SUFFICES ASSUME IInv, [Next]_vars PROVE Accounted'
  OBVIOUS
<1> USE DEF IInv, Shape, Accounted, EventsAccountedFor, HookShape
<1>0. /\ counters.physical \in Nat /\ counters.passed \in Nat
      /\ counters.smoothed \in Nat /\ counters.overflows \in Nat
  BY DEF Counters
<1>1. ASSUME NEW bypassed \in BOOLEAN, WheelTurns(bypassed) PROVE Accounted'
  <2>1. CASE counters' = Count({"physical", "passed"}) /\ hook' = hook
    BY <1>0, <1>1, <2>1, Counted DEF WheelTurns
  <2>2. CASE counters' = Count({"physical"}) /\ hook' = [step |-> "looking", window |-> pointer]
    BY <1>0, <1>1, <2>2, Counted DEF WheelTurns
  <2>3. QED
    BY <1>1, <2>1, <2>2 DEF WheelTurns
<1>2. ASSUME NEW fresh \in BOOLEAN, HookLookup(fresh) PROVE Accounted'
  <2>1. CASE counters' = Count({"passed"}) /\ hook' = [step |-> "idle"]
    BY <1>0, <1>2, <2>1, Counted DEF HookLookup
  <2>2. CASE UNCHANGED counters /\ hook'.step = "pushing"
    BY <1>2, <2>2 DEF HookLookup
  <2>3. QED
    BY <1>2, <2>1, <2>2 DEF HookLookup
<1>3. CASE HookPush
  BY <1>3 DEF HookPush
<1>4. CASE HookOverflow
  BY <1>0, <1>4, Counted DEF HookOverflow
<1>5. CASE HookSignal
  <2>1. CASE hook.event.smooth
    BY <1>0, <1>5, <2>1, Counted DEF HookSignal
  <2>2. CASE ~hook.event.smooth
    BY <1>0, <1>5, <2>2, Counted DEF HookSignal
  <2>3. QED
    BY <2>1, <2>2
<1>6. CASE UNCHANGED <<hook, counters>>
  BY <1>6
<1>7. QED
  BY <1>1, <1>2, <1>3, <1>4, <1>5, <1>6
     DEF Next, vars, input, MovePointer, Age, StoreSettings, TimerFires, HookSteps,
         UpdaterSteps, AdvanceGeneration, UpdaterInvalidate, Notify,
         WorkerSteps, WorkerWakes, NoteGeneration, DrainEvent, Fifo!Pop, DrainEnds,
         FinishResolve, TickEnds, TickTargets, SampleInjected, SampleRefused, FinishMark

-----------------------------------------------------------------------------
(* The theorems.                                                            *)

LEMMA InvInit == Init => IInv
<1> SUFFICES ASSUME Init PROVE IInv
  OBVIOUS
<1>1. SettingsShape /\ HookShape
  BY DEF Init, SettingsShape, HookShape
<1>2. PoliciesShape /\ \A p \in Process : policies[p].generation = 0
  BY NoPolicies DEF Init, PoliciesShape
<1>3. QueueShape /\ WorkerShape
  <2>1. queue \in Seq(Asked)
    BY EmptySeq DEF Init
  <2>2. QueueShape
    BY <2>1 DEF Init, QueueShape
  <2>3. WorkerShape
    BY RestGesture DEF Init, WorkerShape
  <2>4. QED
    BY <2>2, <2>3
<1>4. gesture.impulses = {}
  BY RestGesture DEF Init
<1>5. Stamped /\ Allowed /\ OneTarget /\ Woken /\ TimerRuns
  BY <1>2, <1>4 DEF Init, Stamped, Allowed, OneTarget, Woken, TimerRuns
<1>6. Accounted
  BY DEF Init, Accounted, EventsAccountedFor, Counters
<1>7. QED
  BY <1>1, <1>2, <1>3, <1>5, <1>6 DEF IInv, Shape

LEMMA Inductive == Spec => []IInv
<1>1. IInv /\ [Next]_vars => IInv'
  BY ShapeKept, StampedKept, AllowedKept, OneTargetKept, WokenKept, TimerRunsKept,
     AccountedKept
     DEF IInv
<1>2. QED
  BY InvInit, <1>1, PTL DEF Spec

\* A frame is injected only after the pointer was found, in the same turn, over the window
\* that all of its momentum was asked for over: OneTarget of the events drained before,
\* and what TargetStillValid compared the target with.
THEOREM NeverCrossesWindows == Spec => []InjectsWhereAsked
<1>1. IInv => InjectsWhereAsked
  BY DEF IInv, Shape, WorkerShape, OneTarget, InjectsWhereAsked
<1>2. QED
  BY Inductive, <1>1, PTL

\* Once the worker has noted a generation, it injects no momentum of an older one.
THEOREM MomentumIsCurrent == Spec => []NoStaleMomentum
<1>1. IInv => NoStaleMomentum
  BY DEF IInv, Shape, WorkerShape, SettingsShape, Stamped, NoStaleMomentum
<1>2. QED
  BY Inductive, <1>1, PTL

\* Once the worker has noted the settings that switch smoothing off, nothing is left
\* to scroll.
THEOREM OffMeansStill == Spec => []DisabledIsStill
<1>1. IInv => DisabledIsStill
  <2> SUFFICES ASSUME IInv, ~settings.enabled, updater # "stored", observed = generation
               PROVE  gesture.impulses = {}
    BY DEF DisabledIsStill
  <2>1. generation \in Nat /\ \A i \in gesture.impulses : i.basis \in generation .. generation
    BY DEF IInv, Shape, SettingsShape, Stamped
  <2>2. \A i \in gesture.impulses : i.basis # generation
    BY DEF IInv, Allowed
  <2>3. QED
    BY <2>1, <2>2
<1>2. QED
  BY Inductive, <1>1, PTL

\* A worker that waits with work to do has been woken or is about to be.
THEOREM WakeupsArrive == Spec => []NoLostWakeup
<1>1. IInv => NoLostWakeup
  BY DEF IInv, Woken, NoLostWakeup
<1>2. QED
  BY Inductive, <1>1, PTL

\* A worker that waits with momentum left has its timer running or signaled.
THEOREM MomentumIsTimed == Spec => []TimerRuns
<1>1. IInv => TimerRuns
  BY DEF IInv
<1>2. QED
  BY Inductive, <1>1, PTL

\* Every wheel event is passed on or swallowed exactly once (OnMouse, TryEnqueue).
THEOREM EveryEventCounts == Spec => []EventsAccountedFor
<1>1. IInv => EventsAccountedFor
  BY DEF IInv, Accounted
<1>2. QED
  BY Inductive, <1>1, PTL

\* Every variable stays in its type.
THEOREM TypeCorrect == Spec => []TypeOK
<1>1. IInv => TypeOK
  <2> SUFFICES ASSUME Shape PROVE TypeOK
    BY DEF IInv
  <2>1. Asked \subseteq Event /\ NoEvent \in Event
    BY DEF Asked, Event, NoEvent
  <2>2. queue \in Seq(Event)
    BY <2>1, SMT DEF Shape, QueueShape
  <2>3. event \in Event /\ wake \in BOOLEAN
    BY <2>1 DEF Shape, QueueShape
  <2>4. hook \in [step : {"idle"}] \cup [step : {"looking"}, window : Window]
                    \cup [step : {"pushing", "signalling"}, event : Event]
    BY <2>1 DEF Shape, HookShape
  <2>5. worker \in [step : {"waiting", "checking", "draining", "ticking"}]
                      \cup [step : {"sampling"}, over : Window]
                      \cup [step : {"resolving", "marking"}, process : Process, stamp : Nat]
    BY DEF Shape, WorkerShape
  <2>6. gesture.target \in Window \cup {NoWindow} /\ gesture.left \in 0 .. Samples
        /\ gesture.impulses \subseteq [window : Window, basis : Nat]
    BY DEF Shape, WorkerShape, Gesture, Impulse
  <2>7. QED
    BY <2>2, <2>3, <2>4, <2>5, <2>6
       DEF TypeOK, Shape, SettingsShape, PoliciesShape, HookShape, WorkerShape
<1>2. QED
  BY Inductive, <1>1, PTL
=============================================================================

------------------------------- MODULE HotPath -------------------------------
(***************************************************************************)
(* The wheel's way through the engine: the mouse hook (InputHook::OnMouse), *)
(* the queue, the motion worker's loop (MotionWorker::Run) with its wake    *)
(* event and its timer, and the settings published under both of them       *)
(* (EngineApp::ApplySettings from UpdateSettings on).  Each thread takes a   *)
(* step between two accesses to something another thread changes.           *)
(*                                                                         *)
(* The queue is the bounded queue that SpscQueue implements.  The policy     *)
(* cache is kept to what PolicyCache establishes of it: an entry carries its *)
(* generation, a lookup of an entry of another generation misses, and an    *)
(* entry that has aged may or may not be too old for one thread's clock.     *)
(* Of the motion engine a gesture keeps which wheel events it stems from    *)
(* and how many samples it has left.                                       *)
(***************************************************************************)
EXTENDS Integers, Sequences, FiniteSets

CONSTANTS Window,       \* top-level windows
          NoWindow,     \* nullptr
          Process,      \* their processes
          Owner,        \* the process of each window
          Capacity,     \* slots of the queue, one always free
          Samples,      \* samples until an impulse has been scrolled
          MaxEvents,    \* bound of a run: physical wheel events
          MaxMoves,     \* bound of a run: pointer moves
          MaxUpdates,   \* bound of a run: settings updates
          MaxAgings     \* bound of a run: entries that reach their lifetime

ASSUME WindowAssumption == NoWindow \notin Window /\ Owner \in [Window -> Process]
ASSUME BoundAssumption ==
  /\ Capacity \in Nat /\ Capacity >= 2
  /\ Samples \in Nat /\ Samples >= 1
  /\ {MaxEvents, MaxMoves, MaxUpdates, MaxAgings} \subseteq Nat

VARIABLES settings,    \* RuntimeState: a version number and `enabled`
          generation,  \* RuntimeState::settings_generation_
          updater,     \* where the updater is inside ApplySettings
          policies,    \* the policy cache
          pointer,     \* the root window under the pointer
          hook,        \* where the hook thread is inside OnMouse
          counters,    \* RuntimeCounters of the hook
          queue,       \* MotionWorker::queue_
          event,       \* the worker's local WheelEvent
          wake,        \* wake_event_ (auto-reset)
          timer,       \* timer_ (one-shot, auto-reset)
          worker,      \* where the worker is in its loop
          observed,    \* observed_settings_generation_
          gesture,     \* active_target_ and motion_
          bounds       \* pointer moves and agings so far

control == <<settings, generation, updater>>
input == <<pointer, hook, counters, queue>>
loop == <<event, wake, timer, worker, observed, gesture>>
vars == <<control, policies, input, loop, bounds>>

NoPolicy == [generation |-> 0]

Policy == [generation : Nat \ {0}, smooth : BOOLEAN, aged : BOOLEAN]

\* WheelEvent: one to scroll smoothly, or a probe that asks for a policy.
Event == [smooth : BOOLEAN, window : Window \cup {NoWindow}]
NoEvent == [smooth |-> FALSE, window |-> NoWindow]

Fifo == INSTANCE BoundedFifo WITH taken <- event

AtRest == [target |-> NoWindow, impulses |-> {}, left |-> 0]

Init ==
  /\ settings = [version |-> 1, enabled |-> TRUE] /\ generation = 1
  /\ updater = "idle"
  /\ policies = [p \in Process |-> NoPolicy]
  /\ pointer \in Window
  /\ hook = [step |-> "idle"]
  /\ counters = [physical |-> 0, passed |-> 0, smoothed |-> 0, overflows |-> 0]
  /\ queue = <<>> /\ event = NoEvent
  /\ wake = FALSE /\ timer = [armed |-> FALSE, signaled |-> FALSE]
  /\ worker = [step |-> "waiting"] /\ observed = 1
  /\ gesture = AtRest
  /\ bounds = [moves |-> 0, agings |-> 0]

\* TargetPolicyCache::TryGet for window w: the entry counts only under the
\* generation it was stamped with; `fresh` is the verdict of this thread's clock.
Hit(w, fresh) ==
  LET policy == policies[Owner[w]]
  IN  policy.generation = generation /\ (fresh \/ ~policy.aged)

HitSmooth(w, fresh) == Hit(w, fresh) /\ policies[Owner[w]].smooth

-----------------------------------------------------------------------------
(* The user and the passing of time.                                       *)

MovePointer(w) ==
  /\ bounds.moves < MaxMoves /\ w # pointer
  /\ pointer' = w
  /\ bounds' = [bounds EXCEPT !.moves = @ + 1]
  /\ UNCHANGED <<control, policies, hook, counters, queue, loop>>

\* An entry reaches its lifetime.
Age(p) ==
  /\ bounds.agings < MaxAgings
  /\ policies[p] # NoPolicy /\ ~policies[p].aged
  /\ policies' = [policies EXCEPT ![p].aged = TRUE]
  /\ bounds' = [bounds EXCEPT !.agings = @ + 1]
  /\ UNCHANGED <<control, input, loop>>

TimerFires ==
  /\ timer.armed
  /\ timer' = [armed |-> FALSE, signaled |-> TRUE]
  /\ UNCHANGED <<control, policies, input, event, wake, worker, observed, gesture, bounds>>

-----------------------------------------------------------------------------
(* The updater: ApplySettings once the file is saved.                       *)

\* Mutant: the new settings are not announced by a generation of their own.
AdvanceGeneration_Forgotten ==
  /\ updater = "stored"
  /\ updater' = "advanced"
  /\ UNCHANGED <<settings, generation, policies, input, loop, bounds>>

StoreSettings(enabled) ==
  /\ updater = "idle" /\ settings.version <= MaxUpdates
  /\ settings' = [version |-> settings.version + 1, enabled |-> enabled]
  /\ updater' = "stored"
  /\ UNCHANGED <<generation, policies, input, loop, bounds>>

AdvanceGeneration ==
  /\ updater = "stored"
  /\ generation' = generation + 1
  /\ updater' = "advanced"
  /\ UNCHANGED <<settings, policies, input, loop, bounds>>

UpdaterInvalidate ==
  /\ updater = "advanced"
  /\ policies' = [p \in Process |-> NoPolicy]
  /\ updater' = "invalidated"
  /\ UNCHANGED <<settings, generation, input, loop, bounds>>

\* Mutant: new settings do not wake the worker.
Notify_Silent ==
  /\ updater = "invalidated"
  /\ updater' = "idle"
  /\ UNCHANGED <<settings, generation, policies, input, loop, bounds>>

\* NotifySettingsChanged
Notify ==
  /\ updater = "invalidated"
  /\ wake' = TRUE
  /\ updater' = "idle"
  /\ UNCHANGED <<settings, generation, policies, input, event, timer, worker, observed,
                 gesture, bounds>>
-----------------------------------------------------------------------------
(* The hook: one OnMouse call per physical wheel event.                     *)

Count(names) == [n \in DOMAIN counters |-> IF n \in names THEN counters[n] + 1 ELSE counters[n]]

\* The settings are loaded once.  Disabled smoothing passes the event on; so does
\* a filter (`bypassed`): modifier keys, a high-resolution delta, a horizontal
\* wheel left alone, no window under the pointer.
WheelTurns(bypassed) ==
  /\ hook.step = "idle" /\ counters.physical < MaxEvents
  /\ IF ~settings.enabled \/ bypassed
     THEN counters' = Count({"physical", "passed"}) /\ UNCHANGED hook
     ELSE counters' = Count({"physical"}) /\ hook' = [step |-> "looking", window |-> pointer]
  /\ UNCHANGED <<control, policies, pointer, queue, loop, bounds>>

\* TryGet: a miss asks the worker for the policy, a pass-through policy passes.
HookLookup(fresh) ==
  /\ hook.step = "looking"
  /\ IF Hit(hook.window, fresh) /\ ~HitSmooth(hook.window, fresh)
     THEN hook' = [step |-> "idle"] /\ counters' = Count({"passed"})
     ELSE /\ hook' = [step |-> "pushing", event |->
                       [smooth |-> HitSmooth(hook.window, fresh), window |-> hook.window]]
          /\ UNCHANGED counters
  /\ UNCHANGED <<control, policies, pointer, queue, loop, bounds>>

\* TryEnqueue, the push.
HookPush ==
  /\ hook.step = "pushing"
  /\ Fifo!Push(hook.event)
  /\ hook' = [hook EXCEPT !.step = "signalling"]
  /\ UNCHANGED <<control, policies, pointer, counters, wake, timer, worker, observed,
                 gesture, bounds>>

\* Mutant: an event that finds the queue full is swallowed without a count.
HookOverflow_Swallow ==
  /\ hook.step = "pushing" /\ Len(queue) = Capacity - 1
  /\ counters' = Count({"overflows"})
  /\ hook' = [step |-> "idle"]
  /\ UNCHANGED <<control, policies, pointer, queue, loop, bounds>>

\* TryEnqueue refused: the event passes, counted as an overflow.
HookOverflow ==
  /\ hook.step = "pushing" /\ Len(queue) = Capacity - 1
  /\ counters' = Count({"overflows", "passed"})
  /\ hook' = [step |-> "idle"]
  /\ UNCHANGED <<control, policies, pointer, queue, loop, bounds>>

\* Mutant: only events to scroll wake the worker.
HookSignal_SmoothOnly ==
  /\ hook.step = "signalling"
  /\ wake' = (wake \/ hook.event.smooth)
  /\ counters' = Count(IF hook.event.smooth THEN {"smoothed"} ELSE {"passed"})
  /\ hook' = [step |-> "idle"]
  /\ UNCHANGED <<control, policies, pointer, queue, event, timer, worker, observed,
                 gesture, bounds>>

\* TryEnqueue, SetEvent(wake_event_); OnMouse returns.
HookSignal ==
  /\ hook.step = "signalling"
  /\ wake' = TRUE
  /\ counters' = Count(IF hook.event.smooth THEN {"smoothed"} ELSE {"passed"})
  /\ hook' = [step |-> "idle"]
  /\ UNCHANGED <<control, policies, pointer, queue, event, timer, worker, observed,
                 gesture, bounds>>

-----------------------------------------------------------------------------
(* The worker: one turn of MotionWorker::Run.                               *)

\* WaitForMultipleObjects: of two signaled objects the wake event is consumed,
\* the timer stays signaled.
WorkerWakes ==
  /\ worker.step = "waiting"
  /\ wake \/ timer.signaled
  /\ wake' = FALSE
  /\ timer' = IF wake THEN timer ELSE [timer EXCEPT !.signaled = FALSE]
  /\ worker' = [step |-> "checking"]
  /\ UNCHANGED <<control, policies, input, event, observed, gesture, bounds>>

\* CancelWaitableTimer leaves a timer that has fired signaled.
Cancelled == [timer EXCEPT !.armed = FALSE]

\* Mutant: the momentum outlives the settings it was accepted under.
NoteGeneration_KeepGesture ==
  /\ worker.step = "checking"
  /\ IF generation = observed
     THEN UNCHANGED <<policies, observed, gesture, timer>>
     ELSE /\ observed' = generation
          /\ policies' = [p \in Process |-> NoPolicy]
          /\ UNCHANGED <<gesture, timer>>
  /\ worker' = [step |-> "draining"]
  /\ UNCHANGED <<control, input, event, wake, bounds>>

\* A new generation empties the cache and ends the gesture.
NoteGeneration ==
  /\ worker.step = "checking"
  /\ IF generation = observed
     THEN UNCHANGED <<policies, observed, gesture, timer>>
     ELSE /\ observed' = generation
          /\ policies' = [p \in Process |-> NoPolicy]
          /\ gesture' = AtRest
          /\ timer' = Cancelled
  /\ worker' = [step |-> "draining"]
  /\ UNCHANGED <<control, input, event, wake, bounds>>

\* Mutant: an event for another window joins the gesture under way.
Retargeted_Never(w) == FALSE

\* The event is for another window than the gesture under way.
Retargeted(w) == gesture.target \notin {NoWindow, w}

\* An event accepted: the old gesture ends if it was for another target, and
\* the event's momentum is added.  `basis` is the generation of its policy.
Accepted(w, basis) ==
  [target |-> w,
   impulses |-> (IF Retargeted(w) THEN {} ELSE gesture.impulses)
                  \cup {[window |-> w, basis |-> basis]},
   left |-> Samples]

\* DrainEvents takes the next event.  A probe starts Resolve, which reads the
\* generation first.  An event to scroll is looked up again and dropped if its
\* policy no longer stands.
DrainEvent(fresh) ==
  /\ worker.step = "draining"
  /\ Fifo!Pop
  /\ LET w == event'.window
         keeps == event'.smooth /\ HitSmooth(w, fresh)
     IN  /\ worker' = IF event'.smooth THEN worker
                      ELSE [step |-> "resolving", process |-> Owner[w], stamp |-> generation]
         /\ gesture' = IF keeps THEN Accepted(w, policies[Owner[w]].generation) ELSE gesture
         /\ timer' = IF keeps /\ Retargeted(w) THEN Cancelled ELSE timer
  /\ UNCHANGED <<control, policies, pointer, hook, counters, wake, observed, bounds>>

\* Resolve reads the settings and publishes.  `allowed`: the executable is known
\* and neither excluded nor in compatibility mode.
FinishResolve(allowed) ==
  /\ worker.step = "resolving"
  /\ policies' = [policies EXCEPT ![worker.process] =
       [generation |-> worker.stamp, smooth |-> allowed /\ settings.enabled,
        aged |-> FALSE]]
  /\ worker' = [step |-> "draining"]
  /\ UNCHANGED <<control, input, event, wake, timer, observed, gesture, bounds>>

\* Mutant: the loop goes on to sample while there is still an event queued.
DrainEnds_Early ==
  /\ worker.step = "draining" /\ Len(queue) <= 1
  /\ worker' = [step |-> "ticking"]
  /\ event' = NoEvent
  /\ UNCHANGED <<control, policies, input, wake, timer, observed, gesture, bounds>>

\* TryPop found the queue empty.
DrainEnds ==
  /\ worker.step = "draining" /\ queue = <<>>
  /\ worker' = [step |-> "ticking"]
  /\ event' = NoEvent
  /\ UNCHANGED <<control, policies, input, wake, timer, observed, gesture, bounds>>

\* Tick with nothing to do, or with the pointer no longer over the target (moved
\* away, or the window gone): back to waiting with no gesture.
TickEnds ==
  /\ worker.step = "ticking"
  /\ gesture.impulses = {} \/ gesture.target # pointer
  /\ gesture' = AtRest
  /\ timer' = IF gesture.impulses = {} THEN timer ELSE Cancelled
  /\ worker' = [step |-> "waiting"]
  /\ UNCHANGED <<control, policies, input, event, wake, observed, bounds>>

\* Mutant: the frame is due, wherever the pointer is.
TickTargets_Unchecked ==
  /\ worker.step = "ticking"
  /\ gesture.impulses # {}
  /\ worker' = [step |-> "sampling", over |-> pointer]
  /\ UNCHANGED <<control, policies, input, event, wake, timer, observed, gesture, bounds>>

\* Tick finds the pointer over the target; `over` keeps where it was found (history).
TickTargets ==
  /\ worker.step = "ticking"
  /\ gesture.impulses # {} /\ gesture.target = pointer
  /\ worker' = [step |-> "sampling", over |-> pointer]
  /\ UNCHANGED <<control, policies, input, event, wake, timer, observed, gesture, bounds>>

\* A mutant: the gesture never gets to its end.
Sampled_Restarts == [gesture EXCEPT !.left = IF @ = 1 THEN Samples ELSE @ - 1]

\* The gesture after one more sample.
Sampled == IF gesture.left = 1 THEN AtRest ELSE [gesture EXCEPT !.left = @ - 1]

\* Mutant: a tick that fired during this turn counts as the next one.
Scheduled_DropPending ==
  IF timer.signaled THEN [timer EXCEPT !.signaled = FALSE] ELSE [armed |-> TRUE, signaled |-> FALSE]

\* SetWaitableTimer for the next tick, 8 ms on; setting it unsignals it.
Scheduled == [armed |-> TRUE, signaled |-> FALSE]

\* The frame is empty or SendInput takes it; the timer is set if momentum is left.
SampleInjected ==
  /\ worker.step = "sampling"
  /\ gesture' = Sampled
  /\ timer' = IF Sampled.impulses # {} THEN Scheduled ELSE timer
  /\ worker' = [step |-> "waiting"]
  /\ UNCHANGED <<control, policies, input, event, wake, observed, bounds>>

\* SendInput fails: MarkPassThrough begins by reading the generation.
SampleRefused ==
  /\ worker.step = "sampling"
  /\ gesture' = [Sampled EXCEPT !.target = gesture.target]
  /\ worker' = [step |-> "marking", process |-> Owner[gesture.target], stamp |-> generation]
  /\ UNCHANGED <<control, policies, input, event, wake, timer, observed, bounds>>

\* MarkPassThrough publishes; the gesture ends.
FinishMark ==
  /\ worker.step = "marking"
  /\ policies' = [policies EXCEPT ![worker.process] =
       [generation |-> worker.stamp, smooth |-> FALSE, aged |-> FALSE]]
  /\ gesture' = AtRest
  /\ timer' = Cancelled
  /\ worker' = [step |-> "waiting"]
  /\ UNCHANGED <<control, input, event, wake, observed, bounds>>

-----------------------------------------------------------------------------
HookSteps == (\E fresh \in BOOLEAN : HookLookup(fresh)) \/ HookPush \/ HookOverflow \/ HookSignal

UpdaterSteps == AdvanceGeneration \/ UpdaterInvalidate \/ Notify

WorkerSteps ==
  \/ WorkerWakes \/ NoteGeneration \/ DrainEnds
  \/ \E fresh \in BOOLEAN : DrainEvent(fresh)
  \/ \E allowed \in BOOLEAN : FinishResolve(allowed)
  \/ TickEnds \/ TickTargets \/ SampleInjected \/ SampleRefused \/ FinishMark

Next ==
  \/ \E w \in Window : MovePointer(w)
  \/ \E p \in Process : Age(p)
  \/ \E bypassed \in BOOLEAN : WheelTurns(bypassed)
  \/ \E enabled \in BOOLEAN : StoreSettings(enabled)
  \/ TimerFires \/ HookSteps \/ UpdaterSteps \/ WorkerSteps

Spec == Init /\ [][Next]_vars

\* The threads run and the system fires its timers; the user and the clock that
\* ages entries promise nothing.
Fairness ==
  /\ WF_vars(HookSteps) /\ WF_vars(UpdaterSteps)
  /\ WF_vars(WorkerSteps) /\ WF_vars(TimerFires)

FairSpec == Spec /\ Fairness

-----------------------------------------------------------------------------
\* Every variable stays in its type.
TypeOK ==
  /\ settings \in [version : Nat \ {0}, enabled : BOOLEAN] /\ generation \in Nat \ {0}
  /\ updater \in {"idle", "stored", "advanced", "invalidated"}
  /\ policies \in [Process -> Policy \cup {NoPolicy}]
  /\ pointer \in Window /\ observed \in 1 .. generation
  /\ hook \in [step : {"idle"}] \cup [step : {"looking"}, window : Window]
                \cup [step : {"pushing", "signalling"}, event : Event]
  /\ queue \in Seq(Event) /\ event \in Event /\ wake \in BOOLEAN
  /\ timer \in [armed : BOOLEAN, signaled : BOOLEAN]
  /\ worker \in [step : {"waiting", "checking", "draining", "ticking"}]
                  \cup [step : {"sampling"}, over : Window]
                  \cup [step : {"resolving", "marking"}, process : Process, stamp : Nat]
  /\ gesture.target \in Window \cup {NoWindow} /\ gesture.left \in 0 .. Samples
  /\ gesture.impulses \subseteq [window : Window, basis : Nat]

\* Momentum never crosses windows: when the worker goes on to inject a frame, the pointer
\* was found in this very turn over the window that every wheel event still being scrolled
\* was turned over (README.md:11), whatever events of other windows were drained before.
\* Between that look and SendInput the pointer may still move, for one frame.
InjectsWhereAsked ==
  worker.step = "sampling" => \A i \in gesture.impulses : i.window = worker.over

\* Once the worker has taken note of a generation, no momentum accepted under an
\* older one is left to be injected.
NoStaleMomentum == worker.step # "checking" => \A i \in gesture.impulses : i.basis >= observed

\* Switching smoothing off stops the page: when the worker has noted the settings
\* that disable it, nothing is left to scroll, even of events the hook had let in
\* or policies the worker was resolving while the settings changed.
DisabledIsStill ==
  ~settings.enabled /\ updater # "stored" /\ observed = generation => gesture.impulses = {}

\* No wakeup is lost: a worker that waits with an event queued, or with a
\* generation it has not noted, has been woken or is about to be by the thread
\* that pushed or updated.
NoLostWakeup ==
  worker.step = "waiting" /\ ~wake =>
    /\ queue # <<>> => hook.step = "signalling"
    /\ generation # observed => updater # "idle"

\* A worker that waits with momentum left has its timer running or signaled.
TimerRuns ==
  worker.step = "waiting" /\ gesture.impulses # {} => timer.armed \/ timer.signaled

\* Every wheel event is passed on or swallowed exactly once, the one in the hook
\* apart, and only a passed one counts as an overflow.
EventsAccountedFor ==
  /\ counters.physical = counters.passed + counters.smoothed
                            + IF hook.step = "idle" THEN 0 ELSE 1
  /\ counters.overflows <= counters.passed

\* Whatever was queued is taken in the end.
QueueDrains == queue # <<>> ~> queue = <<>>

\* Every gesture comes to an end: no momentum hangs in the worker.
GestureEnds == gesture.impulses # {} ~> gesture.impulses = {}

\* Settings that are published are noted by the worker.
GenerationNoted == observed # generation ~> observed = generation
=============================================================================

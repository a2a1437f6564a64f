# SmoothEverything: a verification project

SmoothEverything smooths the mouse wheel of Windows: a low-level hook swallows physical wheel
events, a worker thread turns each into a curve of small ones and injects them. This directory holds
TLA+ models of that program, the TLC runs that check them on small instances, and TLAPS proofs of
what matters most for every instance. Paths below are those of the repository; `engine/`, `core/` and
`control_panel/` stand for `src/engine/`, `src/core/` and `src/control_panel/`.

To check one run: `tlc -workers 2 -config MCSpscQueue.cfg MCSpscQueue.tla`. To check the proofs of a
module: `tlapm SpscQueueProofs.tla`. The runs, the lines every definition translates, one plausible bug for
every property, the hazards and the findings are in `PROJECT.json`.

## 1. Inventory

### 1.1 Parts and how they interact

```
   wheel -> [hook thread]                 [main thread]          [pipe thread] <- control panel
            InputHook::OnMouse            ToggleEnabled          HandlePipeRequest      |
              | TryGet   | TryPush            \                    /                  settings.json
              v          v                     ApplySettings (settings_write_mutex_)   (offline)
         policy cache   SPSC queue              |-- SettingsStore::Save ---> settings.json
              ^          | TryPop               |-- RuntimeState (settings, generation)
              |          v                      |-- TargetPolicyCache::Invalidate
              +---- [worker thread] <-----------+-- NotifySettingsChanged (wake event)
                    MotionEngine -> SendInput   '-- SetStartWithWindows (Run entry)
```

| Component | State it keeps | Operations | Talks to |
|---|---|---|---|
| Event queue (`event_queue.h`) | ring of slots, two atomic indices | TryPush, TryPop | hook pushes, worker pops; no lock |
| Policy cache (`target_policy.cpp`) and runtime state (`runtime_state.h`) | an atomic pointer to an immutable map of policies; settings and generation, two atomics; counters | TryGet, Resolve, MarkPassThrough, Invalidate, UpdateSettings | all threads |
| Input hook (`input_hook.cpp`) | its thread; writes counters | OnMouse: filter, look up, enqueue, swallow or pass | cache, queue, worker's event |
| Motion worker (`motion_worker.cpp`) | auto-reset wake event, one-shot timer, active target, observed generation | Run: wait, note generation, drain, tick | queue, cache, motion engine, SendInput |
| Motion engine (`motion_engine.cpp`) | per axis: impulses, remainder, acceleration, direction, totals | Push, Sample, Reset, SetSettings | called by the worker only |
| Settings plane (`engine_app.cpp`, `settings_store.cpp`, `autostart.cpp`) | settings in use, last error, write mutex, file, temporary file, Run entry | load at start, ToggleEnabled, pipe requests, ApplySettings, Save, StateResponse | publishes to the cache and the worker |
| Pipe server (`pipe_server.cpp`) | one instance of the pipe, thread, stop event, running flag | Start; accept, read a line, answer, flush, disconnect; Stop with a wait of five seconds | calls HandlePipeRequest on its thread |
| Control panel (`settings_client.cpp`, `main_window.cpp`) | a copy of the settings and a status; what its controls, lists and selections show; an apply timer, a connection timer, attempts | load the file, refresh, every edit, debounced apply, offline save, start the engine, poll | the pipe; the file when no answer comes |
| Settings model (`settings.cpp`) | none (pure) | parse, normalise, serialise, ResolveAppPolicy | used by all |
| JSON (`json.cpp`) | none (pure) | parse, write | settings, pipe |
| Lifecycle (`engine_app.cpp` Run/Shutdown, `main.cpp`, `single_instance.cpp`, `control_panel_lifecycle.cpp`) | threads and their handles, running flags, the hook, the tray icon, messages posted to the window | start and stop order with every early return, the destructor, timeouts, window messages | all |
| Localization, window drawing, tray menu, installer, scripts, the older C# settings application | - | - | - |

### 1.2 What is hard here, and what makes each part correct

*Event queue.* Two threads, no lock, acquire and release only: a thread may see an index that is old.
Correct when no slot is read and written at once and the ring is a first-in first-out queue in spite of it.

*Policy cache.* The hook may never wait, so it reads a map, the generation and the settings separately,
while an updater stores settings and generation in two steps and the worker resolves a policy in between.
Correct when no hit rests on settings retired before its lookup began, retired entries leave, and the map is bounded.

*Hook and worker.* An event is swallowed on the hook's judgement and scrolled on the worker's, later.
Correct when no wakeup is lost (a lost one leaves the wheel dead), momentum is injected only over the window it was
asked for and under settings that still stand, a gesture always has a timer, and every event is passed on or swallowed once.

*Motion engine.* Many overlapping impulses, sampled late, cancelled and re-tuned. Correct when displacement is
conserved, nothing leaks into the next gesture, a gesture settles and the page never jumps back.

*Settings plane.* Two threads change the settings; each of the calls of a save may fail; the process and the
power may go at any moment. Correct when the file is always whole, the engine runs what a restart would load or
says that it does not (unless the panel has saved the file by itself), the Run entry follows, a generation names its settings, and every request is answered.

*Pipe server.* One thread serves one client at a time, who may send half a line, never read, or go; a stop must reach it
wherever it waits. Correct when an answer is not cut off under a client that still reads, and the one instance always comes back.

*Lifecycle.* No lock protects a handle: a thread uses an event that the main thread closes, and only the order of signal, wait and close keeps
them apart. A start may fail at any point, a wait may give up. Correct when no thread touches a closed handle, every way out leaves
neither thread nor hook, a close that was acknowledged ends the process, and the icon the engine believes in is there.

*Control panel.* An edit waits 250 ms; meanwhile a refresh, another edit or the end of the window may come. A request
may time out and be carried out later; the panel then writes the file itself. Lists are shown by position. Correct when the screen shows what
the panel would save, "Applied to engine" is true and stays true, no edit is lost, and the search for an engine ends.

*Settings model.* A file written by hand: members missing or of another type, names in any spelling and any order.
Correct when an application scrolls as the file asks, and what is saved is read back the same.

The hazards, each with its line and the property that covers it or the reason none does, are in `PROJECT.json`. Smaller ones, read and left at that: an event the hook swallowed is dropped when the worker's own lookup misses
(`motion_worker.cpp:154`); a pass-through mark may be wiped by an update or by an older probe (`motion_worker.cpp:149`); acceleration outlives a change of target (`motion_engine.cpp:184`); with autostart synchronisation off `last_error_` stays (`engine_app.cpp:368`);
`running_` of the pipe server may end up true after its thread failed, which nothing reads (`pipe_server.cpp:106`); a control panel that is just starting survives a close (`engine_app.cpp:344`); after an addition the last list entry is selected, not the new one (`main_window.cpp:1661`);
an edit of the last 250 ms is lost with the window (`main_window.cpp:381`); a key loses its blanks, so `my app.exe` and `myapp.exe` share a rule (`settings.cpp:224`).

## 2. Modules

| Module | Models | How state and actions correspond to the code |
|---|---|---|
| `BoundedFifo` | the abstract queue | `queue` and the consumer's out-parameter; Push, Pop |
| `SpscQueue` | `event_queue.h` | every memory access of TryPush and TryPop is a step; `seenTail` and `seenHead` are the values a thread loaded last, and a load may return any value from there to the present one |
| `PolicyCache` | `target_policy.cpp`, `runtime_state.h` | one step per access to shared state: UpdateSettings is two steps, Resolve four (generation, name, settings, publish), TryGet three (map and time, generation and age, use) |
| `MotionCurve` | EvaluateProgress | exact fractions rounded to 1/`Unit` |
| `MotionEngine` | `motion_engine.cpp` | Push, Sample, Reset and SetSettings are actions; the helpers keep their names. The assumptions on its constants are what NormalizeMotionSettings clamps to and Push's early return on zero leaves |
| `HotPath` | `input_hook.cpp`, `motion_worker.cpp`, the publishing half of ApplySettings | composes hook, queue, worker, timer and updater |
| `SettingsPlane` | `engine_app.cpp`, `settings_store.cpp`, `autostart.cpp`, the load in `main.cpp` | ApplySettings is a step per file call, per atomic store and for the Run entry, under `lock` |
| `PipeServer` | `pipe_server.cpp`, the client's end in SendRequest | a step per wait or call of the thread (`server` is where it is), one instance `conn` with what the client sent and has not read; Start and Stop as operators for the main thread |
| `EngineLifecycle` | `engine_app.cpp` (Run, messages, tray, destructor), Start and Stop of hook and worker, `control_panel_lifecycle.cpp` | EXTENDS `PipeServer`; the main thread (`main`, `phase`) step by step, Stop in three parts (signal, wait and close), hook and worker as far as they touch handles |
| `ControlPanel` | `settings_client.cpp`, `main_window.cpp` beside an engine | a window message is an action; an apply is three (`request` is sent, carried out by the engine, answered or given up), a toggle of the engine two (copy, save); `screen` is what the controls hold, `panel` the client's SessionState |
| `SettingsModel` | `settings.cpp`, `NormalizeMotionSettings` | the functions under their names; around them a file that is edited, loaded and saved, and the panel's edits of the settings in use, one action per handler. `AnyDocument` is what the readers tell apart of a document: each member of the right type, or `Odd`; `Keep` is the loop that pushes back some elements, `Sorted` the `std::set` of keys |
| `MC*` | | constants and symmetry of the runs |
| `SpscQueueProofs`, `PolicyCacheProofs`, `MotionEngineProofs`, `HotPathProofs`, `SettingsPlaneProofs`, `EngineLifecycleProofs`, `ControlPanelProofs`, `SettingsModelProofs` | | theorems and proofs |

How they compose. `SpscQueue` is shown to implement `BoundedFifo` (`FifoSpec`, proved as `RingIsFifo`), and `HotPath`
instantiates `BoundedFifo` as its queue. `HotPath` keeps of the policy cache what `PolicyCache` establishes: an entry carries its generation, an
entry of another generation misses, the updater and the worker each empty the map. Eviction by the limit of 128 is an aging for `HotPath`: either
way the lookup misses. Of the motion engine it keeps which events a gesture stems from and how many samples are left: `SettlesOnTime` and
`IdleSettled` of `MotionEngine` are what justifies that a gesture ends after finitely many samples and is then at rest.
`SettingsPlane` makes the change that `HotPath` publishes: its StoreSettings and AdvanceGeneration are the same two stores.
`EngineLifecycle` EXTENDS `PipeServer` and runs it as one of its threads; of hook and worker it keeps which handles they touch and when they end, what they do while they run is in `HotPath`.
`ControlPanel` keeps of the engine's changes where another one can come in between: a request is sent, carried out and answered, and its answer tells of the settings in use by then; a toggle copies all settings and saves them later. What happens inside a save is in `SettingsPlane`, where the panel's own save (`SaveLocal`) may come at any time.
`SettingsModel` gives the constants `Smooths` and `PassThrough` of the other modules their meaning, and its `RoundTrip` is why the other modules treat settings that went through file or pipe as unchanged.

Where the models differ from the code, on purpose:

- `SpscQueue` starts with one default event in all slots, as value-initialisation does. `Empty()` has no caller in the engine.
- `PolicyCache` names settings by a version and takes the outcome of ResolveAppPolicy as a constant; the executable's name is found or not.
- `MotionEngine` works with exact fractions. The code's doubles add rounding below its 1e-9 threshold. NormalizeMotionSettings,
  ResetAxis (no caller) and time stamps that are not finite are left out. Wheel times do not go back, as the hook's do not.
- `HotPath` treats a frame that rounds to nothing like one that was injected (both go on to the timer); the pointer test of TargetStillValid also stands
  for a window that is gone. A failing wait, which ends the worker's thread, is in `EngineLifecycle`.
- `SettingsPlane` keeps two flags of the settings, the one the toggle changes and the one the registry mirrors, and of `last_error_` whether it is empty. A rename of a flushed
  file counts as durable: the code asks for MOVEFILE_WRITE_THROUGH. The panel's SaveLocal is one whole step at any time, beside a live engine too (a request it gave up, an engine whose pipe is not up yet); `foreign` remembers it until the engine saves or is started anew. An editor changes the file with no engine running, as `docs/configuration.md:5` asks.
- `PipeServer`: a failure to create the event object of one read or write is not told apart from the client's leaving (both end in flush and disconnect). A request is a line, a part of one, or too long; bytes after the line are dropped with the connection.
- `EngineLifecycle`: five seconds are longer than anything a thread does without waiting, so a wait gives up only on a thread that is blocked by its client, or on a thread of `Slow` (the hook, which the system may hold up). The process ends with `main = "end"` and takes every thread with it. The shell loses its icons and broadcasts TaskbarCreated in one step (`ShellRestarts`), so the seconds between the two are not in `TrayKnown`.
- `ControlPanel`: one Boolean stands for all single controls, a profile is a name and a motion. A missing file stands for the defaults. The pipe has one instance, so at most one request can be late, and while it holds the pipe nobody else is answered. While the window waits for an answer it handles no message.
  Two variables are history: `overtaken` (a toggle has saved a copy older than the last request carried out) and `unsynced` (the settings may have been replaced and the lists not filled again).
  The message posted in WM_CREATE is dispatched before any input; at that moment `engine_started_` is still false. GetModuleFileName in StartSiblingEngine does not fail.
- `SettingsModel`: one number stands for the five of MotionSettings, one Boolean per object for those read alike. Names that differ only in blanks are one name. `Language` is the set of what a file may give as `ui_language`; the three values the code compares with are in it. A schema number too large for an int (undefined in the code) is left out. The range of the panel's scale slider is the range of the motion's scale, so its position is taken as it is.

`HotPath`, `EngineLifecycle` and `ControlPanel` state a `TypeOK` that documents their variables and that no run lists (that of `HotPath` is proved, and the proofs of `ControlPanel` carry the shapes of its records); `SettingsModel` has none: its types are in the invariant `RoundTrip` is proved from.

## 3. Runs

| Run | Config | Distinct states | Question |
|---|---|---|---|
| `spsc_queue` | `MCSpscQueue.cfg` | 3 500 | Is the ring a queue under every interleaving and every stale load? |
| `policy_cache` | `MCPolicyCache.cfg` | 1.88 million | Do the unlocked reads ever let retired settings swallow an event? |
| `motion_engine` | `MCMotionEngine.cfg` | 336 thousand | Do the books of a gesture balance and does it end? |
| `hot_path` | `MCHotPath.cfg` | 5.35 million | Is a wakeup lost, a timer missing, a frame injected where it was not asked for? |
| `hot_path_live` | `MCHotPathLive.cfg` | 390 thousand | Does everything queued, started and published come to its end? |
| `settings_plane` | `MCSettingsPlane.cfg` | 534 thousand | Do file, settings, Run entry and answers stay consistent through failures and crashes? |
| `settings_toggle` | `MCSettingsToggle.cfg` | violation | Does a toggle change the flag only? |
| `settings_corrupt` | `MCSettingsCorrupt.cfg` | violation | Is a corrupted file preserved? |
| `engine_lifecycle` | `MCEngineLifecycle.cfg` | 287 thousand | Do start and stop keep threads off closed handles, and does a close end the process? |
| `control_panel` | `MCControlPanel.cfg` | 1.91 million | Does the window show what it would save, and does "Applied" hold? |
| `control_panel_edits` | `MCControlPanelEdits.cfg` | violation | Does an edit survive until it is saved? |
| `settings_model` | `MCSettingsModel.cfg` | 82 thousand | Does an application scroll as the file asks, and does a save lose nothing? |

What they show, by property:

- `ViewsOrdered`, `NoSlotRace`, `FifoSpec`: an old index errs on the safe side, no slot is shared, the ring is a bounded queue.
- `HitIsCurrent`: a hit that lets the hook swallow an event rests on settings that were in use at some time after its lookup began, whatever was published meanwhile. It takes the stamp read before the settings
  in Resolve, the two stores of UpdateSettings in their order, and the comparison of generations in TryGet: without the comparison an entry left in the map by settings long gone is a hit.
  `NoRetiredEntries`: the worker's second Invalidate is what removes an entry that was being resolved during the first. `BoundedCache`: the limit holds.
- `Conserved`, `IdleSettled`: what the wheel promised was emitted, written off, kept or is still ahead, and an axis at rest owes nothing.
  `OneDirection`, `SettlesOnTime`, `NoBacklash`: a reversal leaves no old momentum, the last sample ends the gesture, no frame goes backwards
  as long as the settings were not changed since the last one (with `retuned` dropped from the property TLC finds the frame that does).
- `InjectsWhereAsked`: when the worker goes on to inject, the pointer was found in that very turn over the window all events still being scrolled were turned over. TargetStillValid before each frame and the new gesture at a change of target are both needed.
  Between this look and SendInput the pointer may still move, for one frame; the model contains that step and the property does not deny it. `NoStaleMomentum`, `DisabledIsStill`: momentum of retired settings never reaches the page.
  `NoLostWakeup`, `TimerRuns`: the worker never sleeps on work. `EventsAccountedFor`: the counters say of each event once what became of it.
- `QueueDrains`, `GestureEnds`, `GenerationNoted`: the same, as promises about the end.
- `FileIsWhole`, `RunsTheFile`, `AutostartFollows`, `GenerationNamesSettings`, `RequestsAnswered`: as their names say, through every failure of a save,
  a crash and a power failure. `RunsTheFile` has one exception: the control panel has saved the file by itself since the engine loaded or saved it (`foreign`), which a live engine neither reads nor reports.
- `HandlesOpen`: the pipe's thread never waits without its stop event, the hook never signals a closed event, and the worker's wake event outlives both threads that signal it: the hook, and the pipe's thread when it carries out an apply (NotifySettingsChanged). A stop in another order (the pipe last, `PipeLast`) breaks it. Two exceptions are in the code and are named in the property: a hook
  that was held up past the wait, and a pipe thread in FlushFileBuffers, the only wait that the stop event does not end. `NothingLeft`: the same on the way out, from every early return of Run. It is the order pipe, hook, worker that makes both true.
  `TrayKnown`: an icon the engine counts on is there once the shell's message was read.
- `AnswersDelivered`: the flush before the disconnect is what keeps an answer from being dropped. `ServerReturns`: no client that leaves in the end, as the panel does when its transfer times out, keeps the instance. A client that stays and sends nothing does keep it: the server has no timeout. `CloseEnds`: an acknowledged shutdown ends the process even with a stuck client or a slow hook.
- `ScreenTrue`: Remove and the profile editor work on positions in lists; the lists, the selection and the editor stay those of the panel's settings through sorting, removal and an apply whose answer replaces the settings and fills no list. Two events are the exceptions, until the lists are filled from the engine again (`unsynced`):
  the refresh of the diagnostics page, and an answer that tells of other rules because a toggle with an older copy was saved between the request and its answer. `AppliedStaysSaved`: what was acknowledged is in the file, whatever request arrives late and whatever engine starts; a toggle that had copied the settings before the apply (`overtaken`) does take it back, which is finding 2.
  `ComesToRest`: an apply is answered or given up, and timers do not go on for ever.
- `RoundTrip`, `AskedIsDone`: the second compares ParseSettings with ResolveAppPolicy against a reference that reads the document without any normal form, so that spelling, order, duplicates and values out of range have to come out right together.

Every property is violated by a mutation of the code it is about (`mutants` in `PROJECT.json`), under the run's own bounds. The mutated forms stand before the definitions they mutate.

### Bounds

- `Capacity = 4` in `MCSpscQueue`: three usable places, every position of the wrap-around, full and empty; the state is finite without a bound. The proofs hold for every capacity.
- `MCPolicyCache`: three processes for a map of two (eviction happens), three versions that treat processes differently (two updates, the second while a resolution of the first is under way),
  `Lifetime = 0` and two instants (an entry may expire between two steps). Longer lifetimes only make hits last, and versions beyond the third repeat the pattern; the proofs hold for all.
- `MCMotionEngine`: three pushes of two deltas on two axes within three instants, durations of one and two instants: impulses overlap, end out of order, reverse and are re-timed. `Unit = 8` gives remainders of both
  signs. The scale of one quarter reaches a delta that rounds to nothing.
- `MCHotPath`: four wheel events (more than the queue's two places), one move of the pointer (events of two windows in one queue), two settings updates (off and on again) and one aging. Two windows of two processes.
  `MCHotPathLive` has three events and one update.
- `MCSettingsPlane`: up to two changes applied by one engine (`MaxGeneration = 3`, one per thread or two of one), any number of starts, crashes, power failures and failed saves. The proofs hold for every number of changes.
- `MCEngineLifecycle`: one client visit, one part before the limit of a request's length, one restart of the shell, a hook that may be slow. A second client would find the same fresh instance (`Disconnect` and `CreateInstance` forget the first), and every early return is reached without any client.
- `MCControlPanel`: two edits of the user, one toggle, the panel opened twice, two polls; two applications and a file with rules for both. Two edits are what it takes for an edit to overtake the apply of another, one toggle to come between a request and its answer; the second opening finds what the first left behind.
  `MCControlPanelEdits` has smaller bounds: one edit, no toggle and one opening are all its trace of seven states takes.
- `MCSettingsModel`: 289 documents of two applications in three spellings, among them duplicates, an empty name, elements of another type, numbers at both ends and beyond them, versions that are cut to 1, refused or missing. The panel makes at most two changes (`MaxChanges = 2`): an addition and a removal, or two additions, in every order. Sliders and numbers give one of `Number`, at the ends, within and beyond.
  `SettingsSurvive` is proved for any number of changes.

`CHECK_DEADLOCK FALSE` stands only in the three hot path configs: when the bounded user has turned the wheel for the last time, the worker waits for good, as it should.

### Fairness

- `HotPath!FairSpec`: weak fairness of the hook's steps, of an update once begun, of the worker's steps and of the timer. Each is a thread the system schedules or an object it signals; nothing blocks them. The user, the pointer and
  the clock that ages entries have none.
- `SettingsPlane!FairSpec`: weak fairness of a thread's steps under the lock (each file call returns, with success or failure), and strong fairness of the pipe thread's two acquisitions of the mutex.
  A mutex of the C++ library is not fair by contract; strong fairness stands for the fact that the main thread takes it once per keystroke of a user, so that it is free most of the time. Nothing makes a user press a key or a client send a request.
- `EngineLifecycle!FairSpec`: weak fairness of the main thread's start and stop (a wait for a blocked thread times out), of the dispatching of a close, of the pipe's thread, the hook's and the worker's (scheduled threads), and of a client's leaving: the control panel gives up its own waits after a timeout and closes its end. This last one is an assumption about the client and not a promise of the server, which waits without a limit.
- `ControlPanel!FairSpec`: weak fairness of the posted message, of the two timers, and of the end of a wait for an answer (SendRequest times out). The user, the engine and Windows promise nothing; whether the engine is found is open.

## 4. Proofs

All from the assumptions the modules name about their constants, for every value of them.

| Module | Theorem | Says |
|---|---|---|
| `SpscQueueProofs` | `TypeCorrect`, `ViewsCorrect`, `NoRace` | `TypeOK`, `ViewsOrdered`, `NoSlotRace` always hold |
| | `RingIsFifo` | the ring implements `BoundedFifo` |
| `PolicyCacheProofs` | `TypeCorrect`, `HitsAreCurrent`, `RetiredEntriesGo`, `CacheBounded` | `TypeOK`, `HitIsCurrent`, `NoRetiredEntries`, `BoundedCache` |
| `HotPathProofs` | `TypeCorrect`, `WakeupsArrive`, `MomentumIsTimed` | `TypeOK`, `NoLostWakeup`, `TimerRuns` |
| | `NeverCrossesWindows`, `MomentumIsCurrent`, `OffMeansStill` | `InjectsWhereAsked`, `NoStaleMomentum`, `DisabledIsStill` |
| | `EveryEventCounts` | `EventsAccountedFor` |
| `SettingsPlaneProofs` | `TypeCorrect`, `FileStaysWhole`, `EngineRunsTheFile`, `AutostartFollowsSettings` | `TypeOK`, `FileIsWhole`, `RunsTheFile`, `AutostartFollows` |
| | `GenerationsNameSettings` | the action property `GenerationNamesSettings` |
| `EngineLifecycleProofs` | `HandlesStayOpen`, `NothingIsLeft`, `TrayIsKnown`, `AnswersAreDelivered` | `HandlesOpen`, `NothingLeft`, `TrayKnown`, `AnswersDelivered` |
| `MotionEngineProofs` | `TypeCorrect`, `BooksBalance`, `RestOwesNothing`, `NoCrossMomentum` | `TypeOK`, `Conserved`, `IdleSettled`, `OneDirection` |
| | `SamplesSettle`, `FramesGoForward` | the action properties `SettlesOnTime`, `NoBacklash` |
| `ControlPanelProofs` | `ScreenStaysTrue`, `AppliedIsSaved` | `ScreenTrue`, `AppliedStaysSaved` |
| `SettingsModelProofs` | `SettingsSurvive`, `RulesAreFollowed` | `RoundTrip`, `AskedIsDone` |

*The ring.* `ViewsOrdered` with the types is inductive: the four indices stay in the order seenTail, tail, seenHead, head within one turn, so a free slot in the producer's old view is free and a filled one in the consumer's old view is filled.
The arithmetic around the ring is in lemmas about `Distance` and `Increment`. The refinement maps the arc from the first event not yet copied to `head` to a sequence: PushPublish is Push, PopRead is Pop, every other step stutters. `NoSlotRace` alone is not inductive: without the order of the views nothing keeps a full ring's producer off the consumer's slot.

*The cache.* An entry is followed from its making to its use. The invariant says that in the worker's hands, in the map and in the hook's hands a policy that says "smooth" rests on settings in the range its stamp allows, that settings and generation are at most one apart,
and that no entry is stamped older than what the worker observed. The hook's lookup remembers which settings were in use when it began; the generation it loads is not older than those, and a hit carries just that generation. `HitIsCurrent` needs all of it: it speaks of the hook only, whose entry comes from the map, which comes from the worker.

*The settings.* The invariant follows a change under the lock: until the rename the engine runs the file, from the rename on the file is what the thread wants, from the store on so are the settings in use; the temporary file is whole and flushed before it is renamed; the last answer is of an older generation or says what is in use.
Where the panel has written the file since, the parts that speak of the file are silent until the next rename. `RunsTheFile` alone says nothing about the moments between, and so is not inductive.

*The hot path.* Three arguments share one invariant. Wakeups: from the end of the drain to the next wait an event in the queue means that the hook is still about to signal, from the note of the generation on a newer one means that the updater is; `NoLostWakeup` speaks of the wait only and says nothing of the steps before it.
Settings: nothing is stamped ahead of the generation, a policy that carries the present one smooths only what the present settings smooth, and a gesture's momentum is of a generation between the noted and the present one. Windows: all events of a gesture were turned over its target (`OneTarget`), and a worker about to inject has found the pointer there; `InjectsWhereAsked` is the two together. `DisabledIsStill` follows where the arguments meet; it is not inductive, as it says nothing of the policies a later event would be judged by.

*Start and stop.* The invariant says where the main thread stands by the handles that are open: what Stop closes it closes at once, a thread whose handles are closed has ended or was given up after five seconds, and the handles of the pipe and the hook are closed before the worker's, whose event both threads signal. An icon is known unless a message that says otherwise waits; past the flush the client has its answer or is gone.
`HandlesOpen` alone is not inductive: it does not say in which order the closing comes.

*The gesture.* An axis is `Sound` when what was accepted is emitted, cancelled, kept as remainder or still owed by its impulses, when an axis without impulses has no remainder, and when all impulses go the way of the axis. Push, Sample, CancelOutstanding and SetSettings keep it so.
What makes the books close is that only whole units are ever promised: when the last impulse ends or is cancelled, remainder and debt together are a whole number of units, so the remainder a settled axis drops was zero to begin with. A sum over impulses (`Total`) is a recursive function; its laws (appending, splitting at the impulses that ended, adding two sums) are proved by induction on the length.
`NoBacklash` needs `OnCurve` besides: as long as the settings are those of the last sample, no impulse has emitted more than its curve says at that time. With a curve that never falls the next frame cannot be negative. That the curve never falls is proved of the quintic itself, x^3 (6x^2 - 15x + 10), of the time warp before it and of the rounding to 1/`Unit` after it.

*The panel.* Each function that fills controls leaves them as the settings say, each edit changes the settings and the lists alike, and a refresh that does not is followed by `unsynced`. An apply is different: its answer replaces the settings and fills only the controls, so `ScreenTrue` rests on the answer telling of the rules the panel sent.
That is `RequestHolds`: while the window waits it has no other request on its way and its settings are those of the request; once that is carried out file and engine have the same rules until a toggle saves a copy from before it (`overtaken`), and a copy that is not old has the engine's rules. `AppliedHolds` carries it on past the answer: no request is on its way, the file has the panel's rules, and an engine that has loaded the file, and so could write it again, runs the same rules.
Neither property is inductive without these two. An engine that starts while the panel saves the file itself may run the old rules and write them back later; the panel then says "SavedOffline", of which the invariant promises nothing.

*The settings model.* The invariant is that settings in use are in normal form, however they came about: NormalizeCollection makes one of anything the readers return, and the panel's own edits, which never pass through it, keep it (the new key is sorted in, what is left after a removal is sorted and without duplicates still, the new profile is the only one of its key, numbers, presets and positions of the slider are in range). From there `RoundTrip` says that each reader gives back what it could have written and that a normal form is a fixed point of NormalizeCollection.
`AskedIsDone` follows the first rule of an application through three sequences, the array of the document, the profiles read from it and the profiles in normal form: Keep leaves the order alone, what is skipped is the first of nothing, and what is dropped as a duplicate had an earlier one before it. That any finite set of numbers can be put in order, which Keep and Sorted rest on, is proved by induction on its size.
The proof corrected the reference: its cases were a CASE with overlapping guards, of which TLA+ leaves the choice open; they are now tried in order.

Each inductive invariant was checked by TLC before it was proved.

*Induction.* The library's induction theorems take an operator and cannot be instantiated by the installed provers. Where a proof needs one, it takes the set of the numbers for which the statement holds and shows that it has no least counterexample (`Least`, `Induction`), from the library's facts on well-founded relations, which speak of sets.

*Only model-checked.* Liveness (`QueueDrains`, `GestureEnds`, `GenerationNoted`, `RequestsAnswered`, `CloseEnds`, `ServerReturns`, `ComesToRest`): fairness and ENABLED are beyond the prover. Every invariant and every action property that a passing run checks is proved.

## 5. Findings

Three claims of the documentation do not hold of the code; each has a run that TLC refutes.

1. `PendingEditsKept` (`control_panel_edits`). `docs/configuration.md:5` says the control panel saves automatically. An edit waits for its timer in the panel's copy of the settings, and a refresh in between (the poll of the connection, the diagnostics page) replaces that copy by the engine's: the timer then applies the engine's own settings back to it and reports "Applied".
2. `TogglesOnly` (`settings_toggle`). `ToggleEnabled` copies the settings before it takes the mutex (`engine/src/engine_app.cpp:350`) and saves the whole copy, so settings the pipe thread applied in between are undone, though acknowledged.
3. `CorruptFilePreserved` (`settings_corrupt`). `docs/architecture.md:57` and `:69` say that an invalid file is preserved. The engine does keep it at load, but the next successful change, a toggle for instance, replaces it by the defaults (`engine/src/engine_app.cpp:358`).

## 6. Not modelled, and the plan

Order of the work left, most important first:

1. Proofs: the types of `EngineLifecycle` and `ControlPanel` in full; that the steps of a request and a toggle in `ControlPanel` are what `SettingsPlane` does, its file calls taken together.
2. `MotionEngine`: time stamps that are not finite, and the doubles' rounding as a bounded error, if the 1e-9 threshold should ever be questioned.
3. `PipeServer`: several clients in a row that wait for the one instance, should the panel ever be run more than once.

Left out for good: drawing and layout of the window and the tray, localization (a table of strings), the text level of JSON (the models need only whether a text parses), the installer, scripts and tests, and the older C# settings application, which `docs/architecture.md` does not count among the processes.

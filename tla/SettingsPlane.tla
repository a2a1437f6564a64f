---------------------------- MODULE SettingsPlane ----------------------------
(***************************************************************************)
(* The settings of the engine: the file (SettingsStore), the snapshot in use *)
(* (RuntimeState), the Run entry of the registry, and the two threads that   *)
(* change them through EngineApp::ApplySettings: the main thread, on a       *)
(* toggle, and the pipe thread, on a request.  A save is the four calls that *)
(* make it, each of which may fail; the process may end and the power may    *)
(* fail between any two steps.                                             *)
(*                                                                         *)
(* Of AppSettings the model keeps the flag the toggle changes and one other, *)
(* the one the registry mirrors.  last_error_ is kept to being empty or not. *)
(***************************************************************************)
EXTENDS Integers

CONSTANTS Missing,        \* there is no such file
          Corrupt,        \* bytes that are not settings of this schema
          Torn,           \* a file whose bytes were not all written
          NoAnswer,       \* the pipe has answered nothing yet
          Refusal,        \* {"ok": false, ...}
          MaxGeneration   \* bound of a run: settings applied by one engine

ASSUME GenerationAssumption == MaxGeneration \in Nat \ {0}

AppSettings == [enabled : BOOLEAN, start_with_windows : BOOLEAN]

\* What StateResponse tells a client.
Answer == [settings : AppSettings, generation : Nat]

ASSUME DistinctAssumption ==
  /\ {Missing, Corrupt, Torn} \cap AppSettings = {}
  /\ Missing # Corrupt /\ Missing # Torn /\ Corrupt # Torn
  /\ NoAnswer \notin Answer /\ Refusal \notin Answer

VARIABLES file,      \* settings.json: its bytes, and whether they are on the disk
          foreign,   \* someone else wrote it after the engine loaded or saved it (history)
          temp,      \* settings.json.tmp
          run_key,   \* the Run entry exists
          engine,    \* the process: off, loaded (before the pipe is up) or running
          sync,      \* sync_autostart_
          settings,  \* RuntimeState::settings_
          generation,
          failed,    \* last_error_ is not empty
          lock,      \* settings_write_mutex_
          thread,    \* where each thread is, and the settings it is to apply
          answer     \* the last answer of the pipe

disk == <<file, foreign, temp, run_key>>
runtime == <<settings, generation>>
vars == <<disk, engine, sync, runtime, failed, lock, thread, answer>>

Thread == {"main", "pipe"}
SaveSteps == {"creating", "writing", "flushing", "renaming"}
Step == {"idle", "locking", "storing", "advancing", "syncing", "answering"} \cup SaveSteps
ThreadState == [step : Step, wanted : AppSettings]

DefaultSettings == [enabled |-> TRUE, start_with_windows |-> FALSE]
Idle == [step |-> "idle", wanted |-> DefaultSettings]

\* Thread t goes on to a step, with what it is to apply.
Goes(t, step) == thread' = [thread EXCEPT ![t].step = step]
Wants(t, s) == thread' = [thread EXCEPT ![t] = [step |-> "locking", wanted |-> s]]
Ends(t) == thread' = [thread EXCEPT ![t] = Idle]

Init ==
  /\ file \in [data : AppSettings \cup {Missing, Corrupt}, flushed : {TRUE}]
  /\ foreign = FALSE
  /\ temp = [data |-> Missing, flushed |-> TRUE]
  /\ run_key = FALSE
  /\ engine = "off" /\ sync = TRUE
  /\ settings = DefaultSettings /\ generation = 1
  /\ failed = FALSE /\ lock = "free"
  /\ thread = [t \in Thread |-> Idle]
  /\ answer = NoAnswer

-----------------------------------------------------------------------------
(* The process: started, ended, and the user who edits the file meanwhile.   *)

\* wWinMain: the file is loaded before anything else.  No file is no error; a
\* file that cannot be opened or read (`readable`) or parsed leaves the defaults
\* in use and an error to report.
StartEngine(readable, synchronise) ==
  /\ engine = "off"
  /\ engine' = "loaded" /\ sync' = synchronise
  /\ LET valid == readable /\ file.data \in AppSettings
     IN  /\ settings' = IF valid THEN file.data ELSE DefaultSettings
         /\ failed' = ~(valid \/ file.data = Missing)
  /\ generation' = 1 /\ foreign' = FALSE
  /\ UNCHANGED <<file, temp, run_key, lock, thread, answer>>

\* SetStartWithWindows(wanted) succeeds or fails.
WritesRunKey(wanted, ok) == run_key' = IF ok THEN wanted ELSE run_key

\* Mutant: a Run entry written at startup clears the error of the load.
EnterRunning_ClearsError(ok) ==
  /\ engine = "loaded"
  /\ engine' = "running"
  /\ IF sync
     THEN WritesRunKey(settings.start_with_windows, ok) /\ failed' = ~ok
     ELSE UNCHANGED <<run_key, failed>>
  /\ UNCHANGED <<file, foreign, temp, sync, runtime, lock, thread, answer>>

\* The rest of EngineApp::Run before the message loop: the Run entry follows the
\* settings, and its failure is reported unless the load has one to report.
EnterRunning(ok) ==
  /\ engine = "loaded"
  /\ engine' = "running"
  /\ IF sync
     THEN WritesRunKey(settings.start_with_windows, ok) /\ failed' = (failed \/ ~ok)
     ELSE UNCHANGED <<run_key, failed>>
  /\ UNCHANGED <<file, foreign, temp, sync, runtime, lock, thread, answer>>

\* The memory of a process that has ended.
Gone ==
  /\ engine' = "off" /\ sync' = TRUE /\ foreign' = FALSE
  /\ settings' = DefaultSettings /\ generation' = 1
  /\ failed' = FALSE /\ lock' = "free"
  /\ thread' = [t \in Thread |-> Idle]
  /\ answer' = NoAnswer

\* Exit, a failed start, a crash: the files stay as they are.
EngineEnds == engine # "off" /\ Gone /\ UNCHANGED <<file, temp, run_key>>

\* The bytes that had not been flushed are lost.
AfterPowerLoss(f) == IF f.flushed THEN f ELSE [data |-> Torn, flushed |-> TRUE]

PowerFails ==
  /\ engine # "off" /\ Gone
  /\ file' = AfterPowerLoss(file) /\ temp' = AfterPowerLoss(temp)
  /\ UNCHANGED run_key

\* The file is edited or removed, with the engine exited first (configuration.md:5).
FileEdited(data) ==
  /\ engine = "off" /\ file.data # data
  /\ file' = [data |-> data, flushed |-> TRUE]
  /\ UNCHANGED <<foreign, temp, run_key, engine, sync, runtime, failed, lock, thread, answer>>

\* The control panel saves by itself, through a temporary file of its own: without an
\* engine, beside one whose pipe is not up, or when a request was refused or too slow.
SaveLocal(s) ==
  /\ file' = [data |-> s, flushed |-> TRUE]
  /\ foreign' = (engine # "off")
  /\ UNCHANGED <<temp, run_key, engine, sync, runtime, failed, lock, thread, answer>>

-----------------------------------------------------------------------------
(* What asks for new settings.                                             *)

Begins(t) == engine = "running" /\ thread[t] = Idle
Unchanging == UNCHANGED <<disk, engine, sync, runtime, failed, lock>>

\* ToggleEnabled copies the settings in use, without the lock.
ToggleEnabled ==
  /\ Begins("main") /\ generation < MaxGeneration
  /\ Wants("main", [settings EXCEPT !.enabled = ~@])
  /\ Unchanging /\ UNCHANGED answer

\* set_enabled copies them too.
SetEnabled(enabled) ==
  /\ Begins("pipe") /\ generation < MaxGeneration
  /\ Wants("pipe", [settings EXCEPT !.enabled = enabled])
  /\ Unchanging /\ UNCHANGED answer

\* apply_settings brings settings of its own.
ApplyRequest(s) ==
  /\ Begins("pipe") /\ generation < MaxGeneration
  /\ Wants("pipe", s)
  /\ Unchanging /\ UNCHANGED answer

\* get_state
GetState == Begins("pipe") /\ Goes("pipe", "answering") /\ Unchanging /\ UNCHANGED answer

\* A request that does not parse, or whose settings do not.
RefuseRequest ==
  /\ Begins("pipe")
  /\ answer' = Refusal
  /\ Unchanging /\ UNCHANGED thread

-----------------------------------------------------------------------------
(* ApplySettings, under the lock.                                          *)

TakeLock(t) ==
  /\ thread[t].step = "locking" /\ lock = "free"
  /\ lock' = t /\ Goes(t, "creating")
  /\ UNCHANGED <<disk, engine, sync, runtime, failed, answer>>

\* CREATE_ALWAYS: whatever an earlier save left behind is truncated.
CreateTemp(t) ==
  /\ thread[t].step = "creating"
  /\ temp' = [data |-> Torn, flushed |-> FALSE] /\ Goes(t, "writing")
  /\ UNCHANGED <<file, foreign, run_key, engine, sync, runtime, failed, lock, answer>>

WriteTemp(t) ==
  /\ thread[t].step = "writing"
  /\ temp' = [data |-> thread[t].wanted, flushed |-> FALSE] /\ Goes(t, "flushing")
  /\ UNCHANGED <<file, foreign, run_key, engine, sync, runtime, failed, lock, answer>>

\* Mutant: the file is closed without being flushed.
FlushTemp_CloseOnly(t) ==
  /\ thread[t].step = "flushing"
  /\ Goes(t, "renaming")
  /\ UNCHANGED <<disk, engine, sync, runtime, failed, lock, answer>>

\* FlushFileBuffers, then the file is closed.
FlushTemp(t) ==
  /\ thread[t].step = "flushing"
  /\ temp' = [temp EXCEPT !.flushed = TRUE] /\ Goes(t, "renaming")
  /\ UNCHANGED <<file, foreign, run_key, engine, sync, runtime, failed, lock, answer>>

\* MoveFileExW, replacing the old file.
RenameTemp(t) ==
  /\ thread[t].step = "renaming"
  /\ file' = temp /\ temp' = [data |-> Missing, flushed |-> TRUE] /\ foreign' = FALSE
  /\ Goes(t, "storing")
  /\ UNCHANGED <<run_key, engine, sync, runtime, failed, lock, answer>>

\* Mutant: the early return leaves the mutex locked.
SaveFails_KeepsLock(t) ==
  /\ thread[t].step \in SaveSteps
  /\ failed' = TRUE
  /\ Ends(t)
  /\ answer' = IF t = "pipe" THEN Refusal ELSE answer
  /\ UNCHANGED <<disk, engine, sync, runtime, lock>>

\* One of the calls of Save fails: the temporary file stays, nothing else changes.
SaveFails(t) ==
  /\ thread[t].step \in SaveSteps
  /\ failed' = TRUE
  /\ lock' = "free" /\ Ends(t)
  /\ answer' = IF t = "pipe" THEN Refusal ELSE answer
  /\ UNCHANGED <<disk, engine, sync, runtime>>

\* UpdateSettings, the snapshot.
StoreSettings(t) ==
  /\ thread[t].step = "storing"
  /\ settings' = thread[t].wanted /\ Goes(t, "advancing")
  /\ UNCHANGED <<disk, engine, sync, generation, failed, lock, answer>>

\* UpdateSettings, the generation; the policies and the worker follow (HotPath).
AdvanceGeneration(t) ==
  /\ thread[t].step = "advancing"
  /\ generation' = generation + 1 /\ Goes(t, "syncing")
  /\ UNCHANGED <<disk, engine, sync, settings, failed, lock, answer>>

\* Mutant: a Run entry that cannot be written is not reported.
FinishApply_Silent(t, ok) ==
  /\ thread[t].step = "syncing"
  /\ IF sync
     THEN WritesRunKey(thread[t].wanted.start_with_windows, ok) /\ failed' = FALSE
     ELSE UNCHANGED <<run_key, failed>>
  /\ lock' = "free"
  /\ IF t = "pipe" THEN Goes(t, "answering") ELSE Ends(t)
  /\ UNCHANGED <<file, foreign, temp, engine, sync, runtime, answer>>

\* The Run entry follows the settings and decides what there is to report; the
\* lock is released.
FinishApply(t, ok) ==
  /\ thread[t].step = "syncing"
  /\ IF sync
     THEN WritesRunKey(thread[t].wanted.start_with_windows, ok) /\ failed' = ~ok
     ELSE UNCHANGED <<run_key, failed>>
  /\ lock' = "free"
  /\ IF t = "pipe" THEN Goes(t, "answering") ELSE Ends(t)
  /\ UNCHANGED <<file, foreign, temp, engine, sync, runtime, answer>>

\* Mutant: the answer is put together without the lock.
StateResponse_Unlocked ==
  /\ thread["pipe"].step = "answering"
  /\ answer' = [settings |-> settings, generation |-> generation]
  /\ Ends("pipe")
  /\ UNCHANGED <<disk, engine, sync, runtime, failed, lock>>

\* StateResponse takes the lock again.
StateResponse ==
  /\ thread["pipe"].step = "answering" /\ lock = "free"
  /\ answer' = [settings |-> settings, generation |-> generation]
  /\ Ends("pipe")
  /\ UNCHANGED <<disk, engine, sync, runtime, failed, lock>>

-----------------------------------------------------------------------------
Progress(t) ==
  \/ CreateTemp(t) \/ WriteTemp(t) \/ FlushTemp(t) \/ RenameTemp(t)
  \/ StoreSettings(t) \/ AdvanceGeneration(t)
  \/ \E ok \in BOOLEAN : FinishApply(t, ok)

Next ==
  \/ \E readable, synchronise \in BOOLEAN : StartEngine(readable, synchronise)
  \/ \E ok \in BOOLEAN : EnterRunning(ok)
  \/ EngineEnds \/ PowerFails
  \/ \E data \in AppSettings \cup {Missing, Corrupt} : FileEdited(data)
  \/ ToggleEnabled \/ GetState \/ RefuseRequest
  \/ \E enabled \in BOOLEAN : SetEnabled(enabled)
  \/ \E s \in AppSettings : ApplyRequest(s) \/ SaveLocal(s)
  \/ \E t \in Thread : TakeLock(t) \/ Progress(t) \/ SaveFails(t)
  \/ StateResponse

Spec == Init /\ [][Next]_vars

\* Every thread goes on; the pipe thread gets a lock that is free again and again.
FairSpec ==
  /\ Spec
  /\ \A t \in Thread : WF_vars(Progress(t) \/ SaveFails(t))
  /\ SF_vars(TakeLock("pipe")) /\ SF_vars(StateResponse)

-----------------------------------------------------------------------------
\* Every variable stays in its type, and a thread that is past the lock holds it.
TypeOK ==
  /\ file \in [data : AppSettings \cup {Missing, Corrupt, Torn}, flushed : BOOLEAN]
  /\ temp \in [data : AppSettings \cup {Missing, Torn}, flushed : BOOLEAN]
  /\ foreign \in BOOLEAN /\ run_key \in BOOLEAN /\ sync \in BOOLEAN /\ failed \in BOOLEAN
  /\ engine \in {"off", "loaded", "running"}
  /\ settings \in AppSettings /\ generation \in Nat \ {0}
  /\ lock \in Thread \cup {"free"}
  /\ thread \in [Thread -> ThreadState]
  /\ \A t \in Thread : thread[t].step \notin {"idle", "locking", "answering"} <=> lock = t
  /\ answer \in {NoAnswer, Refusal} \cup Answer

\* Whatever fails, and whenever, the settings file is the old one or the new one,
\* whole.
FileIsWhole == file.data # Torn

\* An engine between two changes runs what it last loaded or saved, and so what a restart
\* would load, unless the control panel saved by itself since (settings_client.cpp:240).
\* The defaults are in use for want of a file, or of a readable one, and then with an
\* error to report: a save that fails part of the way leaves file, settings and error
\* telling the same story.
RunsTheFile ==
  engine = "running" /\ lock = "free" /\ ~foreign =>
    \/ settings = file.data
    \/ settings = DefaultSettings /\ (file.data = Missing \/ failed)

\* An engine that synchronises the Run entry and reports no error has it as its
\* settings say.
AutostartFollows ==
  engine = "running" /\ lock = "free" /\ sync /\ ~failed =>
    run_key = settings.start_with_windows

\* The generation in an answer names the settings in it: a client that sees one
\* generation twice has seen the same settings.
GenerationNamesSettings ==
  [][answer \notin {NoAnswer, Refusal} /\ answer' \notin {NoAnswer, Refusal}
       /\ answer.generation = answer'.generation
     => answer.settings = answer'.settings]_vars

\* The pipe thread ends every request it takes up, whatever the main thread does.
RequestsAnswered == thread["pipe"].step # "idle" ~> thread["pipe"].step = "idle"

\* README.md: Ctrl+Alt+S is a toggle.  It changes the flag and nothing else.
TogglesOnly ==
  [][thread["main"].step = "storing" /\ thread'["main"].step = "advancing" =>
       settings'.start_with_windows = settings.start_with_windows]_vars

\* architecture.md:57, 69: invalid data never overwrites the original file, a corrupted
\* configuration is preserved: while the engine runs nobody but the panel replaces it.
CorruptFilePreserved ==
  [][file.data = Corrupt /\ engine # "off" /\ file' # file => foreign']_vars
=============================================================================

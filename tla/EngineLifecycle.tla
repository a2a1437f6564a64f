--------------------------- MODULE EngineLifecycle ---------------------------
(***************************************************************************)
(* The engine process from wWinMain to its end: the main thread that starts  *)
(* the worker, the hook and the pipe (EngineApp::Run), dispatches window     *)
(* messages (OnWindowMessage) and stops the threads in the opposite order,   *)
(* once in Run and again in the destructor.  A stop signals a thread, waits  *)
(* five seconds for it and closes the handles whether it ended or not.       *)
(*                                                                         *)
(* Five seconds are longer than anything a thread does without waiting: a    *)
(* wait times out only when the thread is blocked, or is one of Slow.        *)
(* What the threads do while they run is the subject of HotPath and          *)
(* SettingsPlane; here it is which handles they touch and when they end.     *)
(***************************************************************************)
EXTENDS PipeServer

CONSTANTS Slow,         \* threads that may be held up for longer than a wait
          MaxRestarts   \* bound of a run: restarts of the shell

ASSUME LifecycleAssumption == Slow \subseteq {"hook"} /\ MaxRestarts \in Nat

VARIABLES main,      \* where the main thread is
          phase,     \* "start", "run" (Run stops the threads) or "dtor"
          worker,    \* MotionWorker: thread, thread_, running_, stop_event_ (as wake_event_)
          hook,      \* InputHook: thread, thread_, hook_, start_succeeded_, ready_event_, WM_QUIT
          active,    \* InputHook::active_instance_
          posted,    \* messages posted to the window
          tray,      \* tray_added_, the shell's icon, the setting, restarts of the shell
          panel,     \* the control panel's process
          gaveUp     \* threads a Stop has stopped waiting for, and where they were

threads == <<worker, hook, active>>
desk == <<posted, tray, panel>>
vars == <<pipeVars, main, phase, threads, desk, gaveUp>>

Message == {"settings", "taskbar", "open", "close"}

TypeOK ==
  /\ PipeTypeOK
  /\ main \in {"begin", "window", "worker", "hook", "ready", "tray", "pipe", "flag", "loop",
               "leave", "stopPipe", "joinPipe", "stopHook", "joinHook", "stopWorker",
               "joinWorker", "destroy", "end"}
  /\ phase \in {"start", "run", "dtor"}
  /\ worker \in [at : {"none", "loop", "done"}, thread : BOOLEAN, running : BOOLEAN,
                 stop : {"null", "clear", "set"}]
  /\ hook \in [at : {"none", "bootstrap", "install", "signal", "pump", "enqueue", "done"},
               thread : BOOLEAN, installed : BOOLEAN, started : BOOLEAN,
               ready : {"null", "clear", "set"}, quit : BOOLEAN]
  /\ active \in BOOLEAN
  /\ posted \subseteq Message
  /\ tray \in [added : BOOLEAN, icon : BOOLEAN, show : BOOLEAN, restarts : 0..MaxRestarts]
  /\ panel \in {"none", "starting", "open"}
  /\ gaveUp \subseteq ({"pipe"} \X Label) \cup ({"hook"} \X {"bootstrap", "install", "signal", "pump", "enqueue"})

Init ==
  /\ PipeInit
  /\ main = "begin" /\ phase = "start"
  /\ worker = [at |-> "none", thread |-> FALSE, running |-> FALSE, stop |-> "null"]
  /\ hook = [at |-> "none", thread |-> FALSE, installed |-> FALSE, started |-> FALSE,
             ready |-> "null", quit |-> FALSE]
  /\ active = FALSE
  /\ posted = {}
  /\ \E show \in BOOLEAN :
       tray = [added |-> FALSE, icon |-> FALSE, show |-> show, restarts |-> 0]
  /\ panel = "none" /\ gaveUp = {}

HasWindow == main \in {"worker", "hook", "ready", "tray", "pipe", "flag", "loop"}

Post(message) == posted' = IF HasWindow THEN posted \cup {message} ELSE posted

-----------------------------------------------------------------------------
(* The tray icon.                                                           *)

\* NIM_DELETE, when there is an icon of ours as far as we know.
TrayRemoved == IF tray.added THEN [tray EXCEPT !.added = FALSE, !.icon = FALSE] ELSE tray

\* The shell may refuse NIM_ADD, and refuses it while the icon is there.
RefreshTrayIcon(t) ==
  \/ ~t.show /\ tray' = IF t.added THEN [t EXCEPT !.added = FALSE, !.icon = FALSE] ELSE t
  \/ t.show /\ t.added /\ tray' = t
  \/ t.show /\ ~t.added /\ ~t.icon /\ tray' = [t EXCEPT !.added = TRUE, !.icon = TRUE]
  \/ t.show /\ ~t.added /\ tray' = t

-----------------------------------------------------------------------------
(* The main thread: start.                                                  *)

MainGoto(from, to) == main = from /\ main' = to

\* Leaving Run early: the destructor removes the icon and stops what was started.
ReturnEarly(from) ==
  /\ MainGoto(from, "stopPipe")
  /\ phase' = "dtor" /\ tray' = TrayRemoved
  /\ UNCHANGED <<pipeVars, threads, posted, panel, gaveUp>>

Proceed(from, to) == MainGoto(from, to) /\ UNCHANGED <<phase, gaveUp>>

\* The only instance, or another one is running.
TakeInstance ==
  \/ Proceed("begin", "window") /\ UNCHANGED <<pipeVars, threads, desk>>
  \/ ReturnEarly("begin")

CreateMessageWindow ==
  \/ Proceed("window", "worker") /\ UNCHANGED <<pipeVars, threads, desk>>
  \/ ReturnEarly("window")

StartWorker ==
  \/ /\ Proceed("worker", "hook")
     /\ worker' = [at |-> "loop", thread |-> TRUE, running |-> TRUE, stop |-> "clear"]
     /\ UNCHANGED <<pipeVars, hook, active, desk>>
  \/ ReturnEarly("worker")

StartHook ==
  \/ /\ Proceed("hook", "ready")
     /\ hook' = [hook EXCEPT !.at = "bootstrap", !.thread = TRUE, !.ready = "clear"]
     /\ active' = TRUE
     /\ UNCHANGED <<pipeVars, worker, desk>>
  \/ ReturnEarly("hook")

\* The hook is installed, or was refused, or its thread has not said so in time.
AwaitHook ==
  /\ \/ hook.ready = "set" /\ hook.started /\ Proceed("ready", "tray")
     \/ hook.ready = "set" /\ ~hook.started /\ Proceed("ready", "stopHook")
     \/ hook.ready = "clear" /\ "hook" \in Slow /\ Proceed("ready", "stopHook")
  /\ UNCHANGED <<pipeVars, threads, desk>>

ShowTray ==
  /\ Proceed("tray", "pipe")
  /\ RefreshTrayIcon(tray)
  /\ UNCHANGED <<pipeVars, threads, posted, panel>>

StartPipe ==
  \/ Proceed("pipe", "flag") /\ StartThread /\ UNCHANGED <<threads, desk>>
  \/ ReturnEarly("pipe")

RaisePipeFlag ==
  /\ Proceed("flag", "loop") /\ RaiseFlag
  /\ UNCHANGED <<threads, desk>>

StartSteps ==
  \/ TakeInstance \/ CreateMessageWindow \/ StartWorker \/ StartHook \/ AwaitHook
  \/ ShowTray \/ StartPipe \/ RaisePipeFlag

-----------------------------------------------------------------------------
(* The main thread: messages.                                               *)

Dispatch(message) ==
  /\ main = "loop" /\ message \in posted
  /\ UNCHANGED <<pipeVars, phase, threads, gaveUp>>

OnSettingsChanged ==
  /\ Dispatch("settings")
  /\ posted' = posted \ {"settings"}
  /\ RefreshTrayIcon(tray)
  /\ UNCHANGED <<main, panel>>

TaskbarForgotten ==
  /\ Dispatch("taskbar")
  /\ posted' = posted \ {"taskbar"}
  /\ RefreshTrayIcon(tray)
  /\ UNCHANGED <<main, panel>>

OnTaskbarCreated ==
  /\ Dispatch("taskbar")
  /\ posted' = posted \ {"taskbar"}
  /\ RefreshTrayIcon([tray EXCEPT !.added = FALSE])
  /\ UNCHANGED <<main, panel>>

\* OpenSettings: a second control panel ends at once, and the file may be missing.
OnOpenSettings ==
  /\ Dispatch("open")
  /\ posted' = posted \ {"open"}
  /\ panel' \in {panel, IF panel = "none" THEN "starting" ELSE panel}
  /\ UNCHANGED <<main, tray>>

\* Shutdown: a panel with a window is asked to close, which it does in its own time; ours
\* is destroyed with what was posted to it, and WM_DESTROY posts WM_QUIT: the loop ends.
OnClose ==
  /\ Dispatch("close")
  /\ panel' = IF panel = "open" THEN "none" ELSE panel
  /\ posted' = {}
  /\ main' = "leave"
  /\ UNCHANGED tray

\* ToggleEnabled on the main thread: a save that succeeds posts its message.
OnHotKey ==
  /\ main = "loop"
  /\ Post("settings")
  /\ UNCHANGED <<pipeVars, main, phase, threads, tray, panel, gaveUp>>

-----------------------------------------------------------------------------
(* The main thread: stop.  The order is pipe, hook, worker, in Run and in    *)
(* the destructor; a second Stop finds no handles and does not wait.         *)

PipeLast ==
  /\ MainGoto("leave", "stopHook") /\ phase' = "run"
  /\ tray' = TrayRemoved
  /\ UNCHANGED <<pipeVars, threads, posted, panel, gaveUp>>

LeaveLoop ==
  /\ MainGoto("leave", "stopPipe") /\ phase' = "run"
  /\ tray' = TrayRemoved
  /\ UNCHANGED <<pipeVars, threads, posted, panel, gaveUp>>

Never(t) == FALSE

\* WaitForSingleObject(thread_, 5000) returns although the thread has not ended.
TimesOut(t) == t \in Slow \/ (t = "pipe" /\ Blocked)

\* The thread has ended, or there is none, or we stop waiting for it.
Join(t, handle, at) ==
  \/ (~handle \/ at = "done") /\ UNCHANGED gaveUp
  \/ handle /\ at # "done" /\ TimesOut(t) /\ gaveUp' = gaveUp \cup {<<t, at>>}

GaveUpHook == \E g \in gaveUp : g[1] = "hook"

StopPipe ==
  /\ Proceed("stopPipe", "joinPipe") /\ SignalStop
  /\ UNCHANGED <<threads, desk>>

JoinPipe ==
  /\ MainGoto("joinPipe", "stopHook")
  /\ Join("pipe", thread, server)
  /\ CloseHandles
  /\ UNCHANGED <<phase, threads, desk>>

\* PostThreadMessage fails before the thread has a message queue.
StopHook ==
  /\ Proceed("stopHook", "joinHook")
  /\ hook' = [hook EXCEPT !.quit = @ \/ (hook.thread /\ hook.at \notin {"none", "bootstrap"})]
  /\ UNCHANGED <<pipeVars, worker, active, desk>>

\* A Stop inside a failed Start returns to Run, which returns.
HookUnawaited ==
  /\ main = "joinHook"
  /\ hook' = [hook EXCEPT !.thread = FALSE, !.ready = "null", !.started = FALSE]
  /\ active' = FALSE
  /\ \/ phase = "start" /\ main' = "stopPipe" /\ phase' = "dtor"
     \/ phase # "start" /\ main' = "stopWorker" /\ UNCHANGED phase
  /\ UNCHANGED <<pipeVars, worker, desk, gaveUp>>

JoinHook ==
  /\ main = "joinHook"
  /\ Join("hook", hook.thread, hook.at)
  /\ hook' = [hook EXCEPT !.thread = FALSE, !.ready = "null", !.started = FALSE]
  /\ active' = FALSE
  /\ \/ phase = "start" /\ main' = "stopPipe" /\ phase' = "dtor"
     \/ phase # "start" /\ main' = "stopWorker" /\ UNCHANGED phase
  /\ UNCHANGED <<pipeVars, worker, desk>>

StopWorker ==
  /\ Proceed("stopWorker", "joinWorker")
  /\ worker' = [worker EXCEPT !.stop = IF @ = "null" THEN "null" ELSE "set"]
  /\ UNCHANGED <<pipeVars, hook, active, desk>>

JoinWorker ==
  /\ main = "joinWorker"
  /\ Join("worker", worker.thread, worker.at)
  /\ worker' = [worker EXCEPT !.thread = FALSE, !.stop = "null", !.running = FALSE]
  /\ \/ phase = "run" /\ main' = "stopPipe" /\ phase' = "dtor"
     \/ phase = "dtor" /\ main' = "destroy" /\ UNCHANGED phase
  /\ UNCHANGED <<pipeVars, hook, active, desk>>

\* DestroyMessageWindow, the mutex, and the end of the process with all its threads.
Destroy ==
  /\ Proceed("destroy", "end")
  /\ posted' = {}
  /\ UNCHANGED <<pipeVars, threads, tray, panel>>

StopSteps ==
  \/ LeaveLoop \/ StopPipe \/ JoinPipe \/ StopHook \/ JoinHook
  \/ StopWorker \/ JoinWorker \/ Destroy

-----------------------------------------------------------------------------
(* The other threads, while the process lives.                              *)

Others == <<main, phase, gaveUp>>

\* NotifySettingsChanged looks at the handle of the worker's wake event before it sets it.
LookAtWakeEvent ==
  /\ conn.line = "apply" /\ worker.stop # "null"
  /\ BeginNotify
  /\ UNCHANGED <<Others, threads, desk>>

\* HandlePipeRequest: what the operations do to the window.
HandlePipeRequest ==
  /\ Handle
  /\ \/ /\ conn.line = "apply" /\ (server = "notify" \/ worker.stop = "null")
        /\ Post("settings") /\ tray' \in {tray, [tray EXCEPT !.show = ~@]}
     \/ conn.line = "open_settings" /\ Post("open") /\ UNCHANGED tray
     \/ conn.line = "shutdown" /\ Post("close") /\ UNCHANGED tray
     \/ /\ conn.line \in {"get_state", "apply"} /\ server = "handle"
        /\ UNCHANGED <<posted, tray>>
  /\ UNCHANGED <<Others, threads, panel>>

PipeThread ==
  LookAtWakeEvent \/ HandlePipeRequest \/ (ServerSteps /\ UNCHANGED <<Others, threads, desk>>)

HookGoto(from, to) == hook.at = from /\ hook' = [hook EXCEPT !.at = to]

\* PeekMessage makes the queue; SetWindowsHookEx succeeds or not.
Bootstrap == HookGoto("bootstrap", "install")

Install ==
  /\ hook.at = "install"
  /\ \E ok \in BOOLEAN :
       hook' = [hook EXCEPT !.at = "signal", !.installed = ok, !.started = ok]

Signal ==
  /\ hook.at = "signal"
  /\ hook' = [hook EXCEPT !.at = IF hook.installed THEN "pump" ELSE "done",
                          !.ready = IF @ = "null" THEN "null" ELSE "set"]

\* OnMouse reaches TryEnqueue: the flag first, the wake event in a later step.
Wheel == active /\ worker.running /\ HookGoto("pump", "enqueue")
SetWake == HookGoto("enqueue", "pump")

Quit ==
  /\ hook.at = "pump" /\ hook.quit
  /\ hook' = [hook EXCEPT !.at = "done", !.installed = FALSE]

HookSteps == Bootstrap \/ Install \/ Signal \/ SetWake \/ Quit

HookThread ==
  /\ HookSteps \/ Wheel
  /\ UNCHANGED <<pipeVars, Others, worker, active, desk>>

\* MotionWorker::Run leaves its loop on the stop event, or when a wait fails.
WorkerStops == worker.at = "loop" /\ worker.stop = "set" /\ worker' = [worker EXCEPT !.at = "done"]
WaitFails == worker.at = "loop" /\ worker.stop = "clear" /\ worker' = [worker EXCEPT !.at = "done"]

WorkerThread ==
  /\ WorkerStops \/ WaitFails
  /\ UNCHANGED <<pipeVars, Others, hook, active, desk>>

-----------------------------------------------------------------------------
(* The world around: clients, the user, the shell, the control panel.        *)

Clients == ClientSteps /\ UNCHANGED <<Others, threads, desk>>

\* ShowTrayMenu posts the command that was chosen.
ShowTrayMenu ==
  /\ \E message \in {"open", "close"} : tray.icon /\ Post(message)
  /\ UNCHANGED <<pipeVars, Others, threads, tray, panel>>

ShellRestarts ==
  /\ tray.restarts < MaxRestarts
  /\ tray' = [tray EXCEPT !.icon = FALSE, !.restarts = @ + 1]
  /\ Post("taskbar")
  /\ UNCHANGED <<pipeVars, Others, threads, panel>>

PanelMoves ==
  /\ \/ panel = "starting" /\ panel' = "open"
     \/ panel \in {"open"} /\ panel' = "none"
  /\ UNCHANGED <<pipeVars, Others, threads, posted, tray>>

Ended == main = "end" /\ UNCHANGED vars

Next ==
  \/ /\ main # "end"
     /\ \/ StartSteps \/ StopSteps
        \/ OnSettingsChanged \/ OnTaskbarCreated \/ OnOpenSettings \/ OnClose \/ OnHotKey
        \/ PipeThread \/ HookThread \/ WorkerThread
        \/ Clients \/ ShowTrayMenu \/ ShellRestarts \/ PanelMoves
  \/ Ended

Spec == Init /\ [][Next]_vars

\* Every thread is scheduled, a wait that may time out does, messages are dispatched, and
\* a client goes in the end (the control panel's after its own timeout; the server has none).
FairSpec ==
  /\ Spec
  /\ WF_vars(main # "end" /\ (StartSteps \/ StopSteps))
  /\ WF_vars(OnClose)
  /\ WF_vars(main # "end" /\ PipeThread)
  /\ WF_vars(main # "end" /\ HookSteps /\ UNCHANGED <<pipeVars, Others, worker, active, desk>>)
  /\ WF_vars(main # "end" /\ WorkerStops /\ UNCHANGED <<pipeVars, Others, hook, active, desk>>)
  /\ WF_vars(main # "end" /\ Leave /\ UNCHANGED <<Others, threads, desk>>)

-----------------------------------------------------------------------------
(* No thread waits on, or signals, a handle that the main thread has closed  *)
(* under it, although no lock protects any of them: the pipe's event outlives *)
(* its waits, the worker's event both the hook and the pipe's thread, which     *)
(* signal it (NotifySettingsChanged: motion_worker.cpp:100).  The exceptions    *)
(* are a hook that was held up too long and a pipe thread whose client did     *)
(* not read its answer: FlushFileBuffers is the only wait a stop does not end  *)
(* (pipe_server.cpp:110, 181, 265, input_hook.cpp:51, motion_worker.cpp:66,    *)
(* engine_app.cpp:103).                                                       *)
HandlesOpen ==
  /\ server \in {"loop", "accept", "reading", "writing"} =>
       stopEvent # "null" \/ <<"pipe", "flush">> \in gaveUp
  /\ hook.at = "signal" => hook.ready # "null" \/ GaveUpHook
  /\ hook.at = "enqueue" => worker.stop # "null" \/ GaveUpHook
  /\ server = "notify" => worker.stop # "null" \/ <<"pipe", "flush">> \in gaveUp
  /\ worker.at = "loop" => worker.stop # "null"

(* The destructor leaves no thread and no mouse hook behind, on every path    *)
(* out of Run, except those whose Stop gave up (engine_app.cpp:50).           *)
NothingLeft ==
  main = "end" =>
    /\ server \in {"none", "done"} \/ <<"pipe", "flush">> \in gaveUp
    /\ (hook.at \in {"none", "done"} /\ ~hook.installed) \/ GaveUpHook
    /\ worker.at \in {"none", "done"}

(* What the engine believes of its icon is true once the messages of the      *)
(* shell are read: NIM_DELETE and NIM_MODIFY find an icon (engine_app.cpp:127, *)
(* 228).  The other direction does not hold: an icon added between a restart   *)
(* of the shell and its message is forgotten.                                 *)
TrayKnown == main = "loop" /\ tray.added /\ "taskbar" \notin posted => tray.icon

(* The connection is not cut before a client that is still there has read the   *)
(* answer to its request, unless a stop has withdrawn it: DisconnectNamedPipe   *)
(* drops what was written and not read (pipe_server.cpp:182).                   *)
AnswersDelivered == [][Disconnect => ~(conn.peer = "here" /\ conn.answer)]_vars

(* A close, once asked for (engine_app.cpp:400 answers "ok" to it), ends the   *)
(* process, whatever the clients do and whichever thread is stuck.             *)
CloseEnds == "close" \in posted ~> main = "end"

(* The one instance of the pipe does not stay with a client: the server comes   *)
(* back for the next one or ends, provided every client leaves in the end, as   *)
(* the control panel does when its own transfer times out: the server has no    *)
(* timeout, and a client that is idle for ever would keep it (pipe_server.cpp:147). *)
ServerReturns == server = "read" ~> server \in {"loop", "done"} \/ main = "end"
=============================================================================

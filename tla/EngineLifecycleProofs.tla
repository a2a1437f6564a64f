------------------------ MODULE EngineLifecycleProofs ------------------------
(***************************************************************************)
(* Handles and threads of the engine process, for any clients, any number of  *)
(* their visits and with or without a hook that is held up.  A handle and the *)
(* thread that uses it are tied together by what Stop closes at once; what    *)
(* remains is that a thread whose handle is closed has ended or was given up, *)
(* and that the hook's handle is closed before the worker's.                  *)
(***************************************************************************)
EXTENDS EngineLifecycle, TLAPS

HookShape == [at : {"none", "bootstrap", "install", "signal", "pump", "enqueue", "done"},
              thread : BOOLEAN, installed : BOOLEAN, started : BOOLEAN,
              ready : {"null", "clear", "set"}, quit : BOOLEAN]
WorkerShape == [at : {"none", "loop", "done"}, thread : BOOLEAN, running : BOOLEAN,
                stop : {"null", "clear", "set"}]
TrayShape == [added : BOOLEAN, icon : BOOLEAN, show : BOOLEAN, restarts : Nat]

Shape ==
  /\ stopEvent \in {"null", "clear", "set"} /\ thread \in BOOLEAN
  /\ conn \in Instance
  /\ worker \in WorkerShape /\ hook \in HookShape /\ tray \in TrayShape

\* The pipe's thread has its stop event, or has ended, or was given up in its flush.
PipeSafe ==
  /\ thread <=> stopEvent # "null"
  /\ ~thread => server \in {"none", "done"} \/ <<"pipe", "flush">> \in gaveUp
  /\ main = "joinPipe" => stopEvent # "clear"
  /\ main \notin {"flag", "loop", "leave", "stopPipe", "joinPipe"} => ~thread

\* The hook's thread has its event, or has ended without a hook, or was given up.
HookSafe ==
  /\ hook.thread <=> hook.ready # "null"
  /\ hook.at \in {"none", "done"} => ~hook.installed
  /\ ~hook.thread => hook.at \in {"none", "done"} \/ GaveUpHook
  /\ main \in {"stopWorker", "joinWorker", "destroy", "end"} => ~hook.thread

\* The worker has its events while it runs, and hook and pipe set one only while it does.
WorkerSafe ==
  /\ worker.thread <=> worker.stop # "null"
  /\ ~worker.thread => worker.at \in {"none", "done"}
  /\ worker.running => worker.thread
  /\ hook.at = "enqueue" => worker.thread \/ GaveUpHook
  /\ server = "notify" => worker.thread \/ <<"pipe", "flush">> \in gaveUp
  /\ main \in {"destroy", "end"} => ~worker.thread

\* The icon the engine believes in is there, or a message says otherwise.
TraySafe ==
  /\ main \in {"begin", "window"} => ~tray.added
  /\ HasWindow /\ tray.added /\ "taskbar" \notin posted => tray.icon

\* Past the flush the client has its answer, or is gone.
Answered == server = "disconnect" => conn.peer = "left" \/ ~conn.answer

IInv == Shape /\ PipeSafe /\ HookSafe /\ WorkerSafe /\ TraySafe /\ Answered

\* The actions of Next in groups.
Messages == OnSettingsChanged \/ OnTaskbarCreated \/ OnOpenSettings \/ OnClose \/ OnHotKey
World == ShowTrayMenu \/ ShellRestarts \/ PanelMoves

-----------------------------------------------------------------------------
(* What the records become.                                                 *)

\* What the hook's thread does to its record.
HookMoved ==
  /\ hook' \in HookShape
  /\ hook'.thread = hook.thread
  /\ hook'.ready = "null" <=> hook.ready = "null"
  /\ hook.at \notin {"none", "done"} /\ hook'.at # "none"
  /\ hook'.at = "done" => ~hook'.installed
  /\ hook'.at = "enqueue" => worker.running

LEMMA HookMoves ==
  ASSUME hook \in HookShape, HookSteps \/ Wheel
  PROVE  HookMoved
<1>1. CASE Bootstrap
  BY <1>1 DEF Bootstrap, HookGoto, HookShape, HookMoved
<1>2. CASE Install
  BY <1>2 DEF Install, HookShape, HookMoved
<1>3. CASE Signal
  BY <1>3 DEF Signal, HookShape, HookMoved
<1>4. CASE Wheel
  BY <1>4 DEF Wheel, HookGoto, HookShape, HookMoved
<1>5. CASE SetWake
  BY <1>5 DEF SetWake, HookGoto, HookShape, HookMoved
<1>6. CASE Quit
  BY <1>6 DEF Quit, HookShape, HookMoved
<1>7. QED
  BY <1>1, <1>2, <1>3, <1>4, <1>5, <1>6 DEF HookSteps


\* A client leaves the server's side alone and never writes an answer.
LEMMA ClientMoves ==
  ASSUME conn \in Instance, ClientSteps
  PROVE  /\ conn' \in Instance
         /\ UNCHANGED <<stopEvent, thread, server>>
         /\ conn'.answer = conn.answer \/ ~conn'.answer
         /\ conn'.peer = conn.peer \/ conn'.peer = "left" \/ server \in {"listen", "accept"}
<1>1. CASE Connect
  BY <1>1 DEF Connect, Instance
<1>2. CASE SendPart
  BY <1>2 DEF SendPart, Instance
<1>3. CASE SendLine
  BY <1>3 DEF SendLine, Instance
<1>4. CASE ReadAnswer
  BY <1>4 DEF ReadAnswer, Instance
<1>5. CASE Leave
  BY <1>5 DEF Leave, Instance
<1>7. QED
  BY <1>1, <1>2, <1>3, <1>4, <1>5 DEF ClientSteps


\* The server's thread keeps the shape of its instance and touches no handle.
LEMMA ServerMoves ==
  ASSUME conn \in Instance, Handle \/ ServerSteps
  PROVE  conn' \in Instance /\ UNCHANGED <<stopEvent, thread>> /\ server' # "notify"
<1> USE PipeAssumption DEF Instance, Goto, Exit
<1>1. Fresh \in Instance
  BY DEF Fresh
<1>2. ASSUME NEW from \in Label, TakeBytes(from) PROVE conn' \in Instance /\ server' # "notify"
  <2>1. CASE conn.parts < MaxParts
    <3>1. conn.parts + 1 \in 0..MaxParts
      BY <2>1
    <3>2. QED
      BY <1>2, <3>1 DEF TakeBytes
  <2>2. CASE conn.parts = MaxParts
    BY <1>2, <2>2 DEF TakeBytes
  <2>3. QED
    BY <2>1, <2>2
<1>3. CASE Handle
  BY <1>3 DEF Handle
<1>4. CASE Secure \/ CheckStop \/ Accept \/ CreateInstance \/ Listen \/ Flush \/ Disconnect
  BY <1>1, <1>4
     DEF Secure, CheckStop, CreateInstance, Listen, Accept, Flush, Disconnect
<1>5. CASE Read
  BY <1>2, <1>5 DEF Read, Label
<1>6. CASE Reading
  BY <1>2, <1>6 DEF Reading, Label
<1>7. CASE Write
  BY <1>7 DEF Write
<1>8. CASE Writing
  BY <1>8 DEF Writing
<1>9. QED
  BY <1>3, <1>4, <1>5, <1>6, <1>7, <1>8 DEF ServerSteps

\* A refreshed icon is one the engine believes in and has.
LEMMA TrayRefreshed ==
  ASSUME NEW t \in TrayShape, RefreshTrayIcon(t)
  PROVE  tray' \in TrayShape /\ ((t.added => t.icon) => (tray'.added => tray'.icon))
BY DEF RefreshTrayIcon, TrayShape

\* The shell's restart takes the icon only.
LEMMA TrayLost ==
  ASSUME tray \in TrayShape, ShellRestarts
  PROVE  tray' \in TrayShape
<1>1. tray.restarts + 1 \in Nat
  BY DEF TrayShape
<1>2. QED
  BY <1>1 DEF ShellRestarts, TrayShape

\* A posted WM_QUIT changes nothing else.
LEMMA StopHookMoves ==
  ASSUME hook \in HookShape, StopHook
  PROVE  hook' \in HookShape /\ \A f \in {"at", "thread", "installed", "ready"} : hook'[f] = hook[f]
BY DEF StopHook, HookShape

\* Stop closes the hook's handles and leaves its thread where it is.
LEMMA JoinHookMoves ==
  ASSUME hook \in HookShape, JoinHook
  PROVE  /\ hook' \in HookShape
         /\ hook'.at = hook.at /\ hook'.installed = hook.installed
         /\ ~hook'.thread /\ hook'.ready = "null"
BY DEF JoinHook, HookShape

\* A started hook has its thread and its event.
LEMMA StartHookMoves ==
  ASSUME hook \in HookShape, StartHook
  PROVE  /\ hook' \in HookShape
         /\ \/ hook' = hook
            \/ hook'.at = "bootstrap" /\ hook'.thread /\ hook'.ready = "clear"
BY DEF StartHook, HookShape, ReturnEarly, threads

\* The stop event, if there is one, is set.
LEMMA StopWorkerMoves ==
  ASSUME worker \in WorkerShape, StopWorker
  PROVE  /\ worker' \in WorkerShape
         /\ worker'.at = worker.at /\ worker'.thread = worker.thread
         /\ worker'.running = worker.running
         /\ worker'.stop = "null" <=> worker.stop = "null"
BY DEF StopWorker, WorkerShape

\* Stop closes the worker's handles and leaves its thread where it is.
LEMMA JoinWorkerMoves ==
  ASSUME worker \in WorkerShape, JoinWorker
  PROVE  /\ worker' \in WorkerShape
         /\ worker'.at = worker.at
         /\ ~worker'.thread /\ ~worker'.running /\ worker'.stop = "null"
BY DEF JoinWorker, WorkerShape

\* A started worker has its thread and its events.
LEMMA StartWorkerMoves ==
  ASSUME worker \in WorkerShape, StartWorker
  PROVE  /\ worker' \in WorkerShape
         /\ \/ worker' = worker
            \/ worker'.at = "loop" /\ worker'.thread /\ worker'.running /\ worker'.stop = "clear"
<1>1. CASE ReturnEarly("worker")
  BY <1>1 DEF ReturnEarly, threads
<1>2. CASE worker' = [at |-> "loop", thread |-> TRUE, running |-> TRUE, stop |-> "clear"]
  BY <1>2 DEF WorkerShape
<1>3. QED
  BY <1>1, <1>2 DEF StartWorker

\* The worker ends and touches no handle.
LEMMA WorkerMoves ==
  ASSUME worker \in WorkerShape, WorkerStops \/ WaitFails
  PROVE  /\ worker' \in WorkerShape
         /\ worker'.at = "done" /\ worker'.thread = worker.thread
         /\ worker'.running = worker.running
         /\ worker'.stop = worker.stop /\ worker.at = "loop"
BY DEF WorkerStops, WaitFails, WorkerShape

-----------------------------------------------------------------------------
(* The shape of the records.                                                *)

\* Start.
LEMMA ShapeStart == IInv /\ StartSteps => Shape'
<1> SUFFICES ASSUME Shape, StartSteps PROVE Shape'
  BY DEF IInv
<1> USE DEF Shape, Proceed, MainGoto, pipeVars, threads, desk
<1>0. ASSUME NEW from \in {"begin", "window", "worker", "hook", "pipe"}, ReturnEarly(from)
      PROVE Shape'
  BY <1>0 DEF ReturnEarly, TrayRemoved, TrayShape
<1>1. CASE TakeInstance \/ CreateMessageWindow \/ AwaitHook \/ RaisePipeFlag \/ StartPipe
  BY <1>0, <1>1
     DEF TakeInstance, CreateMessageWindow, AwaitHook, RaisePipeFlag, RaiseFlag, StartPipe,
         StartThread
<1>2. CASE StartWorker
  BY <1>0, <1>2, StartWorkerMoves DEF StartWorker
<1>3. CASE StartHook
  BY <1>0, <1>3, StartHookMoves DEF StartHook
<1>4. CASE ShowTray
  BY <1>4, TrayRefreshed DEF ShowTray
<1>5. QED
  BY <1>1, <1>2, <1>3, <1>4 DEF StartSteps

\* Messages of the window.
LEMMA ShapeMessages == IInv /\ Messages => Shape'
<1> USE DEF Shape, Dispatch, pipeVars, threads
<1> SUFFICES ASSUME Shape, Messages PROVE Shape'
  BY DEF IInv
<1>1. CASE OnSettingsChanged
  BY <1>1, TrayRefreshed DEF OnSettingsChanged
<1>2. CASE OnTaskbarCreated
  <2>1. [tray EXCEPT !.added = FALSE] \in TrayShape
    BY DEF TrayShape
  <2>2. QED
    BY <1>2, <2>1, TrayRefreshed DEF OnTaskbarCreated
<1>3. CASE OnOpenSettings \/ OnClose \/ OnHotKey
  BY <1>3 DEF OnOpenSettings, OnClose, OnHotKey
<1>4. QED
  BY <1>1, <1>2, <1>3 DEF Messages

\* Stop.
LEMMA ShapeStop == IInv /\ StopSteps => Shape'
<1> USE DEF Shape, Proceed, MainGoto, pipeVars, threads, desk
<1> SUFFICES ASSUME Shape, StopSteps PROVE Shape'
  BY DEF IInv
<1>1. CASE LeaveLoop
  BY <1>1 DEF LeaveLoop, TrayRemoved, TrayShape
<1>2. CASE StopPipe \/ JoinPipe \/ Destroy
  BY <1>2 DEF StopPipe, SignalStop, JoinPipe, CloseHandles, Destroy
<1>3. CASE StopHook
  BY <1>3, StopHookMoves DEF StopHook
<1>4. CASE JoinHook
  BY <1>4, JoinHookMoves DEF JoinHook
<1>5. CASE StopWorker
  BY <1>5, StopWorkerMoves DEF StopWorker
<1>6. CASE JoinWorker
  BY <1>6, JoinWorkerMoves DEF JoinWorker
<1>7. QED
  BY <1>1, <1>2, <1>3, <1>4, <1>5, <1>6 DEF StopSteps

\* The other threads and the world.
LEMMA ShapeOthers ==
  IInv /\ (PipeThread \/ HookThread \/ WorkerThread \/ Clients \/ World) => Shape'
<1> USE DEF Shape, Others, pipeVars, threads, desk
<1> SUFFICES ASSUME Shape, PipeThread \/ HookThread \/ WorkerThread \/ Clients \/ World
             PROVE Shape'
  BY DEF IInv
<1>1. CASE HandlePipeRequest
  <2>1. [tray EXCEPT !.show = ~@] \in TrayShape
    BY DEF TrayShape
  <2>2. QED
    BY <1>1, <2>1, ServerMoves DEF HandlePipeRequest
<1>2. CASE LookAtWakeEvent \/ (ServerSteps /\ UNCHANGED <<Others, threads, desk>>)
  BY <1>2, ServerMoves DEF LookAtWakeEvent, BeginNotify
<1>3. CASE HookThread
  BY <1>3, HookMoves DEF HookThread, HookMoved
<1>4. CASE WorkerThread
  BY <1>4, WorkerMoves DEF WorkerThread
<1>5. CASE Clients
  BY <1>5, ClientMoves DEF Clients
<1>6. CASE ShellRestarts
  BY <1>6, TrayLost DEF ShellRestarts
<1>7. CASE ShowTrayMenu \/ PanelMoves
  BY <1>7 DEF ShowTrayMenu, PanelMoves
<1>8. QED
  BY <1>1, <1>2, <1>3, <1>4, <1>5, <1>6, <1>7 DEF PipeThread, World

LEMMA ShapeKept == IInv /\ [Next]_vars => Shape'
<1>1. IInv /\ UNCHANGED vars => Shape'
  BY DEF IInv, Shape, vars, pipeVars, threads, desk
<1>2. QED
  BY <1>1, ShapeStart, ShapeMessages, ShapeStop, ShapeOthers DEF Next, Messages, World, Ended

-----------------------------------------------------------------------------
(* The invariants.                                                          *)

\* The pipe.
LEMMA PipeKept == IInv /\ [Next]_vars => PipeSafe'
<1> SUFFICES ASSUME IInv, [Next]_vars PROVE PipeSafe'
  OBVIOUS
<1> USE DEF IInv, Shape, PipeSafe, pipeVars, threads, desk, Others
<1>1. CASE StartSteps
  BY <1>1
     DEF StartSteps, TakeInstance, CreateMessageWindow, StartWorker, StartHook, AwaitHook,
         ShowTray, StartPipe, RaisePipeFlag, ReturnEarly, Proceed, MainGoto, StartThread,
         RaiseFlag
<1>2. CASE StopSteps
  BY <1>2, LifecycleAssumption
     DEF StopSteps, LeaveLoop, StopPipe, JoinPipe, StopHook, JoinHook, StopWorker, JoinWorker,
         Destroy, Proceed, MainGoto, SignalStop, CloseHandles, Join, TimesOut, Blocked,
         WaitCancelled
<1>3. CASE Messages
  BY <1>3
     DEF Messages, OnSettingsChanged, OnTaskbarCreated, OnOpenSettings, OnClose, OnHotKey,
         Dispatch
<1>4. CASE PipeThread
  BY <1>4
     DEF PipeThread, LookAtWakeEvent, BeginNotify, HandlePipeRequest, Handle, ServerSteps, Secure, CheckStop, CreateInstance,
         Listen, Accept, Read, Reading, Write, Writing, Flush, Disconnect, Goto, Exit, TakeBytes
<1>5. CASE HookThread \/ WorkerThread
  <2>1. UNCHANGED <<pipeVars, main, gaveUp>>
    BY <1>5 DEF HookThread, WorkerThread
  <2>2. QED
    BY <2>1
<1>6. CASE Clients
  BY <1>6, ClientMoves DEF Clients
<1>7. CASE World
  BY <1>7 DEF World, ShowTrayMenu, ShellRestarts, PanelMoves
<1>8. CASE UNCHANGED vars
  BY <1>8 DEF vars
<1>9. QED
  BY <1>1, <1>2, <1>3, <1>4, <1>5, <1>6, <1>7, <1>8 DEF Next, Messages, World, Ended

\* The hook.
LEMMA HookKept == IInv /\ [Next]_vars => HookSafe'
<1> SUFFICES ASSUME IInv, [Next]_vars PROVE HookSafe'
  OBVIOUS
<1> USE DEF IInv, Shape, HookSafe, GaveUpHook, pipeVars, threads, desk, Others
<1>1. CASE StartSteps
  <2>1. CASE StartHook
    BY <2>1, StartHookMoves DEF StartHook, Proceed, ReturnEarly, MainGoto
  <2>2. CASE StartWorker
    BY <2>2 DEF StartWorker, Proceed, ReturnEarly, MainGoto
  <2>3. CASE TakeInstance \/ CreateMessageWindow \/ AwaitHook \/ ShowTray
               \/ StartPipe \/ RaisePipeFlag
    BY <2>3 DEF TakeInstance, CreateMessageWindow, AwaitHook, ShowTray, StartPipe, RaisePipeFlag,
                ReturnEarly, Proceed, MainGoto
  <2>4. QED
    BY <1>1, <2>1, <2>2, <2>3 DEF StartSteps
<1>2. CASE StopSteps
  <2>1. CASE StopHook
    BY <2>1, StopHookMoves DEF StopHook, Proceed, MainGoto
  <2>2. CASE JoinHook
    <3>1. ASSUME hook.thread, hook.at # "done" PROVE GaveUpHook'
      <4>1. <<"hook", hook.at>> \in gaveUp'
        BY <2>2, <3>1 DEF JoinHook, Join
      <4>2. <<"hook", hook.at>>[1] = "hook"
        OBVIOUS
      <4>3. QED
        BY <4>1, <4>2, Zenon
    <3>2. GaveUpHook => GaveUpHook'
      BY <2>2 DEF JoinHook, Join
    <3>3. QED
      BY <2>2, <3>1, <3>2, JoinHookMoves
  <2>3. CASE StopWorker \/ JoinWorker \/ JoinPipe
    BY <2>3 DEF StopWorker, JoinWorker, JoinPipe, Join, Proceed, MainGoto
  <2>4. CASE LeaveLoop \/ StopPipe \/ Destroy
    BY <2>4 DEF LeaveLoop, StopPipe, Destroy, Proceed, MainGoto
  <2>5. QED
    BY <1>2, <2>1, <2>2, <2>3, <2>4 DEF StopSteps
<1>3. CASE Messages
  BY <1>3
     DEF Messages, OnSettingsChanged, OnTaskbarCreated, OnOpenSettings, OnClose, OnHotKey,
         Dispatch
<1>4. CASE PipeThread \/ WorkerThread \/ Clients \/ World
  <2>1. UNCHANGED <<hook, main, gaveUp>>
    BY <1>4 DEF PipeThread, LookAtWakeEvent, HandlePipeRequest, WorkerThread, Clients, World,
                ShowTrayMenu, ShellRestarts, PanelMoves
  <2>2. QED
    BY <2>1
<1>5. CASE HookThread
  BY <1>5, HookMoves DEF HookThread, HookMoved, HookShape
<1>6. CASE UNCHANGED vars
  BY <1>6 DEF vars
<1>7. QED
  BY <1>1, <1>2, <1>3, <1>4, <1>5, <1>6 DEF Next, Messages, World, Ended

\* The worker.
LEMMA WorkerKept == IInv /\ [Next]_vars => WorkerSafe'
<1> SUFFICES ASSUME IInv, [Next]_vars PROVE WorkerSafe'
  OBVIOUS
<1> USE DEF IInv, Shape, WorkerSafe, GaveUpHook, pipeVars, threads, desk, Others
<1>1. CASE StartSteps
  <2>1. CASE StartWorker
    BY <2>1, StartWorkerMoves DEF StartWorker, Proceed, ReturnEarly, MainGoto
  <2>2. CASE StartHook
    BY <2>2, StartHookMoves DEF StartHook, Proceed, ReturnEarly, MainGoto
  <2>3. CASE TakeInstance \/ CreateMessageWindow \/ AwaitHook \/ ShowTray
               \/ StartPipe \/ RaisePipeFlag
    BY <2>3 DEF TakeInstance, CreateMessageWindow, AwaitHook, ShowTray, StartPipe, RaisePipeFlag,
                StartThread, RaiseFlag, ReturnEarly, Proceed, MainGoto
  <2>4. QED
    BY <1>1, <2>1, <2>2, <2>3 DEF StartSteps
<1>2. CASE StopSteps
  <2>1. CASE StopHook
    BY <2>1, StopHookMoves DEF StopHook, Proceed, MainGoto
  <2>2. CASE JoinHook
    <3>1. GaveUpHook => GaveUpHook'
      BY <2>2 DEF JoinHook, Join
    <3>2. UNCHANGED worker /\ main' \in {"stopPipe", "stopWorker"}
      BY <2>2 DEF JoinHook
    <3>3. UNCHANGED server /\ (<<"pipe", "flush">> \in gaveUp => <<"pipe", "flush">> \in gaveUp')
      BY <2>2 DEF JoinHook, Join
    <3>4. QED
      BY <2>2, <3>1, <3>2, <3>3, JoinHookMoves
  <2>3. CASE StopWorker
    BY <2>3, StopWorkerMoves DEF StopWorker, Proceed, MainGoto
  <2>4. CASE JoinWorker
    <3>1. ~worker.thread \/ worker.at = "done"
      BY <2>4, LifecycleAssumption DEF JoinWorker, Join, TimesOut
    <3>2. hook.at # "enqueue" \/ GaveUpHook
      BY <2>4 DEF JoinWorker, HookSafe
    <3>3. UNCHANGED <<hook, gaveUp>>
      BY <2>4, <3>1, LifecycleAssumption DEF JoinWorker, Join, TimesOut
    <3>4. server # "notify" \/ <<"pipe", "flush">> \in gaveUp
      BY <2>4 DEF JoinWorker, PipeSafe
    <3>5. UNCHANGED server
      BY <2>4 DEF JoinWorker
    <3>6. QED
      BY <2>4, <3>1, <3>2, <3>3, <3>4, <3>5, JoinWorkerMoves
  <2>5. CASE JoinPipe
    BY <2>5 DEF JoinPipe, Join, CloseHandles, MainGoto
  <2>6. CASE LeaveLoop \/ StopPipe \/ Destroy
    BY <2>6 DEF LeaveLoop, StopPipe, SignalStop, Destroy, Proceed, MainGoto
  <2>7. QED
    BY <1>2, <2>1, <2>2, <2>3, <2>4, <2>5, <2>6 DEF StopSteps
<1>3. CASE Messages
  BY <1>3
     DEF Messages, OnSettingsChanged, OnTaskbarCreated, OnOpenSettings, OnClose, OnHotKey,
         Dispatch
<1>4. CASE PipeThread \/ Clients \/ World
  <2>1. UNCHANGED <<hook, worker, main, gaveUp>>
    BY <1>4
       DEF PipeThread, LookAtWakeEvent, HandlePipeRequest, Clients, World, ShowTrayMenu,
           ShellRestarts, PanelMoves
  <2>2. server' # "notify" \/ UNCHANGED server \/ worker.thread
    BY <1>4, ServerMoves, ClientMoves
       DEF PipeThread, LookAtWakeEvent, HandlePipeRequest, Clients, World, ShowTrayMenu,
           ShellRestarts, PanelMoves
  <2>3. QED
    BY <2>1, <2>2
<1>5. CASE HookThread
  BY <1>5, HookMoves DEF HookThread, HookMoved
<1>6. CASE WorkerThread
  BY <1>6, WorkerMoves DEF WorkerThread
<1>7. CASE UNCHANGED vars
  BY <1>7 DEF vars
<1>8. QED
  BY <1>1, <1>2, <1>3, <1>4, <1>5, <1>6, <1>7 DEF Next, Messages, World, Ended

\* The icon.
LEMMA TrayKept == IInv /\ [Next]_vars => TraySafe'
<1> SUFFICES ASSUME IInv, [Next]_vars PROVE TraySafe'
  OBVIOUS
<1> USE DEF IInv, Shape, TraySafe, HasWindow, pipeVars, threads, desk, Others
<1>1. CASE StartSteps
  <2>1. CASE ShowTray
    <3>1. tray.added => tray.icon \/ "taskbar" \in posted
      BY <2>1 DEF ShowTray, Proceed, MainGoto
    <3>2. QED
      BY <2>1, <3>1 DEF ShowTray, RefreshTrayIcon, TrayShape, Proceed, MainGoto
  <2>2. CASE TakeInstance \/ CreateMessageWindow
    BY <2>2 DEF TakeInstance, CreateMessageWindow, ReturnEarly, Proceed, MainGoto
  <2>3. CASE StartWorker \/ StartHook
    BY <2>3 DEF StartWorker, StartHook, ReturnEarly, Proceed, MainGoto
  <2>4. CASE AwaitHook \/ StartPipe \/ RaisePipeFlag
    BY <2>4 DEF AwaitHook, StartPipe, RaisePipeFlag, ReturnEarly, Proceed, MainGoto
  <2>5. QED
    BY <1>1, <2>1, <2>2, <2>3, <2>4 DEF StartSteps
<1>2. CASE StopSteps
  <2>1. main' \in {"stopPipe", "joinPipe", "stopHook", "joinHook", "stopWorker", "joinWorker",
                  "destroy", "end"}
    BY <1>2
       DEF StopSteps, LeaveLoop, StopPipe, JoinPipe, StopHook, JoinHook, StopWorker, JoinWorker,
           Destroy, Proceed, MainGoto
  <2>2. QED
    BY <2>1
<1>3. CASE Messages
  <2>1. CASE OnSettingsChanged
    BY <2>1 DEF OnSettingsChanged, Dispatch, RefreshTrayIcon, TrayShape
  <2>2. CASE OnTaskbarCreated
    <3>1. [tray EXCEPT !.added = FALSE] \in TrayShape /\ ~[tray EXCEPT !.added = FALSE].added
      BY DEF TrayShape
    <3>2. QED
      BY <2>2, <3>1, TrayRefreshed DEF OnTaskbarCreated, Dispatch
  <2>3. CASE OnOpenSettings \/ OnClose
    BY <2>3 DEF OnOpenSettings, OnClose, Dispatch
  <2>4. CASE OnHotKey
    BY <2>4 DEF OnHotKey, Post
  <2>5. QED
    BY <1>3, <2>1, <2>2, <2>3, <2>4 DEF Messages
<1>4. CASE PipeThread
  BY <1>4 DEF PipeThread, LookAtWakeEvent, HandlePipeRequest, Post, TrayShape
<1>5. CASE HookThread \/ WorkerThread \/ Clients
  <2>1. UNCHANGED <<desk, main>>
    BY <1>5 DEF HookThread, WorkerThread, Clients
  <2>2. QED
    BY <2>1
<1>6. CASE World
  <2>1. CASE ShellRestarts
    <3>1. tray'.added = tray.added
      <4>1. tray' = [tray EXCEPT !.icon = FALSE, !.restarts = @ + 1]
        BY <2>1 DEF ShellRestarts
      <4>2. QED
        BY <4>1, Zenon DEF TrayShape
    <3>2. QED
      BY <2>1, <3>1 DEF ShellRestarts, Post
  <2>2. CASE ShowTrayMenu \/ PanelMoves
    BY <2>2 DEF ShowTrayMenu, PanelMoves, Post
  <2>3. QED
    BY <1>6, <2>1, <2>2 DEF World
<1>7. CASE UNCHANGED vars
  BY <1>7 DEF vars
<1>8. QED
  BY <1>1, <1>2, <1>3, <1>4, <1>5, <1>6, <1>7 DEF Next, Messages, World, Ended

\* The answer.
LEMMA AnswerKept == IInv /\ [Next]_vars => Answered'
<1> SUFFICES ASSUME IInv, [Next]_vars PROVE Answered'
  OBVIOUS
<1> USE DEF IInv, Shape, Answered, pipeVars, threads, desk, Others
<1>1. CASE StartSteps
  BY <1>1
     DEF StartSteps, TakeInstance, CreateMessageWindow, StartWorker, StartHook, AwaitHook,
         ShowTray, StartPipe, RaisePipeFlag, ReturnEarly, Proceed, MainGoto, StartThread,
         RaiseFlag
<1>2. CASE StopSteps
  BY <1>2
     DEF StopSteps, LeaveLoop, StopPipe, JoinPipe, StopHook, JoinHook, StopWorker, JoinWorker,
         Destroy, Proceed, MainGoto, SignalStop, CloseHandles
<1>3. CASE Messages
  BY <1>3
     DEF Messages, OnSettingsChanged, OnTaskbarCreated, OnOpenSettings, OnClose, OnHotKey,
         Dispatch
<1>4. CASE PipeThread
  BY <1>4
     DEF PipeThread, LookAtWakeEvent, BeginNotify, HandlePipeRequest, Handle, ServerSteps, Secure, CheckStop, CreateInstance,
         Listen, Accept, Read, Reading, Write, Writing, Flush, Disconnect, Goto, Exit, TakeBytes,
         Fresh, Instance
<1>5. CASE Clients
  BY <1>5, ClientMoves DEF Clients, Instance
<1>6. CASE HookThread \/ WorkerThread \/ World
  <2>1. UNCHANGED pipeVars
    BY <1>6 DEF HookThread, WorkerThread, World, ShowTrayMenu, ShellRestarts, PanelMoves
  <2>2. QED
    BY <2>1
<1>7. CASE UNCHANGED vars
  BY <1>7 DEF vars
<1>8. QED
  BY <1>1, <1>2, <1>3, <1>4, <1>5, <1>6, <1>7 DEF Next, Messages, World, Ended

-----------------------------------------------------------------------------
(* The invariant of the specification.                                      *)

LEMMA InitIInv == Init => IInv
<1> SUFFICES ASSUME Init PROVE IInv
  OBVIOUS
<1>1. conn \in Instance
  <2>1. 0 \in 0..MaxParts
    BY PipeAssumption
  <2>2. QED
    BY <2>1 DEF Init, PipeInit, Fresh, Instance
<1>2. hook \in HookShape /\ worker \in WorkerShape /\ tray \in TrayShape
  BY DEF Init, HookShape, WorkerShape, TrayShape
<1>3. PipeSafe /\ HookSafe /\ WorkerSafe /\ TraySafe /\ Answered
  BY DEF Init, PipeInit, PipeSafe, HookSafe, WorkerSafe, TraySafe, Answered, HasWindow
<1>4. QED
  BY <1>1, <1>2, <1>3 DEF IInv, Shape, Init, PipeInit

LEMMA AlwaysIInv == Spec => []IInv
<1>1. IInv /\ [Next]_vars => IInv'
  BY ShapeKept, PipeKept, HookKept, WorkerKept, TrayKept, AnswerKept DEF IInv
<1>2. QED
  BY <1>1, InitIInv, PTL DEF Spec

-----------------------------------------------------------------------------
(* What follows.                                                            *)

\* No thread uses a handle that was closed under it, except one whose Stop gave up: a hook
\* that was held up, a pipe thread whose client does not read.
THEOREM HandlesStayOpen == Spec => []HandlesOpen
<1>1. IInv => HandlesOpen
  BY DEF IInv, PipeSafe, HookSafe, WorkerSafe, HandlesOpen
<1>2. QED
  BY <1>1, AlwaysIInv, PTL

\* Every way out of Run leaves neither thread nor hook, with the same exceptions.
THEOREM NothingIsLeft == Spec => []NothingLeft
<1>1. IInv => NothingLeft
  BY DEF IInv, PipeSafe, HookSafe, WorkerSafe, NothingLeft
<1>2. QED
  BY <1>1, AlwaysIInv, PTL

\* An icon the engine counts on is there, once the shell's messages are read.
THEOREM TrayIsKnown == Spec => []TrayKnown
<1>1. IInv => TrayKnown
  BY DEF IInv, TraySafe, HasWindow, TrayKnown
<1>2. QED
  BY <1>1, AlwaysIInv, PTL

\* No connection is cut under a client that has still to read its answer.
THEOREM AnswersAreDelivered == Spec => AnswersDelivered
<1>1. IInv => [Disconnect => ~(conn.peer = "here" /\ conn.answer)]_vars
  BY DEF IInv, Answered, Disconnect, Goto
<1>2. QED
  BY <1>1, AlwaysIInv, PTL DEF AnswersDelivered, Spec
=============================================================================

----------------------------- MODULE PipeServer -----------------------------
(***************************************************************************)
(* The engine's named pipe server (PipeServer): its thread, which serves    *)
(* one client at a time over the only instance of the pipe, and Start and   *)
(* Stop, which the main thread calls.  Every pipe operation is overlapped   *)
(* and waits for its completion or for the stop event, except the final     *)
(* FlushFileBuffers, which waits for the client alone.                      *)
(*                                                                         *)
(* A client is whoever holds the other end.  It may send its line in parts, *)
(* read the answer late or never, and go at any moment.  Clients that wait  *)
(* for the instance hold nothing of the server and are not part of it.      *)
(***************************************************************************)
EXTENDS Naturals

CONSTANTS Op,        \* what a request asks for
          NoOp,      \* no line has been sent
          MaxParts,  \* reads after which a request is too long
          MaxVisits  \* bound of a run: clients that connect

ASSUME PipeAssumption == NoOp \notin Op /\ {MaxParts, MaxVisits} \subseteq Nat

VARIABLES stopEvent,  \* stop_event_: no handle, not signalled, signalled
          thread,     \* whether thread_ is a handle
          running,    \* running_
          server,     \* where the server's thread is
          conn,       \* the instance of the pipe
          visits      \* clients that have connected

pipeVars == <<stopEvent, thread, running, server, conn, visits>>

\* An instance: the client's end, bytes of the request not read yet and reads so far,
\* the line once sent, whether the handler had it, and the answer that is not read yet.
Instance == [peer : {"none", "here", "left"}, inbox : {"empty", "part", "line"},
             parts : 0..MaxParts, line : Op \cup {NoOp}, handled : BOOLEAN, answer : BOOLEAN]

Fresh == [peer |-> "none", inbox |-> "empty", parts |-> 0, line |-> NoOp,
          handled |-> FALSE, answer |-> FALSE]

Label == {"none", "secure", "loop", "create", "listen", "accept", "read", "reading",
          "handle", "notify", "write", "writing", "flush", "disconnect", "done"}

PipeTypeOK ==
  /\ stopEvent \in {"null", "clear", "set"}
  /\ {thread, running} \subseteq BOOLEAN
  /\ server \in Label
  /\ conn \in Instance
  /\ visits \in 0..MaxVisits

PipeInit ==
  /\ stopEvent = "null" /\ thread = FALSE /\ running = FALSE
  /\ server = "none" /\ conn = Fresh /\ visits = 0

-----------------------------------------------------------------------------
(* The server's thread.                                                     *)

Goto(from, to) == server = from /\ server' = to

Exit(from) == Goto(from, "done") /\ running' = FALSE

\* CurrentUserSecurityDescriptor may fail: the thread ends at once.
Secure ==
  /\ \/ Goto("secure", "loop") /\ UNCHANGED running
     \/ Exit("secure")
  /\ UNCHANGED <<stopEvent, thread, conn, visits>>

\* Without a handle the wait fails, which is not WAIT_OBJECT_0: the loop goes on.
CheckStop ==
  /\ \/ stopEvent = "set" /\ Exit("loop")
     \/ stopEvent # "set" /\ Goto("loop", "create") /\ UNCHANGED running
  /\ UNCHANGED <<stopEvent, thread, conn, visits>>

CreateInstance ==
  /\ \/ Goto("create", "listen") /\ UNCHANGED running
     \/ Exit("create")
  /\ conn' = Fresh
  /\ UNCHANGED <<stopEvent, thread, visits>>

\* ConnectNamedPipe: a client may have come already, and gone again.
Listen ==
  /\ \/ conn.peer = "none" /\ Goto("listen", "accept")
     \/ conn.peer = "here" /\ Goto("listen", "read")
     \/ conn.peer = "left" /\ Goto("listen", "loop")
  /\ conn' = IF conn.peer = "left" THEN Fresh ELSE conn
  /\ UNCHANGED <<stopEvent, thread, running, visits>>

\* WaitForIo prefers the stop event to the operation, and fails without a handle.
WaitCancelled == stopEvent # "clear"

Accept ==
  /\ \/ WaitCancelled /\ Goto("accept", "loop") /\ conn' = Fresh
     \/ ~WaitCancelled /\ conn.peer # "none" /\ Goto("accept", "read") /\ UNCHANGED conn
  /\ UNCHANGED <<stopEvent, thread, running, visits>>

\* ReadFile returned bytes: a line, or a part of one unless the limit is reached.
TakeBytes(from) ==
  /\ conn.inbox # "empty"
  /\ \/ conn.inbox = "line" /\ Goto(from, "handle") /\ conn' = [conn EXCEPT !.inbox = "empty"]
     \/ /\ conn.inbox = "part" /\ conn.parts < MaxParts
        /\ Goto(from, "read")
        /\ conn' = [conn EXCEPT !.inbox = "empty", !.parts = @ + 1]
     \/ /\ conn.inbox = "part" /\ conn.parts = MaxParts
        /\ Goto(from, "flush")
        /\ conn' = [conn EXCEPT !.inbox = "empty"]

\* Bytes that are there are taken without a look at the stop event.
Read ==
  /\ \/ TakeBytes("read")
     \/ conn.inbox = "empty" /\ conn.peer = "left" /\ Goto("read", "flush") /\ UNCHANGED conn
     \/ conn.inbox = "empty" /\ conn.peer = "here" /\ Goto("read", "reading") /\ UNCHANGED conn
  /\ UNCHANGED <<stopEvent, thread, running, visits>>

ReadingAgain ==
  /\ \/ WaitCancelled /\ Goto("reading", "flush") /\ UNCHANGED conn
     \/ ~WaitCancelled /\ TakeBytes("reading")
     \/ /\ ~WaitCancelled /\ conn.inbox = "empty" /\ conn.peer = "left"
        /\ Goto("reading", "reading") /\ UNCHANGED conn
  /\ UNCHANGED <<stopEvent, thread, running, visits>>

Reading ==
  /\ \/ WaitCancelled /\ Goto("reading", "flush") /\ UNCHANGED conn
     \/ ~WaitCancelled /\ TakeBytes("reading")
     \/ /\ ~WaitCancelled /\ conn.inbox = "empty" /\ conn.peer = "left"
        /\ Goto("reading", "flush") /\ UNCHANGED conn
  /\ UNCHANGED <<stopEvent, thread, running, visits>>

\* The handler stops on its way at an event of another thread, which it is about to set.
BeginNotify ==
  /\ Goto("handle", "notify")
  /\ UNCHANGED <<stopEvent, thread, running, conn, visits>>

\* The handler always returns an answer; what it changes is the caller's.
Handle ==
  /\ Goto("handle", "write") \/ Goto("notify", "write")
  /\ conn' = [conn EXCEPT !.handled = TRUE]
  /\ UNCHANGED <<stopEvent, thread, running, visits>>

\* The answer fits the pipe's buffer, or the write waits for its reader.
Write ==
  /\ \/ conn.peer = "left" /\ Goto("write", "flush") /\ UNCHANGED conn
     \/ /\ conn.peer = "here"
        /\ Goto("write", "flush") \/ Goto("write", "writing")
        /\ conn' = [conn EXCEPT !.answer = TRUE]
  /\ UNCHANGED <<stopEvent, thread, running, visits>>

Writing ==
  /\ Goto("writing", "flush")
  /\ \/ WaitCancelled /\ conn' = [conn EXCEPT !.answer = FALSE]
     \/ ~WaitCancelled /\ (conn.peer = "left" \/ ~conn.answer) /\ UNCHANGED conn
  /\ UNCHANGED <<stopEvent, thread, running, visits>>

\* Written bytes would be dropped by the disconnect without this wait.
NoFlush ==
  /\ Goto("flush", "disconnect")
  /\ UNCHANGED <<stopEvent, thread, running, conn, visits>>

Flush ==
  /\ conn.peer = "left" \/ ~conn.answer
  /\ Goto("flush", "disconnect")
  /\ UNCHANGED <<stopEvent, thread, running, conn, visits>>

Disconnect ==
  /\ Goto("disconnect", "loop")
  /\ conn' = Fresh
  /\ UNCHANGED <<stopEvent, thread, running, visits>>

ServerSteps ==
  \/ Secure \/ CheckStop \/ CreateInstance \/ Listen \/ Accept \/ Read \/ Reading
  \/ Write \/ Writing \/ Flush \/ Disconnect

\* The thread waits for something that only the client can do.
Blocked ==
  \/ server = "flush" /\ conn.peer = "here" /\ conn.answer
  \/ /\ ~WaitCancelled
     /\ \/ server = "accept" /\ conn.peer = "none"
        \/ server = "reading" /\ conn.inbox = "empty" /\ conn.peer = "here"
        \/ server = "writing" /\ conn.answer /\ conn.peer = "here"

-----------------------------------------------------------------------------
(* The client at the other end.                                             *)

Connect ==
  /\ server \in {"listen", "accept"} /\ conn.peer = "none" /\ visits < MaxVisits
  /\ conn' = [conn EXCEPT !.peer = "here"]
  /\ visits' = visits + 1
  /\ UNCHANGED <<stopEvent, thread, running, server>>

SendPart ==
  /\ conn.peer = "here" /\ conn.line = NoOp /\ conn.inbox = "empty"
  /\ conn' = [conn EXCEPT !.inbox = "part"]
  /\ UNCHANGED <<stopEvent, thread, running, server, visits>>

SendLine ==
  /\ conn.peer = "here" /\ conn.line = NoOp /\ conn.inbox = "empty"
  /\ \E op \in Op : conn' = [conn EXCEPT !.inbox = "line", !.line = op]
  /\ UNCHANGED <<stopEvent, thread, running, server, visits>>

ReadAnswer ==
  /\ conn.peer = "here" /\ conn.answer
  /\ conn' = [conn EXCEPT !.answer = FALSE]
  /\ UNCHANGED <<stopEvent, thread, running, server, visits>>

Leave ==
  /\ conn.peer = "here"
  /\ conn' = [conn EXCEPT !.peer = "left"]
  /\ UNCHANGED <<stopEvent, thread, running, server, visits>>

ClientSteps == Connect \/ SendPart \/ SendLine \/ ReadAnswer \/ Leave

-----------------------------------------------------------------------------
(* Start and Stop, called by the main thread.                               *)

\* running_ becomes true only after the thread was created: see RaiseFlag.
StartThread ==
  /\ stopEvent' = "clear" /\ thread' = TRUE /\ server' = "secure"
  /\ UNCHANGED <<running, conn, visits>>

RaiseFlag ==
  /\ running' = TRUE
  /\ UNCHANGED <<stopEvent, thread, server, conn, visits>>

SignalStop ==
  /\ stopEvent' = IF stopEvent = "null" THEN "null" ELSE "set"
  /\ UNCHANGED <<thread, running, server, conn, visits>>

CloseHandles ==
  /\ stopEvent' = "null" /\ thread' = FALSE /\ running' = FALSE
  /\ UNCHANGED <<server, conn, visits>>
=============================================================================

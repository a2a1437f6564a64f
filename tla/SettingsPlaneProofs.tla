------------------------ MODULE SettingsPlaneProofs --------------------------
(***************************************************************************)
(* The settings of the engine for any number of changes.  The argument       *)
(* follows a change through the steps made under the lock: until the rename  *)
(* the engine runs the file, from the rename on the file is what the thread  *)
(* wants, and from StoreSettings on so are the settings in use; a file that  *)
(* the panel wrote meanwhile says nothing until the next rename.             *)
(***************************************************************************)
EXTENDS SettingsPlane, TLAPS

At(t, steps) == thread[t].step \in steps
SomeAt(steps) == \E t \in Thread : At(t, steps)

\* Only a running engine has busy threads and answers.
OnlyRunning ==
  engine # "running" => answer = NoAnswer /\ \A t \in Thread : thread[t] = Idle

\* The file is whole and on the disk, the temporary one is before it replaces it.
FileSafe ==
  /\ file.flushed /\ file.data # Torn
  /\ \A t \in Thread : At(t, {"flushing", "renaming"}) => temp.data = thread[t].wanted
  /\ \A t \in Thread : At(t, {"renaming"}) => temp.flushed

\* The engine runs its file, or the defaults with a reason.
FileRuns ==
  \/ settings = file.data
  \/ settings = DefaultSettings /\ (file.data = Missing \/ failed)

\* The change under way has come this far.
ChangeFollowed ==
  /\ engine # "off" /\ ~foreign /\ ~SomeAt({"storing"}) => FileRuns
  /\ \A t \in Thread :
       ~foreign /\ At(t, {"storing", "advancing", "syncing"}) => file.data = thread[t].wanted
  /\ \A t \in Thread : At(t, {"advancing", "syncing"}) => settings = thread[t].wanted

\* The Run entry follows when the change is finished.
RunKeyFollows ==
  engine = "running" /\ sync /\ ~failed /\ ~SomeAt({"advancing", "syncing"}) =>
    run_key = settings.start_with_windows

\* The last answer is of an older generation or says what is in use.
AnswerFollows ==
  answer \notin {NoAnswer, Refusal} =>
    /\ answer.generation <= generation
    /\ answer.generation = generation /\ ~SomeAt({"advancing"}) => answer.settings = settings

IInv ==
  /\ TypeOK /\ OnlyRunning /\ FileSafe /\ ChangeFollowed /\ RunKeyFollows /\ AnswerFollows

\* A process that ends leaves every thread idle.
LEMMA IdleThreads ==
  LET idle == [t \in Thread |-> Idle]
  IN  idle \in [Thread -> ThreadState] /\ \A t \in Thread : idle[t] = Idle /\ idle[t].step = "idle"
BY DEF Idle, ThreadState, Step, DefaultSettings, AppSettings

\* A thread that goes on keeps what it wants, and the other stays where it is.
LEMMA ThreadGoes ==
  ASSUME thread \in [Thread -> ThreadState], NEW t \in Thread, NEW s \in Step, Goes(t, s)
  PROVE  /\ thread' \in [Thread -> ThreadState]
         /\ thread'[t].step = s /\ thread'[t].wanted = thread[t].wanted
         /\ \A u \in Thread : u # t => thread'[u] = thread[u]
BY DEF Goes, ThreadState

\* A thread that ends is idle, and the other stays where it is.
LEMMA ThreadEnds ==
  ASSUME thread \in [Thread -> ThreadState], NEW t \in Thread, Ends(t)
  PROVE  /\ thread' \in [Thread -> ThreadState]
         /\ thread'[t] = Idle /\ thread'[t].step = "idle"
         /\ \A u \in Thread : u # t => thread'[u] = thread[u]
BY DEF Ends, ThreadState, Idle, Step, DefaultSettings, AppSettings

\* A process that ends leaves typed memory, if it leaves typed files.
LEMMA GoneTyped ==
  ASSUME Gone, run_key' \in BOOLEAN,
         file' \in [data : AppSettings \cup {Missing, Corrupt, Torn}, flushed : BOOLEAN],
         temp' \in [data : AppSettings \cup {Missing, Torn}, flushed : BOOLEAN]
  PROVE  TypeOK'
<1>1. settings' \in AppSettings /\ thread' \in [Thread -> ThreadState]
  BY IdleThreads DEF Gone, DefaultSettings, AppSettings
<1>2. \A t \in Thread : thread'[t].step \notin {"idle", "locking", "answering"} <=> lock' = t
  BY IdleThreads DEF Gone, Thread
<1>3. /\ foreign' \in BOOLEAN /\ sync' \in BOOLEAN /\ failed' \in BOOLEAN /\ engine' = "off"
      /\ generation' = 1 /\ lock' = "free" /\ answer' = NoAnswer
  BY DEF Gone
<1>4. QED
  BY <1>1, <1>2, <1>3 DEF TypeOK

LEMMA InitIInv == Init => IInv
<1> SUFFICES ASSUME Init PROVE IInv
  OBVIOUS
<1>1. /\ thread \in [Thread -> ThreadState]
      /\ \A t \in Thread : thread[t] = Idle /\ thread[t].step = "idle"
  BY IdleThreads DEF Init
<1>2. TypeOK
  <2>1. file \in [data : AppSettings \cup {Missing, Corrupt, Torn}, flushed : BOOLEAN]
    BY DEF Init
  <2>2. settings \in AppSettings
    BY DEF Init, AppSettings, DefaultSettings
  <2>3. \A t \in Thread : thread[t].step \notin {"idle", "locking", "answering"} <=> lock = t
    BY <1>1 DEF Init, Thread
  <2>4. temp \in [data : AppSettings \cup {Missing, Torn}, flushed : BOOLEAN]
    BY DEF Init
  <2>5. /\ foreign \in BOOLEAN /\ run_key \in BOOLEAN /\ sync \in BOOLEAN /\ failed \in BOOLEAN /\ engine = "off"
        /\ generation = 1 /\ lock = "free" /\ answer = NoAnswer
    BY DEF Init
  <2>6. QED
    BY <1>1, <2>1, <2>2, <2>3, <2>4, <2>5 DEF TypeOK
<1>3. OnlyRunning /\ FileSafe /\ ChangeFollowed /\ RunKeyFollows /\ AnswerFollows
  BY <1>1, DistinctAssumption
     DEF Init, OnlyRunning, FileSafe, ChangeFollowed, RunKeyFollows, AnswerFollows, At
<1>4. QED
  BY <1>2, <1>3 DEF IInv

\* Types are preserved.
LEMMA NextTypeOK == TypeOK /\ [Next]_vars => TypeOK'
<1> SUFFICES ASSUME TypeOK, [Next]_vars PROVE TypeOK'
  OBVIOUS
<1>1. CASE \E readable, synchronise \in BOOLEAN : StartEngine(readable, synchronise)
  <2>1. PICK readable \in BOOLEAN, synchronise \in BOOLEAN : StartEngine(readable, synchronise)
    BY <1>1
  <2>2. settings' \in AppSettings
    BY <2>1 DEF StartEngine, TypeOK, AppSettings, DefaultSettings
  <2>3. failed' \in BOOLEAN
    BY <2>1, Zenon DEF StartEngine
  <2>4. foreign' \in BOOLEAN /\ sync' \in BOOLEAN /\ engine' = "loaded" /\ generation' = 1
    BY <2>1 DEF StartEngine
  <2>5. UNCHANGED <<file, temp, run_key, lock, thread, answer>>
    BY <2>1 DEF StartEngine
  <2>6. QED
    BY <2>2, <2>3, <2>4, <2>5 DEF TypeOK
<1>2. CASE \E ok \in BOOLEAN : EnterRunning(ok)
  BY <1>2 DEF EnterRunning, WritesRunKey, runtime, TypeOK, AppSettings
<1>3. CASE EngineEnds
  BY <1>3, GoneTyped DEF TypeOK, EngineEnds, disk
<1>4. CASE PowerFails
  <2>1. file' \in [data : AppSettings \cup {Missing, Corrupt, Torn}, flushed : BOOLEAN]
    BY <1>4 DEF TypeOK, PowerFails, AfterPowerLoss
  <2>2. temp' \in [data : AppSettings \cup {Missing, Torn}, flushed : BOOLEAN]
    BY <1>4 DEF TypeOK, PowerFails, AfterPowerLoss
  <2>3. QED
    BY <1>4, <2>1, <2>2, GoneTyped DEF PowerFails, TypeOK
<1>5. CASE \E data \in AppSettings \cup {Missing, Corrupt} : FileEdited(data)
  BY <1>5 DEF FileEdited, runtime, TypeOK
<1>6. CASE ToggleEnabled
  BY <1>6
     DEF ToggleEnabled, Begins, Wants, Unchanging, disk, runtime, TypeOK, ThreadState, Step,
         Thread, AppSettings, Idle, DefaultSettings
<1>7. CASE \E enabled \in BOOLEAN : SetEnabled(enabled)
  BY <1>7
     DEF SetEnabled, Begins, Wants, Unchanging, disk, runtime, TypeOK, ThreadState, Step,
         Thread, AppSettings, Idle
<1>8. CASE \E s \in AppSettings : ApplyRequest(s) \/ SaveLocal(s)
  <2>1. CASE \E s \in AppSettings : ApplyRequest(s)
    BY <2>1
       DEF ApplyRequest, Begins, Wants, Unchanging, disk, runtime, TypeOK, ThreadState, Step,
           Thread, Idle
  <2>2. CASE \E s \in AppSettings : SaveLocal(s)
    <3>1. foreign' \in BOOLEAN
      BY <2>2, Zenon DEF SaveLocal
    <3>2. QED
      BY <2>2, <3>1 DEF SaveLocal, runtime, TypeOK
  <2>3. QED
    BY <1>8, <2>1, <2>2
<1>9. CASE GetState
  BY <1>9, ThreadGoes DEF TypeOK, GetState, Begins, Unchanging, disk, runtime, Thread, Step, Idle
<1>10. CASE RefuseRequest
  BY <1>10 DEF RefuseRequest, Begins, Unchanging, disk, runtime, TypeOK
<1>11. CASE \E t \in Thread : TakeLock(t)
  BY <1>11 DEF TakeLock, Goes, disk, runtime, TypeOK, ThreadState, Step, SaveSteps, Thread
<1>12. CASE \E t \in Thread : CreateTemp(t)
  BY <1>12 DEF CreateTemp, Goes, runtime, TypeOK, ThreadState, Step, SaveSteps
<1>13. CASE \E t \in Thread : WriteTemp(t)
  BY <1>13 DEF WriteTemp, Goes, runtime, TypeOK, ThreadState, Step, SaveSteps
<1>14. CASE \E t \in Thread : FlushTemp(t)
  <2>1. PICK t \in Thread : FlushTemp(t)
    BY <1>14
  <2>2. temp' \in [data : AppSettings \cup {Missing, Torn}, flushed : BOOLEAN]
    BY <2>1 DEF TypeOK, FlushTemp
  <2>3. QED
    BY <2>1, <2>2, ThreadGoes DEF TypeOK, FlushTemp, runtime, Thread, Step, SaveSteps
<1>15. CASE \E t \in Thread : RenameTemp(t)
  <2>1. PICK t \in Thread : RenameTemp(t)
    BY <1>15
  <2>2. /\ file' \in [data : AppSettings \cup {Missing, Corrupt, Torn}, flushed : BOOLEAN]
        /\ temp' \in [data : AppSettings \cup {Missing, Torn}, flushed : BOOLEAN]
    BY <2>1 DEF TypeOK, RenameTemp
  <2>3. /\ thread' \in [Thread -> ThreadState] /\ thread'[t].step = "storing"
        /\ \A u \in Thread : u # t => thread'[u] = thread[u]
    BY <2>1, ThreadGoes DEF TypeOK, RenameTemp, Step
  <2>4. \A u \in Thread : thread'[u].step \notin {"idle", "locking", "answering"} <=> lock' = u
    BY <2>1, <2>3 DEF TypeOK, RenameTemp
  <2>5. foreign' \in BOOLEAN
    BY <2>1 DEF RenameTemp
  <2>6. UNCHANGED <<run_key, engine, sync, settings, generation, failed, lock, answer>>
    BY <2>1 DEF RenameTemp, runtime
  <2>7. QED
    BY <2>2, <2>3, <2>4, <2>5, <2>6 DEF TypeOK
<1>16. CASE \E t \in Thread : SaveFails(t)
  BY <1>16
     DEF SaveFails, Ends, disk, runtime, TypeOK, ThreadState, Step, SaveSteps, Thread,
         AppSettings, Idle, DefaultSettings
<1>17. CASE \E t \in Thread : StoreSettings(t)
  BY <1>17 DEF StoreSettings, Goes, disk, TypeOK, ThreadState, Step
<1>18. CASE \E t \in Thread : AdvanceGeneration(t)
  BY <1>18 DEF AdvanceGeneration, Goes, disk, TypeOK, ThreadState, Step
<1>19. CASE \E t \in Thread : \E ok \in BOOLEAN : FinishApply(t, ok)
  <2>1. PICK t \in Thread : \E ok \in BOOLEAN : FinishApply(t, ok)
    BY <1>19
  <2>2. run_key' \in BOOLEAN /\ failed' \in BOOLEAN
    BY <2>1 DEF TypeOK, FinishApply, WritesRunKey, AppSettings, ThreadState
  <2>3. CASE t = "pipe"
    BY <2>1, <2>2, <2>3, ThreadGoes DEF TypeOK, FinishApply, runtime, Thread, Step, SaveSteps
  <2>4. CASE t = "main"
    BY <2>1, <2>2, <2>4, ThreadEnds DEF TypeOK, FinishApply, runtime, Thread, Step, SaveSteps
  <2>5. QED
    BY <2>1, <2>3, <2>4 DEF Thread
<1>20. CASE StateResponse
  BY <1>20
     DEF StateResponse, Ends, disk, runtime, TypeOK, ThreadState, Step, Thread, AppSettings,
         Idle, DefaultSettings, Answer
<1>21. CASE UNCHANGED vars
  BY <1>21 DEF vars, disk, runtime, TypeOK
<1>22. QED
  BY <1>1, <1>2, <1>3, <1>4, <1>5, <1>6, <1>7, <1>8, <1>9, <1>10, <1>11, <1>12, <1>13, <1>14,
     <1>15, <1>16, <1>17, <1>18, <1>19, <1>20, <1>21
     DEF Next, Progress

\* The other parts of the invariant are preserved.
LEMMA NextIInv == IInv /\ [Next]_vars => IInv'
<1> SUFFICES ASSUME IInv, [Next]_vars PROVE IInv'
  OBVIOUS
<1>t. TypeOK /\ TypeOK'
  BY NextTypeOK DEF IInv
<1>i. OnlyRunning /\ FileSafe /\ ChangeFollowed /\ RunKeyFollows /\ AnswerFollows
  BY DEF IInv
<1> DEFINE Followed == OnlyRunning /\ FileSafe /\ ChangeFollowed /\ RunKeyFollows /\ AnswerFollows
<1> USE DistinctAssumption
    DEF At, SomeAt, FileRuns, OnlyRunning, FileSafe, ChangeFollowed, RunKeyFollows, AnswerFollows
<1>1. CASE \E readable, synchronise \in BOOLEAN : StartEngine(readable, synchronise)
  <2>1. Followed'
    BY <1>1, <1>t, <1>i DEF StartEngine, disk, TypeOK, Thread
  <2>2. QED
    BY <1>t, <2>1 DEF IInv
<1>2. CASE \E ok \in BOOLEAN : EnterRunning(ok)
  <2>1. Followed'
    BY <1>2, <1>t, <1>i DEF EnterRunning, WritesRunKey, runtime, TypeOK
  <2>2. QED
    BY <1>t, <2>1 DEF IInv
<1>3. CASE EngineEnds
  <2>1. Followed'
    BY <1>3, <1>t, <1>i DEF EngineEnds, Gone, disk, TypeOK, Thread
  <2>2. QED
    BY <1>t, <2>1 DEF IInv
<1>4. CASE PowerFails
  <2>1. Followed'
    BY <1>4, <1>t, <1>i DEF PowerFails, Gone, AfterPowerLoss, TypeOK, Thread
  <2>2. QED
    BY <1>t, <2>1 DEF IInv
<1>5. CASE \E data \in AppSettings \cup {Missing, Corrupt} : FileEdited(data)
  <2>1. Followed'
    BY <1>5, <1>t, <1>i DEF FileEdited, runtime, TypeOK, Thread
  <2>2. QED
    BY <1>t, <2>1 DEF IInv
<1>6. CASE ToggleEnabled
  <2>1. Followed'
    BY <1>6, <1>t, <1>i DEF ToggleEnabled, Begins, Wants, Unchanging, disk, runtime, TypeOK
  <2>2. QED
    BY <1>t, <2>1 DEF IInv
<1>7. CASE \E enabled \in BOOLEAN : SetEnabled(enabled)
  <2>1. Followed'
    BY <1>7, <1>t, <1>i DEF SetEnabled, Begins, Wants, Unchanging, disk, runtime, TypeOK
  <2>2. QED
    BY <1>t, <2>1 DEF IInv
<1>8. CASE \E s \in AppSettings : ApplyRequest(s) \/ SaveLocal(s)
  <2>1. CASE \E s \in AppSettings : ApplyRequest(s)
    <3>1. Followed'
      BY <2>1, <1>t, <1>i DEF ApplyRequest, Begins, Wants, Unchanging, disk, runtime, TypeOK
    <3>2. QED
      BY <1>t, <3>1 DEF IInv
  <2>2. CASE \E s \in AppSettings : SaveLocal(s)
    <3>1. Followed'
      BY <2>2, <1>t, <1>i DEF SaveLocal, runtime, TypeOK, Thread, Idle
    <3>2. QED
      BY <1>t, <3>1 DEF IInv
  <2>3. QED
    BY <1>8, <2>1, <2>2
<1>9. CASE GetState
  <2>1. Followed'
    BY <1>9, <1>t, <1>i DEF GetState, Begins, Goes, Unchanging, disk, runtime, TypeOK
  <2>2. QED
    BY <1>t, <2>1 DEF IInv
<1>10. CASE RefuseRequest
  <2>1. Followed'
    BY <1>10, <1>t, <1>i DEF RefuseRequest, Begins, Unchanging, disk, runtime
  <2>2. QED
    BY <1>t, <2>1 DEF IInv
<1>11. CASE \E t \in Thread : TakeLock(t)
  <2>1. Followed'
    BY <1>11, <1>t, <1>i DEF TakeLock, Goes, disk, runtime, Idle
  <2>2. QED
    BY <1>t, <2>1 DEF IInv
<1>12. CASE \E t \in Thread : CreateTemp(t)
  <2>1. Followed'
    BY <1>12, <1>t, <1>i DEF CreateTemp, Goes, runtime, TypeOK, Thread
  <2>2. QED
    BY <1>t, <2>1 DEF IInv
<1>13. CASE \E t \in Thread : WriteTemp(t)
  <2>1. Followed'
    BY <1>13, <1>t, <1>i DEF WriteTemp, Goes, runtime, TypeOK, Thread
  <2>2. QED
    BY <1>t, <2>1 DEF IInv
<1>14. CASE \E t \in Thread : FlushTemp(t)
  <2>1. Followed'
    BY <1>14, <1>t, <1>i DEF FlushTemp, Goes, runtime, TypeOK, Thread
  <2>2. QED
    BY <1>t, <2>1 DEF IInv
<1>15. CASE \E t \in Thread : RenameTemp(t)
  <2>1. Followed'
    BY <1>15, <1>t, <1>i DEF RenameTemp, Goes, runtime, TypeOK, ThreadState, Thread
  <2>2. QED
    BY <1>t, <2>1 DEF IInv
<1>16. CASE \E t \in Thread : SaveFails(t)
  <2>1. Followed'
    BY <1>16, <1>t, <1>i DEF SaveFails, Ends, disk, runtime, TypeOK, SaveSteps, Thread
  <2>2. QED
    BY <1>t, <2>1 DEF IInv
<1>17. CASE \E t \in Thread : StoreSettings(t)
  <2>1. Followed'
    BY <1>17, <1>t, <1>i DEF StoreSettings, Goes, disk, TypeOK, Thread
  <2>2. QED
    BY <1>t, <2>1 DEF IInv
<1>18. CASE \E t \in Thread : AdvanceGeneration(t)
  <2>1. Followed'
    BY <1>18, <1>t, <1>i DEF AdvanceGeneration, Goes, disk, TypeOK, Thread, Answer
  <2>2. QED
    BY <1>t, <2>1 DEF IInv
<1>19. CASE \E t \in Thread : \E ok \in BOOLEAN : FinishApply(t, ok)
  <2>1. Followed'
    BY <1>19, <1>t, <1>i DEF FinishApply, WritesRunKey, Goes, Ends, runtime, TypeOK, Thread
  <2>2. QED
    BY <1>t, <2>1 DEF IInv
<1>20. CASE StateResponse
  <2>1. Followed'
    BY <1>20, <1>t, <1>i DEF StateResponse, Ends, disk, runtime, TypeOK, Idle
  <2>2. QED
    BY <1>t, <2>1 DEF IInv
<1>21. CASE UNCHANGED vars
  BY <1>21, <1>t, <1>i DEF vars, disk, runtime, IInv
<1>22. QED
  BY <1>1, <1>2, <1>3, <1>4, <1>5, <1>6, <1>7, <1>8, <1>9, <1>10, <1>11, <1>12, <1>13, <1>14,
     <1>15, <1>16, <1>17, <1>18, <1>19, <1>20, <1>21
     DEF Next, Progress

LEMMA AlwaysIInv == Spec => []IInv
BY InitIInv, NextIInv, PTL DEF Spec

\* Every variable stays in its type and a change in progress holds the lock.
THEOREM TypeCorrect == Spec => []TypeOK
<1>1. IInv => TypeOK
  BY DEF IInv
<1>2. QED
  BY <1>1, AlwaysIInv, PTL

\* The settings file is whole at every step, after a failed save, a crash and a
\* power failure too.
THEOREM FileStaysWhole == Spec => []FileIsWhole
<1>1. IInv => FileIsWhole
  BY DEF IInv, FileSafe, FileIsWhole
<1>2. QED
  BY <1>1, AlwaysIInv, PTL

\* An engine between two changes runs what it last loaded or saved, or the defaults with
\* a reason, and so what a restart would load unless the panel saved by itself since.
THEOREM EngineRunsTheFile == Spec => []RunsTheFile
<1>1. IInv => RunsTheFile
  <2> SUFFICES ASSUME IInv, engine = "running", lock = "free", ~foreign
               PROVE  FileRuns
    BY DEF RunsTheFile, FileRuns
  <2>1. ~SomeAt({"storing"})
    BY DEF IInv, TypeOK, SomeAt, At, Thread
  <2>2. QED
    BY <2>1 DEF IInv, ChangeFollowed
<1>2. QED
  BY <1>1, AlwaysIInv, PTL

\* With no error to report the Run entry is as the settings say.
THEOREM AutostartFollowsSettings == Spec => []AutostartFollows
<1>1. IInv => AutostartFollows
  <2> SUFFICES ASSUME IInv, lock = "free" PROVE AutostartFollows
    BY DEF AutostartFollows
  <2>1. ~SomeAt({"advancing", "syncing"})
    BY DEF IInv, TypeOK, SomeAt, At, Thread
  <2>2. QED
    BY <2>1 DEF IInv, RunKeyFollows, AutostartFollows
<1>2. QED
  BY <1>1, AlwaysIInv, PTL

\* Two answers in a row of one generation carry the same settings.
THEOREM GenerationsNameSettings == Spec => GenerationNamesSettings
<1>1. IInv /\ [Next]_vars =>
        [answer \notin {NoAnswer, Refusal} /\ answer' \notin {NoAnswer, Refusal}
           /\ answer.generation = answer'.generation
         => answer.settings = answer'.settings]_vars
  <2> SUFFICES ASSUME IInv, Next, answer # answer', answer \notin {NoAnswer, Refusal},
                      answer' \notin {NoAnswer, Refusal},
                      answer.generation = answer'.generation
               PROVE  answer.settings = answer'.settings
    BY DEF vars
  <2>1. StateResponse
    BY DEF Next, Progress, StartEngine, EnterRunning, EngineEnds, PowerFails, Gone, FileEdited,
           SaveLocal, ToggleEnabled, SetEnabled, ApplyRequest, GetState, RefuseRequest, TakeLock,
           CreateTemp, WriteTemp, FlushTemp, RenameTemp, SaveFails, StoreSettings,
           AdvanceGeneration, FinishApply
  <2>2. ~SomeAt({"advancing"})
    BY <2>1 DEF IInv, TypeOK, StateResponse, SomeAt, At, Thread
  <2>3. QED
    BY <2>1, <2>2 DEF IInv, AnswerFollows, StateResponse
<1>2. QED
  BY <1>1, AlwaysIInv, PTL DEF Spec, GenerationNamesSettings
=============================================================================

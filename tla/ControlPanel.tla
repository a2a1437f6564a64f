---------------------------- MODULE ControlPanel ----------------------------
(***************************************************************************)
(* The control panel beside the engine: the copy of the settings it edits    *)
(* (SettingsClient), what its window shows of it (MainWindow), the edit that *)
(* waits for its timer, the connection that is polled, and the file that     *)
(* both programs save.  The window has one thread: a message is one step,    *)
(* except that an apply waits for the engine, which may toggle, fail or end   *)
(* meanwhile.  A request that timed out may still be carried out later.      *)
(*                                                                         *)
(* Of the settings it keeps one value for all single controls, the excluded  *)
(* applications and the profiles.  A missing file stands for the defaults.    *)
(* How the engine applies settings and how a save fails part of the way are   *)
(* the subject of SettingsPlane; here both are one step.                     *)
(***************************************************************************)
EXTENDS Integers, Sequences, SequencesExt

CONSTANTS Executable,   \* keys of applications, numbers so that they are ordered
          Stored,       \* settings a file may hold at first
          None,         \* no request, no copy, no profile selected
          MaxAttempts,  \* polls before the panel gives up (25 in the code)
          MaxEdits,     \* bound of a run: the user's actions
          MaxToggles,   \* bound of a run: toggles by the engine's hot key
          MaxOpens      \* bound of a run: times the panel is opened

ASSUME PanelAssumption ==
  /\ Executable \subseteq Nat
  /\ MaxAttempts \in Nat \ {0} /\ {MaxEdits, MaxToggles, MaxOpens} \subseteq Nat

VARIABLES file,      \* settings.json
          engine,    \* the engine's process and the settings it runs
          late,      \* a request the panel no longer waits for, None without
          copy,      \* the settings a toggle has copied and not saved yet, and whether
                     \* a request was carried out since (history); None without
          overtaken, \* such an old copy was saved after the last request (history)
          request,   \* the apply the window waits for, and how far the engine has got
          panel,     \* SessionState: settings and status
          screen,    \* what the controls show
          ui,        \* the window: open, kConnectMessage posted, its two timers, attempts
          unsynced,  \* the settings may differ from what the lists show (history)
          bounds     \* user's actions, toggles and openings so far

outside == <<file, engine, late, copy, overtaken>>
vars == <<outside, request, panel, screen, ui, unsynced, bounds>>

Profile == [executable : Executable, motion : {0, 1}]
Settings == [control : BOOLEAN, excluded : Seq(Executable), profiles : Seq(Profile)]
Default == [control |-> TRUE, excluded |-> <<>>, profiles |-> <<>>]

ASSUME StoredAssumption == Stored \subseteq Settings

Status == {"Connecting", "Disconnected", "Connected", "Applied", "SavedOffline", "SaveFailed",
           "UnableToStart", "WaitingForEngine", "Saving", "OfflineLocal"}

TypeOK ==
  /\ file \in Settings
  /\ engine \in [state : {"absent", "created", "loaded", "running"}, settings : Settings]
  /\ late \in Settings \cup {None}
  /\ copy \in [settings : Settings, old : BOOLEAN] \cup {None}
  /\ request \in [settings : Settings, stage : {"sent", "carried", "refused"}] \cup {None}
  /\ panel \in [settings : Settings, status : Status]
  /\ screen \in [control : BOOLEAN, excluded : Seq(Executable), excludedAt : Nat,
                 profiles : Seq(Executable), profileAt : Nat, editor : Profile \cup {None}]
  /\ ui \in [open : BOOLEAN, connect : BOOLEAN, pending : BOOLEAN, polling : BOOLEAN,
             attempts : 0..MaxAttempts]
  /\ overtaken \in BOOLEAN /\ unsynced \in BOOLEAN
  /\ bounds \in [edits : 0..MaxEdits, toggles : 0..MaxToggles, opens : 0..MaxOpens]

-----------------------------------------------------------------------------
(* What the window shows.  Positions count from one; zero is LB_ERR.         *)

Names(settings) == [i \in DOMAIN settings.profiles |-> settings.profiles[i].executable]

Clamped(position, length) ==
  IF position > length THEN length
  ELSE IF position = 0 /\ length > 0 THEN 1 ELSE position

SelectedProfile(settings, position) ==
  IF position \in DOMAIN settings.profiles THEN settings.profiles[position] ELSE None

\* SyncProfileEditor.
WithEditor(shown, settings) ==
  [shown EXCEPT !.editor = SelectedProfile(settings, shown.profileAt)]

\* SyncHomeControls, SyncAdvancedControls.
WithControls(shown, settings) == [shown EXCEPT !.control = settings.control]

\* SyncApplicationLists, which ends with SyncProfileEditor.
WithLists(shown, settings) ==
  WithEditor([shown EXCEPT
    !.excluded = settings.excluded,
    !.excludedAt = Clamped(@, Len(settings.excluded)),
    !.profiles = Names(settings),
    !.profileAt = Clamped(@, Len(settings.profiles))], settings)

SyncAllControls(shown, settings) == WithLists(WithControls(shown, settings), settings)

Blank == [control |-> FALSE, excluded |-> <<>>, excludedAt |-> 0,
          profiles |-> <<>>, profileAt |-> 0, editor |-> None]

ClosedUi == [open |-> FALSE, connect |-> FALSE, pending |-> FALSE, polling |-> FALSE,
             attempts |-> 0]
ClosedPanel == [settings |-> Default, status |-> "Connecting"]

Init ==
  /\ file \in Stored
  /\ engine = [state |-> "absent", settings |-> Default]
  /\ late = None /\ copy = None /\ overtaken = FALSE /\ request = None
  /\ panel = ClosedPanel /\ screen = Blank /\ ui = ClosedUi
  /\ unsynced = FALSE
  /\ bounds = [edits |-> 0, toggles |-> 0, opens |-> 0]

-----------------------------------------------------------------------------
(* Requests.                                                                *)

\* The window's thread is in Apply and does nothing else.
Waiting == request # None

\* A second instance of the pipe would let a request overtake the late one.
AnswersBeside == engine.state = "running"

\* The pipe has one instance: while the late request holds it nobody else is served.
Answers == engine.state = "running" /\ late = None

\* Refresh: the answer replaces the settings, whatever the panel has of its own.
Refreshed ==
  /\ Answers
  /\ panel' = [settings |-> engine.settings, status |-> "Connected"]

RefreshFails == panel' = [panel EXCEPT !.status = "Disconnected"]

\* Apply without an answer: SaveLocal, which may fail; the controls are shown again.
FallsBack ==
  /\ \/ file' = panel.settings /\ panel' = [panel EXCEPT !.status = "SavedOffline"]
     \/ file' = file /\ panel' = [panel EXCEPT !.status = "SaveFailed"]
  /\ screen' = WithControls(screen, panel.settings)
  /\ UNCHANGED <<engine, copy, overtaken, unsynced, bounds>>

\* StartSiblingEngine: a second engine ends at once on the instance mutex.
StartSiblingEngine ==
  \/ /\ engine' = IF engine.state = "absent" THEN [engine EXCEPT !.state = "created"] ELSE engine
     /\ panel' = [panel EXCEPT !.status = "WaitingForEngine"]
  \/ /\ panel' = [panel EXCEPT !.status = "UnableToStart"]
     /\ UNCHANGED engine

-----------------------------------------------------------------------------
(* Messages of the window.                                                  *)

\* The constructor loads the file, WM_CREATE fills the controls and posts kConnectMessage.
OpenPanel ==
  /\ ~ui.open /\ ~Waiting /\ bounds.opens < MaxOpens
  /\ \E settings \in {file, Default} :
       /\ panel' = [settings |-> settings, status |-> "Connecting"]
       /\ screen' = SyncAllControls(Blank, settings)
  /\ ui' = [ClosedUi EXCEPT !.open = TRUE, !.connect = TRUE]
  /\ bounds' = [bounds EXCEPT !.opens = @ + 1]
  /\ UNCHANGED <<outside, request, unsynced>>

\* The first message of the window: engine_started_ is still false.
BeginEngineConnection ==
  /\ ui.connect /\ ~Waiting
  /\ \/ /\ Refreshed
        /\ screen' = SyncAllControls(screen, engine.settings)
        /\ ui' = [ui EXCEPT !.connect = FALSE]
        /\ UNCHANGED engine
     \/ /\ StartSiblingEngine
        /\ ui' = [ui EXCEPT !.connect = FALSE, !.polling = TRUE]
        /\ UNCHANGED screen
  /\ UNCHANGED <<file, late, copy, overtaken, request, unsynced, bounds>>

PollForever ==
  /\ ui.polling /\ ~Waiting
  /\ \/ /\ Refreshed
        /\ screen' = SyncAllControls(screen, engine.settings)
        /\ unsynced' = FALSE
        /\ ui' = [ui EXCEPT !.polling = FALSE, !.attempts = 0]
     \/ /\ RefreshFails
        /\ UNCHANGED <<screen, unsynced, ui>>
  /\ UNCHANGED <<outside, request, bounds>>

PollEngineConnection ==
  /\ ui.polling /\ ~Waiting
  /\ \/ /\ Refreshed
        /\ screen' = SyncAllControls(screen, engine.settings)
        /\ unsynced' = FALSE
        /\ ui' = [ui EXCEPT !.polling = FALSE, !.attempts = 0]
     \/ /\ ui.attempts + 1 < MaxAttempts
        /\ RefreshFails
        /\ ui' = [ui EXCEPT !.attempts = @ + 1]
        /\ UNCHANGED <<screen, unsynced>>
     \/ /\ ui.attempts + 1 = MaxAttempts
        /\ panel' = [panel EXCEPT !.status = "OfflineLocal"]
        /\ ui' = [ui EXCEPT !.polling = FALSE, !.attempts = 0]
        /\ UNCHANGED <<screen, unsynced>>
  /\ UNCHANGED <<outside, request, bounds>>

\* The apply timer: the request is sent, or there is no engine to take it.
ApplyPendingChanges ==
  /\ ui.pending /\ ~Waiting
  /\ \/ /\ Answers
        /\ request' = [settings |-> panel.settings, stage |-> "sent"]
        /\ UNCHANGED <<outside, panel, screen, unsynced, bounds>>
     \/ FallsBack /\ UNCHANGED <<late, request>>
  /\ ui' = [ui EXCEPT !.pending = FALSE]

\* StateResponse takes the lock again: the answer carries the settings in use by then,
\* which replace the panel's; the controls show them, the lists do not.
AnswerArrives ==
  /\ Waiting /\ request.stage = "carried"
  /\ panel' = [settings |-> engine.settings, status |-> "Applied"]
  /\ screen' = WithControls(screen, engine.settings)
  /\ unsynced' = (unsynced \/ overtaken) /\ overtaken' = FALSE
  /\ request' = None
  /\ UNCHANGED <<file, engine, late, copy, ui, bounds>>

\* Refused, too late, or the engine has ended: one that was sent may still be taken up.
GiveUp ==
  /\ Waiting
  /\ late' \in {late} \cup (IF request.stage = "sent" THEN {request.settings} ELSE {})
  /\ FallsBack
  /\ request' = None
  /\ UNCHANGED ui

-----------------------------------------------------------------------------
(* The user.                                                                *)

\* A posted message is dispatched before any input.
Acts ==
  /\ ui.open /\ ~ui.connect /\ ~Waiting /\ bounds.edits < MaxEdits
  /\ bounds' = [bounds EXCEPT !.edits = @ + 1]

\* An edit changes the panel's copy and starts the timer anew (ScheduleApply).
Edit(settings) ==
  /\ Acts /\ UNCHANGED <<outside, request, unsynced>>
  /\ panel' = [settings |-> settings, status |-> "Saving"]
  /\ ui' = [ui EXCEPT !.pending = TRUE]

\* A check box, a slider or an advanced option: the control has changed by itself.
ChangeControl ==
  /\ Edit([panel.settings EXCEPT !.control = ~screen.control])
  /\ screen' = [screen EXCEPT !.control = ~@]

ApplyPreset ==
  \E value \in BOOLEAN :
    /\ Edit([panel.settings EXCEPT !.control = value])
    /\ screen' = [screen EXCEPT !.control = value]

\* AdvancedLanguage shows the profile editor again in the other language.
ChangeLanguage ==
  /\ Edit(panel.settings)
  /\ screen' = WithEditor(screen, panel.settings)

AddExcludedApplication ==
  \E executable \in Executable \ Range(panel.settings.excluded) :
    LET values == SetToSortSeq(Range(panel.settings.excluded) \cup {executable}, <)
        settings == [panel.settings EXCEPT !.excluded = values]
    IN /\ Edit(settings)
       /\ screen' = [WithLists(screen, settings) EXCEPT !.excludedAt = Len(values)]

RemoveExcludedApplication ==
  /\ screen.excludedAt \in DOMAIN panel.settings.excluded
  /\ LET settings == [panel.settings EXCEPT !.excluded = RemoveAt(@, screen.excludedAt)]
     IN Edit(settings) /\ screen' = WithLists(screen, settings)

AddProfileLater ==
  \E executable \in Executable \ Range(Names(panel.settings)) :
    LET profile == [executable |-> executable, motion |-> 0]
        settings == [panel.settings EXCEPT !.profiles = Append(@, profile)]
    IN /\ Edit(settings)
       /\ screen' = [WithLists(screen, settings) EXCEPT !.profileAt = Len(settings.profiles)]

\* The new profile is selected after the lists were filled, and then shown in the editor.
AddProfile ==
  \E executable \in Executable \ Range(Names(panel.settings)) :
    LET profile == [executable |-> executable, motion |-> 0]
        settings == [panel.settings EXCEPT !.profiles = Append(@, profile)]
    IN /\ Edit(settings)
       /\ screen' = WithEditor([WithLists(screen, settings) EXCEPT
                                  !.profileAt = Len(settings.profiles)], settings)

RemoveProfile ==
  /\ screen.profileAt \in DOMAIN panel.settings.profiles
  /\ LET settings == [panel.settings EXCEPT !.profiles = RemoveAt(@, screen.profileAt)]
     IN Edit(settings) /\ screen' = WithLists(screen, settings)

UpdateProfileFromEditor ==
  /\ screen.profileAt \in DOMAIN panel.settings.profiles
  /\ \E motion \in {0, 1} :
       LET settings == [panel.settings EXCEPT !.profiles[screen.profileAt].motion = motion]
       IN Edit(settings) /\ screen' = WithEditor(screen, settings)

\* LBN_SELCHANGE of either list.
Select ==
  /\ Acts
  /\ \/ \E i \in DOMAIN screen.profiles :
          screen' = WithEditor([screen EXCEPT !.profileAt = i], panel.settings)
     \/ \E i \in DOMAIN screen.excluded : screen' = [screen EXCEPT !.excludedAt = i]
  /\ UNCHANGED <<outside, request, panel, ui, unsynced>>

\* DiagnosticsStart sets the timer whether the engine could be started or not.
StartEngineClicked ==
  /\ Acts /\ StartSiblingEngine
  /\ ui' = [ui EXCEPT !.attempts = 0, !.polling = TRUE]
  /\ UNCHANGED <<file, late, copy, overtaken, request, screen, unsynced>>

\* The button, or the page when it is shown: only the diagnostics are shown again.
DiagnosticsRefresh ==
  /\ ui.open /\ ~ui.connect /\ ~Waiting
  /\ \/ Refreshed /\ unsynced' = TRUE
     \/ RefreshFails /\ UNCHANGED unsynced
  /\ UNCHANGED <<outside, request, screen, ui, bounds>>

\* WM_DESTROY kills both timers: a pending edit is not applied.
ClosePanel ==
  /\ ui.open /\ ~ui.connect /\ ~Waiting
  /\ panel' = ClosedPanel /\ screen' = Blank /\ ui' = ClosedUi /\ unsynced' = FALSE
  /\ UNCHANGED <<outside, request, bounds>>

-----------------------------------------------------------------------------
(* The engine.                                                              *)

WindowStays == UNCHANGED <<panel, screen, ui, unsynced>>
EngineOnly == WindowStays /\ UNCHANGED request

\* Started by Windows or by the user.
EngineCreated ==
  /\ engine.state = "absent"
  /\ engine' = [engine EXCEPT !.state = "created"]
  /\ EngineOnly /\ UNCHANGED <<file, late, copy, overtaken, bounds>>

\* SettingsStore::Load, some time before the pipe is there.
EngineLoads ==
  /\ engine.state = "created"
  /\ engine' = [state |-> "loaded", settings |-> file]
  /\ EngineOnly /\ UNCHANGED <<file, late, copy, overtaken, bounds>>

PipeUp ==
  /\ engine.state = "loaded"
  /\ engine' = [engine EXCEPT !.state = "running"]
  /\ EngineOnly /\ UNCHANGED <<file, late, copy, overtaken, bounds>>

\* The hot key: all the settings in use are copied, the lock is not taken yet.
ToggleCopies ==
  /\ engine.state = "running" /\ copy = None /\ bounds.toggles < MaxToggles
  /\ copy' = [settings |-> [engine.settings EXCEPT !.control = ~@], old |-> FALSE]
  /\ bounds' = [bounds EXCEPT !.toggles = @ + 1]
  /\ EngineOnly /\ UNCHANGED <<file, engine, late, overtaken>>

\* ApplySettings: saved and in use.
Saves(settings) ==
  /\ engine' = [engine EXCEPT !.settings = settings]
  /\ file' = settings

SaveFails == UNCHANGED <<engine, file>>

\* The copy is saved whole, over whatever was applied since it was taken.
ToggleSaves ==
  /\ copy # None /\ copy' = None
  /\ \/ Saves(copy.settings) /\ overtaken' = (overtaken \/ copy.old)
     \/ SaveFails /\ UNCHANGED overtaken
  /\ EngineOnly /\ UNCHANGED <<late, bounds>>

\* A request is saved, which leaves a toggle under way with an old copy.
Carries(settings) ==
  /\ Saves(settings)
  /\ copy' = IF copy = None THEN None ELSE [copy EXCEPT !.old = TRUE]
  /\ overtaken' = FALSE

\* The request the window waits for.
CarryOut ==
  /\ Waiting /\ request.stage = "sent"
  /\ \/ Carries(request.settings) /\ request' = [request EXCEPT !.stage = "carried"]
     \/ /\ SaveFails /\ UNCHANGED <<copy, overtaken>>
        /\ request' = [request EXCEPT !.stage = "refused"]
  /\ WindowStays /\ UNCHANGED <<late, bounds>>

\* The late request is carried out, or its save fails; nobody reads the answer.
LateRequest ==
  /\ late # None /\ late' = None
  /\ \/ Carries(late)
     \/ SaveFails /\ UNCHANGED <<copy, overtaken>>
  /\ EngineOnly /\ UNCHANGED bounds

EngineEnds ==
  /\ engine.state # "absent"
  /\ engine' = [state |-> "absent", settings |-> Default]
  /\ late' = None /\ copy' = None
  /\ request' = IF Waiting THEN [request EXCEPT !.stage = "refused"] ELSE None
  /\ WindowStays /\ UNCHANGED <<file, overtaken, bounds>>

Next ==
  \/ OpenPanel \/ BeginEngineConnection \/ PollEngineConnection
  \/ ApplyPendingChanges \/ AnswerArrives \/ GiveUp
  \/ ChangeControl \/ ApplyPreset \/ ChangeLanguage
  \/ AddExcludedApplication \/ RemoveExcludedApplication
  \/ AddProfile \/ RemoveProfile \/ UpdateProfileFromEditor \/ Select
  \/ StartEngineClicked \/ DiagnosticsRefresh \/ ClosePanel
  \/ EngineCreated \/ EngineLoads \/ PipeUp \/ EngineEnds
  \/ ToggleCopies \/ ToggleSaves \/ CarryOut \/ LateRequest

Spec == Init /\ [][Next]_vars

\* Timers fire, posted messages are dispatched and a request is answered or times out;
\* the user and the engine promise nothing.
FairSpec ==
  /\ Spec
  /\ WF_vars(BeginEngineConnection) /\ WF_vars(PollEngineConnection)
  /\ WF_vars(ApplyPendingChanges) /\ WF_vars(AnswerArrives \/ GiveUp)

-----------------------------------------------------------------------------
(* The screen tells the truth: the controls and lists show the panel's settings *)
(* and the editor the selected profile, through additions that sort, removals   *)
(* that shift, and an apply whose answer replaces the settings and fills no     *)
(* list (main_window.cpp:1286, 1458, 1656, 1706).  Otherwise Remove and the     *)
(* editor would hit another rule.  Two events suspend it until the lists are    *)
(* filled from the engine: the diagnostics page has replaced the settings, or a *)
(* toggle has saved an old copy before the answer was put together.             *)
ScreenTrue ==
  ui.open /\ ~unsynced =>
    /\ screen.control = panel.settings.control
    /\ screen.excluded = panel.settings.excluded
    /\ screen.profiles = Names(panel.settings)
    /\ screen.editor = SelectedProfile(panel.settings, screen.profileAt)

(* As long as the panel says "Applied to engine" the rules it has are those in  *)
(* the file: no older request that timed out, no restart of the engine, no      *)
(* toggle that copied the settings after the apply and no answer that tells of   *)
(* other settings takes them back (settings_client.cpp:233, 496).  A toggle that *)
(* copied them before does (engine_app.cpp:350; SettingsPlane, TogglesOnly).     *)
AppliedStaysSaved ==
  ui.open /\ panel.status = "Applied" /\ ~overtaken =>
    /\ file.excluded = panel.settings.excluded
    /\ file.profiles = panel.settings.profiles

(* The window comes to rest: an edit is handed on, its answer is not waited for  *)
(* for ever, and the search for an engine ends, with an engine or without        *)
(* (main_window.cpp:1458, 1488).                                                *)
ComesToRest == []<>(~ui.connect /\ ~ui.pending /\ ~ui.polling /\ ~Waiting)

(* "The control panel saves automatically" (docs/configuration.md:5): an edit   *)
(* that waits for its timer is not replaced by anything but a further edit.     *)
PendingEditsKept ==
  [][ui.pending /\ ui'.pending /\ bounds'.edits = bounds.edits
       => panel'.settings = panel.settings]_vars
=============================================================================

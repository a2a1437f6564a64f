------------------------- MODULE ControlPanelProofs -------------------------
(***************************************************************************)
(* The control panel beside the engine, for any applications, rules and     *)
(* length of run.  ScreenTrue is inductive with the shapes of the records    *)
(* alone.  AppliedStaysSaved is not: that "Applied" stays true rests on      *)
(* AppliedHolds, that no edit waits and no request is on its way then and    *)
(* that an engine which could save runs the same rules, and on RequestHolds, *)
(* that an answer tells what is in the file and that a toggle whose copy is   *)
(* not old has the rules in use.                                            *)
(***************************************************************************)
EXTENDS ControlPanel, TLAPS

\* Settings: one record, profiles that have a name and a motion.
IsSettings(s) ==
  /\ s = [control |-> s.control, excluded |-> s.excluded, profiles |-> s.profiles]
  /\ s.control \in BOOLEAN /\ s.profiles \in Seq(Profile)

SettingsShaped ==
  /\ IsSettings(file) /\ IsSettings(panel.settings) /\ IsSettings(engine.settings)
  /\ late # None => IsSettings(late)
  /\ copy # None =>
       copy = [settings |-> copy.settings, old |-> copy.old] /\ IsSettings(copy.settings)
  /\ request # None =>
       /\ request = [settings |-> request.settings, stage |-> request.stage]
       /\ IsSettings(request.settings)

\* The screen shows settings.
Shows(shown, settings) ==
  /\ shown.control = settings.control /\ shown.excluded = settings.excluded
  /\ shown.profiles = Names(settings)
  /\ shown.editor = SelectedProfile(settings, shown.profileAt)

\* A record of what the controls hold.
IsScreen(shown) ==
  /\ shown = [control |-> shown.control, excluded |-> shown.excluded,
              excludedAt |-> shown.excludedAt, profiles |-> shown.profiles,
              profileAt |-> shown.profileAt, editor |-> shown.editor]
  /\ shown.control \in BOOLEAN

Shaped ==
  /\ panel = [settings |-> panel.settings, status |-> panel.status]
  /\ engine = [state |-> engine.state, settings |-> engine.settings]
  /\ ui = [open |-> ui.open, connect |-> ui.connect, pending |-> ui.pending,
           polling |-> ui.polling, attempts |-> ui.attempts]
  /\ IsScreen(screen)
  /\ ui.open \in BOOLEAN /\ overtaken \in BOOLEAN /\ unsynced \in BOOLEAN

SameRules(s, t) == s.excluded = t.excluded /\ s.profiles = t.profiles

\* What "Applied" rests on.
AppliedHolds ==
  ui.open /\ panel.status = "Applied" =>
    /\ ~ui.pending /\ late = None /\ request = None
    /\ ~overtaken =>
         /\ SameRules(file, panel.settings)
         /\ engine.state \in {"loaded", "running"} => SameRules(engine.settings, panel.settings)

\* What the engine is about to save or to answer.
RequestHolds ==
  /\ request # None => late = None /\ ~ui.pending /\ request.settings = panel.settings
  /\ request # None /\ request.stage = "carried" =>
       file = engine.settings /\ (~overtaken => SameRules(engine.settings, request.settings))
  /\ copy # None => engine.state = "running"
  /\ copy # None /\ ~copy.old => SameRules(copy.settings, engine.settings)

IInv == SettingsShaped /\ Shaped /\ ScreenTrue /\ AppliedHolds /\ RequestHolds

-----------------------------------------------------------------------------
(* What the functions that fill the controls leave behind.                  *)

LEMMA ControlsShow ==
  ASSUME NEW shown, NEW s, IsScreen(shown), IsSettings(s)
  PROVE  /\ IsScreen(WithControls(shown, s)) /\ WithControls(shown, s).control = s.control
         /\ WithControls(shown, s).excluded = shown.excluded
         /\ WithControls(shown, s).profiles = shown.profiles
         /\ WithControls(shown, s).profileAt = shown.profileAt
         /\ WithControls(shown, s).editor = shown.editor
BY DEF IsScreen, IsSettings, WithControls

LEMMA EditorShows ==
  ASSUME NEW shown, NEW s, IsScreen(shown)
  PROVE  /\ IsScreen(WithEditor(shown, s))
         /\ WithEditor(shown, s).control = shown.control
         /\ WithEditor(shown, s).excluded = shown.excluded
         /\ WithEditor(shown, s).profiles = shown.profiles
         /\ WithEditor(shown, s).profileAt = shown.profileAt
         /\ WithEditor(shown, s).editor = SelectedProfile(s, shown.profileAt)
BY DEF IsScreen, WithEditor

LEMMA ListsShow ==
  ASSUME NEW shown, NEW s, IsScreen(shown)
  PROVE  /\ IsScreen(WithLists(shown, s))
         /\ WithLists(shown, s).control = shown.control
         /\ WithLists(shown, s).excluded = s.excluded
         /\ WithLists(shown, s).profiles = Names(s)
         /\ WithLists(shown, s).editor = SelectedProfile(s, WithLists(shown, s).profileAt)
<1> DEFINE one == [shown EXCEPT !.excluded = s.excluded]
           two == [one EXCEPT !.excludedAt = Clamped(shown.excludedAt, Len(s.excluded))]
           three == [two EXCEPT !.profiles = Names(s)]
           filled == [three EXCEPT !.profileAt = Clamped(shown.profileAt, Len(s.profiles))]
<1>1. /\ IsScreen(one) /\ one.control = shown.control /\ one.excluded = s.excluded
      /\ one.excludedAt = shown.excludedAt /\ one.profileAt = shown.profileAt
  BY DEF IsScreen
<1>2. WithLists(shown, s) = WithEditor(filled, s)
  BY <1>1 DEF WithLists
<1> HIDE DEF one
<1>3. /\ IsScreen(two) /\ two.control = shown.control /\ two.excluded = s.excluded
      /\ two.profileAt = shown.profileAt
  BY <1>1 DEF IsScreen
<1> HIDE DEF two
<1>4. /\ IsScreen(three) /\ three.control = shown.control /\ three.excluded = s.excluded
      /\ three.profiles = Names(s)
  BY <1>3 DEF IsScreen
<1> HIDE DEF three
<1>5. /\ IsScreen(filled) /\ filled.control = shown.control /\ filled.excluded = s.excluded
      /\ filled.profiles = Names(s)
  BY <1>4 DEF IsScreen
<1> HIDE DEF filled
<1>6. QED
  BY <1>2, <1>5, EditorShows

\* SyncAllControls shows everything, whatever was shown.
LEMMA AllShows ==
  ASSUME NEW shown, NEW s, IsScreen(shown), IsSettings(s)
  PROVE  IsScreen(SyncAllControls(shown, s)) /\ Shows(SyncAllControls(shown, s), s)
<1> DEFINE half == WithControls(shown, s)
<1>1. IsScreen(half) /\ half.control = s.control
  BY ControlsShow
<1> HIDE DEF half
<1>2. QED
  BY <1>1, ListsShow DEF SyncAllControls, Shows, half

-----------------------------------------------------------------------------
LEMMA InitIInv == Init => IInv
<1> SUFFICES ASSUME Init PROVE IInv
  OBVIOUS
<1>1. IsSettings(Default)
  <2>1. <<>> \in Seq(Profile)
    OBVIOUS
  <2>2. QED
    BY <2>1 DEF IsSettings, Default
<1>2. IsSettings(file)
  BY StoredAssumption DEF Init, IsSettings, Settings
<1>3. SettingsShaped
  BY <1>1, <1>2 DEF Init, SettingsShaped, ClosedPanel
<1>4. Shaped
  BY DEF Init, Shaped, IsScreen, ClosedPanel, ClosedUi, Blank
<1>5. QED
  BY <1>3, <1>4 DEF Init, IInv, ScreenTrue, AppliedHolds, RequestHolds, ClosedUi

\* The settings the user's edits make.
LEMMA EditedSettings ==
  ASSUME NEW s, IsSettings(s)
  PROVE  /\ \A value \in BOOLEAN :
              /\ IsSettings([s EXCEPT !.control = value])
              /\ [s EXCEPT !.control = value].control = value
              /\ SameRules([s EXCEPT !.control = value], s)
         /\ \A values :
              /\ IsSettings([s EXCEPT !.excluded = values])
              /\ [s EXCEPT !.excluded = values].control = s.control
         /\ \A profiles \in Seq(Profile) :
              /\ IsSettings([s EXCEPT !.profiles = profiles])
              /\ [s EXCEPT !.profiles = profiles].control = s.control
              /\ [s EXCEPT !.profiles = profiles].excluded = s.excluded
              /\ [s EXCEPT !.profiles = profiles].profiles = profiles
BY DEF IsSettings, SameRules

-----------------------------------------------------------------------------
(* The steps.                                                               *)

\* What is on the screen is what the panel has, once it is known to show it.
LEMMA StillTrue ==
  /\ ScreenTrue <=> (ui.open /\ ~unsynced => Shows(screen, panel.settings))
  /\ ScreenTrue' <=> (ui'.open /\ ~unsynced' => Shows(screen', panel'.settings))
BY DEF ScreenTrue, Shows

\* A status other than "Applied" promises nothing.
LEMMA Settled ==
  ASSUME panel'.status # "Applied"
  PROVE  AppliedHolds'
BY DEF AppliedHolds

\* A step that leaves the engine, its file and the requests alone.
LEMMA PanelStep ==
  ASSUME IInv, UNCHANGED <<file, engine, late, copy, overtaken, request>>, request = None,
         NEW s, NEW status, panel' = [settings |-> s, status |-> status],
         IsSettings(s), status # "Applied",
         ui' = [open |-> ui'.open, connect |-> ui'.connect, pending |-> ui'.pending,
                polling |-> ui'.polling, attempts |-> ui'.attempts],
         ui'.open \in BOOLEAN, unsynced' \in BOOLEAN, IsScreen(screen'),
         ui'.open /\ ~unsynced' => Shows(screen', s)
  PROVE  IInv'
<1>1. panel'.settings = s /\ panel'.status = status
  OBVIOUS
<1>2. SettingsShaped'
  BY <1>1 DEF IInv, SettingsShaped, IsSettings
<1>3. Shaped'
  BY <1>1 DEF IInv, Shaped, IsScreen
<1>4. ScreenTrue' /\ AppliedHolds'
  BY <1>1, StillTrue, Settled
<1>5. RequestHolds'
  BY DEF IInv, RequestHolds, SameRules
<1>6. QED
  BY <1>2, <1>3, <1>4, <1>5 DEF IInv

\* An edit, with what it leaves on the screen.
LEMMA EditStep ==
  ASSUME IInv, NEW s, IsSettings(s), Edit(s), IsScreen(screen'),
         ~unsynced => Shows(screen', s)
  PROVE  IInv'
<1>1. /\ UNCHANGED <<file, engine, late, copy, overtaken, request, unsynced>>
      /\ ui.open /\ request = None
      /\ panel' = [settings |-> s, status |-> "Saving"]
      /\ ui' = [ui EXCEPT !.pending = TRUE]
  BY DEF Edit, Acts, Waiting, outside
<1>2. /\ ui' = [open |-> ui'.open, connect |-> ui'.connect, pending |-> ui'.pending,
                polling |-> ui'.polling, attempts |-> ui'.attempts]
      /\ ui'.open = ui.open /\ ui.open \in BOOLEAN /\ unsynced \in BOOLEAN
  BY <1>1 DEF IInv, Shaped
<1>3. QED
  BY <1>1, <1>2, PanelStep

\* The answer of the engine.
LEMMA RefreshedIs ==
  ASSUME IInv, Refreshed
  PROVE  /\ panel' = [settings |-> engine.settings, status |-> "Connected"]
         /\ IsSettings(engine.settings)
BY DEF IInv, SettingsShaped, Refreshed

\* Whether an engine is started or not, nobody's settings change.
LEMMA StartIs ==
  ASSUME IInv, StartSiblingEngine
  PROVE  /\ panel'.settings = panel.settings /\ panel'.status # "Applied"
         /\ panel' = [settings |-> panel'.settings, status |-> panel'.status]
         /\ engine' = [state |-> engine'.state, settings |-> engine'.settings]
         /\ engine'.settings = engine.settings
         /\ engine.state = "running" => engine'.state = "running"
<1>1. /\ panel = [settings |-> panel.settings, status |-> panel.status]
      /\ engine = [state |-> engine.state, settings |-> engine.settings]
  BY DEF IInv, Shaped
<1>2. CASE /\ engine' = IF engine.state = "absent" THEN [engine EXCEPT !.state = "created"] ELSE engine
           /\ panel' = [panel EXCEPT !.status = "WaitingForEngine"]
  <2>1. panel' = [settings |-> panel.settings, status |-> "WaitingForEngine"]
    BY <1>1, <1>2
  <2>2. engine' = [state |-> IF engine.state = "absent" THEN "created" ELSE engine.state,
                   settings |-> engine.settings]
    BY <1>1, <1>2
  <2>3. QED
    BY <2>1, <2>2
<1>3. CASE panel' = [panel EXCEPT !.status = "UnableToStart"] /\ engine' = engine
  <2>1. panel' = [settings |-> panel.settings, status |-> "UnableToStart"]
    BY <1>1, <1>3
  <2>2. QED
    BY <1>1, <1>3, <2>1
<1>4. QED
  BY <1>2, <1>3 DEF StartSiblingEngine

\* A start of the engine, with what the window and its screen do.
LEMMA StartStep ==
  ASSUME IInv, StartSiblingEngine,
         UNCHANGED <<file, late, copy, overtaken, request, screen, unsynced>>, request = None,
         ui' = [open |-> ui'.open, connect |-> ui'.connect, pending |-> ui'.pending,
                polling |-> ui'.polling, attempts |-> ui'.attempts],
         ui'.open = ui.open
  PROVE  IInv'
<1>1. /\ panel'.settings = panel.settings /\ panel'.status # "Applied"
      /\ panel' = [settings |-> panel'.settings, status |-> panel'.status]
      /\ engine' = [state |-> engine'.state, settings |-> engine'.settings]
      /\ engine'.settings = engine.settings
      /\ engine.state = "running" => engine'.state = "running"
  BY StartIs
<1>2. SettingsShaped'
  BY <1>1 DEF IInv, SettingsShaped, IsSettings
<1>3. Shaped'
  BY <1>1 DEF IInv, Shaped, IsScreen
<1>4. ScreenTrue' /\ AppliedHolds'
  BY <1>1, StillTrue, Settled DEF IInv
<1>5. RequestHolds'
  BY <1>1 DEF IInv, RequestHolds, SameRules
<1>6. QED
  BY <1>2, <1>3, <1>4, <1>5 DEF IInv

-----------------------------------------------------------------------------
LEMMA MessagesIInv ==
  ASSUME IInv,
         OpenPanel \/ BeginEngineConnection \/ PollEngineConnection
  PROVE  IInv'
<1>t. /\ IsScreen(screen) /\ IsScreen(Blank)
      /\ IsSettings(file) /\ IsSettings(Default)
      /\ IsSettings(panel.settings) /\ IsSettings(engine.settings)
      /\ ui = [open |-> ui.open, connect |-> ui.connect, pending |-> ui.pending,
               polling |-> ui.polling, attempts |-> ui.attempts]
      /\ panel = [settings |-> panel.settings, status |-> panel.status]
      /\ engine = [state |-> engine.state, settings |-> engine.settings]
      /\ ui.open \in BOOLEAN /\ unsynced \in BOOLEAN
  <2>1. <<>> \in Seq(Profile)
    OBVIOUS
  <2>2. IsSettings(Default)
    BY <2>1 DEF IsSettings, Default
  <2>3. IsScreen(Blank)
    BY DEF IsScreen, Blank
  <2>4. QED
    BY <2>2, <2>3 DEF IInv, Shaped, SettingsShaped
<1>r. ASSUME Refreshed PROVE /\ panel' = [settings |-> engine.settings, status |-> "Connected"]
                             /\ IsScreen(SyncAllControls(screen, engine.settings))
                             /\ Shows(SyncAllControls(screen, engine.settings), engine.settings)
  BY <1>r, <1>t, RefreshedIs, AllShows
<1>1. CASE OpenPanel
  <2>1. PICK s \in {file, Default} :
          /\ panel' = [settings |-> s, status |-> "Connecting"]
          /\ screen' = SyncAllControls(Blank, s)
    BY <1>1 DEF OpenPanel
  <2>2. IsSettings(s)
    BY <1>t
  <2>3. IsScreen(screen') /\ Shows(screen', s)
    BY <1>t, <2>1, <2>2, AllShows
  <2>4. /\ ui' = [ClosedUi EXCEPT !.open = TRUE, !.connect = TRUE]
        /\ UNCHANGED <<file, engine, late, copy, overtaken, request, unsynced>>
        /\ request = None
    BY <1>1 DEF OpenPanel, Waiting, outside
  <2>5. /\ ui' = [open |-> ui'.open, connect |-> ui'.connect, pending |-> ui'.pending,
                  polling |-> ui'.polling, attempts |-> ui'.attempts]
        /\ ui'.open \in BOOLEAN
    BY <2>4 DEF ClosedUi
  <2>6. QED
    BY <1>t, <2>1, <2>2, <2>3, <2>4, <2>5, PanelStep
<1>2. CASE BeginEngineConnection
  <2>1. CASE /\ Refreshed
             /\ screen' = SyncAllControls(screen, engine.settings)
             /\ ui' = [ui EXCEPT !.connect = FALSE]
             /\ UNCHANGED engine
    <3>1. UNCHANGED <<file, late, copy, overtaken, request, unsynced>> /\ request = None
      BY <1>2 DEF BeginEngineConnection, Waiting
    <3>2. /\ ui' = [open |-> ui'.open, connect |-> ui'.connect, pending |-> ui'.pending,
                    polling |-> ui'.polling, attempts |-> ui'.attempts]
          /\ ui'.open \in BOOLEAN
      BY <1>t, <2>1
    <3>3. QED
      BY <1>r, <1>t, <2>1, <3>1, <3>2, PanelStep
  <2>2. CASE /\ StartSiblingEngine
             /\ ui' = [ui EXCEPT !.connect = FALSE, !.polling = TRUE]
             /\ UNCHANGED screen
    <3>1. UNCHANGED <<file, late, copy, overtaken, request, unsynced>> /\ request = None
      BY <1>2 DEF BeginEngineConnection, Waiting
    <3>2. /\ ui' = [open |-> ui'.open, connect |-> ui'.connect, pending |-> ui'.pending,
                    polling |-> ui'.polling, attempts |-> ui'.attempts]
          /\ ui'.open = ui.open
      BY <1>t, <2>2
    <3>3. QED
      BY <2>2, <3>1, <3>2, StartStep
  <2>3. QED
    BY <1>2, <2>1, <2>2 DEF BeginEngineConnection
<1>3. CASE PollEngineConnection
  <2>1. UNCHANGED <<file, engine, late, copy, overtaken, request>> /\ request = None
    BY <1>3 DEF PollEngineConnection, Waiting, outside
  <2>2. CASE /\ Refreshed
             /\ screen' = SyncAllControls(screen, engine.settings)
             /\ unsynced' = FALSE
             /\ ui' = [ui EXCEPT !.polling = FALSE, !.attempts = 0]
    <3>1. /\ ui' = [open |-> ui'.open, connect |-> ui'.connect, pending |-> ui'.pending,
                    polling |-> ui'.polling, attempts |-> ui'.attempts]
          /\ ui'.open \in BOOLEAN
      BY <1>t, <2>2
    <3>2. QED
      BY <1>r, <1>t, <2>1, <2>2, <3>1, PanelStep
  <2>3. ASSUME NEW status, status # "Applied", panel' = [panel EXCEPT !.status = status],
               UNCHANGED <<screen, unsynced>>, NEW polling, NEW attempts,
               ui' = [ui EXCEPT !.polling = polling, !.attempts = attempts]
        PROVE  IInv'
    <3>1. /\ ui' = [open |-> ui'.open, connect |-> ui'.connect, pending |-> ui'.pending,
                    polling |-> ui'.polling, attempts |-> ui'.attempts]
          /\ ui'.open = ui.open
      BY <1>t, <2>3
    <3>2. panel' = [settings |-> panel.settings, status |-> status]
      BY <1>t, <2>3
    <3>3. ui.open /\ ~unsynced => Shows(screen, panel.settings)
      BY StillTrue DEF IInv
    <3>4. QED
      BY <1>t, <2>1, <2>3, <3>1, <3>2, <3>3, PanelStep
  <2>4. CASE /\ RefreshFails
             /\ ui' = [ui EXCEPT !.attempts = @ + 1]
             /\ UNCHANGED <<screen, unsynced>>
    <3>1. ui' = [ui EXCEPT !.polling = ui.polling, !.attempts = ui.attempts + 1]
      BY <1>t, <2>4
    <3>2. QED
      BY <2>3, <2>4, <3>1 DEF RefreshFails
  <2>5. CASE /\ panel' = [panel EXCEPT !.status = "OfflineLocal"]
             /\ ui' = [ui EXCEPT !.polling = FALSE, !.attempts = 0]
             /\ UNCHANGED <<screen, unsynced>>
    BY <2>3, <2>5
  <2>6. QED
    BY <1>3, <2>2, <2>4, <2>5 DEF PollEngineConnection
<1>4. QED
  BY <1>1, <1>2, <1>3

-----------------------------------------------------------------------------
(* The apply, and the user's actions.                                       *)

\* What the user has in front of him.
LEMMA Before ==
  ASSUME IInv
  PROVE  /\ IsScreen(screen) /\ IsSettings(panel.settings)
         /\ panel = [settings |-> panel.settings, status |-> panel.status]
         /\ ui = [open |-> ui.open, connect |-> ui.connect, pending |-> ui.pending,
                  polling |-> ui.polling, attempts |-> ui.attempts]
         /\ ui.open \in BOOLEAN /\ unsynced \in BOOLEAN
         /\ ui.open /\ ~unsynced => Shows(screen, panel.settings)
BY StillTrue DEF IInv, Shaped, SettingsShaped

\* A save without an answer, with what the window does of its own.
LEMMA FallBackStep ==
  ASSUME IInv, FallsBack, late' # None => IsSettings(late'),
         request' = None,
         ui' = [open |-> ui'.open, connect |-> ui'.connect, pending |-> ui'.pending,
                polling |-> ui'.polling, attempts |-> ui'.attempts],
         ui'.open = ui.open
  PROVE  IInv'
<1>1. /\ IsScreen(screen) /\ IsSettings(panel.settings)
      /\ panel = [settings |-> panel.settings, status |-> panel.status]
      /\ ui.open /\ ~unsynced => Shows(screen, panel.settings)
  BY Before
<1>2. /\ file' \in {file, panel.settings} /\ UNCHANGED <<engine, copy, overtaken, unsynced>>
      /\ panel' \in {[settings |-> panel.settings, status |-> "SavedOffline"],
                    [settings |-> panel.settings, status |-> "SaveFailed"]}
      /\ screen' = WithControls(screen, panel.settings)
  BY <1>1 DEF FallsBack
<1>3. panel'.settings = panel.settings /\ panel'.status # "Applied" /\ request' = None
  BY <1>2
<1>4. /\ IsScreen(screen') /\ screen'.control = panel.settings.control
      /\ screen'.excluded = screen.excluded /\ screen'.profiles = screen.profiles
      /\ screen'.profileAt = screen.profileAt /\ screen'.editor = screen.editor
  BY <1>1, <1>2, ControlsShow
<1>5. SettingsShaped'
  <2>1. IsSettings(file)' /\ IsSettings(panel.settings)' /\ IsSettings(engine.settings)'
    BY <1>2, <1>3 DEF IInv, SettingsShaped, IsSettings
  <2>2. QED
    BY <1>2, <1>3, <2>1 DEF IInv, SettingsShaped, IsSettings
<1>6. Shaped'
  BY <1>2, <1>4 DEF IInv, Shaped, IsScreen
<1>7. ScreenTrue' /\ AppliedHolds'
  BY <1>1, <1>2, <1>3, <1>4, StillTrue, Settled DEF Shows
<1>8. RequestHolds'
  BY <1>2, <1>3 DEF IInv, RequestHolds, SameRules
<1>9. QED
  BY <1>5, <1>6, <1>7, <1>8 DEF IInv

\* The apply: sent, answered or given up.
LEMMA ApplyIInv ==
  ASSUME IInv, ApplyPendingChanges \/ AnswerArrives \/ GiveUp
  PROVE  IInv'
<1>0. /\ IsScreen(screen) /\ IsSettings(panel.settings) /\ IsSettings(engine.settings)
      /\ ui = [open |-> ui.open, connect |-> ui.connect, pending |-> ui.pending,
               polling |-> ui.polling, attempts |-> ui.attempts]
      /\ ui.open \in BOOLEAN /\ unsynced \in BOOLEAN /\ overtaken \in BOOLEAN
      /\ ui.open /\ ~unsynced => Shows(screen, panel.settings)
  BY Before DEF IInv, Shaped, SettingsShaped
<1>1. CASE ApplyPendingChanges
  <2>1. /\ ui' = [open |-> ui'.open, connect |-> ui'.connect, pending |-> ui'.pending,
                  polling |-> ui'.polling, attempts |-> ui'.attempts]
        /\ ui'.open = ui.open /\ ~ui'.pending
    BY <1>0, <1>1 DEF ApplyPendingChanges
  <2>2. CASE /\ Answers
             /\ request' = [settings |-> panel.settings, stage |-> "sent"]
             /\ UNCHANGED <<outside, panel, screen, unsynced, bounds>>
    <3>1. /\ UNCHANGED <<file, engine, late, copy, overtaken, panel, screen, unsynced>>
          /\ late = None /\ ui.pending
      BY <1>1, <2>2 DEF outside, Answers, ApplyPendingChanges
    <3>2. /\ request' = [settings |-> request'.settings, stage |-> request'.stage]
          /\ request'.settings = panel.settings /\ request'.stage # "carried"
      BY <2>2
    <3>3. SettingsShaped'
      BY <1>0, <3>1, <3>2 DEF IInv, SettingsShaped, IsSettings
    <3>4. Shaped'
      BY <2>1, <3>1 DEF IInv, Shaped, IsScreen
    <3>5. ScreenTrue' /\ AppliedHolds'
      BY <1>0, <2>1, <3>1, StillTrue DEF IInv, AppliedHolds
    <3>6. RequestHolds'
      BY <2>1, <3>1, <3>2 DEF IInv, RequestHolds, SameRules
    <3>7. QED
      BY <3>3, <3>4, <3>5, <3>6 DEF IInv
  <2>3. CASE FallsBack /\ UNCHANGED <<late, request>>
    <3>1. (late' # None => IsSettings(late')) /\ request' = None
      BY <1>1, <2>3 DEF IInv, SettingsShaped, IsSettings, ApplyPendingChanges, Waiting
    <3>2. QED
      BY <2>1, <2>3, <3>1, FallBackStep
  <2>4. QED
    BY <1>1, <2>2, <2>3 DEF ApplyPendingChanges
<1>2. CASE AnswerArrives
  <2>1. /\ request # None /\ request.stage = "carried" /\ request' = None
        /\ panel' = [settings |-> engine.settings, status |-> "Applied"]
        /\ screen' = WithControls(screen, engine.settings)
        /\ unsynced' = (unsynced \/ overtaken) /\ overtaken' = FALSE
        /\ UNCHANGED <<file, engine, late, copy, ui>>
    BY <1>2 DEF AnswerArrives, Waiting
  <2>2. panel'.settings = engine.settings /\ file = engine.settings /\ late = None /\ ~ui.pending
    BY <2>1 DEF IInv, RequestHolds
  <2>3. /\ IsScreen(screen') /\ screen'.control = engine.settings.control
        /\ screen'.excluded = screen.excluded /\ screen'.profiles = screen.profiles
        /\ screen'.profileAt = screen.profileAt /\ screen'.editor = screen.editor
    BY <1>0, <2>1, ControlsShow
  <2>4. SettingsShaped'
    BY <2>1, <2>2 DEF IInv, SettingsShaped, IsSettings
  <2>5. Shaped'
    BY <1>0, <2>1, <2>3 DEF IInv, Shaped, IsScreen
  <2>6. ScreenTrue'
    <3>1. ASSUME ui.open, ~unsynced' PROVE Shows(screen', engine.settings)
      <4>1. ~unsynced /\ ~overtaken
        BY <1>0, <2>1, <3>1
      <4>2. Shows(screen, panel.settings) /\ SameRules(engine.settings, panel.settings)
        BY <1>0, <2>1, <3>1, <4>1 DEF IInv, RequestHolds
      <4>3. QED
        BY <2>3, <4>2 DEF Shows, SameRules, Names, SelectedProfile
    <3>2. QED
      BY <2>1, <2>2, <3>1, StillTrue
  <2>7. AppliedHolds' /\ RequestHolds'
    BY <2>1, <2>2 DEF IInv, AppliedHolds, RequestHolds, SameRules
  <2>8. QED
    BY <2>4, <2>5, <2>6, <2>7 DEF IInv
<1>3. CASE GiveUp
  <2>1. /\ FallsBack /\ request # None /\ request' = None /\ ui' = ui
        /\ late' = late \/ late' = request.settings
    BY <1>3 DEF GiveUp, Waiting
  <2>2. late' # None => IsSettings(late')
    BY <2>1 DEF IInv, SettingsShaped, IsSettings
  <2>3. QED
    BY <1>0, <2>1, <2>2, FallBackStep
<1>4. QED
  BY <1>1, <1>2, <1>3

\* Lists filled again show everything when the controls were right.
LEMMA ListsEdit ==
  ASSUME IInv, ui.open, NEW s, IsSettings(s), s.control = panel.settings.control
  PROVE  /\ IsScreen(WithLists(screen, s))
         /\ ~unsynced => Shows(WithLists(screen, s), s)
<1>1. IsScreen(screen) /\ (~unsynced => screen.control = s.control)
  BY Before DEF Shows
<1>2. QED
  BY <1>1, ListsShow DEF Shows

LEMMA ControlEdits ==
  ASSUME IInv, ChangeControl \/ ApplyPreset \/ ChangeLanguage
  PROVE  IInv'
<1>0. /\ IsScreen(screen) /\ IsSettings(panel.settings)
      /\ ui.open /\ ~unsynced => Shows(screen, panel.settings)
  BY Before
<1>1. ASSUME NEW value \in BOOLEAN, Edit([panel.settings EXCEPT !.control = value]),
             screen' = [screen EXCEPT !.control = value]
      PROVE  IInv'
  <2> DEFINE s == [panel.settings EXCEPT !.control = value]
  <2>1. IsSettings(s) /\ s.control = value /\ SameRules(s, panel.settings)
    BY <1>0, EditedSettings
  <2>2. /\ IsScreen(screen') /\ screen'.control = value
        /\ screen'.excluded = screen.excluded /\ screen'.profiles = screen.profiles
        /\ screen'.profileAt = screen.profileAt /\ screen'.editor = screen.editor
    BY <1>0, <1>1 DEF IsScreen
  <2>3. Edit(s) /\ ui.open
    BY <1>1 DEF Edit, Acts
  <2> HIDE DEF s
  <2>4. ~unsynced => Shows(screen', s)
    BY <1>0, <2>1, <2>2, <2>3 DEF Shows, SameRules, Names, SelectedProfile
  <2>5. QED
    BY <2>1, <2>2, <2>3, <2>4, EditStep
<1>2. CASE ChangeControl
  <2>1. (~screen.control) \in BOOLEAN
    BY <1>0 DEF IsScreen
  <2>2. /\ Edit([panel.settings EXCEPT !.control = ~screen.control])
        /\ screen' = [screen EXCEPT !.control = ~screen.control]
    BY <1>2 DEF ChangeControl
  <2>3. QED
    BY <1>1, <2>1, <2>2
<1>3. CASE ApplyPreset
  BY <1>1, <1>3 DEF ApplyPreset
<1>4. CASE ChangeLanguage
  <2> DEFINE s == panel.settings
  <2>1. Edit(s) /\ ui.open /\ screen' = WithEditor(screen, s)
    BY <1>4 DEF ChangeLanguage, Edit, Acts
  <2>2. IsScreen(screen') /\ (~unsynced => Shows(screen', s))
    BY <1>0, <2>1, EditorShows DEF Shows
  <2>3. QED
    BY <1>0, <2>1, <2>2, EditStep
<1>5. QED
  BY <1>2, <1>3, <1>4

LEMMA ListEdits ==
  ASSUME IInv, \/ AddExcludedApplication \/ RemoveExcludedApplication
               \/ AddProfile \/ RemoveProfile \/ UpdateProfileFromEditor
  PROVE  IInv'
<1>0. /\ IsScreen(screen) /\ IsSettings(panel.settings)
      /\ ui.open /\ ~unsynced => Shows(screen, panel.settings)
      /\ panel.settings.profiles \in Seq(Profile)
  BY Before DEF IsSettings
<1>1. CASE AddExcludedApplication
  <2>1. PICK executable \in Executable \ Range(panel.settings.excluded) :
          LET values == SetToSortSeq(Range(panel.settings.excluded) \cup {executable}, <)
              settings == [panel.settings EXCEPT !.excluded = values]
          IN /\ Edit(settings)
             /\ screen' = [WithLists(screen, settings) EXCEPT !.excludedAt = Len(values)]
    BY <1>1 DEF AddExcludedApplication
  <2> DEFINE values == SetToSortSeq(Range(panel.settings.excluded) \cup {executable}, <)
             s == [panel.settings EXCEPT !.excluded = values]
             lists == WithLists(screen, s)
             last == Len(values)
  <2>2. Edit(s) /\ ui.open /\ screen' = [lists EXCEPT !.excludedAt = last]
    BY <2>1 DEF Edit, Acts
  <2> HIDE DEF values, last
  <2>3. IsSettings(s) /\ s.control = panel.settings.control
    BY <1>0, EditedSettings
  <2> HIDE DEF s
  <2>4. IsScreen(lists) /\ (~unsynced => Shows(lists, s))
    BY <2>2, <2>3, ListsEdit
  <2> HIDE DEF lists
  <2>5. /\ IsScreen(screen') /\ screen'.control = lists.control
        /\ screen'.excluded = lists.excluded /\ screen'.profiles = lists.profiles
        /\ screen'.profileAt = lists.profileAt /\ screen'.editor = lists.editor
    BY <2>2, <2>4 DEF IsScreen
  <2>6. ~unsynced => Shows(screen', s)
    BY <2>4, <2>5 DEF Shows
  <2>7. QED
    BY <2>2, <2>3, <2>5, <2>6, EditStep
<1>2. CASE RemoveExcludedApplication
  <2> DEFINE values == RemoveAt(panel.settings.excluded, screen.excludedAt)
             s == [panel.settings EXCEPT !.excluded = values]
  <2>1. Edit(s) /\ ui.open /\ screen' = WithLists(screen, s)
    BY <1>2 DEF RemoveExcludedApplication, Edit, Acts
  <2> HIDE DEF values
  <2>2. IsSettings(s) /\ s.control = panel.settings.control
    BY <1>0, EditedSettings
  <2> HIDE DEF s
  <2>3. QED
    BY <2>1, <2>2, ListsEdit, EditStep
<1>3. CASE AddProfile
  <2>1. PICK executable \in Executable \ Range(Names(panel.settings)) :
          LET profile == [executable |-> executable, motion |-> 0]
              settings == [panel.settings EXCEPT !.profiles = Append(@, profile)]
          IN /\ Edit(settings)
             /\ screen' = WithEditor([WithLists(screen, settings) EXCEPT
                                  !.profileAt = Len(settings.profiles)], settings)
    BY <1>3 DEF AddProfile
  <2> DEFINE profile == [executable |-> executable, motion |-> 0]
             profiles == Append(panel.settings.profiles, profile)
             s == [panel.settings EXCEPT !.profiles = profiles]
             lists == WithLists(screen, s)
             last == Len(s.profiles)
             chosen == [lists EXCEPT !.profileAt = last]
  <2>2. Edit(s) /\ ui.open /\ screen' = WithEditor(chosen, s)
    BY <2>1 DEF Edit, Acts
  <2>3. profiles \in Seq(Profile)
    BY <1>0 DEF Profile
  <2> HIDE DEF profiles
  <2>4. IsSettings(s) /\ s.control = panel.settings.control
    BY <1>0, <2>3, EditedSettings
  <2> HIDE DEF s
  <2>5. IsScreen(lists) /\ (~unsynced => Shows(lists, s))
    BY <2>2, <2>4, ListsEdit
  <2> HIDE DEF lists, last
  <2>6. /\ IsScreen(chosen) /\ chosen.control = lists.control
        /\ chosen.excluded = lists.excluded /\ chosen.profiles = lists.profiles
    BY <2>5 DEF IsScreen
  <2> HIDE DEF chosen
  <2>7. IsScreen(screen') /\ (~unsynced => Shows(screen', s))
    BY <2>2, <2>5, <2>6, EditorShows DEF Shows
  <2>8. QED
    BY <2>2, <2>4, <2>7, EditStep
<1>4. CASE RemoveProfile
  <2> DEFINE at == screen.profileAt
             old == panel.settings.profiles
             profiles == RemoveAt(old, at)
             s == [panel.settings EXCEPT !.profiles = profiles]
  <2>1. Edit(s) /\ ui.open /\ screen' = WithLists(screen, s) /\ at \in DOMAIN old
    BY <1>4 DEF RemoveProfile, Edit, Acts
  <2>2. profiles \in Seq(Profile)
    <3>1. old \in Seq(Profile) /\ at \in 1 .. Len(old)
      BY <1>0, <2>1
    <3> HIDE DEF old, at
    <3>2. SubSeq(old, 1, at - 1) \in Seq(Profile) /\ SubSeq(old, at + 1, Len(old)) \in Seq(Profile)
      BY <3>1
    <3>3. QED
      BY <3>2 DEF RemoveAt
  <2> HIDE DEF profiles
  <2>3. IsSettings(s) /\ s.control = panel.settings.control
    BY <1>0, <2>2, EditedSettings
  <2> HIDE DEF s
  <2>4. QED
    BY <2>1, <2>3, ListsEdit, EditStep
<1>5. CASE UpdateProfileFromEditor
  <2>1. PICK motion \in {0, 1} :
          LET settings == [panel.settings EXCEPT !.profiles[screen.profileAt].motion = motion]
          IN Edit(settings) /\ screen' = WithEditor(screen, settings)
    BY <1>5 DEF UpdateProfileFromEditor
  <2> DEFINE old == panel.settings.profiles
             profile == [old[screen.profileAt] EXCEPT !.motion = motion]
             profiles == [old EXCEPT ![screen.profileAt] = profile]
             s == [panel.settings EXCEPT !.profiles = profiles]
  <2>2. Edit(s) /\ ui.open /\ screen' = WithEditor(screen, s) /\ screen.profileAt \in DOMAIN old
    BY <2>1, <1>5 DEF UpdateProfileFromEditor, Edit, Acts
  <2>3. /\ profiles \in Seq(Profile) /\ DOMAIN profiles = DOMAIN old
        /\ \A i \in DOMAIN old : profiles[i].executable = old[i].executable
    <3>1. old[screen.profileAt] \in Profile
      BY <1>0, <2>2
    <3>2. profile \in Profile /\ profile.executable = old[screen.profileAt].executable
      BY <3>1 DEF Profile
    <3> HIDE DEF profile
    <3>3. QED
      BY <1>0, <2>2, <3>2
  <2> HIDE DEF profiles
  <2>4. /\ IsSettings(s) /\ s.control = panel.settings.control
        /\ s.excluded = panel.settings.excluded /\ s.profiles = profiles
    BY <1>0, <2>3, EditedSettings
  <2> HIDE DEF s
  <2>5. Names(s) = Names(panel.settings)
    BY <2>3, <2>4 DEF Names
  <2>6. IsScreen(screen') /\ (~unsynced => Shows(screen', s))
    BY <1>0, <2>2, <2>4, <2>5, EditorShows DEF Shows
  <2>7. QED
    BY <2>2, <2>4, <2>6, EditStep
<1>6. QED
  BY <1>1, <1>2, <1>3, <1>4, <1>5

LEMMA OtherActions ==
  ASSUME IInv, Select \/ StartEngineClicked \/ DiagnosticsRefresh \/ ClosePanel
  PROVE  IInv'
<1>0. /\ IsScreen(screen) /\ IsSettings(panel.settings)
      /\ ui = [open |-> ui.open, connect |-> ui.connect, pending |-> ui.pending,
               polling |-> ui.polling, attempts |-> ui.attempts]
      /\ panel = [settings |-> panel.settings, status |-> panel.status]
      /\ ui.open \in BOOLEAN /\ unsynced \in BOOLEAN
      /\ ui.open /\ ~unsynced => Shows(screen, panel.settings)
  BY Before
<1>1. CASE Select
  <2>1. UNCHANGED <<file, engine, late, copy, overtaken, request, panel, ui, unsynced>> /\ ui.open
    BY <1>1 DEF Select, Acts, outside
  <2>2. IsScreen(screen') /\ (~unsynced => Shows(screen', panel.settings))
    <3>1. CASE \E i \in DOMAIN screen.profiles :
                 screen' = WithEditor([screen EXCEPT !.profileAt = i], panel.settings)
      <4>1. PICK i \in DOMAIN screen.profiles :
              screen' = WithEditor([screen EXCEPT !.profileAt = i], panel.settings)
        BY <3>1
      <4> DEFINE chosen == [screen EXCEPT !.profileAt = i]
      <4>2. /\ IsScreen(chosen) /\ chosen.control = screen.control
            /\ chosen.excluded = screen.excluded /\ chosen.profiles = screen.profiles
        BY <1>0 DEF IsScreen
      <4>3. screen' = WithEditor(chosen, panel.settings)
        BY <4>1
      <4> HIDE DEF chosen
      <4>4. QED
        BY <1>0, <2>1, <4>2, <4>3, EditorShows DEF Shows
    <3>2. CASE \E i \in DOMAIN screen.excluded : screen' = [screen EXCEPT !.excludedAt = i]
      <4>1. PICK i \in DOMAIN screen.excluded : screen' = [screen EXCEPT !.excludedAt = i]
        BY <3>2
      <4>2. /\ IsScreen(screen') /\ screen'.control = screen.control
            /\ screen'.excluded = screen.excluded /\ screen'.profiles = screen.profiles
            /\ screen'.profileAt = screen.profileAt /\ screen'.editor = screen.editor
        BY <1>0, <4>1 DEF IsScreen
      <4>3. QED
        BY <1>0, <2>1, <4>2 DEF Shows
    <3>3. QED
      BY <1>1, <3>1, <3>2 DEF Select
  <2>3. SettingsShaped' /\ AppliedHolds' /\ RequestHolds'
    BY <2>1 DEF IInv, SettingsShaped, IsSettings, AppliedHolds, RequestHolds, SameRules
  <2>4. Shaped'
    BY <2>1, <2>2 DEF IInv, Shaped, IsScreen
  <2>5. ScreenTrue'
    BY <2>1, <2>2, StillTrue
  <2>6. QED
    BY <2>3, <2>4, <2>5 DEF IInv
<1>2. CASE StartEngineClicked
  <2>1. /\ StartSiblingEngine
        /\ UNCHANGED <<file, late, copy, overtaken, request, screen, unsynced>> /\ request = None
        /\ ui' = [ui EXCEPT !.attempts = 0, !.polling = TRUE]
    BY <1>2 DEF StartEngineClicked, Acts, Waiting
  <2>2. /\ ui' = [open |-> ui'.open, connect |-> ui'.connect, pending |-> ui'.pending,
                  polling |-> ui'.polling, attempts |-> ui'.attempts]
        /\ ui'.open = ui.open
    BY <1>0, <2>1
  <2>3. QED
    BY <2>1, <2>2, StartStep
<1>3. CASE DiagnosticsRefresh
  <2>1. UNCHANGED <<file, engine, late, copy, overtaken, request, screen, ui>> /\ request = None
    BY <1>3 DEF DiagnosticsRefresh, Waiting, outside
  <2>2. CASE Refreshed /\ unsynced' = TRUE
    <3>1. panel' = [settings |-> engine.settings, status |-> "Connected"] /\ IsSettings(engine.settings)
      BY <2>2, RefreshedIs
    <3>2. QED
      BY <1>0, <2>1, <2>2, <3>1, PanelStep
  <2>3. CASE RefreshFails /\ UNCHANGED unsynced
    <3>1. panel' = [settings |-> panel.settings, status |-> "Disconnected"]
      BY <1>0, <2>3 DEF RefreshFails
    <3>2. QED
      BY <1>0, <2>1, <2>3, <3>1, PanelStep
  <2>4. QED
    BY <1>3, <2>2, <2>3 DEF DiagnosticsRefresh
<1>4. CASE ClosePanel
  <2>1. /\ panel' = [settings |-> Default, status |-> "Connecting"]
        /\ screen' = Blank /\ ui' = ClosedUi /\ unsynced' = FALSE
        /\ UNCHANGED <<file, engine, late, copy, overtaken, request>> /\ request = None
    BY <1>4 DEF ClosePanel, ClosedPanel, Waiting, outside
  <2>2. IsSettings(Default) /\ IsScreen(Blank)
    <3>1. <<>> \in Seq(Profile)
      OBVIOUS
    <3>2. QED
      BY <3>1 DEF IsSettings, IsScreen, Default, Blank
  <2>3. /\ ui' = [open |-> ui'.open, connect |-> ui'.connect, pending |-> ui'.pending,
                  polling |-> ui'.polling, attempts |-> ui'.attempts]
        /\ ui'.open = FALSE
    BY <2>1 DEF ClosedUi
  <2>4. QED
    BY <2>1, <2>2, <2>3, PanelStep
<1>5. QED
  BY <1>1, <1>2, <1>3, <1>4

-----------------------------------------------------------------------------
(* The engine.                                                              *)

\* The engine changes, and the panel does not: its rules must stay where they are.
LEMMA EngineStep ==
  ASSUME IInv, WindowStays, SettingsShaped', RequestHolds', overtaken' \in BOOLEAN,
         engine' = [state |-> engine'.state, settings |-> engine'.settings],
         late = None => late' = None, request = None => request' = None,
         late = None /\ request = None /\ ~overtaken' =>
           /\ ~overtaken
           /\ \/ SameRules(file', file)
              \/ engine.state \in {"loaded", "running"} /\ SameRules(file', engine.settings)
           /\ engine'.state \in {"loaded", "running"} =>
                \/ SameRules(engine'.settings, file)
                \/ /\ engine.state \in {"loaded", "running"}
                   /\ SameRules(engine'.settings, engine.settings)
  PROVE  IInv'
<1>1. UNCHANGED <<panel, screen, ui, unsynced>>
  BY DEF WindowStays
<1>2. Shaped'
  BY <1>1 DEF IInv, Shaped, IsScreen
<1>3. ScreenTrue'
  BY <1>1, StillTrue DEF IInv
<1>4. AppliedHolds'
  <2>1. SUFFICES ASSUME ui.open /\ panel.status = "Applied"
                 PROVE  /\ ~ui.pending /\ late' = None /\ request' = None
                        /\ ~overtaken' =>
                             /\ SameRules(file', panel.settings)
                             /\ engine'.state \in {"loaded", "running"} =>
                                  SameRules(engine'.settings, panel.settings)
    BY <1>1 DEF AppliedHolds, SameRules
  <2>2. /\ ~ui.pending /\ late = None /\ request = None
        /\ ~overtaken =>
             /\ SameRules(file, panel.settings)
             /\ engine.state \in {"loaded", "running"} => SameRules(engine.settings, panel.settings)
    BY <2>1 DEF IInv, AppliedHolds
  <2>3. QED
    BY <2>2 DEF SameRules
<1>5. QED
  BY <1>2, <1>3, <1>4 DEF IInv

\* A process that starts, loads or takes requests: nothing is under way in it before.
LEMMA EngineStarts ==
  ASSUME IInv, EngineCreated \/ EngineLoads \/ PipeUp
  PROVE  IInv'
<1>0. /\ engine = [state |-> engine.state, settings |-> engine.settings]
      /\ IsSettings(engine.settings) /\ IsSettings(file) /\ overtaken \in BOOLEAN
      /\ copy # None => engine.state = "running"
      /\ request # None /\ request.stage = "carried" => file = engine.settings
  BY DEF IInv, Shaped, SettingsShaped, RequestHolds
<1>1. /\ engine' = [state |-> engine'.state, settings |-> engine'.settings]
      /\ engine.state # "running"
      /\ \/ engine'.settings = file
         \/ /\ engine'.settings = engine.settings
            /\ engine'.state \in {"loaded", "running"} => engine.state = "loaded"
      /\ WindowStays /\ UNCHANGED <<file, late, copy, overtaken, request>>
  <2>1. CASE EngineCreated
    <3>1. engine' = [state |-> "created", settings |-> engine.settings]
      BY <1>0, <2>1 DEF EngineCreated
    <3>2. QED
      BY <2>1, <3>1 DEF EngineCreated, EngineOnly
  <2>2. CASE EngineLoads
    BY <2>2 DEF EngineLoads, EngineOnly
  <2>3. CASE PipeUp
    <3>1. engine' = [state |-> "running", settings |-> engine.settings]
      BY <1>0, <2>3 DEF PipeUp
    <3>2. QED
      BY <2>3, <3>1 DEF PipeUp, EngineOnly
  <2>4. QED
    BY <2>1, <2>2, <2>3
<1>2. copy = None /\ UNCHANGED <<panel, ui>>
  BY <1>0, <1>1 DEF WindowStays
<1>3. SettingsShaped'
  <2>1. IsSettings(engine.settings)' /\ IsSettings(file)' /\ IsSettings(panel.settings)'
    BY <1>0, <1>1, <1>2 DEF IInv, SettingsShaped, IsSettings
  <2>2. QED
    BY <1>1, <1>2, <2>1 DEF IInv, SettingsShaped, IsSettings
<1>4. RequestHolds'
  BY <1>0, <1>1, <1>2 DEF IInv, RequestHolds, SameRules
<1>5. QED
  BY <1>0, <1>1, <1>3, <1>4, EngineStep DEF SameRules

\* A copy has the rules in use, and is saved over what has been applied since.
LEMMA TogglesIInv ==
  ASSUME IInv, ToggleCopies \/ ToggleSaves
  PROVE  IInv'
<1>0. /\ engine = [state |-> engine.state, settings |-> engine.settings]
      /\ IsSettings(engine.settings) /\ IsSettings(file) /\ overtaken \in BOOLEAN
      /\ copy # None => engine.state = "running" /\ IsSettings(copy.settings)
      /\ copy # None /\ ~copy.old => SameRules(copy.settings, engine.settings)
  BY DEF IInv, Shaped, SettingsShaped, RequestHolds
<1>1. CASE ToggleCopies
  <2> DEFINE s == [engine.settings EXCEPT !.control = ~engine.settings.control]
  <2>1. /\ copy' = [settings |-> s, old |-> FALSE] /\ engine.state = "running"
        /\ WindowStays /\ UNCHANGED <<file, engine, late, overtaken, request>>
    BY <1>1 DEF ToggleCopies, EngineOnly
  <2>2. (~engine.settings.control) \in BOOLEAN
    OBVIOUS
  <2>3. IsSettings(s) /\ SameRules(s, engine.settings)
    BY <1>0, <2>2, EditedSettings
  <2> HIDE DEF s
  <2>4. /\ copy'.settings = s /\ ~copy'.old
        /\ copy' = [settings |-> copy'.settings, old |-> copy'.old]
        /\ UNCHANGED <<panel, ui>>
    BY <2>1 DEF WindowStays
  <2>5. SettingsShaped'
    BY <2>1, <2>3, <2>4 DEF IInv, SettingsShaped, IsSettings
  <2>6. RequestHolds'
    BY <2>1, <2>3, <2>4 DEF IInv, RequestHolds, SameRules
  <2>7. QED
    BY <1>0, <2>1, <2>5, <2>6, EngineStep DEF SameRules
<1>2. CASE ToggleSaves
  <2>1. /\ copy # None /\ copy' = None /\ WindowStays /\ UNCHANGED <<late, request, panel, ui>>
    BY <1>2 DEF ToggleSaves, EngineOnly, WindowStays
  <2>2. CASE Saves(copy.settings) /\ overtaken' = (overtaken \/ copy.old)
    <3>1. /\ engine' = [state |-> engine.state, settings |-> copy.settings]
          /\ file' = copy.settings
      BY <1>0, <2>2 DEF Saves
    <3>2. engine'.settings = copy.settings /\ engine'.state = engine.state
      BY <3>1
    <3>3. SettingsShaped'
      BY <1>0, <2>1, <3>1, <3>2 DEF IInv, SettingsShaped, IsSettings
    <3>4. overtaken' \in BOOLEAN /\ (~overtaken' => ~overtaken /\ ~copy.old)
      <4>1. overtaken' = (overtaken \/ copy.old)
        BY <2>2
      <4>2. QED
        BY <4>1, Zenon
    <3>5. RequestHolds'
      BY <1>0, <2>1, <3>1, <3>2, <3>4 DEF IInv, RequestHolds, SameRules
    <3>6. QED
      BY <1>0, <2>1, <3>1, <3>2, <3>3, <3>4, <3>5, EngineStep
  <2>3. CASE SaveFails /\ UNCHANGED overtaken
    <3>1. UNCHANGED <<engine, file, overtaken>>
      BY <2>3 DEF SaveFails
    <3>2. SettingsShaped'
      BY <2>1, <3>1 DEF IInv, SettingsShaped, IsSettings
    <3>3. RequestHolds'
      BY <2>1, <3>1 DEF IInv, RequestHolds, SameRules
    <3>4. QED
      BY <1>0, <2>1, <3>1, <3>2, <3>3, EngineStep DEF SameRules
  <2>4. QED
    BY <1>2, <2>2, <2>3 DEF ToggleSaves
<1>3. QED
  BY <1>1, <1>2

\* A request carried out, or refused: the panel says nothing of "Applied" before the answer.
LEMMA RequestsIInv ==
  ASSUME IInv, CarryOut \/ LateRequest
  PROVE  IInv'
<1>0. /\ engine = [state |-> engine.state, settings |-> engine.settings]
      /\ IsSettings(engine.settings) /\ IsSettings(file) /\ overtaken \in BOOLEAN
      /\ late # None => IsSettings(late)
      /\ request # None => late = None /\ IsSettings(request.settings)
      /\ copy # None => /\ copy = [settings |-> copy.settings, old |-> copy.old]
                        /\ IsSettings(copy.settings) /\ engine.state = "running"
      /\ request # None => request = [settings |-> request.settings, stage |-> request.stage]
  BY DEF IInv, Shaped, SettingsShaped, RequestHolds
<1>1. ASSUME NEW s, IsSettings(s), Carries(s)
      PROVE  /\ engine' = [state |-> engine.state, settings |-> s] /\ engine'.settings = s
             /\ engine'.state = engine.state /\ file' = s /\ overtaken' = FALSE
             /\ copy' # None => /\ copy' = [settings |-> copy'.settings, old |-> copy'.old]
                                /\ copy' # None /\ IsSettings(copy'.settings) /\ copy'.old
                                /\ engine.state = "running"
  <2>1. /\ engine' = [engine EXCEPT !.settings = s] /\ file' = s /\ overtaken' = FALSE
        /\ copy' = IF copy = None THEN None ELSE [copy EXCEPT !.old = TRUE]
    BY <1>1 DEF Carries, Saves
  <2>2. engine' = [state |-> engine.state, settings |-> s]
    BY <1>0, <2>1
  <2>3. copy # None => copy' = [settings |-> copy.settings, old |-> TRUE]
    BY <1>0, <2>1
  <2>4. QED
    BY <1>0, <2>1, <2>2, <2>3
<1>2. CASE CarryOut
  <2>1. /\ request # None /\ late = None /\ WindowStays /\ UNCHANGED <<late, panel, ui>>
    BY <1>0, <1>2 DEF CarryOut, Waiting, WindowStays
  <2>2. CASE Carries(request.settings) /\ request' = [request EXCEPT !.stage = "carried"]
    <3>1. request' = [settings |-> request.settings, stage |-> "carried"]
      BY <1>0, <2>1, <2>2
    <3>2. request'.settings = request.settings
      BY <3>1
    <3>3. /\ engine' = [state |-> engine.state, settings |-> request.settings]
          /\ engine'.settings = request.settings
          /\ engine'.state = engine.state /\ file' = request.settings /\ overtaken' = FALSE
          /\ copy' # None => /\ copy' = [settings |-> copy'.settings, old |-> copy'.old]
                             /\ IsSettings(copy'.settings) /\ copy'.old
                             /\ engine.state = "running"
      BY <1>0, <1>1, <2>1, <2>2
    <3>4. SettingsShaped'
      BY <1>0, <2>1, <3>1, <3>2, <3>3 DEF IInv, SettingsShaped, IsSettings
    <3>5. RequestHolds'
      BY <2>1, <3>2, <3>3 DEF IInv, RequestHolds, SameRules
    <3>6. QED
      BY <2>1, <3>3, <3>4, <3>5, EngineStep
  <2>3. CASE /\ SaveFails /\ UNCHANGED <<copy, overtaken>>
             /\ request' = [request EXCEPT !.stage = "refused"]
    <3>1. /\ request' = [settings |-> request.settings, stage |-> "refused"]
          /\ UNCHANGED <<engine, file, copy, overtaken>>
      BY <1>0, <2>1, <2>3 DEF SaveFails
    <3>2. request'.settings = request.settings /\ request'.stage = "refused"
      BY <3>1
    <3>3. SettingsShaped'
      BY <2>1, <3>1, <3>2 DEF IInv, SettingsShaped, IsSettings
    <3>4. RequestHolds'
      BY <2>1, <3>1, <3>2 DEF IInv, RequestHolds, SameRules
    <3>5. QED
      BY <1>0, <2>1, <3>1, <3>3, <3>4, EngineStep
  <2>4. QED
    BY <1>2, <2>2, <2>3 DEF CarryOut
<1>3. CASE LateRequest
  <2>1. /\ late # None /\ late' = None /\ request = None
        /\ WindowStays /\ UNCHANGED <<request, panel, ui>>
    BY <1>0, <1>3 DEF LateRequest, EngineOnly, WindowStays
  <2>2. CASE Carries(late)
    <3>1. /\ engine' = [state |-> engine.state, settings |-> late]
          /\ engine'.settings = late
          /\ engine'.state = engine.state /\ file' = late /\ overtaken' = FALSE
          /\ copy' # None => /\ copy' = [settings |-> copy'.settings, old |-> copy'.old]
                             /\ IsSettings(copy'.settings) /\ copy'.old
                             /\ engine.state = "running"
      BY <1>0, <1>1, <2>1, <2>2
    <3>2. SettingsShaped'
      BY <1>0, <2>1, <3>1 DEF IInv, SettingsShaped, IsSettings
    <3>3. RequestHolds'
      BY <2>1, <3>1 DEF IInv, RequestHolds, SameRules
    <3>4. QED
      BY <2>1, <3>1, <3>2, <3>3, EngineStep
  <2>3. CASE SaveFails /\ UNCHANGED <<copy, overtaken>>
    <3>1. UNCHANGED <<engine, file, copy, overtaken>>
      BY <2>3 DEF SaveFails
    <3>2. SettingsShaped'
      BY <2>1, <3>1 DEF IInv, SettingsShaped, IsSettings
    <3>3. RequestHolds'
      BY <2>1, <3>1 DEF IInv, RequestHolds, SameRules
    <3>4. QED
      BY <1>0, <2>1, <3>1, <3>2, <3>3, EngineStep
  <2>4. QED
    BY <1>3, <2>2, <2>3 DEF LateRequest
<1>4. QED
  BY <1>2, <1>3

\* What the engine had under way ends with it.
LEMMA EndsIInv ==
  ASSUME IInv, EngineEnds
  PROVE  IInv'
<1>1. /\ engine' = [state |-> "absent", settings |-> Default]
      /\ late' = None /\ copy' = None
      /\ WindowStays /\ UNCHANGED <<file, overtaken, panel, ui>>
  BY DEF EngineEnds, WindowStays
<1>2. engine'.state = "absent" /\ engine'.settings = Default
  BY <1>1
<1>3. /\ request = None => request' = None
      /\ request # None => /\ request' = [settings |-> request'.settings, stage |-> request'.stage]
                           /\ request'.settings = request.settings
                           /\ request'.stage = "refused"
  <2>1. /\ request' = IF request # None THEN [request EXCEPT !.stage = "refused"] ELSE None
        /\ request # None => request = [settings |-> request.settings, stage |-> request.stage]
    BY DEF EngineEnds, Waiting, IInv, SettingsShaped
  <2>2. request # None => request' = [settings |-> request.settings, stage |-> "refused"]
    BY <2>1
  <2>3. QED
    BY <2>1, <2>2
<1>4. SettingsShaped'
  <2>1. <<>> \in Seq(Profile)
    OBVIOUS
  <2>2. IsSettings(Default)
    BY <2>1 DEF IsSettings, Default
  <2>3. QED
    BY <1>1, <1>2, <1>3, <2>2 DEF IInv, SettingsShaped, IsSettings
<1>5. RequestHolds'
  BY <1>1, <1>2, <1>3 DEF IInv, RequestHolds
<1>6. QED
  BY <1>1, <1>2, <1>3, <1>4, <1>5, EngineStep DEF IInv, Shaped, SameRules

-----------------------------------------------------------------------------
LEMMA NextIInv == IInv /\ [Next]_vars => IInv'
<1> SUFFICES ASSUME IInv, [Next]_vars PROVE IInv'
  OBVIOUS
<1>1. CASE UNCHANGED vars
  BY <1>1 DEF IInv, vars, outside, SettingsShaped, Shaped, ScreenTrue, AppliedHolds,
              RequestHolds, IsSettings, IsScreen, SameRules, Names, SelectedProfile
<1>2. CASE Next
  BY <1>2, MessagesIInv, ApplyIInv, ControlEdits, ListEdits, OtherActions,
          EngineStarts, TogglesIInv, RequestsIInv, EndsIInv DEF Next
<1>3. QED
  BY <1>1, <1>2

LEMMA Invariance == Spec => []IInv
BY InitIInv, NextIInv, PTL DEF Spec

\* Whatever the user, the engine and the timers do in whatever order, the controls, the
\* lists and the editor show what the panel would save, until the diagnostics page is used
\* or the answer to an apply tells of settings that an old toggle has put back.
THEOREM ScreenStaysTrue == Spec => []ScreenTrue
<1>1. IInv => ScreenTrue
  BY DEF IInv
<1>2. QED
  BY <1>1, Invariance, PTL

\* "Applied to engine" is taken back by nothing but a toggle that copied the settings before:
\* no request of before is still on its way, an engine that could save runs the same rules,
\* and so has every toggle that copied since.
THEOREM AppliedIsSaved == Spec => []AppliedStaysSaved
<1>1. IInv => AppliedStaysSaved
  BY DEF IInv, AppliedHolds, AppliedStaysSaved, SameRules
<1>2. QED
  BY <1>1, Invariance, PTL
=============================================================================

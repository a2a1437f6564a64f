---------------------------- MODULE SettingsModel ----------------------------
(***************************************************************************)
(* The settings of core/src/settings.cpp: what ParseSettings makes of a      *)
(* document, what SerializeSettings writes, and which policy an application   *)
(* gets.  The operators are the functions of the source; around them a file   *)
(* is edited by hand, loaded, changed by the panel and saved.                 *)
(*                                                                         *)
(* A document is what ParseJson returns.  Odd stands for a member that is    *)
(* missing or of another type: both are read as the fallback.  One number    *)
(* stands for the five of MotionSettings, and one Boolean of each object for  *)
(* its likes, which are all read and written in the same way.                *)
(***************************************************************************)
EXTENDS Integers, Sequences, Functions, FiniteSets

CONSTANTS Document,  \* documents a file may hold: records of members, or Odd
          Name,      \* names of executables as the user or Windows writes them
          Language,  \* what a file may give as ui_language
          Number,    \* tenths the user may enter for a scroll distance
          MaxChanges, \* how often the panel changes the settings (the bound of a run)
          Odd,
          Stopped    \* no program has the settings loaded

VARIABLES file,      \* the document in settings.json
          settings,  \* the settings in use
          changes    \* how often they were changed

vars == <<file, settings, changes>>

\* A name is spelled plainly, with capitals, or with its path; what is left of it, the
\* base, is a number so that keys are ordered.  Base 0 is a name of which nothing is left.
Spelling == {"plain", "capitals", "path"}
AnyName == [base : Nat, spelling : Spelling]
NameAssumption == Name \subseteq AnyName
ASSUME NameAssumption

\* What the readers tell apart: a member of the right type, or Odd.
OrOdd(S) == S \cup {Odd}
AnyMotion == [scale : OrOdd(Int), easing : OrOdd(BOOLEAN)]
AnyProfile == [executable : OrOdd(AnyName), enabled : OrOdd(BOOLEAN),
               compatibility_mode : OrOdd(BOOLEAN), motion : OrOdd(AnyMotion)]
AnySystem == [start_with_windows : OrOdd(BOOLEAN), ui_language : OrOdd(Language)]
AnyDocument == [schema_version : OrOdd(Int), enabled : OrOdd(BOOLEAN),
                motion : OrOdd(AnyMotion), system : OrOdd(AnySystem),
                excluded_apps : OrOdd(Seq(OrOdd(AnyName))),
                profiles : OrOdd(Seq(OrOdd(AnyProfile)))]
LanguageAssumption == {"en", "zh-CN", "system"} \subseteq Language
ASSUME LanguageAssumption

NumberAssumption == Number \subseteq Int
ASSUME NumberAssumption

ChangesAssumption == MaxChanges \in Nat
ASSUME ChangesAssumption

DocumentAssumption == Document \subseteq OrOdd(AnyDocument)
ASSUME DocumentAssumption

OddAssumption ==
  /\ Odd \notin Int /\ Odd \notin BOOLEAN /\ Odd \notin Language /\ Odd \notin AnyName
  /\ Odd \notin AnyMotion /\ Odd \notin AnyProfile /\ Odd \notin AnySystem /\ Odd \notin AnyDocument
  /\ Odd \notin Seq(OrOdd(AnyName)) /\ Odd \notin Seq(OrOdd(AnyProfile))
ASSUME OddAssumption

-----------------------------------------------------------------------------
(* Normal forms.                                                            *)

NormalizeExecutableKey(name) == [name EXCEPT !.spelling = "plain"]

Key(base) == [base |-> base, spelling |-> "plain"]
NoKey == Key(0)

\* distance_scale in tenths.
NormalizeMotionSettings(motion) ==
  [motion EXCEPT !.scale = IF @ < 1 THEN 1 ELSE IF @ > 40 THEN 40 ELSE @]

NormalizeUiLanguage(language) == IF language \in {"en", "zh-CN"} THEN language ELSE "system"

First(positions) == CHOOSE i \in positions : \A j \in positions : i <= j

Ascending(numbers) ==
  CHOOSE f \in [1..Cardinality(numbers) -> numbers] :
    \A i, j \in 1..Cardinality(numbers) : i < j => f[i] < f[j]

\* The elements of a sequence at some positions, in their order.
Keep(s, positions) ==
  LET order == Ascending(positions) IN [n \in 1..Cardinality(positions) |-> s[order[n]]]

Sorted(keys) ==
  LET bases == {key.base : key \in keys}
  IN [n \in 1..Cardinality(bases) |-> Key(Ascending(bases)[n])]

NormalizedExcluded(names) ==
  Sorted({NormalizeExecutableKey(names[i]) : i \in DOMAIN names} \ {NoKey})

NormalizedProfile(profile) ==
  [profile EXCEPT !.executable = NormalizeExecutableKey(@), !.motion = NormalizeMotionSettings(@)]

\* The profiles whose key is new and not empty, in their order: the first of a key stays.
NormalizedProfiles(profiles) ==
  LET normal == [i \in DOMAIN profiles |-> NormalizedProfile(profiles[i])]
      kept == {i \in DOMAIN profiles :
                 /\ normal[i].executable # NoKey
                 /\ \A j \in 1..(i - 1) : normal[j].executable # normal[i].executable}
  IN Keep(normal, kept)

\* The names are compared as they are written, and only then brought to their keys.
NormalizeCollection_KeysLast(s) ==
  LET normal == [i \in DOMAIN s.profiles |-> NormalizedProfile(s.profiles[i])]
      first == {i \in DOMAIN s.profiles :
                  \A j \in 1..(i - 1) : s.profiles[j].executable # s.profiles[i].executable}
  IN [s EXCEPT !.ui_language = NormalizeUiLanguage(@),
               !.excluded_apps = NormalizedExcluded(@),
               !.profiles = Keep(normal, first)]

NormalizeCollection(s) ==
  [s EXCEPT !.ui_language = NormalizeUiLanguage(@),
            !.excluded_apps = NormalizedExcluded(@),
            !.profiles = NormalizedProfiles(@)]

-----------------------------------------------------------------------------
(* Reading and writing.                                                     *)

DefaultSettings ==
  [enabled |-> TRUE, motion |-> [scale |-> 10, easing |-> TRUE],
   start_with_windows |-> FALSE, ui_language |-> "system",
   excluded_apps |-> <<>>, profiles |-> <<>>]

\* ReadBoolean, ReadNumber, ReadString.
Read(value, fallback) == IF value = Odd THEN fallback ELSE value

ReadMotion(value, fallback) ==
  NormalizeMotionSettings(
    IF value = Odd THEN fallback
    ELSE [scale |-> Read(value.scale, fallback.scale),
          easing |-> Read(value.easing, fallback.easing)])

\* A profile without motion of its own takes the document's; without a name it goes later.
ReadProfile(value, motion) ==
  [executable |-> Read(value.executable, NoKey),
   enabled |-> Read(value.enabled, TRUE),
   compatibility_mode |-> Read(value.compatibility_mode, FALSE),
   motion |-> ReadMotion(value.motion, motion)]

\* Elements of another type are skipped.
Elements(array) ==
  LET values == Read(array, <<>>) IN Keep(values, {i \in DOMAIN values : values[i] # Odd})

\* schema_version is read in halves and cut to a whole number: 1.5 is version 1.
Accepted(document) ==
  document # Odd /\ document.schema_version # Odd /\ document.schema_version \div 2 = 1

\* Of an accepted document.
ParseSettings(document) ==
  LET motion == ReadMotion(document.motion, DefaultSettings.motion)
      system == Read(document.system, [start_with_windows |-> Odd, ui_language |-> Odd])
      values == Elements(document.profiles)
  IN NormalizeCollection(
       [enabled |-> Read(document.enabled, DefaultSettings.enabled),
        motion |-> motion,
        start_with_windows |-> Read(system.start_with_windows, DefaultSettings.start_with_windows),
        ui_language |-> Read(system.ui_language, DefaultSettings.ui_language),
        excluded_apps |-> Elements(document.excluded_apps),
        profiles |-> [i \in DOMAIN values |-> ReadProfile(values[i], motion)]])

\* What is written has the shape of what was read; WriteMotion normalises once more.
SerializeSettings(source) ==
  LET s == NormalizeCollection(source)
  IN [schema_version |-> 2,
      enabled |-> s.enabled,
      motion |-> NormalizeMotionSettings(s.motion),
      system |-> [start_with_windows |-> s.start_with_windows, ui_language |-> s.ui_language],
      excluded_apps |-> s.excluded_apps,
      profiles |-> s.profiles]

-----------------------------------------------------------------------------
(* The policy of an application.                                            *)

PassThrough(motion, compatibility_mode) ==
  [smooth_enabled |-> FALSE, compatibility_mode |-> compatibility_mode, motion |-> motion]

\* Where the profiles with the key are: in one place once they are normalised.
ProfilesOf(s, key) ==
  {i \in DOMAIN s.profiles : NormalizeExecutableKey(s.profiles[i].executable) = key}

ProfilePolicy(s, profile) ==
  [smooth_enabled |-> s.enabled /\ profile.enabled /\ ~profile.compatibility_mode,
   compatibility_mode |-> profile.compatibility_mode,
   motion |-> NormalizeMotionSettings(profile.motion)]

GlobalPolicy(s) ==
  [smooth_enabled |-> s.enabled, compatibility_mode |-> FALSE,
   motion |-> NormalizeMotionSettings(s.motion)]

\* The list is searched for the name as it is written.
ResolveAppPolicy_AsWritten(s, executable) ==
  LET profiles == ProfilesOf(s, NormalizeExecutableKey(executable))
  IN IF executable \in Range(s.excluded_apps)
       THEN PassThrough(NormalizeMotionSettings(s.motion), FALSE)
     ELSE IF profiles # {} THEN ProfilePolicy(s, s.profiles[First(profiles)])
     ELSE GlobalPolicy(s)

ResolveAppPolicy(s, executable) ==
  LET key == NormalizeExecutableKey(executable)
      profiles == ProfilesOf(s, key)
  IN IF key \in Range(s.excluded_apps)
       THEN PassThrough(NormalizeMotionSettings(s.motion), FALSE)
     ELSE IF profiles # {} THEN ProfilePolicy(s, s.profiles[First(profiles)])
     ELSE GlobalPolicy(s)

-----------------------------------------------------------------------------
(* The life of a file.                                                      *)

Init == file \in Document /\ settings = Stopped /\ changes = 0

\* The user edits the file while no program runs (docs/configuration.md:5).
EditFile ==
  /\ settings = Stopped
  /\ file' \in Document
  /\ UNCHANGED <<settings, changes>>

Load ==
  /\ settings = Stopped
  /\ settings' = IF Accepted(file) THEN ParseSettings(file) ELSE DefaultSettings
  /\ UNCHANGED <<file, changes>>

Exit ==
  /\ settings # Stopped
  /\ settings' = Stopped
  /\ UNCHANGED <<file, changes>>

Save ==
  /\ settings # Stopped
  /\ file' = SerializeSettings(settings)
  /\ UNCHANGED <<settings, changes>>

-----------------------------------------------------------------------------
(* The panel's edits.  None of them passes through NormalizeCollection.      *)

InPanel == settings # Stopped /\ changes < MaxChanges

Change(s) == settings' = s /\ changes' = changes + 1 /\ UNCHANGED file

\* The check boxes of Home and Advanced, and the language.
ChangeControl ==
  /\ InPanel
  /\ \/ Change([settings EXCEPT !.enabled = ~@])
     \/ Change([settings EXCEPT !.start_with_windows = ~@])
     \/ Change([settings EXCEPT !.motion.easing = ~@])
     \/ \E language \in {"system", "en", "zh-CN"} :
          Change([settings EXCEPT !.ui_language = language])

\* The position of a slider is taken as it is; its ends are those of the motion's range.
HandleSlider ==
  /\ InPanel
  /\ \E tenths \in Number \cap (1..40) : Change([settings EXCEPT !.motion.scale = tenths])

ApplyPreset ==
  /\ InPanel
  /\ \E tenths \in {9, 10, 11} :
       Change([settings EXCEPT !.motion = [scale |-> tenths, easing |-> TRUE]])

\* The name is not in the list yet, which is sorted again.
AddExcludedApplication ==
  /\ InPanel
  /\ \E name \in Name :
       LET key == NormalizeExecutableKey(name)
           keys == Range(settings.excluded_apps) \cup {key}
       IN /\ key # NoKey /\ key \notin Range(settings.excluded_apps)
          /\ Change([settings EXCEPT !.excluded_apps = Sorted(keys)])

\* The selected position is erased, and nothing is sorted.
RemoveExcludedApplication ==
  /\ InPanel
  /\ \E i \in DOMAIN settings.excluded_apps :
       Change([settings EXCEPT !.excluded_apps = Keep(@, DOMAIN @ \ {i})])

\* A new profile begins with the global motion.
AddProfile ==
  /\ InPanel
  /\ \E name \in Name :
       LET key == NormalizeExecutableKey(name)
           profile == [executable |-> key, enabled |-> TRUE, compatibility_mode |-> FALSE,
                       motion |-> settings.motion]
       IN /\ key # NoKey /\ \A i \in DOMAIN settings.profiles : settings.profiles[i].executable # key
          /\ Change([settings EXCEPT !.profiles = Append(@, profile)])

RemoveProfile ==
  /\ InPanel
  /\ \E i \in DOMAIN settings.profiles :
       Change([settings EXCEPT !.profiles = Keep(@, DOMAIN @ \ {i})])

\* The boxes of the selected profile.
UpdateProfileBox ==
  /\ InPanel
  /\ \E i \in DOMAIN settings.profiles :
       \/ Change([settings EXCEPT !.profiles[i].enabled = ~@])
       \/ Change([settings EXCEPT !.profiles[i].compatibility_mode = ~@])
       \/ Change([settings EXCEPT !.profiles[i].motion.easing = ~@])

\* Its number is brought into its range, whatever the user enters.
UpdateProfileFromEditor ==
  /\ InPanel
  /\ \E i \in DOMAIN settings.profiles, scale \in Number :
       LET motion == [settings.profiles[i].motion EXCEPT !.scale = scale]
       IN Change([settings EXCEPT !.profiles[i].motion = NormalizeMotionSettings(motion)])

Next ==
  EditFile \/ Load \/ Exit \/ Save
    \/ ChangeControl \/ HandleSlider \/ ApplyPreset
    \/ AddExcludedApplication \/ RemoveExcludedApplication
    \/ AddProfile \/ RemoveProfile \/ UpdateProfileBox \/ UpdateProfileFromEditor

Spec == Init /\ [][Next]_vars

-----------------------------------------------------------------------------
(* What is in use survives: saved and loaded again it is the same, down to the *)
(* order of profiles and the values at the edge of their ranges.  The engine   *)
(* and the panel send each other settings in this form (settings.cpp:169,      *)
(* settings_client.cpp:226, engine_app.cpp:416).                               *)
RoundTrip ==
  settings # Stopped =>
    LET document == SerializeSettings(settings)
    IN Accepted(document) /\ ParseSettings(document) = settings

Distance(a, b) == IF a > b THEN a - b ELSE b - a

\* The number in its range that is nearest to the one asked for.
Nearest(asked) ==
  CHOOSE tenths \in 1..40 : \A other \in 1..40 : Distance(asked, tenths) <= Distance(asked, other)

FirstGiven(motions) ==
  LET given == {i \in DOMAIN motions : motions[i] # Odd /\ motions[i].scale # Odd}
  IN IF given = {} THEN 10 ELSE motions[First(given)].scale

Same(a, b) == a # Odd /\ a.base = b.base

\* Reference: how far an application scrolls by a document, read off it without bringing
\* it to normal form.  Zero is not smoothed; else the first number given anywhere counts.
Asked(document, name) ==
  LET excluded == Read(document.excluded_apps, <<>>)
      profiles == Read(document.profiles, <<>>)
      rules == {i \in DOMAIN profiles : profiles[i] # Odd /\ Same(profiles[i].executable, name)}
      rule == profiles[First(rules)]
  IN IF document.enabled = FALSE \/ \E i \in DOMAIN excluded : Same(excluded[i], name) THEN 0
     ELSE IF rules = {} THEN Nearest(FirstGiven(<<document.motion>>))
     ELSE IF rule.compatibility_mode = TRUE \/ rule.enabled = FALSE THEN 0
     ELSE Nearest(FirstGiven(<<rule.motion, document.motion>>))

Done(s, name) ==
  LET policy == ResolveAppPolicy(s, name)
  IN IF policy.smooth_enabled THEN policy.motion.scale ELSE 0

(* "Exclusions take precedence over per-application profiles. Compatibility    *)
(* mode always passes input through" (docs/architecture.md:42): an application  *)
(* scrolls as the file asks for it, whichever spelling of its name the file     *)
(* and Windows use, however often and in whatever order the file names it, and  *)
(* whatever numbers it holds (settings.cpp:62, 215, 238).                       *)
AskedIsDone ==
  Accepted(file) =>
    \A name \in Name : name.base # 0 => Done(ParseSettings(file), name) = Asked(file, name)
=============================================================================

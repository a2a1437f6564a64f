--------------------------- MODULE MCSettingsModel ---------------------------
(* Two applications in three spellings, and a name of which nothing is left.   *)
EXTENDS SettingsModel

N(base, spelling) == [base |-> base, spelling |-> spelling]
P(executable, enabled, compatibility_mode, motion) ==
  [executable |-> executable, enabled |-> enabled,
   compatibility_mode |-> compatibility_mode, motion |-> motion]

MCName == [base : {1, 2}, spelling : Spelling] \cup {N(0, "path")}

Excluded == {Odd, <<N(2, "path"), N(1, "capitals"), Odd, N(2, "plain")>>, <<N(0, "path"), N(2, "capitals")>>}

Profiles ==
  {Odd, <<>>,
   <<P(N(2, "capitals"), FALSE, Odd, Odd), P(N(2, "plain"), TRUE, FALSE, Odd)>>,
   <<Odd, P(N(1, "path"), Odd, TRUE, [scale |-> 0, easing |-> FALSE]),
     P(Odd, TRUE, FALSE, Odd), P(N(2, "path"), Odd, Odd, [scale |-> 50, easing |-> Odd]),
     P(N(1, "plain"), TRUE, FALSE, Odd)>>}

MCDocument ==
  {Odd} \cup
  [schema_version : {Odd, 3, 4}, enabled : {Odd, FALSE},
   motion : {Odd, [scale |-> 50, easing |-> FALSE]},
   system : {Odd, [start_with_windows |-> TRUE, ui_language |-> "fr"]},
   excluded_apps : Excluded, profiles : Profiles]
=============================================================================

---------------------------- MODULE MotionEngine ----------------------------
(***************************************************************************)
(* The motion engine of the core library: wheel deltas become impulses, and *)
(* every sample turns what they have newly covered into whole wheel units.  *)
(* Positions and the fractional remainder are in sub-units of 1/Unit, the    *)
(* acceleration is in hundredths; the code's doubles carry rounding errors   *)
(* below its 1e-9 threshold that exact arithmetic does not have.            *)
(***************************************************************************)
EXTENDS MotionCurve, Sequences, SequencesExt

CONSTANTS Axis,         \* vertical and horizontal
          Tuning,       \* the motion settings SetSettings may install
          Delta,        \* the wheel deltas pushed
          MaxTime,      \* bound of a run: the last instant
          MaxPushes     \* bound of a run: the wheel events

\* NormalizeMotionSettings keeps durations, scales and ratios positive and the
\* largest acceleration at one or more; Push leaves a delta of 0 alone.
ASSUME TuningAssumption ==
  \A t \in Tuning :
    /\ {t.duration, t.scale, t.scaleOf, t.ratio.head, t.ratio.tail} \subseteq Nat \ {0}
    /\ t.easing \in BOOLEAN
    /\ t.window \in Nat /\ t.fastest \in Nat /\ t.fastest >= 100
ASSUME DeltaAssumption == Delta \subseteq Int \ {0}
ASSUME BoundAssumption == MaxTime \in Nat /\ MaxPushes \in Nat

VARIABLES axes,         \* AxisState of each axis
          tuning,       \* settings_
          clock,        \* the time of day, in ticks
          sampled,      \* the last time given to Sample
          frame,        \* what the last Sample returned for each axis
          pushes,       \* wheel events so far, for the bound
          retuned       \* history: settings changed since the last Sample

vars == <<axes, tuning, clock, sampled, frame, pushes, retuned>>

Idle == [impulses |-> <<>>, fractional |-> 0, lastInput |-> -1, acceleration |-> 100,
         direction |-> 0, accepted |-> 0, emitted |-> 0, cancelled |-> 0]

Init ==
  /\ axes = [a \in Axis |-> Idle]
  /\ tuning \in Tuning
  /\ clock = 0 /\ sampled = 0 /\ pushes = 0
  /\ frame = [a \in Axis |-> 0]
  /\ retuned = FALSE

-----------------------------------------------------------------------------
Sign(x) == IF x > 0 THEN 1 ELSE IF x < 0 THEN -1 ELSE 0

Magnitude(x) == IF x < 0 THEN -x ELSE x

\* std::llround(n / d): halves away from zero.
RoundedQuotient(n, d) == Sign(n) * ((2 * Magnitude(n) + d) \div (2 * d))

\* The whole units in n / d, towards zero.
WholeQuotient(n, d) == Sign(n) * (Magnitude(n) \div d)

\* A loop's running sum.
Total(numbers) ==
  LET sum[n \in 0 .. Len(numbers)] == IF n = 0 THEN 0 ELSE sum[n - 1] + numbers[n]
  IN  sum[Len(numbers)]

\* Sub-units the impulses still have to scroll.
Unscrolled(impulses) ==
  Total([i \in DOMAIN impulses |-> impulses[i].total * Unit - impulses[i].position])

\* Mutant: the fractional remainder is forgotten in the books.
Outstanding_NoFraction(s) == Unscrolled(s.impulses)

Outstanding(s) == s.fractional + Unscrolled(s.impulses)

\* Mutant: the remainder of the cancelled momentum stays behind.
Cancelled_KeepFraction(s) ==
  [s EXCEPT !.cancelled = @ + RoundedQuotient(Outstanding(s), Unit),
            !.impulses = <<>>, !.direction = 0]

\* CancelOutstanding: everything not yet scrolled is written off.
Cancelled(s) ==
  [s EXCEPT !.cancelled = @ + RoundedQuotient(Outstanding(s), Unit),
            !.impulses = <<>>, !.fractional = 0, !.direction = 0]

\* NextAcceleration: wheel events close together speed up, an event later
\* than the window starts again.
NextAcceleration(s, time) ==
  LET window == tuning.window
      elapsed == IF time > s.lastInput THEN time - s.lastInput ELSE 0
      gain == (75 * (window - elapsed)) \div window
  IN  IF s.lastInput < 0 \/ window <= 0 \/ elapsed > window THEN 100
      ELSE LET faster == s.acceleration + (IF gain > 15 THEN gain ELSE 15)
           IN  IF faster > tuning.fastest THEN tuning.fastest ELSE faster

\* Mutant: a push against the direction of the momentum adds to it.
Turned_Never(s, direction) == s

\* A push against the direction of momentum under way cancels it first.
Turned(s, direction) ==
  IF s.direction # 0 /\ s.direction # direction /\ s.impulses # <<>>
  THEN [Cancelled(s) EXCEPT !.acceleration = 100, !.lastInput = -1]
  ELSE s

\* Mutant: a small delta scaled down becomes an empty impulse.
TotalDelta_MayVanish(delta, acceleration) ==
  RoundedQuotient(delta * tuning.scale * acceleration, 100 * tuning.scaleOf)

\* The impulse a delta becomes: never smaller than one unit.
TotalDelta(delta, acceleration) ==
  LET rounded == RoundedQuotient(delta * tuning.scale * acceleration, 100 * tuning.scaleOf)
  IN  IF rounded = 0 THEN Sign(delta) ELSE rounded

Pushed(s, delta, time) ==
  LET turned == [Turned(s, Sign(delta)) EXCEPT !.direction = Sign(delta)]
      acceleration == NextAcceleration(turned, time)
      total == TotalDelta(delta, acceleration)
  IN  [turned EXCEPT !.acceleration = acceleration,
                     !.impulses = Append(@, [start |-> time, duration |-> tuning.duration,
                                             total |-> total, position |-> 0]),
                     !.accepted = @ + total,
                     !.lastInput = time]

-----------------------------------------------------------------------------
\* An impulse moved to where it should be at this time.
Advanced(impulse, time) ==
  [impulse EXCEPT !.position = impulse.total *
     EvaluateProgress(time - impulse.start, impulse.duration, tuning.ratio, tuning.easing)]

Ended(impulse, time) == time >= impulse.start + impulse.duration

\* Mutant: only one ended impulse leaves per sample.
Pending_PopOne(impulses, time) ==
  IF impulses # <<>> /\ Ended(impulses[1], time) THEN Tail(impulses) ELSE impulses

\* Ended impulses leave from the front, up to the first that has not ended.
Pending(impulses, time) ==
  LET running == {i \in DOMAIN impulses : ~Ended(impulses[i], time)}
  IN  IF running = {} THEN <<>> ELSE SubSeq(impulses, Min(running), Len(impulses))

\* SampleAxis: the units newly covered, whole ones emitted and the rest kept;
\* when the last impulse leaves, what is left is rounded and emitted too.
SampledAxis(s, time) ==
  LET advanced == [i \in DOMAIN s.impulses |-> Advanced(s.impulses[i], time)]
      available == s.fractional + Unscrolled(s.impulses) - Unscrolled(advanced)
      whole == WholeQuotient(available, Unit)
      rest == available - whole * Unit
      pending == Pending(advanced, time)
      correction == IF pending = <<>> THEN RoundedQuotient(rest, Unit) ELSE 0
  IN  [s EXCEPT !.impulses = pending,
                !.fractional = IF pending = <<>> THEN 0 ELSE rest,
                !.emitted = @ + whole + correction]

-----------------------------------------------------------------------------
\* The hook's time stamp is of this instant or, on its way through the queue,
\* of the one before.
Push(a, delta, time) ==
  /\ pushes < MaxPushes
  /\ \A b \in Axis : axes[b].lastInput <= time
  /\ axes' = [axes EXCEPT ![a] = Pushed(@, delta, time)]
  /\ pushes' = pushes + 1
  /\ UNCHANGED <<tuning, clock, sampled, frame, retuned>>

\* Sample: both axes.
Sample(time) ==
  /\ axes' = [a \in Axis |-> SampledAxis(axes[a], time)]
  /\ frame' = [a \in Axis |-> axes'[a].emitted - axes[a].emitted]
  /\ sampled' = time
  /\ retuned' = FALSE
  /\ UNCHANGED <<tuning, clock, pushes>>

\* Reset: both axes; the accelerations and last input times stay.
Reset ==
  /\ axes' = [a \in Axis |-> Cancelled(axes[a])]
  /\ UNCHANGED <<tuning, clock, sampled, frame, pushes, retuned>>

\* SetSettings may come in the middle of a gesture.
SetSettings(t) ==
  /\ tuning' = t
  /\ retuned' = (retuned \/ t # tuning)
  /\ UNCHANGED <<axes, clock, sampled, frame, pushes>>

TimePasses ==
  /\ clock < MaxTime
  /\ clock' = clock + 1
  /\ UNCHANGED <<axes, tuning, sampled, frame, pushes, retuned>>

Next ==
  \/ \E a \in Axis, delta \in Delta, time \in {clock - 1, clock} \cap Nat : Push(a, delta, time)
  \/ \E time \in sampled .. clock : Sample(time)
  \/ Reset
  \/ \E t \in Tuning : SetSettings(t)
  \/ TimePasses

Spec == Init /\ [][Next]_vars

-----------------------------------------------------------------------------
Impulse == [start : Nat, duration : Nat \ {0}, total : Int \ {0}, position : Int]

AxisState == [impulses : Seq(Impulse), fractional : Int, lastInput : Nat \cup {-1},
              acceleration : Nat, direction : {-1, 0, 1},
              accepted : Int, emitted : Int, cancelled : Int]

\* Every variable stays in its type, an acceleration of at least one,
\* and a kept remainder below one whole unit.
TypeOK ==
  /\ axes \in [Axis -> AxisState]
  /\ tuning \in Tuning
  /\ clock \in 0 .. MaxTime /\ sampled \in 0 .. clock
  /\ frame \in [Axis -> Int]
  /\ \A a \in Axis : axes[a].acceleration >= 100 /\ Magnitude(axes[a].fractional) < Unit

\* The books balance on each axis: what the wheel was promised has been emitted,
\* was written off, is kept as a remainder or is still ahead, through overlapping
\* impulses, reversals, resets, late samples and settings changed on the way.
Conserved ==
  \A a \in Axis : LET s == axes[a] IN
    Unit * s.accepted = Unit * (s.emitted + s.cancelled) + s.fractional + Unscrolled(s.impulses)

\* An axis at rest owes nothing: no remainder leaks into the next gesture.
IdleSettled ==
  \A a \in Axis : axes[a].impulses = <<>> =>
    axes[a].fractional = 0 /\ axes[a].accepted = axes[a].emitted + axes[a].cancelled

\* Momentum of two directions never overlaps on one axis.
OneDirection ==
  \A a \in Axis : \A i \in DOMAIN axes[a].impulses :
    Sign(axes[a].impulses[i].total) = axes[a].direction

\* A sample at which every impulse of an axis has ended leaves the axis at rest, so
\* that the worker stops its timer.
SettlesOnTime ==
  [][\A time \in sampled .. clock : Sample(time) =>
       \A a \in Axis : (\A i \in DOMAIN axes[a].impulses : Ended(axes[a].impulses[i], time))
                         => axes'[a].impulses = <<>>]_vars

\* The page never jumps back: a frame goes the way of the momentum, unless the
\* settings changed since the last sample (SetSettings in the middle of a gesture
\* swaps the curve under the impulses and may ask for less than was scrolled).
NoBacklash ==
  [][\A time \in sampled .. clock : Sample(time) /\ ~retuned =>
       \A a \in Axis : Sign(frame'[a]) \in {0, axes[a].direction}]_vars
=============================================================================

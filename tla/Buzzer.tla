------------------------------- MODULE Buzzer -------------------------------
(***************************************************************************)
(* The buzzer, src/common/buzzer.c, with the cues of robot_cues.c: a       *)
(* pattern of notes that an alarm steps through while the robot gets on    *)
(* with its run.  The foreground changes the pattern with interrupts off;  *)
(* the alarm pool is the SDK's, and other users may leave it no free slot. *)
(***************************************************************************)
EXTENDS Integers, Sequences

CONSTANT Alarms    \* the alarms the pool can hand out
ASSUME AlarmsAssumed == Alarms \subseteq Nat \ {0}

VARIABLES
  cue, noteIndex,  \* pattern and pattern_index
  alarm, playing,
  tone,            \* the PWM sounds
  pendingAlarms    \* the pool's alarms that will call next_note

buzzerVars == <<cue, noteIndex, alarm, playing, tone, pendingAlarms>>

\* robot_cues.c: which notes sound, whether the pattern repeats and from where.
Sound(n) == [i \in 1..n |-> i % 2 = 1]
Once(notes) == [notes |-> notes, repeat |-> FALSE, from |-> 1]
Cues == [
  none        |-> Once(<<>>),
  start       |-> Once(Sound(1)),
  calibrating |-> [notes |-> Sound(1), repeat |-> TRUE, from |-> 1],
  pass        |-> Once(Sound(1)),
  in_range    |-> [notes |-> Sound(12), repeat |-> TRUE, from |-> 11],
  collected   |-> Once(Sound(5)),
  fault       |-> Once(Sound(5))]
Notes(c) == Cues[c].notes

BuzzerInit ==
  /\ cue = "none" /\ noteIndex = 1 /\ alarm = 0 /\ playing = FALSE
  /\ tone = FALSE /\ pendingAlarms = {}

\* start_pattern: the old alarm is cancelled, then the first note sounds until
\* the new one.  With no free alarm the buzzer stays silent.
Cancelled_Never == pendingAlarms
Cancelled == pendingAlarms \ {alarm}

start_pattern(c) ==
  /\ cue' = c /\ noteIndex' = 1
  /\ \/ /\ Notes(c) # <<>>
        /\ \E a \in Alarms \ Cancelled : alarm' = a /\ pendingAlarms' = Cancelled \cup {a}
        /\ playing' = TRUE /\ tone' = Notes(c)[1]
     \/ /\ alarm' = 0 /\ pendingAlarms' = Cancelled
        /\ playing' = FALSE /\ tone' = FALSE

cue_play(c) == start_pattern(c)
cue_stop == start_pattern("none")

\* next_note: the alarm callback.  It is called again unless the pattern is over.
LastNote == noteIndex = Len(Notes(cue))
next_note(a) ==
  /\ a \in pendingAlarms /\ UNCHANGED cue
  /\ IF LastNote /\ ~Cues[cue].repeat
       THEN /\ tone' = FALSE /\ playing' = FALSE /\ alarm' = 0
            /\ noteIndex' = noteIndex + 1 /\ pendingAlarms' = pendingAlarms \ {a}
       ELSE /\ noteIndex' = IF LastNote THEN Cues[cue].from ELSE noteIndex + 1
            /\ tone' = Notes(cue)[noteIndex'] /\ UNCHANGED <<playing, alarm, pendingAlarms>>

-----------------------------------------------------------------------------
\* A pattern replaced while its alarm is due leaves no second alarm behind to
\* step the new one, and a silent buzzer owns none: buzzer.c:78 and 90.  What
\* sounds is the note the index names.
OneAlarm ==
  /\ pendingAlarms = IF playing THEN {alarm} ELSE {}
  /\ tone = (playing /\ Notes(cue)[noteIndex])
=============================================================================

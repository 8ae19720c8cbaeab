------------------------------ MODULE Journal ------------------------------
(***************************************************************************)
(* What the saved report promises, without pages, sectors and checkpoints: *)
(* a notebook that shows the first lines of one run.  A new run tears the  *)
(* pages out, and only it does; from then on lines are added in order      *)
(* until the run is marked as complete, and then nothing changes any more. *)
(***************************************************************************)
EXTENDS Naturals

CONSTANT RUNS

VARIABLES
  shownRun, shownLines,  \* the run a replay prints, none is 0, and how much of it
  found,                 \* a replay finds a run at all
  complete,              \* and says that it has all of it
  erasing                \* an explicit start is under way

shown == <<shownRun, shownLines, found, complete>>

JournalInit ==
  /\ shownRun = 0 /\ shownLines = 0
  /\ found = FALSE /\ complete = FALSE /\ erasing = FALSE

StartsOver == ~erasing /\ erasing' = TRUE /\ UNCHANGED shown

\* Pages go at any pace; a start cut short may leave the first of them.
TearsOut ==
  /\ erasing /\ erasing' \in BOOLEAN
  /\ shownLines' \in 0..shownLines
  /\ shownRun' = IF shownLines' = 0 THEN 0 ELSE shownRun
  /\ found' \in {found, FALSE} /\ complete' \in {complete, FALSE}

NewRun ==
  /\ ~erasing /\ ~found /\ found' = TRUE
  /\ UNCHANGED <<shownRun, shownLines, complete, erasing>>

Adds ==
  /\ ~erasing /\ found /\ ~complete
  /\ shownLines' > shownLines
  /\ shownRun' \in (IF shownRun = 0 THEN 1..RUNS ELSE {shownRun})
  /\ UNCHANGED <<found, complete, erasing>>

Completes ==
  /\ ~erasing /\ found /\ ~complete /\ complete' = TRUE
  /\ UNCHANGED <<shownRun, shownLines, found, erasing>>

JournalNext == StartsOver \/ TearsOut \/ NewRun \/ Adds \/ Completes
JournalSpec == JournalInit /\ [][JournalNext]_<<shown, erasing>>
=============================================================================

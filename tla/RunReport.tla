----------------------------- MODULE RunReport -----------------------------
(***************************************************************************)
(* The run's report, src/getting_there/run_report.c, over the journal, as  *)
(* main() uses it: lines are collected in RAM by the foreground and by     *)
(* radio callbacks alike, the foreground saves them at checkpoints and     *)
(* closes the journal at the end of the run, and the power can be cut at   *)
(* any moment.  Every boot is a new run; only an explicit start touches    *)
(* the flash.  The USB display queue is left out.                          *)
(***************************************************************************)
EXTENDS ReportStore, SequencesExt

CONSTANTS
  RUNS,             \* boots followed
  MAX_LINES,        \* lines a run reports
  REPORT_CAPACITY   \* lines the RAM buffer holds

ReportAssumption ==
  /\ RUNS \in Nat \ {0} /\ MAX_LINES \in Nat /\ REPORT_CAPACITY \in Nat \ {0}
  /\ Text = (1..RUNS) \X (1..MAX_LINES)
ASSUME ReportAssumed == ReportAssumption

VARIABLES
  pending,                         \* lines not yet handed to the journal
  reportActive, failed, closed,    \* report_state
  phase,                           \* where main() is
  run,                             \* history: the number of this boot
  reported,                        \* history: by run, the lines reported before it closed
  snapshotAt,                      \* history: lines reported when the last snapshot was taken
  savedTo                          \* history: lines the last good checkpoint answered for

reportVars == <<pending, reportActive, failed, closed>>
ghostVars == <<run, reported, snapshotAt, savedTo>>
vars == <<flash, storeVars, reportVars, phase, ghostVars>>

Init ==
  /\ StoreInit
  /\ pending = <<>> /\ reportActive = FALSE /\ failed = FALSE /\ closed = FALSE
  /\ phase = "boot" /\ run = 1 /\ reported = [r \in 1..RUNS |-> 0]
  /\ snapshotAt = 0 /\ savedTo = 0

\* report_format: a line, from the foreground or a callback.  One that was cut to
\* fit or finds no room is not recorded, and neither is any after it.
report_format(oversized) ==
  /\ ~closed /\ reported[run] < MAX_LINES
  /\ reported' = [reported EXCEPT ![run] = @ + 1]
  /\ IF oversized \/ Len(pending) + 1 > REPORT_CAPACITY
       THEN failed' = TRUE /\ UNCHANGED pending
       ELSE /\ pending' = IF failed THEN pending ELSE Append(pending, <<run, reported'[run]>>)
            /\ UNCHANGED failed
  /\ UNCHANGED <<flash, storeVars, reportActive, closed, phase, run, snapshotAt, savedTo>>

\* report_checkpoint up to its call of the journal; answer says what came of it.
\* An inactive report has nothing to save to.
BeginCheckpoint ==
  /\ snapshotAt' = reported[run]
  /\ pending' = IF reportActive' THEN <<>> ELSE pending
  /\ IF reportActive' /\ pending # <<>>
       THEN report_store_append(pending)
       ELSE answer' = "ok" /\ UNCHANGED <<flash, next, active, job, sector, rest>>

\* The end of report_checkpoint: what it adds to failed, whose negation it returns.
CheckpointFailed_Forgiving == failed
CheckpointFailed == failed \/ answer = "failed"

Answered == job = "none" /\ answer # "none"

\* GP20.  main() has reported its banner by then.
report_begin ==
  /\ phase = "boot" /\ phase' = "begin" /\ reported[run] > 0
  /\ report_store_begin
  /\ UNCHANGED <<reportVars, ghostVars>>

\* report_begin after report_store_begin has answered.
ReportBegun ==
  /\ phase = "begin" /\ Answered /\ phase' = "begin_checkpoint"
  /\ reportActive' = (answer = "ok")
  /\ failed' = (failed \/ answer = "failed")
  /\ BeginCheckpoint
  /\ UNCHANGED <<closed, run, reported, savedTo>>

\* save_checkpoint, from the run.
report_checkpoint ==
  /\ phase = "running" /\ phase' = "checkpoint"
  /\ UNCHANGED <<reportActive, failed, closed, run, reported, savedTo>>
  /\ BeginCheckpoint

\* The checkpoint returns; a run that cannot be recorded does not start, and one
\* whose checkpoint failed ends.
CheckpointReturns ==
  /\ phase \in {"begin_checkpoint", "checkpoint"} /\ Answered
  /\ failed' = CheckpointFailed
  /\ savedTo' = IF failed' THEN savedTo ELSE snapshotAt
  /\ phase' = IF ~failed' THEN "running"
              ELSE IF phase = "begin_checkpoint" THEN "unrecorded" ELSE "stopping"
  /\ UNCHANGED <<flash, storeVars, pending, reportActive, closed, run, reported, snapshotAt>>

\* report_finish up to its checkpoint: closed first, so that nothing is added
\* behind the snapshot.
report_finish_StaysOpen ==
  /\ phase \in {"running", "stopping"} /\ phase' = "finish_checkpoint"
  /\ UNCHANGED <<reportActive, failed, closed, run, reported, savedTo>>
  /\ BeginCheckpoint
report_finish ==
  /\ phase \in {"running", "stopping"} /\ phase' = "finish_checkpoint"
  /\ closed' = TRUE
  /\ UNCHANGED <<reportActive, failed, run, reported, savedTo>>
  /\ BeginCheckpoint

\* The end marker is written only if everything before it was.
FinishCheckpointed ==
  /\ phase = "finish_checkpoint" /\ Answered
  /\ failed' = CheckpointFailed
  /\ IF failed'
       THEN phase' = "ended" /\ reportActive' = FALSE /\ UNCHANGED <<flash, storeVars>>
       ELSE phase' = "finish" /\ report_store_finish /\ UNCHANGED reportActive
  /\ UNCHANGED <<pending, closed, ghostVars>>

Finished ==
  /\ phase = "finish" /\ Answered
  /\ failed' = (failed \/ answer = "failed")
  /\ reportActive' = FALSE /\ phase' = "ended"
  /\ UNCHANGED <<flash, storeVars, pending, closed, ghostVars>>

Foreground ==
  \/ report_begin \/ ReportBegun \/ report_checkpoint \/ CheckpointReturns
  \/ report_finish \/ FinishCheckpointed \/ Finished

StoreRuns == StoreStep /\ UNCHANGED <<reportVars, phase, ghostVars>>

PowerCut ==
  /\ run < RUNS /\ run' = run + 1
  /\ LosePower
  /\ pending' = <<>> /\ reportActive' = FALSE /\ failed' = FALSE /\ closed' = FALSE
  /\ phase' = "boot" /\ snapshotAt' = 0 /\ savedTo' = 0
  /\ UNCHANGED reported

Next ==
  \/ \E oversized \in BOOLEAN : report_format(oversized)
  \/ Foreground \/ StoreRuns \/ PowerCut

Spec == Init /\ [][Next]_vars

-----------------------------------------------------------------------------
(* Properties                                                               *)

ReportTypes ==
  /\ StoreTypeOK
  /\ pending \in Seq(Text) /\ Len(pending) <= REPORT_CAPACITY
  /\ reportActive \in BOOLEAN /\ failed \in BOOLEAN /\ closed \in BOOLEAN
  /\ phase \in {"boot", "begin", "begin_checkpoint", "running", "checkpoint", "stopping",
                "unrecorded", "finish_checkpoint", "finish", "ended"}
  /\ run \in 1..RUNS /\ reported \in [1..RUNS -> 0..MAX_LINES]
  /\ snapshotAt \in 0..MAX_LINES /\ savedTo \in 0..snapshotAt

\* The RAM buffer never overflows, the journal holds only records where they belong,
\* and while it accepts text it can be closed: the page for the end marker is free
\* however much was appended, through every failure and power cut (report_store.c:75).
ReportInv == ReportTypes /\ EndHasRoom

\* The lines a replay prints.
Replayed == FlattenSeq([i \in Emitted |-> flash[i].data])

\* A replay prints the first lines of one run, in order, each once: never a line
\* of another run, a gap or a repetition, wherever the power was cut.
ReplayIsPrefixOfOneRun ==
  \E r \in 1..RUNS : \A k \in DOMAIN Replayed : Replayed[k] = <<r, k>>

\* "[COMPLETE: all recorded run text saved]": then every line the run reported
\* until it was closed is printed, whoever reported it and whenever.
CompleteIsEverything ==
  SaysComplete => \E r \in 1..RUNS :
    /\ Len(Replayed) = reported[r]
    /\ \A k \in DOMAIN Replayed : Replayed[k][1] = r

\* The journal implements the notebook of module Journal: "Previous run is erased
\* ONLY on explicit GP20 start" (report_store.c:63), and until then a replay only
\* gains the next lines of the run it shows, power cuts and failed writes included.
Notebook == INSTANCE Journal WITH
  shownRun <- IF Replayed = <<>> THEN 0 ELSE Replayed[1][1],
  shownLines <- Len(Replayed),
  found <- RunFound, complete <- SaysComplete, erasing <- job = "erase"
JournalKept == Notebook!JournalSpec

\* A checkpoint that returned true is durable: every line reported before it is
\* printed by a replay, now and after any failure of a later checkpoint.
CheckpointIsDurable ==
  phase \notin {"boot", "begin", "begin_checkpoint", "unrecorded"} =>
    Len(Replayed) >= savedTo

=============================================================================

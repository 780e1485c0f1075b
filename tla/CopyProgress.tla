---------------------------- MODULE CopyProgress ----------------------------
(***************************************************************************)
(* _copy_with_progress_fallback of src/src/asanypath/cli.py: while a copy  *)
(* runs, its callbacks report progress, and a monitor task reports the     *)
(* size of a local destination until the first callback; a copy that never *)
(* called back is reported at its end.  The monitor reads the size in      *)
(* another step than it reports it, and the destination may be a file that *)
(* the copy is going to replace.                                           *)
(***************************************************************************)
EXTENDS Integers

CONSTANT PgSize   \* the size of the source

ASSUME PgAssumption == PgSize \in Nat

VARIABLES pgDst,      \* the size of the destination, -1 when there is none
          pgDone,     \* bytes the copy has written
          pgCalls,    \* the copy reports what it does
          pgEmitted,  \* progress_emitted
          pgLast,     \* last_reported
          pgShown,    \* the sum of the deltas that were reported
          pgTotal,    \* the last total that was reported
          pgMonitor,  \* the monitor task: "off", "sleep", "stat", "gone"
          pgPolled,   \* the size it read
          pgState     \* "copying", "copied", "failed" or "returned"

pgVars == <<pgDst, pgDone, pgCalls, pgEmitted, pgLast, pgShown, pgTotal, pgMonitor, pgPolled,
            pgState>>

\* The destination may exist before, of any size; -vv on a local one polls.
PgInit ==
    /\ pgDst \in -1..(PgSize + 1) /\ pgDone = 0 /\ pgCalls \in BOOLEAN
    /\ pgEmitted = FALSE /\ pgLast = 0 /\ pgShown = 0 /\ pgTotal = 0
    /\ pgMonitor \in {"off", "sleep"} /\ pgPolled = -1 /\ pgState = "copying"

\* stat of the destination, None (-1) when there is nothing.
PgGetSize == pgDst

\* The pool's _on_progress: total_bytes and what the row of the file shows.
PgReceived(delta, total) ==
    /\ pgShown' = IF delta > 0 THEN pgShown + delta ELSE pgShown
    /\ pgTotal' = total

\* _emit_progress, and last_reported
PgEmit(delta, total) == PgReceived(delta, total) /\ pgLast' = total

\* _progress_cb
PgAsGiven(total) == total
PgAtLeast(total) == IF total > pgLast THEN total ELSE pgLast

\* The copy writes another byte, and reports it if it does so at all.
PgWrite ==
    /\ pgState = "copying" /\ pgDone < PgSize
    /\ pgDone' = pgDone + 1 /\ pgDst' = pgDone'
    /\ IF pgCalls
       THEN /\ pgEmitted' = TRUE
            /\ PgEmit(PgAtLeast(pgDone') - pgLast, PgAtLeast(pgDone'))
       ELSE UNCHANGED <<pgEmitted, pgLast, pgShown, pgTotal>>
    /\ UNCHANGED <<pgCalls, pgMonitor, pgPolled, pgState>>

\* _monitor: sleep, then look at the destination unless somebody reported.
PgWake ==
    /\ pgMonitor = "sleep" /\ pgState \in {"copying", "copied", "failed"}
    /\ pgMonitor' = IF pgEmitted THEN "gone" ELSE "stat"
    /\ pgPolled' = PgGetSize
    /\ UNCHANGED <<pgDst, pgDone, pgCalls, pgEmitted, pgLast, pgShown, pgTotal, pgState>>

\* The size is there: reported if it grew and nobody reported meanwhile.
PgPolled ==
    /\ pgMonitor = "stat" /\ pgState \in {"copying", "copied", "failed"}
    /\ IF ~pgEmitted /\ pgPolled > pgLast THEN PgEmit(pgPolled - pgLast, pgPolled)
       ELSE UNCHANGED <<pgLast, pgShown, pgTotal>>
    /\ pgMonitor' = IF pgEmitted THEN "gone" ELSE "sleep"
    /\ pgPolled' = -1
    /\ UNCHANGED <<pgDst, pgDone, pgCalls, pgEmitted, pgState>>

\* copy_call returned or raised.
PgCopied ==
    /\ pgState = "copying"
    /\ pgState' \in (IF pgDone = PgSize THEN {"copied", "failed"} ELSE {"failed"})
    /\ pgDst' = IF pgState' = "copied" THEN PgSize ELSE pgDst
    /\ UNCHANGED <<pgDone, pgCalls, pgEmitted, pgLast, pgShown, pgTotal, pgMonitor, pgPolled>>

\* The monitor is cancelled and awaited; then the final size is reported if
\* the copy never did.
PgCancelled == IF pgMonitor = "off" THEN "off" ELSE "gone"

PgReturn ==
    /\ pgState \in {"copied", "failed"}
    /\ pgMonitor' = PgCancelled
    /\ IF pgState = "copied" /\ ~pgEmitted /\ PgGetSize > pgLast
       THEN PgEmit(PgGetSize - pgLast, PgGetSize)
       ELSE UNCHANGED <<pgLast, pgShown, pgTotal>>
    /\ pgState' = "returned"
    /\ UNCHANGED <<pgDst, pgDone, pgCalls, pgEmitted, pgPolled>>

PgDone == pgState = "returned" /\ UNCHANGED pgVars

PgNext == PgWrite \/ PgWake \/ PgPolled \/ PgCopied \/ PgReturn \/ PgDone

PgSpec == PgInit /\ [][PgNext]_pgVars
-----------------------------------------------------------------------------
\* Every variable has its type; no monitor outlives the call.
PgTypeOK ==
    /\ pgDst \in -1..(PgSize + 1) /\ pgDone \in 0..PgSize
    /\ pgMonitor \in {"off", "sleep", "stat", "gone"}
    /\ pgState = "returned" => pgMonitor \in {"off", "gone"}

\* The deltas add up to the total that is shown, whichever of the monitor, the
\* callbacks and the final report it came from.
PgAddsUp == pgShown = pgTotal

\* The progress that is shown adds up and never goes back, also when the
\* destination was larger before.
PgConsistent == [][PgAddsUp' /\ pgTotal' >= pgTotal]_pgVars
=============================================================================

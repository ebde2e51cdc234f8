--------------------------- MODULE BackgroundTask ---------------------------
(***************************************************************************)
(* One background job with a deadline (ketchup-scheduler background.rs):   *)
(* the thread that runs the job, the watchdog that waits for the deadline, *)
(* and the holder of the task, who polls, waits, cancels or drops it.      *)
(*                                                                         *)
(* The clock is one bit, whether the deadline has passed.  An event in the *)
(* channel is "progress" or the result of the job.                         *)
(***************************************************************************)
EXTENDS Integers, Sequences

CONSTANT
    MaxProgress     \* bound on the progress a job reports

ASSUME ConstantAssumption == MaxProgress \in Nat

VARIABLES
    job,            \* where the job's thread is
    outcome,        \* what the job's thread is about to send
    watchdog,       \* where the watchdog is
    cancelled,      \* the shared cancellation flag
    expired,        \* the deadline has passed
    events,         \* the channel to the holder
    reported,       \* how much progress was reported
    handle,         \* "held", "waiting" (in wait) or "dropped"
    answer,         \* what the holder was told, "none" before
    asked           \* history: the holder cancelled before it had an answer

vars == <<job, outcome, watchdog, cancelled, expired, events, reported, handle,
          answer, asked>>

Results == {"Ok", "Cancelled", "TimedOut"}

-----------------------------------------------------------------------------
(* The clock *)

deadline_passes ==
    /\ ~expired
    /\ expired' = TRUE
    /\ UNCHANGED <<job, outcome, watchdog, cancelled, events, reported, handle,
                   answer, asked>>

-----------------------------------------------------------------------------
(* The job's thread *)

\* Mutant: the callback that runs after the result may report progress too.
progress_from_finished ==
    /\ job \in {"running", "sent"}
    /\ reported < MaxProgress
    /\ reported' = reported + 1
    /\ events' = IF handle = "dropped" THEN events ELSE Append(events, "progress")
    /\ UNCHANGED <<job, outcome, watchdog, cancelled, expired, handle, answer, asked>>

\* TaskContext::progress; nothing is sent once the holder is gone.
progress ==
    /\ job = "running"
    /\ reported < MaxProgress
    /\ reported' = reported + 1
    /\ events' = IF handle = "dropped" THEN events ELSE Append(events, "progress")
    /\ UNCHANGED <<job, outcome, watchdog, cancelled, expired, handle, answer, asked>>

\* The job returns its value; the channel the watchdog listens on is dropped.
job_returns ==
    /\ job = "running"
    /\ job' = "returned"
    /\ UNCHANGED <<outcome, watchdog, cancelled, expired, events, reported, handle,
                   answer, asked>>

\* Mutant: the panic is caught and sent as an event of its own.
job_panics_caught ==
    /\ job = "running"
    /\ job' = "panicked"
    /\ events' = Append(events, "Failed")
    /\ UNCHANGED <<outcome, watchdog, cancelled, expired, reported, handle,
                   answer, asked>>

\* Unwinding drops both channels: the watchdog's and the holder's.
job_panics ==
    /\ job = "running"
    /\ job' = "panicked"
    /\ UNCHANGED <<outcome, watchdog, cancelled, expired, events, reported, handle,
                   answer, asked>>

\* Mutant: the clock is read without waiting for the watchdog.
join_watchdog_skipped ==
    /\ job = "returned"
    /\ outcome' = IF expired THEN "TimedOut" ELSE "Ok"
    /\ job' = "joined"
    /\ UNCHANGED <<watchdog, cancelled, expired, events, reported, handle,
                   answer, asked>>

\* The watchdog is joined before the clock is read, so it can no longer set
\* the flag that is read next.
join_watchdog ==
    /\ job = "returned"
    /\ watchdog = "ended"
    /\ outcome' = IF expired THEN "TimedOut" ELSE "Ok"
    /\ job' = "joined"
    /\ UNCHANGED <<watchdog, cancelled, expired, events, reported, handle,
                   answer, asked>>

\* The flag decides the result of a job that was on time; it may still be set
\* before the result is sent.
check_cancelled ==
    /\ job = "joined"
    /\ outcome' = IF outcome = "Ok" /\ cancelled THEN "Cancelled" ELSE outcome
    /\ job' = "decided"
    /\ UNCHANGED <<watchdog, cancelled, expired, events, reported, handle,
                   answer, asked>>

\* The one result is sent, if anybody is left to receive it.
send_result ==
    /\ job = "decided"
    /\ events' = IF handle = "dropped" THEN events ELSE Append(events, outcome)
    /\ job' = IF handle = "dropped" THEN "ended" ELSE "sent"
    /\ UNCHANGED <<outcome, watchdog, cancelled, expired, reported, handle, answer,
                   asked>>

\* The callback runs after the result is delivered.
finished ==
    /\ job = "sent"
    /\ job' = "ended"
    /\ UNCHANGED <<outcome, watchdog, cancelled, expired, events, reported, handle,
                   answer, asked>>

-----------------------------------------------------------------------------
(* The watchdog *)

\* recv_timeout ran out; when the job returns at the same moment it may see
\* either.
watchdog_times_out ==
    /\ watchdog = "waiting"
    /\ expired
    /\ watchdog' = "firing"
    /\ UNCHANGED <<job, outcome, cancelled, expired, events, reported, handle,
                   answer, asked>>

\* Mutant: lateness is noted, the job is not told.
watchdog_cancels_nothing ==
    /\ watchdog = "firing"
    /\ watchdog' = "ended"
    /\ UNCHANGED <<job, outcome, cancelled, expired, events, reported, handle,
                   answer, asked>>

watchdog_cancels ==
    /\ watchdog = "firing"
    /\ watchdog' = "ended"
    /\ cancelled' = TRUE
    /\ UNCHANGED <<job, outcome, expired, events, reported, handle, answer, asked>>

watchdog_stops ==
    /\ watchdog = "waiting"
    /\ job # "running"
    /\ watchdog' = "ended"
    /\ UNCHANGED <<job, outcome, cancelled, expired, events, reported, handle,
                   answer, asked>>

-----------------------------------------------------------------------------
(* The holder *)

\* Mutant: a result already in the channel is handed out after a cancel.
settle_as_sent(result) == result

\* A result that arrives after cancel reads as cancelled.
settle(result) == IF result = "Ok" /\ cancelled THEN "Cancelled" ELSE result

cancel ==
    /\ handle = "held"
    /\ ~cancelled
    /\ cancelled' = TRUE
    /\ asked' = (asked \/ answer = "none")
    /\ UNCHANGED <<job, outcome, watchdog, expired, events, reported, handle, answer>>

\* poll and next_event: the next event, settled.  In wait the task is consumed
\* with its result, and dropping it sets the flag.
receive ==
    /\ handle # "dropped"
    /\ answer = "none"
    /\ events # <<>>
    /\ events' = Tail(events)
    /\ IF Head(events) = "progress" THEN UNCHANGED <<answer, handle, cancelled>>
       ELSE /\ answer' = settle(Head(events))
            /\ handle' = IF handle = "waiting" THEN "dropped" ELSE handle
            /\ cancelled' = (cancelled \/ handle = "waiting")
    /\ UNCHANGED <<job, outcome, watchdog, expired, reported, asked>>

\* The job's thread is gone without a result.
receive_disconnected ==
    /\ handle # "dropped"
    /\ answer = "none"
    /\ events = <<>>
    /\ job \in {"panicked", "ended"}
    /\ answer' = "Failed"
    /\ handle' = IF handle = "waiting" THEN "dropped" ELSE handle
    /\ cancelled' = (cancelled \/ handle = "waiting")
    /\ UNCHANGED <<job, outcome, watchdog, expired, events, reported, asked>>

wait ==
    /\ handle = "held"
    /\ answer = "none"
    /\ handle' = "waiting"
    /\ UNCHANGED <<job, outcome, watchdog, cancelled, expired, events, reported,
                   answer, asked>>

wait_times_out ==
    /\ handle = "waiting"
    /\ answer' = "TimedOut"
    /\ cancelled' = TRUE
    /\ handle' = "dropped"
    /\ events' = <<>>
    /\ UNCHANGED <<job, outcome, watchdog, expired, reported, asked>>

drop ==
    /\ handle = "held"
    /\ handle' = "dropped"
    /\ cancelled' = TRUE
    /\ events' = <<>>
    /\ asked' = (asked \/ answer = "none")
    /\ UNCHANGED <<job, outcome, watchdog, expired, reported, answer>>

-----------------------------------------------------------------------------

Init ==
    /\ job = "running"
    /\ outcome = "none"
    /\ watchdog = "waiting"
    /\ cancelled = FALSE
    /\ expired = FALSE
    /\ events = <<>>
    /\ reported = 0
    /\ handle = "held"
    /\ answer = "none"
    /\ asked = FALSE

JobThread ==
    \/ progress \/ job_returns \/ job_panics
    \/ join_watchdog \/ check_cancelled \/ send_result \/ finished

Watchdog == watchdog_times_out \/ watchdog_cancels \/ watchdog_stops

Holder == cancel \/ receive \/ receive_disconnected \/ wait \/ wait_times_out \/ drop

Next == deadline_passes \/ JobThread \/ Watchdog \/ Holder

\* Time passes and threads run; a job may return at any moment and must once it
\* sees the flag; a holder that keeps its task keeps reading it.
Fairness ==
    /\ WF_vars(deadline_passes)
    /\ WF_vars(cancelled /\ job_returns)
    /\ WF_vars(join_watchdog \/ check_cancelled \/ send_result \/ finished)
    /\ WF_vars(Watchdog)
    /\ WF_vars(receive \/ receive_disconnected)

Spec == Init /\ [][Next]_vars /\ Fairness

-----------------------------------------------------------------------------
(* Properties *)

\* The types of the variables; in particular only a job's own thread sends,
\* and never the "Failed" that the holder concludes from a closed channel.
TypeOK ==
    /\ job \in {"running", "returned", "joined", "decided", "sent", "ended",
               "panicked"}
    /\ outcome \in {"none"} \cup Results
    /\ watchdog \in {"waiting", "firing", "ended"}
    /\ cancelled \in BOOLEAN
    /\ expired \in BOOLEAN
    /\ events \in Seq({"progress"} \cup Results)
    /\ reported \in 0..MaxProgress
    /\ handle \in {"held", "waiting", "dropped"}
    /\ answer \in {"none", "Failed"} \cup Results
    /\ asked \in BOOLEAN

\* The channel carries one result at most, after all progress, and none once
\* the holder has it: "ends with exactly one result".
OneResult ==
    LET sent == {i \in DOMAIN events : events[i] \in Results}
    IN  /\ sent \subseteq {Len(events)}
        /\ sent # {} => answer = "none" /\ job \in {"sent", "ended"}

\* "Cancelled" means that the holder cancelled: the watchdog's use of the same
\* flag is always told as "TimedOut", however the deadline and the end of the
\* job fall together.
CancelledMeansAsked == answer = "Cancelled" => asked

\* "Failed" means that the job panicked.
FailedMeansPanic == answer = "Failed" => job = "panicked"

\* What the holder is told happened is what happened (settle, finished).
ToldWhy == CancelledMeansAsked /\ FailedMeansPanic

\* A holder that cancelled is never handed the job's value, not even one that
\* was sent before.
NoValueAfterCancel == [][answer = "none" /\ answer' = "Ok" => ~asked]_vars

\* A holder that keeps its task is told something.
Answered == <>(answer # "none" \/ handle = "dropped")

\* Every job ends, with or without a holder: the deadline stops the one that
\* would run forever.
JobEnds == <>(job \in {"ended", "panicked"} /\ watchdog = "ended")

\* A task comes to an end for its holder and for its thread
\* (run_until_deadline).
TaskEnds == Answered /\ JobEnds

=============================================================================

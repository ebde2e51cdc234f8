----------------------- MODULE BackgroundTaskProofs -----------------------
(***************************************************************************)
(* What BackgroundTask promises its holder, for any amount of progress.    *)
(*                                                                         *)
(* The argument: the watchdog is joined before the clock is read, so a     *)
(* flag that only the watchdog set is always told as a timeout; and a      *)
(* result leaves the channel only with an answer, so a holder without an   *)
(* answer finds either the result or a thread that panicked.               *)
(***************************************************************************)
EXTENDS BackgroundTask, TLAPS, SequenceTheorems

Events == {"progress"} \cup Results

\* Results in the channel are last, are what the thread decided, and nobody has them yet.
ChannelOK ==
    \A i \in 1..Len(events) : events[i] \in Results =>
        /\ i = Len(events) /\ events[i] = outcome
        /\ answer = "none" /\ job \in {"sent", "ended"}

\* Until a holder has its answer the result of a thread that sent it is in the channel.
ResultKept ==
    job \in {"sent", "ended"} /\ handle # "dropped" /\ answer = "none" =>
        events # <<>> /\ events[Len(events)] \in Results

\* The thread decides once the watchdog has ended.
ThreadOK ==
    /\ job \in {"running", "returned", "panicked"} => outcome = "none"
    /\ job \in {"joined", "decided", "sent", "ended"} => outcome \in Results /\ watchdog = "ended"
    /\ watchdog = "firing" => expired
    /\ answer # "none" => handle = "dropped" \/ job \in {"sent", "ended", "panicked"}
    /\ answer = "Failed" => job = "panicked"

\* Who set the flag.
FlagOK ==
    /\ asked => cancelled
    /\ cancelled /\ answer = "none" /\ ~asked =>
           watchdog = "ended" /\ expired /\ outcome \in {"none", "TimedOut"}
    /\ outcome = "Cancelled" /\ answer = "none" => asked
    /\ answer = "Cancelled" => asked

Inv == TypeOK /\ ChannelOK /\ ResultKept /\ ThreadOK /\ FlagOK

------------------------------------------------------------------------------
(* The channel *)

\* What sending one more event does to the channel.
LEMMA Sending ==
    ASSUME NEW S, NEW s \in Seq(S), NEW e \in S
    PROVE  /\ Append(s, e) \in Seq(S) /\ Append(s, e) # <<>>
           /\ Len(Append(s, e)) = Len(s) + 1
           /\ \A i \in 1..Len(s) : Append(s, e)[i] = s[i]
           /\ Append(s, e)[Len(s) + 1] = e
OBVIOUS

\* What receiving one event does to the channel.
LEMMA Receiving ==
    ASSUME NEW S, NEW s \in Seq(S), s # <<>>
    PROVE  /\ Tail(s) \in Seq(S) /\ Head(s) = s[1] /\ Head(s) \in S
           /\ Len(s) \in Nat /\ Len(s) >= 1 /\ Len(Tail(s)) = Len(s) - 1
           /\ \A i \in 1..(Len(s) - 1) : Tail(s)[i] = s[i + 1]
OBVIOUS

\* An empty channel holds no result.
LEMMA EmptyChannel ==
    ASSUME events' = <<>> PROVE ChannelOK' /\ events' \in Seq(Events)
BY DEF ChannelOK, Events

------------------------------------------------------------------------------
(* Steps that leave the channel alone *)

\* A step that moves no event and records no answer keeps the invariant.
LEMMA QuietStep ==
    ASSUME Inv, UNCHANGED events, UNCHANGED reported, UNCHANGED answer,
           \/ deadline_passes \/ job_returns \/ job_panics \/ join_watchdog
           \/ check_cancelled \/ finished \/ Watchdog \/ cancel \/ wait
    PROVE  Inv'
<1> USE DEF deadline_passes, job_returns, job_panics, join_watchdog, check_cancelled, finished,
            Watchdog, watchdog_times_out, watchdog_cancels, watchdog_stops, cancel, wait
<1>1. TypeOK'
  <2>1. job' \in {"running", "returned", "joined", "decided", "sent", "ended", "panicked"}
    BY DEF Inv, TypeOK
  <2>2. outcome' \in {"none"} \cup Results
    BY DEF Inv, TypeOK, Results
  <2>3. watchdog' \in {"waiting", "firing", "ended"}
    BY DEF Inv, TypeOK
  <2>4. cancelled' \in BOOLEAN /\ expired' \in BOOLEAN /\ asked' \in BOOLEAN
    BY Zenon DEF Inv, TypeOK
  <2>5. handle' \in {"held", "waiting", "dropped"}
    BY DEF Inv, TypeOK
  <2> QED
    BY <2>1, <2>2, <2>3, <2>4, <2>5 DEF Inv, TypeOK
<1>2. ChannelOK'
  BY DEF Inv, ChannelOK, TypeOK, ThreadOK
<1>3. ResultKept'
  BY DEF Inv, ResultKept
<1>4. ThreadOK'
  BY DEF Inv, ThreadOK, TypeOK, Results
<1>5. FlagOK'
  <2>1. CASE deadline_passes \/ job_returns \/ job_panics \/ finished \/ wait
    BY <2>1 DEF Inv, FlagOK, TypeOK
  <2>2. CASE join_watchdog
    BY <2>2 DEF Inv, FlagOK, TypeOK
  <2>3. CASE check_cancelled
    BY <2>3 DEF Inv, FlagOK, TypeOK
  <2>4. CASE Watchdog
    <3>1. CASE watchdog_cancels
      BY <3>1 DEF Inv, FlagOK, ThreadOK, TypeOK
    <3>2. CASE watchdog_times_out
      BY <3>2 DEF Inv, FlagOK, TypeOK
    <3>3. CASE watchdog_stops
      BY <3>3 DEF Inv, FlagOK, TypeOK
    <3> QED
      BY <2>4, <3>1, <3>2, <3>3 DEF Watchdog
  <2>5. CASE cancel
    BY <2>5 DEF Inv, FlagOK, TypeOK
  <2> QED
    BY <2>1, <2>2, <2>3, <2>4, <2>5
<1> QED
  BY <1>1, <1>2, <1>3, <1>4, <1>5 DEF Inv

------------------------------------------------------------------------------
(* Steps that send or receive *)

\* A reported progress keeps the invariant (progress).
LEMMA ProgressStep ==
    ASSUME Inv, progress PROVE Inv'
<1>1. events \in Seq(Events) /\ "progress" \in Events /\ "progress" \notin Results
  BY DEF Inv, TypeOK, Events, Results
<1>2. \A i \in 1..Len(events) : events[i] \notin Results
  BY DEF Inv, ChannelOK, progress
<1>3. /\ events' \in Seq(Events)
      /\ \A i \in 1..Len(events') : events'[i] \notin Results
  <2>1. CASE handle = "dropped"
    BY <1>1, <1>2, <2>1 DEF progress
  <2>2. CASE handle # "dropped"
    <3>1. events' = Append(events, "progress")
      BY <2>2 DEF progress
    <3> QED
      BY <1>1, <1>2, <3>1, Sending
  <2> QED
    BY <2>1, <2>2
<1>4. TypeOK'
  BY <1>3, ConstantAssumption DEF Inv, TypeOK, progress, Events
<1>5. ChannelOK'
  BY <1>3 DEF ChannelOK
<1>6. ResultKept' /\ ThreadOK' /\ FlagOK'
  BY DEF Inv, ResultKept, ThreadOK, FlagOK, progress
<1> QED
  BY <1>4, <1>5, <1>6 DEF Inv

\* The result sent keeps the invariant: it is the only one.
LEMMA SendStep ==
    ASSUME Inv, send_result PROVE Inv'
<1>1. events \in Seq(Events) /\ outcome \in Results /\ outcome \in Events
  BY DEF Inv, TypeOK, ThreadOK, Events, send_result
<1>2. \A i \in 1..Len(events) : events[i] \notin Results
  BY DEF Inv, ChannelOK, send_result
<1>3. CASE handle = "dropped"
  <2>1. TypeOK'
    BY <1>3 DEF Inv, TypeOK, send_result
  <2>2. ChannelOK'
    BY <1>2, <1>3 DEF ChannelOK, send_result
  <2>3. ResultKept' /\ ThreadOK' /\ FlagOK'
    BY <1>3 DEF Inv, ResultKept, ThreadOK, FlagOK, send_result
  <2> QED
    BY <2>1, <2>2, <2>3 DEF Inv
<1>4. CASE handle # "dropped"
  <2>1. events' = Append(events, outcome) /\ job' = "sent" /\ answer = "none"
        /\ UNCHANGED <<outcome, watchdog, cancelled, expired, reported, handle, answer, asked>>
    BY <1>4 DEF Inv, ThreadOK, send_result
  <2>2. /\ events' \in Seq(Events) /\ events' # <<>> /\ Len(events') = Len(events) + 1
        /\ \A i \in 1..Len(events) : events'[i] \notin Results
        /\ events'[Len(events')] = outcome
    BY <1>1, <1>2, <2>1, Sending
  <2>3. TypeOK'
    BY <2>1, <2>2 DEF Inv, TypeOK, Events
  <2>4. Len(events) \in Nat
    BY <1>1
  <2>5. ChannelOK'
    BY <2>1, <2>2, <2>4 DEF ChannelOK
  <2>6. ResultKept'
    BY <1>1, <2>1, <2>2 DEF ResultKept
  <2>7. ThreadOK' /\ FlagOK'
    BY <2>1 DEF Inv, ThreadOK, FlagOK, send_result
  <2> QED
    BY <2>3, <2>5, <2>6, <2>7 DEF Inv
<1> QED
  BY <1>3, <1>4

\* An event received keeps the invariant: they arrive in the order they were sent.
LEMMA ReceiveStep ==
    ASSUME Inv, receive PROVE Inv'
<1>1. /\ events \in Seq(Events) /\ events # <<>> /\ events' = Tail(events)
      /\ handle # "dropped" /\ answer = "none"
      /\ UNCHANGED <<job, outcome, watchdog, expired, reported, asked>>
  BY DEF Inv, TypeOK, Events, receive
<1>2. /\ events' \in Seq(Events) /\ Head(events) = events[1] /\ Head(events) \in Events
      /\ Len(events) \in Nat /\ Len(events) >= 1 /\ Len(events') = Len(events) - 1
      /\ \A i \in 1..(Len(events) - 1) : events'[i] = events[i + 1]
  BY <1>1, Receiving
<1>3. CASE Head(events) = "progress"
  <2>1. UNCHANGED <<answer, handle, cancelled>>
    BY <1>3 DEF receive
  <2>2. TypeOK'
    BY <1>1, <1>2, <2>1 DEF Inv, TypeOK, Events
  <2>3. ChannelOK'
    <3>1. SUFFICES ASSUME NEW i \in 1..Len(events'), events'[i] \in Results
                   PROVE  /\ i = Len(events') /\ events'[i] = outcome
                          /\ job \in {"sent", "ended"}
      BY <1>1, <2>1 DEF ChannelOK
    <3>2. i + 1 \in 1..Len(events) /\ events'[i] = events[i + 1]
      BY <1>2
    <3> QED
      BY <1>2, <3>1, <3>2 DEF Inv, ChannelOK
  <2>4. ResultKept'
    <3>1. SUFFICES ASSUME job \in {"sent", "ended"}
                 PROVE  events' # <<>> /\ events'[Len(events')] \in Results
      BY <1>1, <2>1 DEF ResultKept
    <3>2. events[Len(events)] \in Results
      BY <1>1, <3>1 DEF Inv, ResultKept
    <3>3. Len(events) # 1
      BY <1>2, <1>3, <3>2 DEF Results
    <3> QED
      BY <1>2, <3>2, <3>3
  <2>5. ThreadOK' /\ FlagOK'
    BY <1>1, <2>1 DEF Inv, ThreadOK, FlagOK
  <2> QED
    BY <2>2, <2>3, <2>4, <2>5 DEF Inv
<1>4. CASE Head(events) # "progress"
  <2>1. /\ answer' = settle(Head(events))
        /\ handle' = IF handle = "waiting" THEN "dropped" ELSE handle
        /\ cancelled' = (cancelled \/ handle = "waiting")
    BY <1>4 DEF receive
  <2>2. Head(events) \in Results
    BY <1>2, <1>4 DEF Events
  <2>3. Len(events) = 1 /\ Head(events) = outcome /\ job \in {"sent", "ended"}
    BY <1>2, <2>2 DEF Inv, ChannelOK
  <2>4. events' = <<>>
    BY <1>2, <2>3
  <2>5. answer' \in Results
    BY <2>1, <2>2 DEF settle, Results
  <2>6. TypeOK'
    BY <1>1, <1>2, <2>1, <2>5 DEF Inv, TypeOK, Events
  <2>7. ChannelOK'
    BY <2>4, EmptyChannel
  <2>8. ResultKept'
    BY <2>5 DEF ResultKept, Results
  <2>9. ThreadOK'
    BY <1>1, <2>3, <2>5 DEF Inv, ThreadOK, Results
  <2>10. FlagOK'
    BY <1>1, <2>1, <2>3, <2>5 DEF Inv, FlagOK, TypeOK, Results, settle
  <2> QED
    BY <2>6, <2>7, <2>8, <2>9, <2>10 DEF Inv
<1> QED
  BY <1>3, <1>4

\* The thread is gone: it panicked, or its result would be in the channel.
LEMMA DisconnectedStep ==
    ASSUME Inv, receive_disconnected PROVE Inv'
<1>1. job = "panicked"
  BY DEF Inv, ResultKept, receive_disconnected
<1>2. TypeOK'
  BY DEF Inv, TypeOK, receive_disconnected
<1>3. ChannelOK'
  BY EmptyChannel DEF receive_disconnected
<1>4. ResultKept' /\ ThreadOK'
  BY <1>1 DEF Inv, ResultKept, ThreadOK, receive_disconnected
<1>5. FlagOK'
  BY DEF Inv, FlagOK, TypeOK, receive_disconnected
<1> QED
  BY <1>2, <1>3, <1>4, <1>5 DEF Inv

\* A task dropped, or a wait that times out, keeps the invariant.
LEMMA DropStep ==
    ASSUME Inv, drop \/ wait_times_out PROVE Inv'
<1>1. events' = <<>>
  BY DEF drop, wait_times_out
<1>2. TypeOK'
  BY <1>1, EmptyChannel DEF Inv, TypeOK, Events, Results, drop, wait_times_out
<1>3. ChannelOK'
  BY <1>1, EmptyChannel
<1>4. ResultKept' /\ ThreadOK'
  BY DEF Inv, ResultKept, ThreadOK, drop, wait_times_out
<1>5. FlagOK'
  BY DEF Inv, FlagOK, TypeOK, drop, wait_times_out
<1> QED
  BY <1>2, <1>3, <1>4, <1>5 DEF Inv

------------------------------------------------------------------------------
\* The invariant always holds.
LEMMA Invariance == Spec => []Inv
<1>1. Init => Inv
  <2> SUFFICES ASSUME Init PROVE Inv
    OBVIOUS
  <2>1. TypeOK
    <3>1. events \in Seq({"progress"} \cup Results)
      BY DEF Init
    <3>2. reported \in 0..MaxProgress
      BY ConstantAssumption DEF Init
    <3> QED
      BY <3>1, <3>2 DEF Init, TypeOK
  <2>2. ChannelOK /\ ResultKept
    BY DEF Init, ChannelOK, ResultKept
  <2>3. ThreadOK /\ FlagOK
    BY DEF Init, ThreadOK, FlagOK
  <2> QED
    BY <2>1, <2>2, <2>3 DEF Inv
<1>2. Inv /\ [Next]_vars => Inv'
  <2> SUFFICES ASSUME Inv, [Next]_vars PROVE Inv'
    OBVIOUS
  <2>1. CASE \/ deadline_passes \/ job_returns \/ job_panics \/ join_watchdog
             \/ check_cancelled \/ finished \/ Watchdog \/ cancel \/ wait
    <3>1. UNCHANGED events /\ UNCHANGED reported /\ UNCHANGED answer
      BY <2>1 DEF deadline_passes, job_returns, job_panics, join_watchdog, check_cancelled,
         finished, Watchdog, watchdog_times_out, watchdog_cancels, watchdog_stops, cancel, wait
    <3> QED
      BY <2>1, <3>1, QuietStep
  <2>2. CASE UNCHANGED vars
    BY <2>2 DEF vars, Inv, TypeOK, ChannelOK, ResultKept, ThreadOK, FlagOK
  <2> QED
    BY <2>1, <2>2, ProgressStep, SendStep, ReceiveStep, DisconnectedStep, DropStep
    DEF Next, JobThread, Holder
<1> QED
  BY <1>1, <1>2, PTL DEF Spec

\* The variables keep their types: only the job's thread sends, and never "Failed".
THEOREM TypeCorrect == Spec => []TypeOK
<1>1. Inv => TypeOK
  BY DEF Inv
<1> QED
  BY <1>1, Invariance, PTL

\* The channel carries one result at most, after all progress, and none once the holder has
\* it (background.rs: "ends with exactly one result").
THEOREM ResultOnce == Spec => []OneResult
<1>1. Inv => OneResult
  BY DEF Inv, ChannelOK, TypeOK, OneResult
<1> QED
  BY <1>1, Invariance, PTL

\* A holder that is told "Cancelled" did cancel, however the deadline, the watchdog and the end
\* of the job fall together (the watchdog is joined before the clock is read), and one that is
\* told "Failed" had a job that panicked; no result is lost.
THEOREM ReasonIsTrue == Spec => []ToldWhy
<1>1. Inv => CancelledMeansAsked
  BY DEF Inv, FlagOK, CancelledMeansAsked
<1>2. Inv => FailedMeansPanic
  BY DEF Inv, ThreadOK, FailedMeansPanic
<1> QED
  BY <1>1, <1>2, Invariance, PTL DEF ToldWhy

\* A holder that cancelled is never handed the job's value, not even one that was sent before
\* (settle).
THEOREM CancelIsFinal == Spec => NoValueAfterCancel
<1>1. Inv /\ [Next]_vars => [answer = "none" /\ answer' = "Ok" => ~asked]_vars
  <2> SUFFICES ASSUME Inv, Next, answer = "none", answer' = "Ok" PROVE ~asked
    OBVIOUS
  <2>1. receive
    BY DEF Next, JobThread, Watchdog, Holder, deadline_passes, progress, job_returns, job_panics,
       join_watchdog, check_cancelled, send_result, finished, watchdog_times_out,
       watchdog_cancels, watchdog_stops, cancel, receive_disconnected, wait, wait_times_out, drop
  <2>2. ~cancelled
    BY <2>1 DEF receive, settle
  <2> QED
    BY <2>2 DEF Inv, FlagOK
<1> QED
  BY <1>1, Invariance, PTL DEF Spec, NoValueAfterCancel
=============================================================================

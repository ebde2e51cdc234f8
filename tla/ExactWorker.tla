---------------------------- MODULE ExactWorker ----------------------------
(***************************************************************************)
(* One exact worker process and the supervisor that asks it: ketchup-      *)
(* scheduler's worker_client.rs (ExactWorkerClient with its writer and     *)
(* reader threads), ExactWorkerSupervisor in lib.rs, the pair batches of   *)
(* pair_query.rs with their session in bin/pair_query/mod.rs, the loop of  *)
(* the process in exact_worker.rs, child_process.rs and the pool of        *)
(* ketchup-application/src/worker_pool.rs.                                  *)
(*                                                                         *)
(* A holder calls the supervisor again and again.  A "body" call is the    *)
(* evaluation of one graph and its mesh, each request repeated once on a   *)
(* new worker when the first was lost; a "pairs" call is one batch of pair *)
(* queries, never repeated.  What the kernel computes is abstract: a reply *)
(* remembers the request it was made for and the process that made it.     *)
(* The handshake of a new worker is part of starting it.                   *)
(***************************************************************************)
EXTENDS Naturals, Sequences, FiniteSets

CONSTANTS
    Platforms,     \* "linux", "windows", "macos": a behaviour is on one of them
    CallKinds,     \* the kinds of call the holder makes
    MaxCalls,      \* bound: calls of the holder
    MaxDeaths,     \* bound: workers that die of themselves
    MaxStarts,     \* bound: a checkout starts no worker after this many
    Cancels        \* the holder may cancel

ASSUME PlatformAssumption == Platforms \subseteq {"linux", "windows", "macos"}
ASSUME BoundsAssumption ==
    /\ CallKinds \subseteq {"body", "pairs"}
    /\ MaxCalls \in Nat /\ MaxDeaths \in Nat /\ MaxStarts \in Nat /\ Cancels \in BOOLEAN

VARIABLES
    platform,    \* what the program runs on
    client,      \* the supervisor's ExactWorkerClient, its threads and its process
    place,       \* where the supervisor is: "none", "held" or "idle" (in the pool)
    since,       \* the last call before the checkout
    cancelled,   \* the AtomicBool the holder passes
    pc,          \* what the holder's thread does
    call,        \* the number of the current or last call
    kinds,       \* kind of every call
    stage,       \* the request of the call that is being made
    attempt,     \* 2 after the worker was lost and restarted
    outcome,     \* result of every call
    taken,       \* history: the replies taken, with the request that took them
    sent,        \* history: how often a request was handed to a writer
    deaths       \* workers that died of themselves

vars == <<platform, client, place, since, cancelled, pc, call, kinds, stage, attempt,
          outcome, taken, sent, deaths>>

Calls == 1..MaxCalls
BodyStages == <<"evaluate", "mesh">>
PairStages == <<"begin", "load", "query1", "query2", "end">>
StagesOf(kind) == IF kind = "body" THEN BodyStages ELSE PairStages
Stages == {BodyStages[i] : i \in 1..Len(BodyStages)}
              \cup {PairStages[i] : i \in 1..Len(PairStages)}
Requests == [call : Calls, stage : Stages]

\* WorkerReply: begin and end are both answered by Done, both queries by Pair.
ReplyKinds == [evaluate |-> "graph", mesh |-> "mesh", begin |-> "done", load |-> "loaded",
               query1 |-> "pair", query2 |-> "pair", end |-> "done"]
Lost == {"transport", "exited", "malformed"}
Errors == Lost \cup {"cancelled", "timed_out", "protocol", "geometry", "resource_limit",
                     "memory_limit", "spawn"}
NoRequest == [call |-> 0, stage |-> "none"]

Request == [call |-> call, stage |-> stage]

Reply(kind, req, by) == [kind |-> kind, for |-> req, by |-> by]
Event(kind) == [kind |-> kind, for |-> NoRequest, by |-> 0]

------------------------------------------------------------------------------
(* The client and its process *)

\* ExactWorkerClient::spawn_guarded_with: a process, two threads, empty channels.
FreshClient(serial) ==
    [serial |-> serial, live |-> "yes", terminated |-> FALSE, exceeded |-> FALSE,
     tail |-> "quiet", queue |-> <<>>, writing |-> TRUE,
     ack |-> [req |-> NoRequest, ok |-> FALSE], stdin |-> <<>>,
     stdout |-> <<>>, chan |-> <<>>, reading |-> TRUE, session |-> "none"]

\* ExactWorkerClient::is_alive: try_wait sees a process whose end has only begun.
IsAlive(c) == ~c.terminated /\ c.live # "no"

\* child_process::terminate: Unix kills and waits; Windows does not wait.
Terminated(c) ==
    [c EXCEPT !.terminated = TRUE,
              !.live = IF @ # "no" /\ platform = "windows" THEN "dying" ELSE "no",
              !.stdin = <<>>]

\* ExactWorkerClient::fail: stops the worker and names what it died of; the last
\* bytes of its standard error are read once.
FailError(c, error) ==
    IF error \in {"cancelled", "timed_out"} THEN error
    ELSE IF c.exceeded \/ c.tail = "allocation" THEN "memory_limit"
    ELSE error

Failed_kept_at_deadline(c, error) == IF error = "timed_out" THEN c ELSE Terminated(c)

Failed(c, error) ==
    LET asked == error \notin {"cancelled", "timed_out"} /\ ~c.exceeded IN
    [Terminated(c) EXCEPT !.tail = IF asked THEN "taken" ELSE @]

PermitsRestart_refused(error) == error \in Lost \cup {"geometry"}

\* WorkerError::permits_restart.
PermitsRestart(error) == error \in Lost

\* Before the first checkout and after a drop there is no process.
NoClient == [FreshClient(0) EXCEPT !.live = "no", !.terminated = TRUE, !.reading = FALSE]
------------------------------------------------------------------------------
(* Ends of a request *)

\* The call ends with `result`; a pair batch that failed stops its worker
\* (pair_query.rs: if result.is_err() terminate_worker).
EndCall(c, result) ==
    /\ client' = IF kinds[call] = "pairs" /\ result # "ok" THEN Terminated(c) ELSE c
    /\ outcome' = [outcome EXCEPT ![call] = result]
    /\ pc' = "ready"
    /\ UNCHANGED <<place, since, cancelled, call, kinds, stage, attempt>>

\* An error of one request: a body request is asked again once of a new worker when
\* the worker was lost; a pair batch never is.
RequestFails_every_kind(c, error) ==
    IF attempt = 1 /\ PermitsRestart(error)
    THEN /\ client' = c
         /\ pc' = "lost"
         /\ UNCHANGED <<place, since, cancelled, call, kinds, stage, attempt, outcome>>
    ELSE EndCall(c, error)

RequestFails(c, error) ==
    IF kinds[call] = "body" /\ attempt = 1 /\ PermitsRestart(error)
    THEN /\ client' = c
         /\ pc' = "lost"
         /\ UNCHANGED <<place, since, cancelled, call, kinds, stage, attempt, outcome>>
    ELSE EndCall(c, error)

\* self.fail(error) of the client, then what the supervisor makes of it.
ClientFails(error) == RequestFails(Failed(client, error), FailError(client, error))

\* The reply is taken: the next request of the call, or its success.
Advance(c) ==
    LET stages == StagesOf(kinds[call])
        at == CHOOSE i \in 1..Len(stages) : stages[i] = stage IN
    IF at = Len(stages) THEN EndCall(c, "ok")
    ELSE /\ client' = c
         /\ stage' = stages[at + 1]
         /\ attempt' = 1
         /\ pc' = "send"
         /\ UNCHANGED <<place, since, cancelled, call, kinds, outcome>>
------------------------------------------------------------------------------
(* The holder *)

\* worker_pool::checkout: an idle worker that is alive, or a new one; the process may
\* fail to start or to answer the handshake.
Checkout ==
    /\ pc = "ready" /\ place # "held" /\ call < MaxCalls
    /\ cancelled' = FALSE
    /\ since' = call
    /\ IF place = "idle" /\ IsAlive(client)
       THEN place' = "held" /\ UNCHANGED client
       ELSE \/ /\ client.serial < MaxStarts
               /\ place' = "held"
               /\ client' = FreshClient(client.serial + 1)
            \/ place' = "none" /\ UNCHANGED client
    /\ UNCHANGED <<pc, call, kinds, stage, attempt, outcome, taken, sent, deaths>>

\* Every call since the checkout succeeded.
Healthy == \A c \in (since + 1)..call : outcome[c] = "ok"

\* PooledExactWorker::release and drop: back to the pool after a fully successful use if
\* it can be used again, otherwise the client is dropped and its process killed.
GiveBack ==
    /\ pc = "ready" /\ place = "held"
    /\ IF Healthy /\ ~cancelled /\ IsAlive(client)
       THEN place' = "idle" /\ UNCHANGED client
       ELSE place' = "none" /\ client' = Terminated(client)
    /\ UNCHANGED <<since, cancelled, pc, call, kinds, stage, attempt, outcome, taken, sent, deaths>>

\* The pool forgets its longest idle worker when a warmer one takes its place.
Evicted ==
    /\ place = "idle"
    /\ place' = "none"
    /\ client' = Terminated(client)
    /\ UNCHANGED <<since, cancelled, pc, call, kinds, stage, attempt, outcome, taken, sent, deaths>>

\* A call begins.  The holder of a worker that failed may go on with the next body, as
\* the loop over the producers of an evaluation does, unless it was cancelled.
\* A body call first looks at the flag through its client, a pair batch does not.
StartCall(kind) ==
    /\ pc = "ready" /\ place = "held" /\ call < MaxCalls
    /\ ~cancelled
    /\ call' = call + 1
    /\ kinds' = [kinds EXCEPT ![call'] = kind]
    /\ stage' = StagesOf(kind)[1]
    /\ attempt' = 1
    /\ pc' = IF kind = "pairs" THEN "batch" ELSE "send"
    /\ UNCHANGED <<client, place, since, cancelled, outcome, taken, sent, deaths>>

Cancel ==
    /\ Cancels /\ place = "held" /\ ~cancelled
    /\ cancelled' = TRUE
    /\ UNCHANGED <<client, place, since, pc, call, kinds, stage, attempt, outcome, taken,
                   sent, deaths>>

\* query_pairs: a worker whose termination has started, or that has exited, is replaced
\* at the batch boundary and nowhere else.
NeedsNewWorker(c) == c.terminated \/ c.live = "no"

BeginBatch ==
    /\ pc = "batch"
    /\ IF cancelled THEN EndCall(client, "cancelled")
       ELSE \/ /\ ~NeedsNewWorker(client)
               /\ pc' = "send"
               /\ UNCHANGED <<client, place, since, cancelled, call, kinds, stage, attempt,
                              outcome>>
            \/ /\ NeedsNewWorker(client)
               /\ client' = FreshClient(client.serial + 1)
               /\ pc' = "send"
               /\ UNCHANGED <<place, since, cancelled, call, kinds, stage, attempt, outcome>>
            \/ NeedsNewWorker(client) /\ EndCall(client, "spawn")
    /\ UNCHANGED <<taken, sent, deaths>>

\* spawn_verified_client after a lost worker; the old client stays when it fails.
Restart ==
    /\ pc = "lost"
    /\ \/ /\ cancelled
          /\ EndCall(client, "cancelled")
       \/ /\ ~cancelled
          /\ client' = FreshClient(client.serial + 1)
          /\ attempt' = 2
          /\ pc' = "send"
          /\ UNCHANGED <<place, since, cancelled, call, kinds, stage, outcome>>
       \/ ~cancelled /\ EndCall(client, "spawn")
    /\ UNCHANGED <<taken, sent, deaths>>

\* write_request_until_with_cancellation up to the hand-over to the writer thread.
Send ==
    /\ pc = "send"
    /\ IF cancelled THEN ClientFails("cancelled") /\ UNCHANGED sent
       ELSE IF ~client.writing THEN ClientFails("malformed") /\ UNCHANGED sent
       ELSE /\ client' = [client EXCEPT !.queue = Append(@, Request)]
            /\ sent' = [sent EXCEPT ![Request] = @ + 1]
            /\ pc' = "writing"
            /\ UNCHANGED <<place, since, cancelled, call, kinds, stage, attempt, outcome>>
    /\ UNCHANGED <<taken, deaths>>

\* The writer thread ended on an earlier request: the channel of this one is closed.
WriterIsGone == ~client.writing /\ client.ack.req # Request

AwaitWrite_end_unanswered ==
    /\ pc = "writing"
    /\ client.ack.req = Request \/ WriterIsGone
    /\ IF cancelled THEN ClientFails("cancelled")
       ELSE IF WriterIsGone THEN ClientFails("malformed")
       ELSE IF ~client.ack.ok THEN ClientFails("transport")
       ELSE IF stage = "end" THEN EndCall(client, "ok")
       ELSE /\ pc' = "receiving"
            /\ UNCHANGED <<client, place, since, cancelled, call, kinds, stage, attempt,
                           outcome>>
    /\ UNCHANGED <<taken, sent, deaths>>

\* The wait for the acknowledgment of the write.
AwaitWrite ==
    /\ pc = "writing"
    /\ client.ack.req = Request \/ WriterIsGone
    /\ IF cancelled THEN ClientFails("cancelled")
       ELSE IF WriterIsGone THEN ClientFails("malformed")
       ELSE IF ~client.ack.ok THEN ClientFails("transport")
       ELSE /\ pc' = "receiving"
            /\ UNCHANGED <<client, place, since, cancelled, call, kinds, stage, attempt,
                           outcome>>
    /\ UNCHANGED <<taken, sent, deaths>>

TimeoutPcs_reply_only == {"receiving"}

\* The deadline of a request covers its write and its reply.
TimeoutPcs == {"writing", "receiving"}

TimeOut ==
    /\ pc \in TimeoutPcs
    /\ ~cancelled
    /\ ClientFails("timed_out")
    /\ UNCHANGED <<taken, sent, deaths>>

\* Both waits poll the flag.
SeeCancel ==
    /\ pc \in {"writing", "receiving"}
    /\ cancelled
    /\ ClientFails("cancelled")
    /\ UNCHANGED <<taken, sent, deaths>>

\* The reply belongs to the request: the digests of a graph's evaluation, the
\* fingerprint in the receipt of its mesh.
MatchesRequest(reply) == reply.for = Request

\* A reply that matches its request may still be of no use, with its worker at rest: a body
\* no kernel should report, no file for its mesh, a mesh file that cannot be read or is not
\* the one of the receipt.  Only the last is an error of the request that repeats it.
Unusable(c) ==
    \/ stage \in {"evaluate", "mesh"} /\ RequestFails(c, "protocol")
    \/ stage = "evaluate" /\ EndCall(c, "transport")
    \/ stage = "mesh" /\ RequestFails(c, "transport")

\* call and the typed requests: how one received reply ends the request.
TakeReply(c, reply) ==
    CASE reply.kind = "geometry" /\ stage \in {"query1", "query2"} -> Advance(c)
      [] reply.kind = "geometry" /\ stage \notin {"query1", "query2"} ->
            RequestFails(c, "geometry")
      [] reply.kind = "resource_limit" -> RequestFails(c, "resource_limit")
      [] reply.kind = ReplyKinds[stage] /\ stage = "evaluate" /\ ~MatchesRequest(reply) ->
            RequestFails(c, "protocol")
      [] /\ reply.kind = ReplyKinds[stage]
         /\ stage \in {"evaluate", "mesh"} => MatchesRequest(reply) ->
            Advance(c) \/ Unusable(c)
      [] OTHER -> RequestFails(Failed(c, "protocol"), FailError(c, "protocol"))

EndEvents == {"exited", "malformed"}

\* next_response_until_with_cancellation and request_with_timeout: a reply, the end of
\* the process, or a reader that is gone.
Receive ==
    /\ pc = "receiving" /\ ~cancelled
    /\ client.chan # <<>> \/ ~client.reading
    /\ LET reply == IF client.chan = <<>> THEN Event("malformed") ELSE Head(client.chan)
           rest == [client EXCEPT !.chan = <<>>] IN
       IF reply.kind \in EndEvents
       THEN /\ RequestFails(Failed(rest, reply.kind), FailError(rest, reply.kind))
            /\ UNCHANGED taken
       ELSE /\ TakeReply(rest, reply)
            /\ taken' = taken \cup {[req |-> Request, reply |-> reply]}
    /\ UNCHANGED <<sent, deaths>>

Holder ==
    \/ Checkout \/ GiveBack \/ Evicted \/ Cancel
    \/ \E kind \in CallKinds : StartCall(kind)
    \/ BeginBatch \/ Restart \/ Send \/ AwaitWrite \/ TimeOut \/ SeeCancel \/ Receive
------------------------------------------------------------------------------
(* The threads and the process of the client *)

\* A step of the client's own threads or of its process.
ClientStep(c) ==
    /\ client' = c
    /\ UNCHANGED <<place, since, cancelled, pc, call, kinds, stage, attempt, outcome, taken, sent>>

\* spawn_worker_writer: a dying process still has its end of the pipe open; nobody reads it.
Writes ==
    /\ client.writing /\ client.queue # <<>> /\ client.live # "no"
    /\ ClientStep([client EXCEPT !.queue = Tail(@),
                                 !.ack = [req |-> Head(client.queue), ok |-> TRUE],
                                 !.stdin = IF client.live = "yes"
                                           THEN Append(@, Head(client.queue)) ELSE @])
    /\ UNCHANGED deaths

WriteFails ==
    /\ client.writing /\ client.queue # <<>> /\ client.live = "no"
    /\ ClientStep([client EXCEPT !.queue = <<>>, !.writing = FALSE,
                                 !.ack = [req |-> Head(client.queue), ok |-> FALSE]])
    /\ UNCHANGED deaths

\* spawn_worker_reader: one response waits in the channel; the end of the stream is one.
Reads ==
    /\ client.reading /\ client.chan = <<>>
    /\ IF client.stdout # <<>>
       THEN ClientStep([client EXCEPT !.stdout = Tail(@), !.chan = <<Head(client.stdout)>>,
                                      !.reading = Head(client.stdout).kind \notin EndEvents])
       ELSE /\ client.live = "no"
            /\ ClientStep([client EXCEPT !.chan = <<Event("exited")>>, !.reading = FALSE])
    /\ UNCHANGED deaths

\* PairQuerySession: begin starts a batch, a query needs a loaded one, a failure other than
\* a pair the kernel cannot measure ends it.
SessionTakes(session, at) ==
    CASE at = "load" -> session = "begun"
      [] at \in {"query1", "query2"} -> session = "loaded"
      [] at = "end" -> session # "none"
      [] OTHER -> TRUE

SessionAfter(session, at, kind) ==
    CASE at = "begin" -> "begun"
      [] at = "load" /\ kind = "loaded" -> "loaded"
      [] at \in {"query1", "query2"} /\ kind \in {"pair", "geometry"} -> session
      [] at \in {"evaluate", "mesh"} -> session
      [] OTHER -> "none"

\* What handle_request may answer: its reply, a refusal of the kernel, a result too large
\* for one frame, or the refusal of a request the session does not take.
Answers(session, at) ==
    IF ~SessionTakes(session, at) THEN {"refused"}
    ELSE {ReplyKinds[at]}
           \cup (IF at \in {"evaluate", "mesh"}
                 THEN {"geometry", "resource_limit", "refused"} ELSE {})
           \cup (IF at \in {"load", "query1", "query2"} THEN {"geometry", "refused"} ELSE {})

\* run_stdio: one request, one reply.
WorkerAnswers ==
    /\ client.live = "yes" /\ client.stdin # <<>>
    /\ LET req == Head(client.stdin) IN
       \E kind \in Answers(client.session, req.stage) :
           ClientStep([client EXCEPT !.stdin = Tail(@),
                                     !.stdout = Append(@, Reply(kind, req, client.serial)),
                                     !.session = SessionAfter(@, req.stage, kind)])
    /\ UNCHANGED deaths

Dead(c) == [c EXCEPT !.live = "no", !.stdin = <<>>]

\* The process ends of itself, between or in the middle of its replies.
WorkerDies ==
    /\ client.live = "yes" /\ deaths < MaxDeaths
    /\ deaths' = deaths + 1
    /\ \E torn \in BOOLEAN :
          ClientStep([Dead(client) EXCEPT
                        !.stdout = IF torn THEN Append(@, Event("malformed")) ELSE @])

\* A request takes more memory than the worker may commit: an allocation fails and says so
\* on standard error, or (macOS) the watch of the footprint kills the process group.
WorkerOverruns ==
    /\ client.live = "yes" /\ client.stdin # <<>> /\ deaths < MaxDeaths
    /\ deaths' = deaths + 1
    /\ ClientStep([Dead(client) EXCEPT !.exceeded = @ \/ platform = "macos",
                                       !.tail = IF platform # "macos" /\ @ = "quiet"
                                                THEN "allocation" ELSE @])

\* Windows takes its time to end a process.
ProcessEnds ==
    /\ client.live = "dying"
    /\ ClientStep([client EXCEPT !.live = "no"])
    /\ UNCHANGED deaths

Threads == Writes \/ WriteFails \/ Reads
Process == WorkerAnswers \/ WorkerDies \/ WorkerOverruns \/ ProcessEnds
------------------------------------------------------------------------------
Init ==
    /\ platform \in Platforms
    /\ client = NoClient /\ place = "none" /\ since = 0 /\ cancelled = FALSE
    /\ pc = "ready" /\ call = 0 /\ kinds = [c \in Calls |-> "none"]
    /\ stage = "evaluate" /\ attempt = 1 /\ outcome = [c \in Calls |-> "none"]
    /\ taken = {} /\ sent = [r \in Requests |-> 0] /\ deaths = 0

Next == (Holder \/ Threads \/ Process) /\ UNCHANGED platform

\* The holder's thread runs and every request has a deadline.  The threads of the client may
\* wait for ever on a process that does not read or write, and the process owes nothing.
InCall == BeginBatch \/ Restart \/ Send \/ AwaitWrite \/ TimeOut \/ SeeCancel \/ Receive

Fairness == WF_vars(InCall /\ UNCHANGED platform)

Spec == Init /\ [][Next]_vars /\ Fairness
------------------------------------------------------------------------------
\* The reply a request takes is the one the worker made for it: "one request, one reply, each
\* checked against the request that produced it" (worker_client.rs:1).  On Windows a worker
\* killed at its deadline may still take the next request and leave its late reply in the
\* channel: there the calls that succeed are built from replies to their own requests.
ReplyIsOwn ==
    \A t \in taken :
        platform # "windows" \/ outcome[t.req.call] = "ok" => t.reply.for = t.req

\* One process answers a batch of pairs, whatever its outcome: the bodies it loaded are in that
\* process, and a lost worker is replaced between batches only (pair_query.rs, query_pairs).
BatchIsWhole ==
    \A t, u \in taken :
        t.req.call = u.req.call /\ kinds[t.req.call] = "pairs" => t.reply.by = u.reply.by

\* A request is asked again once, never after a refusal; if it was answered, then by a
\* mesh whose file was of no use, and another process is asked
\* (WorkerError::permits_restart and its uses, lib.rs:506, 1899, 2001).
RepeatedOnce ==
    [][\A r \in Requests : sent'[r] > sent[r] =>
           /\ sent[r] <= 1
           /\ \A t \in taken : t.req = r =>
                 t.reply.kind = "mesh" /\ t.reply.for = r /\ t.reply.by < client.serial]_vars

\* What lib.rs:503 says: a fresh worker repeats a request only when the worker was lost, so
\* none that was answered.
RepeatsOnlyLost ==
    [][\A r \in Requests : sent'[r] > sent[r] =>
           /\ sent[r] <= 1
           /\ \A t \in taken : t.req # r]_vars

\* An idle worker has nothing of the last holder in its pipes or channels.
IdleIsClean ==
    place = "idle" /\ client.live = "yes" =>
        client.queue = <<>> /\ client.stdin = <<>> /\ client.stdout = <<>> /\ client.chan = <<>>

\* Every call ends, whatever the worker does: it may hang, die or stop reading its input.
CallEnds == (pc # "ready") ~> (pc = "ready")
=============================================================================

----------------------------- MODULE LiveBridge -----------------------------
(***************************************************************************)
(* A window that AI clients work in (ketchup-app): the consent broker      *)
(* (live_bridge/consent.rs) hands a client the credentials of a bridge,    *)
(* the connections of the bridge (live_bridge/transport.rs) queue requests *)
(* and the UI thread answers them, at once or through one job              *)
(* (live_bridge.rs, program_check.rs, project_drawings_job.rs).  A new     *)
(* client takes the window over from the last one.                         *)
(*                                                                         *)
(* A request is a connection and an id.  What a request does is its trace: *)
(* an edit or a program takes a new mutation epoch, an export of drawings  *)
(* keeps settings in the document, a sheet is written by a thread.  The    *)
(* credentials themselves and the admission of strangers are left out: a   *)
(* client is let in when the credentials of the bridge were delivered.     *)
(***************************************************************************)
EXTENDS Integers, Sequences, FiniteSets, FiniteSetsExt

CONSTANTS
    Clients,        \* attach requests, each made once
    Conns,          \* connections to a bridge
    MaxRequests,    \* bound: requests of all connections
    MaxEpoch,       \* bound: mutation epochs
    MaxDocuments,   \* bound: documents the window held
    QueueCapacity,  \* QUEUE_CAPACITY
    Scenarios,      \* what happens: a behaviour meets one
    None

Kinds == {"read", "edit", "program", "drawings", "sheet", "disconnect"}
Gens == 1..Cardinality(Clients) + 1
Requests == Conns \X (1..MaxRequests)
Settings == Requests \cup {None}    \* an export that kept them, or the user's own

\* The job of a window, what it remembers of the last request of a connection, and
\* what a connection is told when the window is taken over.
Jobs == [req : Requests, kind : {"program", "drawings", "sheet"}, epoch : Nat,
         document : Nat, previous : Settings, stage : {"planning", "checking"},
         replied : BOOLEAN]
Starts == [id : 1..MaxRequests, epoch : Nat, settings : Settings]
Takeovers == [id : Nat, changed : BOOLEAN]

ASSUME ConstantAssumption ==
    /\ MaxRequests \in Nat /\ MaxEpoch \in Nat /\ MaxDocuments \in Nat
    /\ QueueCapacity \in Nat \ {0}
    /\ IsFiniteSet(Clients) /\ Clients \cap Requests = {}
    /\ None \notin Clients \cup Conns \cup Requests \cup Jobs \cup Starts \cup Takeovers
                     \cup {"ok", "error", "cancelled"}
    /\ UNION Scenarios \subseteq Kinds \cup {"launched", "user", "open", "gone", "slow"}

VARIABLES
    window,         \* the document, the bridge and what the UI thread knows of it
    ui,             \* where the UI thread is
    doing,          \* the request the UI thread executes, or the client it grants
    conn,           \* the connections
    attach,         \* the attach requests
    broker,         \* the channels of the consent broker
    given,          \* the bridges whose credentials reached a client
    applied,        \* history: requests that changed the document
    files,          \* history: exports whose file was written
    lost,           \* history: jobs that went with a bridge a client closed
    told,           \* history: what a client was told of its request
    scenario        \* kinds of request; "launched": a client started the window;
                    \* "user": the user edits; "open": the user opens another
                    \* document; "gone": clients hang up; "slow": a wait times out

vars == <<window, ui, doing, conn, attach, broker, given, applied, files, lost, told,
          scenario>>

-----------------------------------------------------------------------------
(* The bridge and its job *)

\* LiveBridge::drop: the flag stops its connections, what was queued and the job
\* are gone.
Drop(w) ==
    [w EXCEPT !.bridge = 0, !.queue = <<>>, !.started = [c \in Conns |-> None],
              !.session = None, !.job = None]

\* StartedDrawings::undo: the settings an export kept go back unless they were
\* changed since or belong to another document.
Undone(w, j) ==
    IF j.kind = "drawings" /\ w.settings = j.req /\ w.document = j.document
    THEN j.previous ELSE w.settings

\* PublishGate::cancel: in time unless the sheet is taking the file's place.
Gated(w, j) ==
    IF j.kind = "sheet" /\ w.gate[j.req] = "free"
    THEN [w.gate EXCEPT ![j.req] = "cancelled"] ELSE w.gate

\* Mutant: the job of a bridge that goes only loses its authority.
Abandon_without_undo(w) ==
    IF w.job = None THEN w ELSE [w EXCEPT !.cancelled = @ \cup {w.job.req}]

\* abandon_jobs: the job of a bridge that goes ends as a cancelled one does.
Abandon(w) ==
    IF w.job = None THEN w
    ELSE [w EXCEPT !.cancelled = @ \cup {w.job.req}, !.settings = Undone(w, w.job),
                   !.gate = Gated(w, w.job)]

\* disable_live_bridge.
Disable(w) == IF w.bridge = 0 THEN w ELSE Drop(Abandon(w))

Queued(w) == {w.queue[i].req[1] : i \in 1..Len(w.queue)}

\* LiveBridge::supersede: what the connections are told of the takeover.  A
\* request that is still queued never ran.
Takeover(w) ==
    [c \in Conns |->
        IF w.started[c] = None \/ c \in Queued(w) THEN None
        ELSE [id |-> w.started[c].id,
              changed |-> w.started[c].epoch # w.epoch
                          \/ w.started[c].settings # w.settings]]

Record(w) == [w EXCEPT !.takeover[w.bridge] = <<Takeover(w)>>]

\* allow_live_consent: a bridge is started unless there is one.
Granted(w) ==
    IF w.bridge = 0 THEN [w EXCEPT !.bridge = w.gen + 1, !.gen = @ + 1, !.attached = TRUE]
    ELSE [w EXCEPT !.attached = TRUE]

\* remove_client.
Removed(w, c) ==
    [w EXCEPT !.started[c] = None, !.session = IF @ = c THEN None ELSE @]

\* The receiving end of a request waits for what the UI thread still holds.
Held(r) ==
    \/ \E i \in 1..Len(window.queue) : window.queue[i].req = r
    \/ window.job # None /\ window.job.req = r /\ ~window.job.replied
    \/ doing = r

\* SyncSender::deliver of a reply: nobody reads it once the wait is over.
Delivered(r, answer) ==
    IF conn[r[1]].pc = "waiting" /\ conn[r[1]].id = r[2]
    THEN [conn EXCEPT ![r[1]].reply = answer] ELSE conn

-----------------------------------------------------------------------------
(* The consent broker *)

\* serve of an attach request: one at a time waits for the window.
ask(a) ==
    /\ attach[a].pc = "new"
    /\ IF broker.request = None
       THEN /\ attach' = [attach EXCEPT ![a].pc = "waiting"]
            /\ broker' = [broker EXCEPT !.request = a]
       ELSE /\ attach' = [attach EXCEPT ![a].pc = "done"]
            /\ UNCHANGED broker
    /\ UNCHANGED <<window, ui, doing, conn, given, applied, files, lost, told>>

\* Mutant: a client that leaves when it was just let in is not reported.
release_late_grant_silent(a) ==
    /\ "gone" \in scenario
    /\ attach[a].pc \in {"waiting", "granted"} /\ doing # a
    /\ attach' = [attach EXCEPT ![a].pc = "done"]
    /\ broker' = [broker EXCEPT !.abandoned = @ \cup {a}]
    /\ UNCHANGED <<window, ui, doing, conn, given, applied, files, lost, told>>

\* release_late_grant: the client left or waited too long.  The window holds the
\* lock of the request from its check to the grant.
release_late_grant(a) ==
    /\ "gone" \in scenario
    /\ attach[a].pc \in {"waiting", "granted"} /\ doing # a
    /\ attach' = [attach EXCEPT ![a].pc = "done"]
    /\ broker' = [broker EXCEPT !.abandoned = @ \cup {a},
                                !.failed = @ \/ attach[a].pc = "granted"]
    /\ UNCHANGED <<window, ui, doing, conn, given, applied, files, lost, told>>

\* The decision is received, then written to the client.
receive_decision(a) ==
    /\ attach[a].pc = "granted"
    /\ attach' = [attach EXCEPT ![a].pc = "taken"]
    /\ UNCHANGED <<window, ui, doing, conn, broker, given, applied, files, lost, told>>

write_grant(a) ==
    /\ attach[a].pc = "taken"
    /\ attach' = [attach EXCEPT ![a].pc = "done"]
    /\ \/ given' = given \cup {attach[a].gen} /\ UNCHANGED broker
       \/ /\ "gone" \in scenario
          /\ broker' = [broker EXCEPT !.failed = TRUE] /\ UNCHANGED given
    /\ UNCHANGED <<window, ui, doing, conn, applied, files, lost, told>>

\* allow_live_consent_with on a window without a client; start may fail.
Allow(w, a) ==
    \/ /\ window' = Granted(w)
       /\ attach' = [attach EXCEPT ![a] = [pc |-> "granted", gen |-> window'.bridge]]
    \/ /\ w.bridge = 0
       /\ window' = w /\ attach' = [attach EXCEPT ![a].pc = "done"]

\* The channels of the broker are read; a request nobody waits for is dropped.
Asking == IF broker.request \in broker.abandoned THEN None ELSE broker.request
Emptied == [broker EXCEPT !.failed = FALSE, !.request = None]

\* poll_live_consent on a window no client holds.
Consent(w) ==
    /\ broker' = Emptied
    /\ IF Asking = None THEN window' = w /\ UNCHANGED attach ELSE Allow(w, Asking)
    /\ UNCHANGED doing

\* answer_live_consent on a window a client holds: it is taken over.
Supersede(w) ==
    /\ broker' = Emptied
    /\ window' = Record(Abandon([w EXCEPT !.attached = FALSE, !.launched = FALSE]))
    /\ doing' = Asking
    /\ UNCHANGED attach

\* A grant nobody received is taken back, then the next client is answered.
poll_live_consent ==
    /\ ui = "events"
    /\ LET w == IF broker.failed THEN [Disable(window) EXCEPT !.attached = FALSE]
                ELSE window
       IN \/ /\ Asking # None /\ w.bridge # 0 /\ (w.attached \/ w.launched)
             /\ Supersede(w) /\ ui' = "superseding"
          \/ /\ Asking = None \/ w.bridge = 0 \/ ~(w.attached \/ w.launched)
             /\ Consent(w)
             /\ ui' = IF window'.bridge = 0 THEN "events" ELSE "jobs"
    /\ UNCHANGED <<conn, given, applied, files, lost, told>>

\* The rest of answer_live_consent: the bridge taken over is dropped.
supersede_live_bridge ==
    /\ ui = "superseding"
    /\ Allow(Drop(window), doing)
    /\ doing' = None
    /\ ui' = IF window'.bridge = 0 THEN "events" ELSE "jobs"
    /\ UNCHANGED <<conn, broker, given, applied, files, lost, told>>

-----------------------------------------------------------------------------
(* The UI thread: jobs *)

\* The job of the window is answered, and it goes or stays.
Answer(answer, stays) ==
    /\ conn' = IF window.job.replied THEN conn ELSE Delivered(window.job.req, answer)
    /\ window' = [window EXCEPT !.job = IF stays THEN [@ EXCEPT !.replied = TRUE] ELSE None]

\* Mutant: the flag of a job is looked at only when it begins.
Revoked_at_start == FALSE

Revoked == window.job.req \in window.cancelled
Replaced == window.job.document # window.document

\* The checks a program and an export of the set pass before they are published.  A
\* connection may set the flag after that: what they allow is a step of its own.
MayPublish ==
    /\ ~Revoked
    /\ \/ /\ window.job.kind = "program" /\ window.job.stage = "planning"
          /\ window.job.epoch = window.epoch
       \/ window.job.kind = "drawings" /\ ~Replaced

\* publish_program past its checks: the program may be refused, or its exact
\* check runs on as the job.
publish_program ==
    /\ window.job.kind = "program"
    /\ \/ Answer("error", FALSE) /\ UNCHANGED applied
       \/ /\ window.epoch < MaxEpoch
          /\ applied' = applied \cup {window.job.req}
          /\ \/ /\ window' = [window EXCEPT !.epoch = @ + 1, !.job.stage = "checking"]
                /\ UNCHANGED conn
             \/ /\ conn' = Delivered(window.job.req, "ok")
                /\ window' = [window EXCEPT !.epoch = @ + 1, !.job = None]
    /\ UNCHANGED files

\* poll_program_plan: the plan is not there yet, or it cannot be published.
poll_program_plan ==
    /\ window.job.kind = "program" /\ window.job.stage = "planning"
    /\ UNCHANGED <<window, conn>> \/ Answer("error", FALSE)
    /\ UNCHANGED <<applied, files>>

\* poll_program_check_job on a published program: the check ends, or the program
\* is answered before it.
poll_program_check ==
    /\ window.job.kind = "program" /\ window.job.stage = "checking"
    /\ \/ UNCHANGED <<window, conn>>
       \/ Answer("ok", FALSE)
       \/ ~window.job.replied /\ Answer("ok", TRUE)
    /\ UNCHANGED <<applied, files>>

\* The job goes, and the settings it kept go back.
WithoutJob == [window EXCEPT !.job = None, !.settings = Undone(window, window.job)]

\* finish_export: the files are written, or the settings go back.
finish_export ==
    /\ window.job.kind = "drawings"
    /\ \/ Answer("ok", FALSE) /\ files' = files \cup {window.job.req}
       \/ /\ window' = WithoutJob
          /\ conn' = Delivered(window.job.req, "error") /\ UNCHANGED files
    /\ UNCHANGED applied

\* poll_project_drawings_export of the set, while its sheets are drawn.
poll_project_drawings_export ==
    /\ window.job.kind = "drawings"
    /\ IF Replaced
       THEN /\ window' = [WithoutJob EXCEPT !.cancelled = @ \cup {window.job.req}]
            /\ conn' = Delivered(window.job.req, "error")
       ELSE IF Revoked
       THEN window' = WithoutJob /\ conn' = Delivered(window.job.req, "cancelled")
       ELSE UNCHANGED <<window, conn>>
    /\ UNCHANGED <<applied, files>>

\* poll_project_drawings_export of one sheet: a cancel that comes in time.
poll_sheet_export ==
    /\ window.job.kind = "sheet"
    /\ LET gated == [window EXCEPT !.job = None, !.gate = Gated(window, window.job)]
           at == window.gate[window.job.req]
       IN
       IF Replaced
       THEN /\ window' = [gated EXCEPT !.cancelled = @ \cup {window.job.req}]
            /\ conn' = Delivered(window.job.req, "error")
       ELSE IF Revoked /\ at \notin {"publishing", "written", "kept"}
       THEN window' = gated /\ conn' = Delivered(window.job.req, "cancelled")
       ELSE \/ at # "written" /\ UNCHANGED <<window, conn>>
            \/ at = "written" /\ Answer("ok", FALSE)
            \/ at \in {"failed", "kept"} /\ Answer("error", FALSE)
    /\ UNCHANGED <<applied, files>>

poll_jobs ==
    /\ ui = "jobs"
    /\ \/ /\ window.job = None
          /\ ui' = "queue" /\ UNCHANGED <<window, conn, applied, files>>
       \/ /\ window.job # None /\ ui' = "queue"
          /\ \/ poll_program_plan \/ poll_program_check \/ poll_project_drawings_export
             \/ poll_sheet_export
       \/ /\ window.job # None /\ MayPublish
          /\ ui' = "publishing" /\ UNCHANGED <<window, conn, applied, files>>
    /\ UNCHANGED <<doing, attach, broker, given, lost, told>>

\* What the checks allowed, whatever became of the request since.
publish ==
    /\ ui = "publishing" /\ ui' = "queue"
    /\ publish_program \/ finish_export
    /\ UNCHANGED <<doing, attach, broker, given, lost, told>>

\* The sheet's thread: begin_publish, then the file takes its place; either may
\* fail, the second with the file that was there kept.
sheet_thread(r) ==
    /\ \/ /\ window.gate[r] = "free"
          /\ \E at \in {"publishing", "failed"} : window' = [window EXCEPT !.gate[r] = at]
          /\ UNCHANGED files
       \/ /\ window.gate[r] = "publishing"
          /\ \/ window' = [window EXCEPT !.gate[r] = "written"] /\ files' = files \cup {r}
             \/ window' = [window EXCEPT !.gate[r] = "kept"] /\ UNCHANGED files
    /\ UNCHANGED <<ui, doing, conn, attach, broker, given, applied, lost, told>>

-----------------------------------------------------------------------------
(* The UI thread: requests *)

\* The client of a connection is gone: a window it was attached to is free, and
\* the bridge is dropped as it is before the next client is let in.
Disconnected(w, c) ==
    LET left == [Removed(w, c) EXCEPT !.launched = FALSE] IN
    IF left.attached
    THEN /\ Consent([Drop(left) EXCEPT !.attached = FALSE])
         /\ lost' = IF left.job = None THEN lost ELSE lost \cup {left.job.req}
         /\ ui' = "events"
    ELSE window' = left /\ UNCHANGED <<ui, doing, attach, broker, lost>>

connection_closed(q, w) ==
    /\ q.kind = "closed"
    /\ Disconnected(w, q.req[1])
    /\ UNCHANGED conn

\* A request that was revoked while it was queued is dropped.
skip_revoked(q, w) ==
    /\ q.kind # "closed" /\ q.req \in w.cancelled
    /\ window' = w
    /\ UNCHANGED <<ui, doing, conn, attach, broker, lost>>

\* supersede_answered_check: the check of a program already answered ends.
Unchecked(q, w) ==
    IF q.kind # "read" /\ w.job # None /\ w.job.replied THEN [w EXCEPT !.job = None] ELSE w

\* What began is remembered with the document as it found it.
Begun(q, w) ==
    [Unchecked(q, w) EXCEPT
        !.session = q.req[1],
        !.started[q.req[1]] = [id |-> q.req[2], epoch |-> w.epoch, settings |-> w.settings]]

\* The authority of the request still stands.
Admitted(q, w) == q.kind # "closed" /\ q.req \notin w.cancelled
OtherClientBusy(q, w) == w.session # q.req[1] /\ Unchecked(q, w).job # None

\* Refused: another client's job or an earlier one runs, or the arguments are wrong.
refuse_request(q, w) ==
    /\ Admitted(q, w)
    /\ IF OtherClientBusy(q, w) THEN window' = Unchecked(q, w)
       ELSE q.kind # "disconnect" /\ window' = Begun(q, w)
    /\ conn' = Delivered(q.req, "error")
    /\ UNCHANGED <<ui, doing, attach, broker, lost>>

answer_read(q, w) ==
    /\ Admitted(q, w) /\ ~OtherClientBusy(q, w) /\ q.kind = "read"
    /\ window' = Begun(q, w)
    /\ conn' = Delivered(q.req, "ok")
    /\ UNCHANGED <<ui, doing, attach, broker, lost>>

answer_disconnect(q, w) ==
    /\ Admitted(q, w) /\ ~OtherClientBusy(q, w) /\ q.kind = "disconnect"
    /\ Disconnected(Begun(q, w), q.req[1])
    /\ conn' = Delivered(q.req, "ok")

\* execute_authorized checks the request's authority, then runs it.
begin_edit(q, w) ==
    /\ Admitted(q, w) /\ ~OtherClientBusy(q, w) /\ q.kind = "edit"
    /\ window' = Begun(q, w)
    /\ ui' = "executing" /\ doing' = q.req
    /\ UNCHANGED <<conn, attach, broker, lost>>

Job(q, w) ==
    [req |-> q.req, kind |-> q.kind, epoch |-> w.epoch, document |-> w.document,
     previous |-> w.settings, stage |-> "planning", replied |-> FALSE]

MayStart(q, w) == Admitted(q, w) /\ ~OtherClientBusy(q, w) /\ Begun(q, w).job = None

start_queued_apply_program(q, w) ==
    /\ MayStart(q, w) /\ q.kind = "program"
    /\ window' = [Begun(q, w) EXCEPT !.job = Job(q, w)]
    /\ UNCHANGED <<ui, doing, conn, attach, broker, lost>>

\* An export of the set passes the check of its authority; its settings come next.
start_project_drawings_export(q, w) ==
    /\ MayStart(q, w) /\ q.kind = "drawings"
    /\ window' = Begun(q, w)
    /\ ui' = "keeping" /\ doing' = q.req
    /\ UNCHANGED <<conn, attach, broker, lost>>

\* An export of one sheet starts the thread that writes it.
start_sheet_export(q, w) ==
    /\ MayStart(q, w) /\ q.kind = "sheet"
    /\ window' = [Begun(q, w) EXCEPT !.job = Job(q, w), !.gate[q.req] = "free"]
    /\ UNCHANGED <<ui, doing, conn, attach, broker, lost>>

\* poll_live_bridge takes requests from its queue, a few in each frame.
take_request ==
    /\ ui = "queue" /\ window.queue # <<>>
    /\ LET q == Head(window.queue)
           w == [window EXCEPT !.queue = Tail(@)]
       IN \/ connection_closed(q, w) \/ skip_revoked(q, w) \/ refuse_request(q, w)
          \/ answer_read(q, w) \/ answer_disconnect(q, w) \/ begin_edit(q, w)
          \/ start_queued_apply_program(q, w) \/ start_project_drawings_export(q, w)
          \/ start_sheet_export(q, w)
    /\ UNCHANGED <<given, applied, files, told>>

execute_edit ==
    /\ ui = "executing" /\ ui' = "queue"
    /\ doing' = None
    /\ \/ /\ window.epoch < MaxEpoch
          /\ window' = [window EXCEPT !.epoch = @ + 1]
          /\ applied' = applied \cup {doing}
          /\ conn' = Delivered(doing, "ok")
       \/ /\ conn' = Delivered(doing, "error")
          /\ UNCHANGED <<window, applied>>
    /\ UNCHANGED <<attach, broker, given, files, lost, told>>

\* start_export keeps the settings in the document while the sheets are drawn, or
\* refuses; what fails after it puts them back in the same step.
start_export ==
    /\ ui = "keeping" /\ ui' = "queue"
    /\ doing' = None
    /\ \/ /\ window' = [window EXCEPT
                           !.job = Job([req |-> doing, kind |-> "drawings"], window),
                           !.settings = doing]
          /\ UNCHANGED conn
       \/ conn' = Delivered(doing, "error") /\ UNCHANGED window
    /\ UNCHANGED <<attach, broker, given, applied, files, lost, told>>

end_frame ==
    /\ ui = "queue" /\ ui' = "events"
    /\ UNCHANGED <<window, doing, conn, attach, broker, given, applied, files, lost, told>>

-----------------------------------------------------------------------------
(* The user, between two frames *)

edit_document ==
    /\ "user" \in scenario /\ window.epoch < MaxEpoch
    /\ window' = [window EXCEPT !.epoch = @ + 1]

store_settings ==
    /\ "user" \in scenario /\ window.settings # None
    /\ window' = [window EXCEPT !.settings = None]

\* new_document and opening one: invalidate_document_context cancels the job.
open_document ==
    /\ "open" \in scenario
    /\ window.epoch < MaxEpoch /\ window.document < MaxDocuments
    /\ window' = [window EXCEPT
                    !.epoch = @ + 1, !.document = @ + 1, !.settings = None,
                    !.cancelled = IF window.job = None THEN @
                                  ELSE @ \cup {window.job.req}]

disconnect_ai ==
    /\ "user" \in scenario /\ (window.attached \/ window.launched)
    /\ window' = [Disable(window) EXCEPT !.attached = FALSE, !.launched = FALSE]

User ==
    /\ ui = "events"
    /\ edit_document \/ store_settings \/ open_document \/ disconnect_ai
    /\ UNCHANGED <<ui, doing, conn, attach, broker, given, applied, files, lost, told>>

-----------------------------------------------------------------------------
(* The connections *)

Current(c) == <<c, conn[c].id>>
Stopped(c) == window.bridge # conn[c].gen

connect(c) ==
    /\ conn[c].pc = "new" /\ window.bridge \in given
    /\ conn' = [conn EXCEPT ![c].pc = "idle", ![c].gen = window.bridge]
    /\ UNCHANGED <<window, told>>

\* serve reads a frame and queues the request; a full queue ends the connection.
send(c, kind) ==
    /\ conn[c].pc = "idle" /\ ~Stopped(c) /\ conn[c].id < MaxRequests
    /\ MapThenSumSet(LAMBDA d : conn[d].id, Conns) < MaxRequests
    /\ LET r == <<c, conn[c].id + 1>>
           full == Len(window.queue) >= QueueCapacity
       IN
       /\ conn' = [conn EXCEPT ![c].pc = IF full THEN "ending" ELSE "waiting",
                               ![c].id = @ + 1, ![c].kind = kind, ![c].reply = None]
       /\ window' = IF full THEN window
                    ELSE [window EXCEPT !.queue = Append(@, [req |-> r, kind |-> kind])]
       /\ told' = [told EXCEPT ![r] = IF full THEN "unavailable" ELSE @]

\* An idle connection ends with its bridge or with its client.
leave(c) ==
    /\ conn[c].pc = "idle" /\ (Stopped(c) \/ "gone" \in scenario)
    /\ conn' = [conn EXCEPT ![c].pc = "ending"]
    /\ UNCHANGED <<window, told>>

await_answer(c) ==
    /\ conn[c].pc = "waiting" /\ conn[c].reply # None
    /\ told' = [told EXCEPT ![Current(c)] = conn[c].reply]
    /\ conn' = [conn EXCEPT ![c].pc = IF conn[c].kind = "disconnect" THEN "ending" ELSE "idle",
                            ![c].reply = None]
    /\ UNCHANGED window

\* The client hangs up while it waits: CancelOnDrop.
hang_up(c) ==
    /\ "gone" \in scenario /\ conn[c].pc = "waiting"
    /\ conn' = [conn EXCEPT ![c].pc = "ending", ![c].reply = None]
    /\ window' = [window EXCEPT !.cancelled = @ \cup {Current(c)}]
    /\ told' = [told EXCEPT ![Current(c)] = "gone"]

\* The deadline passed with no answer in the channel; then the request is
\* revoked and the client told.
await_timeout(c) ==
    /\ "slow" \in scenario /\ conn[c].pc = "waiting" /\ conn[c].reply = None
    /\ conn' = [conn EXCEPT ![c].pc = "timing_out"]
    /\ UNCHANGED <<window, told>>

response_timeout(c) ==
    /\ conn[c].pc = "timing_out"
    /\ conn' = [conn EXCEPT ![c].pc = "idle"]
    /\ window' = [window EXCEPT !.cancelled = @ \cup {Current(c)}]
    /\ told' = [told EXCEPT ![Current(c)] = "timeout"]

\* Mutant: the takeover says nothing of whose request ran.
TellSuperseded_any(c) ==
    IF window.takeover[conn[c].gen] = <<>> THEN "closed" ELSE "unchanged"

\* tell_superseded, with whether the request changed the document.
TellSuperseded(c) ==
    IF window.takeover[conn[c].gen] = <<>> THEN "closed"
    ELSE LET t == window.takeover[conn[c].gen][1][c] IN
         IF t # None /\ t.id = conn[c].id /\ t.changed THEN "changed" ELSE "unchanged"

\* The bridge stopped, or the UI thread dropped the request.
await_ended(c) ==
    /\ conn[c].pc = "waiting" /\ conn[c].reply = None
    /\ Stopped(c) \/ ~Held(Current(c))
    /\ conn' = [conn EXCEPT ![c].pc = "ending"]
    /\ window' = [window EXCEPT !.cancelled = @ \cup {Current(c)}]
    /\ told' = [told EXCEPT ![Current(c)] = TellSuperseded(c)]

\* The last thing a connection does is to say that it closed.
close(c) ==
    /\ conn[c].pc = "ending"
    /\ conn' = [conn EXCEPT ![c].pc = "closed"]
    /\ window' = IF Stopped(c) \/ Len(window.queue) >= QueueCapacity THEN window
                 ELSE [window EXCEPT
                         !.queue = Append(@, [req |-> <<c, 0>>, kind |-> "closed"])]
    /\ UNCHANGED told

Connection(c) ==
    /\ \/ connect(c) \/ leave(c) \/ await_answer(c) \/ hang_up(c)
       \/ await_timeout(c) \/ response_timeout(c) \/ await_ended(c) \/ close(c)
       \/ \E kind \in Kinds \cap scenario : send(c, kind)
    /\ UNCHANGED <<ui, doing, attach, broker, given, applied, files, lost>>

-----------------------------------------------------------------------------

\* A window is started by the user, or by a client that has its credentials.
Init ==
    /\ scenario \in Scenarios
    /\ LET launched == "launched" \in scenario
           first == IF launched THEN 1 ELSE 0
       IN
       /\ window = [bridge |-> first, gen |-> first, attached |-> FALSE,
                    launched |-> launched, queue |-> <<>>,
                    started |-> [c \in Conns |-> None], session |-> None, job |-> None,
                    epoch |-> 0, document |-> 0, settings |-> None, cancelled |-> {},
                    gate |-> [r \in Requests |-> "none"],
                    takeover |-> [g \in Gens |-> <<>>]]
       /\ given = IF launched THEN {1} ELSE {}
    /\ ui = "events" /\ doing = None
    /\ conn = [c \in Conns |-> [pc |-> "new", gen |-> 0, id |-> 0, kind |-> "read",
                                reply |-> None]]
    /\ attach = [a \in Clients |-> [pc |-> "new", gen |-> 0]]
    /\ broker = [request |-> None, abandoned |-> {}, failed |-> FALSE]
    /\ applied = {} /\ files = {} /\ lost = {}
    /\ told = [r \in Requests |-> "nothing"]

Next ==
    /\ \/ \E a \in Clients :
            ask(a) \/ release_late_grant(a) \/ receive_decision(a) \/ write_grant(a)
       \/ poll_live_consent \/ supersede_live_bridge
       \/ poll_jobs \/ publish \/ take_request \/ execute_edit \/ start_export \/ end_frame
       \/ \E r \in Requests : sheet_thread(r)
       \/ User
       \/ \E c \in Conns : Connection(c)
    /\ UNCHANGED scenario

Spec == Init /\ [][Next]_vars

-----------------------------------------------------------------------------
(* Properties *)

\* What a client was told of its request is true for good: one it was told
\* failed, was cancelled or changed nothing left no edit and no settings in the
\* document, a cancelled export wrote no file, and a client whose window another
\* one took over is told so.
ToldTruth ==
    \A r \in Requests :
        /\ told[r] \in {"unchanged", "cancelled", "error", "unavailable"} =>
               r \notin applied /\ window.settings # r
        /\ told[r] = "cancelled" => r \notin files
        /\ told[r] = "closed" => window.takeover[conn[r[1]].gen] = <<>>

\* The authority of r was checked, and what the check allows is the next thing the
\* UI thread does.
Checked(r) == doing = r \/ (ui = "publishing" /\ window.job.req = r)

\* The step changes the document, writes the file or keeps the settings of r.
Acts(r) ==
    \/ r \in applied' \ applied
    \/ r \in files' \ files
    \/ window'.settings = r /\ window.settings # r /\ r \notin files \cup lost

\* A request that was revoked, by its client, by a timeout or by a takeover, passes
\* no check of its authority any more: it does at most one thing, the one whose check
\* it had passed before.  Only the thread that writes a sheet looks at the gate and
\* not at the flag (require_request_authority and the loads of the flag,
\* live_bridge.rs:2278).
RevokedStaysRevoked ==
    [][\A r \in window.cancelled :
        /\ Acts(r) => Checked(r) \/ window.gate[r] = "publishing"
        /\ Checked(r)' => Checked(r) /\ ~Acts(r)]_vars

\* The settings an export keeps stay in the document only while it runs and with
\* the files they were written on, unless the bridge went with its client.
SettingsPutBack ==
    window.settings # None =>
        \/ window.settings \in files \cup lost
        \/ window.job # None /\ window.job.req = window.settings

\* A window that shows a client as attached has a bridge, and its credentials
\* reached a client, are on their way, or their loss is about to be noticed.
AttachedIsReal ==
    window.attached =>
        /\ window.bridge # 0
        /\ \/ window.bridge \in given \/ broker.failed
           \/ \E a \in Clients :
                 attach[a].pc \in {"granted", "taken"} /\ attach[a].gen = window.bridge

=============================================================================

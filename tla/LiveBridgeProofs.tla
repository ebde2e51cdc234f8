-------------------------- MODULE LiveBridgeProofs --------------------------
(***************************************************************************)
(* What LiveBridge promises for any number of clients, connections and     *)
(* requests.                                                               *)
(*                                                                         *)
(* The argument: whatever may still take effect, a request in the queue,   *)
(* the job or the request being executed, is of the bridge that stands,    *)
(* and when that bridge goes its queue and its job go in the same step.  A *)
(* queued request is fresh: it has left nothing anywhere, and its flag is  *)
(* clear while its client waits.  A job knows which settings and which     *)
(* file are its own, so undoing it leaves nothing of its request.  So a    *)
(* client is told that nothing happened only of a request that is dead:    *)
(* issued, no longer active, and without effect; dead requests stay dead.  *)
(*                                                                         *)
(* The steps are of a few kinds, whatever action they come from: nothing   *)
(* that counts changes (Idle), the bridge goes (Released), its client is   *)
(* taken over (TakenOver), the job ends or goes on (JobEnds, JobStays), a  *)
(* request is taken from the queue (TakeStep) or executed (Executed), an   *)
(* export keeps its settings (Keeps), the user or a sheet's thread acts    *)
(* (Aside), a connection moves (ConnMove).  Each kind is shown once to     *)
(* keep Work and Answers, and each action to be of one kind.  Who is       *)
(* attached, Control, is shown separately, and so is what a step does in   *)
(* the name of a request whose authority was checked the step before.      *)
(***************************************************************************)
EXTENDS LiveBridge, FiniteSetTheorems, TLAPS

------------------------------------------------------------------------------
(* The inductive invariant *)

Entry == [req : Conns \X (0..MaxRequests), kind : Kinds \cup {"closed"}]
Gates == {"none", "free", "publishing", "failed", "written", "kept", "cancelled"}

Window ==
    [bridge : Nat, gen : Nat, attached : BOOLEAN, launched : BOOLEAN, queue : Seq(Entry),
     started : [Conns -> Starts \cup {None}], session : Conns \cup {None},
     job : Jobs \cup {None}, epoch : Nat, document : Nat, settings : Settings,
     cancelled : SUBSET Requests, gate : [Requests -> Gates],
     takeover : [Gens -> Seq([Conns -> Takeovers \cup {None}])]]
Connections ==
    [pc : {"new", "idle", "waiting", "timing_out", "ending", "closed"}, gen : Nat,
     id : 0..MaxRequests, kind : Kinds, reply : {None, "ok", "error", "cancelled"}]
Attaches == [pc : {"new", "waiting", "granted", "taken", "done"}, gen : Nat]
Types ==
    /\ window \in Window
    /\ ui \in {"events", "superseding", "jobs", "publishing", "queue", "executing", "keeping"}
    /\ doing \in Requests \cup Clients \cup {None}
    /\ conn \in [Conns -> Connections]
    /\ attach \in [Clients -> Attaches]
    /\ broker \in [request : Clients \cup {None}, abandoned : SUBSET Clients, failed : BOOLEAN]
    /\ given \subseteq Nat \ {0}
    /\ applied \subseteq Requests /\ files \subseteq Requests /\ lost \subseteq Requests
    /\ told \in [Requests -> {"nothing", "ok", "error", "cancelled", "gone", "timeout",
                              "unavailable", "closed", "unchanged", "changed"}]
    /\ scenario \subseteq Kinds \cup {"launched", "user", "open", "gone", "slow"}

Entries(s) == {s[i] : i \in 1..Len(s)}
InQueue(r) == \E e \in Entries(window.queue) : e.req = r
IsJob(r) == window.job # None /\ window.job.req = r
Active(r) == InQueue(r) \/ IsJob(r) \/ doing = r
Issued(r) == r[2] <= conn[r[1]].id
Awaits(r) == conn[r[1]].pc = "waiting" /\ conn[r[1]].id = r[2]
Began(r) == window.started[r[1]] # None /\ window.started[r[1]].id = r[2]
Clear(r) ==
    /\ r \notin applied /\ window.settings # r
    /\ window.job # None => window.job.previous # r
Dead(r) == Issued(r) /\ ~Active(r) /\ Clear(r)
Unwritten(r) == r \notin files /\ window.gate[r] \in {"none", "cancelled", "failed"}

Answered == {a \in Clients : attach[a].pc \notin {"new", "waiting"}}

ThreadOK ==
    /\ ui \in {"executing", "keeping"} => doing \in Requests
    /\ ui = "keeping" => window.job = None
    /\ ui = "publishing" =>
          /\ window.job # None /\ window.job.kind # "sheet"
          /\ window.job.kind = "program" => window.job.stage = "planning"
    /\ ui = "superseding" =>
          /\ doing \in Clients /\ attach[doing].pc = "waiting"
          /\ ~window.attached /\ window.bridge # 0
          /\ window.job # None => window.settings # window.job.req
    /\ ui \notin {"executing", "keeping", "superseding"} => doing = None
BrokerOK ==
    /\ \A a \in broker.abandoned : attach[a].pc = "done"
    /\ broker.request # None =>
          \/ broker.request \in broker.abandoned
          \/ attach[broker.request].pc = "waiting" /\ doing # broker.request
BridgeOK ==
    /\ window.bridge \in {0, window.gen}
    /\ window.gen <= 1 + Cardinality(Answered)
    /\ \A a \in Clients : attach[a].pc \in {"granted", "taken"} => attach[a].gen # 0
    /\ \A c \in Conns :
          /\ conn[c].pc # "new" => conn[c].gen \in 1..window.gen
          /\ conn[c].pc = "new" => conn[c].id = 0
          /\ conn[c].pc \in {"waiting", "timing_out"} => conn[c].id # 0
    /\ \A g \in Gens :
          window.takeover[g] # <<>> => g <= window.gen /\ (g = window.bridge => ui = "superseding")

Before(d, e) == d.req[1] = e.req[1] /\ e.kind # "closed" => d.req[2] < e.req[2]
Ordered(s) == \A i, j \in 1..Len(s) : i < j => Before(s[i], s[j])
Fresh(r) ==
    /\ r \in Requests /\ Issued(r) /\ Clear(r) /\ ~IsJob(r) /\ doing # r
    /\ r \notin files /\ window.gate[r] = "none"
    /\ Awaits(r) => r \notin window.cancelled
    /\ window.started[r[1]] # None => window.started[r[1]].id < r[2]
EntryOK(e) ==
    /\ conn[e.req[1]].gen = window.bridge /\ window.bridge # 0
    /\ e.kind = "closed" => e.req[2] = 0 /\ conn[e.req[1]].pc = "closed"
    /\ e.kind # "closed" => Fresh(e.req)
QueueOK == Ordered(window.queue) /\ \A e \in Entries(window.queue) : EntryOK(e)

\* The job is of a request of the bridge that is over when the job is.
JobIs(r) ==
    LET j == window.job IN
    /\ Issued(r) /\ conn[r[1]].gen = window.bridge /\ doing # r /\ j.previous # r
    /\ j.kind # "drawings" => window.settings # r
    /\ j.kind = "drawings" => r \notin files /\ j.previous \in {None} \cup files \cup lost
    /\ j.document # window.document => window.settings # r
    /\ j.kind # "program" \/ j.stage = "planning" => r \notin applied
    /\ j.kind # "sheet" => window.gate[r] = "none"
    /\ j.kind = "sheet" /\ window.gate[r] # "written" => r \notin files
    /\ j.replied => /\ j.kind = "program" /\ j.stage = "checking"
                    /\ Awaits(r) => conn[r[1]].reply # None
    /\ ~j.replied /\ Awaits(r) => Began(r)
JobOK == \A r \in Requests : IsJob(r) => JobIs(r)

StartedOK ==
    \A r \in Requests : Began(r) =>
        LET s == window.started[r[1]] IN
        /\ Issued(r) /\ s.settings # r /\ s.epoch <= window.epoch
        /\ r \in applied => s.epoch < window.epoch

DoingOK ==
    \A r \in Requests : doing = r =>
        /\ Issued(r) /\ Clear(r) /\ ~InQueue(r)
        /\ r \notin files /\ window.gate[r] = "none"
        /\ conn[r[1]].gen = window.bridge /\ (Awaits(r) => Began(r))

IssuedOK ==
    \A r \in Requests : ~Issued(r) =>
        /\ Clear(r) /\ r \notin files /\ window.gate[r] = "none"
        /\ r \notin window.cancelled /\ told[r] = "nothing"

\* A reply is true, one that is missing is still to come, and what a takeover says is true.
ReplyOK(r) ==
    LET c == r[1] IN
    /\ conn[c].reply \in {"error", "cancelled"} => Dead(r)
    /\ conn[c].reply = "cancelled" => Unwritten(r)
    /\ conn[c].reply = None /\ conn[c].gen = window.bridge => Held(r)
    /\ conn[c].reply = None /\ TellSuperseded(c) = "unchanged" => Clear(r)
RepliesOK == \A r \in Requests : Awaits(r) => ReplyOK(r)

ToldIs(r) ==
    /\ told[r] \in {"unchanged", "cancelled", "error", "unavailable"} => Dead(r)
    /\ told[r] = "cancelled" => Unwritten(r)
    /\ told[r] = "closed" => /\ window.takeover[conn[r[1]].gen] = <<>>
                             /\ conn[r[1]].gen # window.bridge
ToldOK == \A r \in Requests : ToldIs(r)

Control == ThreadOK /\ BrokerOK /\ BridgeOK /\ AttachedIsReal
Work == QueueOK /\ JobOK /\ StartedOK /\ DoingOK /\ SettingsPutBack
Answers == IssuedOK /\ RepliesOK /\ ToldOK

Inv == Types /\ Control /\ Work /\ Answers

------------------------------------------------------------------------------
(* Lemmas: pairs, queues, fields *)

\* A request is a connection and an id.
LEMMA Pair ==
    ASSUME NEW r \in Conns \X (0..MaxRequests)
    PROVE  r[1] \in Conns /\ r[2] \in 0..MaxRequests /\ r = <<r[1], r[2]>>
  OBVIOUS

\* A request is the pair of its connection and its number there.
LEMMA Request ==
    /\ \A r \in Requests : /\ r[1] \in Conns /\ r[2] \in 1..MaxRequests
                            /\ r = <<r[1], r[2]>> /\ r \in Conns \X (0..MaxRequests)
    /\ \A c \in Conns, i \in 0..MaxRequests :
          i # 0 => <<c, i>> \in Requests
    /\ \A c \in Conns, i \in 0..MaxRequests : <<c, i>>[1] = c /\ <<c, i>>[2] = i
  BY ConstantAssumption DEF Requests

\* None is no client, no connection, no request and no answer.
LEMMA NoneApart ==
    /\ None \notin Clients /\ None \notin Conns /\ None \notin Requests /\ None \notin Jobs
    /\ None \notin Starts /\ None \notin Takeovers
    /\ None # "ok" /\ None # "error" /\ None # "cancelled"
    /\ \A a \in Clients : a \notin Requests
  BY ConstantAssumption

\* A queue that was emptied holds nothing.
LEMMA EmptyQueue == Entries(<<>>) = {} /\ Ordered(<<>>)
  BY DEF Entries, Ordered

\* What is left of a queue when its head is taken.
LEMMA TakeHead ==
    ASSUME NEW T, NEW s \in Seq(T), s # <<>>
    PROVE  /\ Head(s) \in Entries(s) /\ Head(s) \in T
           /\ Tail(s) \in Seq(T)
           /\ Entries(Tail(s)) \subseteq Entries(s)
           /\ \A e \in Entries(s) : e = Head(s) \/ e \in Entries(Tail(s))
           /\ Ordered(s) => /\ Ordered(Tail(s))
                            /\ \A e \in Entries(Tail(s)) : Before(Head(s), e)
  <1>1. Len(s) \in Nat /\ Len(s) # 0 /\ Head(s) = s[1]
    OBVIOUS
  <1>2. Tail(s) \in Seq(T) /\ Len(Tail(s)) = Len(s) - 1
    OBVIOUS
  <1>3. \A i \in 1..Len(Tail(s)) : Tail(s)[i] = s[i + 1] /\ i + 1 \in 1..Len(s)
    BY <1>1, <1>2
  <1>4. Head(s) \in Entries(s) /\ Head(s) \in T
    BY <1>1 DEF Entries
  <1>5. Entries(Tail(s)) \subseteq Entries(s)
    BY <1>3 DEF Entries
  <1>6. ASSUME NEW e \in Entries(s), e # Head(s) PROVE e \in Entries(Tail(s))
    <2>1. PICK i \in 1..Len(s) : e = s[i]
      BY DEF Entries
    <2>2. i - 1 \in 1..Len(Tail(s)) /\ Tail(s)[i - 1] = s[i]
      BY <1>1, <1>2, <1>3, <1>6, <2>1
    <2> QED BY <2>1, <2>2 DEF Entries
  <1>7. ASSUME Ordered(s) PROVE Ordered(Tail(s))
    BY <1>1, <1>2, <1>3, <1>7 DEF Ordered
  <1>8. ASSUME Ordered(s), NEW e \in Entries(Tail(s)) PROVE Before(Head(s), e)
    <2>1. PICK i \in 1..Len(Tail(s)) : e = Tail(s)[i]
      BY DEF Entries
    <2>2. e = s[i + 1] /\ i + 1 \in 1..Len(s) /\ 1 \in 1..Len(s) /\ 1 < i + 1
      BY <1>1, <1>2, <1>3, <2>1
    <2> QED BY <1>1, <1>8, <2>2 DEF Ordered
  <1> QED BY <1>2, <1>4, <1>5, <1>6, <1>7, <1>8

\* A queue with one entry more.
LEMMA AddEntry ==
    ASSUME NEW T, NEW s \in Seq(T), NEW e \in T
    PROVE  /\ Append(s, e) \in Seq(T) /\ Entries(Append(s, e)) = Entries(s) \cup {e}
           /\ Ordered(s) /\ (\A d \in Entries(s) : Before(d, e)) => Ordered(Append(s, e))
  <1>1. /\ Len(s) \in Nat /\ Append(s, e) \in Seq(T) /\ Len(Append(s, e)) = Len(s) + 1
        /\ Append(s, e)[Len(s) + 1] = e
        /\ \A i \in 1..Len(s) : Append(s, e)[i] = s[i]
    OBVIOUS
  <1>2. \A i \in 1..Len(s) + 1 : i \in 1..Len(s) \/ i = Len(s) + 1
    BY <1>1
  <1>3. Entries(Append(s, e)) = Entries(s) \cup {e}
    BY <1>1, <1>2 DEF Entries
  <1>4. ASSUME Ordered(s), \A d \in Entries(s) : Before(d, e)
        PROVE  Ordered(Append(s, e))
    <2> SUFFICES ASSUME NEW i \in 1..Len(s) + 1, NEW j \in 1..Len(s) + 1, i < j
                 PROVE  Before(Append(s, e)[i], Append(s, e)[j])
      BY <1>1 DEF Ordered
    <2>1. i \in 1..Len(s)
      BY <1>1
    <2>2. CASE j \in 1..Len(s)
      BY <1>1, <1>4, <2>1, <2>2 DEF Ordered
    <2>3. CASE j = Len(s) + 1
      BY <1>1, <1>4, <2>1, <2>3 DEF Entries
    <2> QED BY <1>2, <2>2, <2>3
  <1> QED BY <1>1, <1>3, <1>4

\* The fields of the window have their types.
LEMMA Fields ==
    ASSUME NEW w \in Window
    PROVE  /\ w.bridge \in Nat /\ w.gen \in Nat /\ w.attached \in BOOLEAN
           /\ w.launched \in BOOLEAN /\ w.queue \in Seq(Entry)
           /\ w.started \in [Conns -> Starts \cup {None}] /\ w.session \in Conns \cup {None}
           /\ w.job \in Jobs \cup {None} /\ w.epoch \in Nat /\ w.document \in Nat
           /\ w.settings \in Requests \cup {None} /\ w.cancelled \subseteq Requests
           /\ w.gate \in [Requests -> Gates]
           /\ w.takeover \in [Gens -> Seq([Conns -> Takeovers \cup {None}])]
           /\ w.job # None => /\ w.job.req \in Requests /\ w.job.epoch \in Nat
                              /\ w.job.kind \in {"program", "drawings", "sheet"}
                              /\ w.job.document \in Nat /\ w.job.previous \in Settings
                              /\ w.job.stage \in {"planning", "checking"}
                              /\ w.job.replied \in BOOLEAN
           /\ \A c \in Conns : w.started[c] # None =>
                 /\ w.started[c].id \in 1..MaxRequests /\ w.started[c].epoch \in Nat
                 /\ w.started[c].settings \in Settings
  BY NoneApart DEF Window, Jobs, Starts, Settings

\* A window with another value of a field is one.
LEMMA WindowParts ==
    ASSUME NEW w \in Window
    PROVE  /\ \A x \in [Conns -> Starts \cup {None}] : [w EXCEPT !.started = x] \in Window
           /\ \A x \in Conns \cup {None} : [w EXCEPT !.session = x] \in Window
           /\ \A x \in BOOLEAN : [w EXCEPT !.launched = x] \in Window
           /\ \A x \in Jobs \cup {None} : [w EXCEPT !.job = x] \in Window
           /\ \A x \in Settings : [w EXCEPT !.settings = x] \in Window
           /\ \A x \in [Requests -> Gates] : [w EXCEPT !.gate = x] \in Window
  <1>1. \A x \in [Conns -> Starts \cup {None}] : [w EXCEPT !.started = x] \in Window
    BY DEF Window
  <1>2. \A x \in Conns \cup {None} : [w EXCEPT !.session = x] \in Window
    BY DEF Window
  <1>3. \A x \in BOOLEAN : [w EXCEPT !.launched = x] \in Window
    BY DEF Window
  <1>4. \A x \in Jobs \cup {None} : [w EXCEPT !.job = x] \in Window
    BY DEF Window
  <1>5. \A x \in Settings : [w EXCEPT !.settings = x] \in Window
    BY DEF Window
  <1>6. \A x \in [Requests -> Gates] : [w EXCEPT !.gate = x] \in Window
    BY DEF Window
  <1> QED BY <1>1, <1>2, <1>3, <1>4, <1>5, <1>6, Zenon

\* Two windows that differ in their jobs and what comes with them only.
SameButJob(w, v) ==
    /\ w.bridge = v.bridge /\ w.gen = v.gen /\ w.attached = v.attached
    /\ w.queue = v.queue /\ w.epoch = v.epoch /\ w.document = v.document
    /\ w.cancelled = v.cancelled /\ w.takeover = v.takeover

\* Leaving the revoked requests as they were is leaving them alone.
LEMMA QueueOnly ==
    ASSUME NEW w \in Window, NEW u
    PROVE  [w EXCEPT !.queue = u, !.cancelled = w.cancelled] = [w EXCEPT !.queue = u]
  BY DEF Window

\* A sequence of one.
LEMMA OneEntry == \A x : <<x>> # <<>> /\ <<x>>[1] = x
  <1> SUFFICES ASSUME NEW x PROVE <<x>> # <<>> /\ <<x>>[1] = x
    OBVIOUS
  <1>1. Len(<<x>>) = 1 /\ Len(<<>>) = 0 /\ <<x>>[1] = x
    OBVIOUS
  <1> QED BY <1>1

\* The fields of a connection have their types.
LEMMA ConnFields ==
    ASSUME NEW f \in [Conns -> Connections], NEW c \in Conns
    PROVE  /\ f[c].pc \in {"new", "idle", "waiting", "timing_out", "ending", "closed"}
           /\ f[c].gen \in Nat /\ f[c].id \in 0..MaxRequests /\ f[c].kind \in Kinds
           /\ f[c].reply \in {None, "ok", "error", "cancelled"}
  BY DEF Connections

------------------------------------------------------------------------------
(* Lemmas: what is active is of the bridge that stands *)

\* A queued request is of the bridge that stands and has left nothing yet.
LEMMA QueuedIsFresh ==
    ASSUME Inv, NEW e \in Entries(window.queue)
    PROVE  /\ e \in Entry /\ EntryOK(e)
           /\ e.req \in Requests => e.kind # "closed" /\ Fresh(e.req)
  <1>1. window.queue \in Seq(Entry)
    BY Fields DEF Inv, Types
  <1>2. e \in Entry
    BY <1>1 DEF Entries
  <1>3. EntryOK(e)
    BY DEF Inv, Work, QueueOK
  <1>4. ASSUME e.req \in Requests PROVE e.kind # "closed"
    BY <1>3, <1>4, Request, ConstantAssumption DEF EntryOK
  <1> QED BY <1>2, <1>3, <1>4 DEF EntryOK

\* Whatever may still take effect is of the bridge that stands.
LEMMA ActiveHere ==
    ASSUME Inv, NEW r \in Requests, Active(r)
    PROVE  /\ Issued(r) /\ conn[r[1]].gen = window.bridge /\ window.bridge # 0
           /\ conn[r[1]].pc # "new"
  <1>1. ASSUME InQueue(r) PROVE Issued(r) /\ conn[r[1]].gen = window.bridge
    <2>1. PICK e \in Entries(window.queue) : e.req = r
      BY <1>1 DEF InQueue
    <2> QED BY <2>1, QueuedIsFresh DEF EntryOK, Fresh
  <1>2. ASSUME IsJob(r) PROVE Issued(r) /\ conn[r[1]].gen = window.bridge
    BY <1>2 DEF Inv, Work, JobOK, JobIs
  <1>3. ASSUME doing = r PROVE Issued(r) /\ conn[r[1]].gen = window.bridge
    BY <1>3 DEF Inv, Work, DoingOK
  <1>4. Issued(r) /\ conn[r[1]].gen = window.bridge
    BY <1>1, <1>2, <1>3 DEF Active
  <1>5. r[1] \in Conns /\ r[2] \in 1..MaxRequests
    BY Request
  <1>6. conn[r[1]].id \in 0..MaxRequests /\ conn[r[1]].id # 0
    BY <1>4, <1>5, ConnFields, ConstantAssumption DEF Issued, Inv, Types
  <1>7. conn[r[1]].pc # "new" /\ conn[r[1]].gen \in 1..window.gen
    BY <1>5, <1>6 DEF Inv, Control, BridgeOK
  <1> QED BY <1>4, <1>7

------------------------------------------------------------------------------
(* A step is steady when no request it does not know becomes active and what *)
(* is over stays as it is.                                                   *)

Steady ==
    \A r \in Requests :
        /\ Issued(r) => Issued(r)'
        /\ Active(r)' => Active(r) \/ ~Issued(r)
        /\ Clear(r) /\ ~Active(r) => Clear(r)'
        /\ Unwritten(r) /\ ~Active(r) => Unwritten(r)' /\ window'.gate[r] = window.gate[r]
        /\ r \in window'.cancelled => r \in window.cancelled \/ Issued(r)'
        /\ told'[r] # told[r] => Issued(r)'

\* A request that is dead stays dead.
LEMMA DeadStays ==
    ASSUME Steady, NEW r \in Requests, Dead(r)
    PROVE  Dead(r)' /\ (Unwritten(r) => Unwritten(r)')
  BY DEF Steady, Dead

\* A request that was not sent has left nothing, in no step that leaves the dead alone.
LEMMA IssuedKept ==
    ASSUME Inv, Steady
    PROVE  IssuedOK'
  <1> SUFFICES ASSUME NEW r \in Requests, ~Issued(r)'
               PROVE  /\ Clear(r)' /\ r \notin files' /\ window'.gate[r] = "none"
                      /\ r \notin window'.cancelled /\ told'[r] = "nothing"
    BY DEF IssuedOK
  <1>1. ~Issued(r)
    BY DEF Steady
  <1>2. ~Active(r)
    BY <1>1, ActiveHere
  <1>3. /\ Clear(r) /\ r \notin files /\ window.gate[r] = "none"
        /\ r \notin window.cancelled /\ told[r] = "nothing"
    BY <1>1 DEF Inv, Answers, IssuedOK
  <1>4. Unwritten(r)
    BY <1>3 DEF Unwritten
  <1>5. Clear(r)' /\ Unwritten(r)' /\ window'.gate[r] = window.gate[r]
    BY <1>2, <1>3, <1>4 DEF Steady
  <1>6. r \notin window'.cancelled /\ told'[r] = told[r]
    BY <1>3 DEF Steady
  <1> QED BY <1>3, <1>5, <1>6 DEF Unwritten


\* Each bridge after the first was started for a client of its own.
LEMMA AnsweredCard ==
    IsFiniteSet(Answered) /\ Cardinality(Answered) \in Nat
    /\ Cardinality(Answered) <= Cardinality(Clients) /\ Cardinality(Clients) \in Nat
  BY ConstantAssumption, FS_Subset, FS_CardinalityType DEF Answered

\* There is a generation left for every client that was not answered yet.
LEMMA GenBound ==
    ASSUME Inv
    PROVE  window.gen \in Nat /\ \A g \in 1..window.gen : g \in Gens
  BY AnsweredCard, Fields DEF Inv, Types, Control, BridgeOK, Gens

\* A request is held while an answer to it is still to come.
LEMMA HeldIs ==
    \A r : Held(r) <=> InQueue(r) \/ (IsJob(r) /\ ~window.job.replied) \/ doing = r
  BY DEF Held, InQueue, Entries, IsJob

\* The same after the step.
LEMMA HeldNext ==
    \A r : Held(r)' <=> InQueue(r)' \/ (IsJob(r)' /\ ~window'.job.replied) \/ doing' = r
  BY DEF Held, InQueue, Entries, IsJob

\* The connections stay as they are, but for a reply.
SameConns ==
    \A c \in Conns : /\ conn'[c].pc = conn[c].pc /\ conn'[c].gen = conn[c].gen
                     /\ conn'[c].id = conn[c].id

\* A reply that is delivered says the truth.
TrueReplies ==
    \A r \in Requests :
        Awaits(r) /\ conn'[r[1]].reply # conn[r[1]].reply =>
            /\ conn'[r[1]].reply # None
            /\ conn'[r[1]].reply \in {"error", "cancelled"} => Dead(r)'
            /\ conn'[r[1]].reply = "cancelled" => Unwritten(r)'

\* What a connection waits for stays with the UI thread until it is answered.
StillHeld ==
    \A r \in Requests :
        Awaits(r) /\ conn'[r[1]].reply = None /\ conn[r[1]].gen = window.bridge => Held(r)'

\* A steady step of the UI thread that answers truly keeps what clients know true.
LEMMA AnswersKept ==
    ASSUME Inv, Steady, SameConns, TrueReplies, StillHeld, ui # "superseding",
           window'.bridge = window.bridge, window'.takeover = window.takeover, told' = told
    PROVE  Answers'
  <1>1. IssuedOK'
    BY IssuedKept
  <1>2. RepliesOK'
    <2> SUFFICES ASSUME NEW r \in Requests, Awaits(r)'
                 PROVE  ReplyOK(r)'
      BY DEF RepliesOK
    <2>1. r[1] \in Conns
      BY Request
    <2>2. Awaits(r) /\ conn'[r[1]].id = conn[r[1]].id /\ conn'[r[1]].gen = conn[r[1]].gen
      BY <2>1 DEF SameConns, Awaits
    <2>3. ReplyOK(r)
      BY <2>2 DEF Inv, Answers, RepliesOK
    <2>4. conn'[r[1]].reply \in {"error", "cancelled"} => Dead(r)'
      BY <2>2, <2>3, DeadStays DEF TrueReplies, ReplyOK
    <2>5. conn'[r[1]].reply = "cancelled" => Unwritten(r)'
      BY <2>2, <2>3, DeadStays DEF TrueReplies, ReplyOK
    <2>6. conn'[r[1]].reply = None /\ conn'[r[1]].gen = window'.bridge => Held(r)'
      BY <2>2 DEF StillHeld
    <2>7. ASSUME conn'[r[1]].reply = None, TellSuperseded(r[1])' = "unchanged"
          PROVE  Clear(r)'
      <3>1. conn[r[1]].reply = None
        BY <2>2, <2>7 DEF TrueReplies
      <3>2. TellSuperseded(r[1]) = "unchanged" /\ window.takeover[conn[r[1]].gen] # <<>>
        BY <2>2, <2>7, Zenon DEF TellSuperseded
      <3>3. conn[r[1]].gen # window.bridge
        <4>1. conn[r[1]].gen \in 1..window.gen
          BY <2>1, <2>2 DEF Inv, Control, BridgeOK, Awaits
        <4>2. conn[r[1]].gen \in Gens
          BY <4>1, GenBound
        <4> QED BY <3>2, <4>2 DEF Inv, Control, BridgeOK
      <3>5. ~Active(r)
        BY <3>3, ActiveHere
      <3> QED BY <2>3, <3>1, <3>2, <3>5 DEF Steady, ReplyOK
    <2> QED BY <2>4, <2>5, <2>6, <2>7 DEF ReplyOK
  <1>3. ToldOK'
    <2> SUFFICES ASSUME NEW r \in Requests
                 PROVE  ToldIs(r)'
      BY DEF ToldOK
    <2>1. ToldIs(r)
      BY DEF Inv, Answers, ToldOK
    <2>2. r[1] \in Conns
      BY Request
    <2> QED BY <2>1, <2>2, DeadStays DEF SameConns, ToldIs
  <1> QED BY <1>1, <1>2, <1>3 DEF Answers

------------------------------------------------------------------------------
(* The work of the window and what clients know of it, move by move.  First a *)
(* move that only shows something else, or that is the broker's.              *)

SameBridge == window'.bridge = window.bridge /\ window'.takeover = window.takeover
SameQueue == window'.queue = window.queue /\ window'.started = window.started
SameDocument ==
    /\ window'.epoch = window.epoch /\ window'.document = window.document
    /\ window'.settings = window.settings
SameMarks == window'.cancelled = window.cancelled /\ window'.gate = window.gate

Idle ==
    /\ SameBridge /\ SameQueue /\ SameDocument /\ SameMarks /\ window'.job = window.job
    /\ UNCHANGED <<conn, doing, applied, files, lost, told>>

\* A step that changes nothing that counts keeps what is known of requests.
LEMMA IdleWork ==
    ASSUME Idle, Work, Answers
    PROVE  Work' /\ Answers'
  <1> USE DEF Idle, SameBridge, SameQueue, SameDocument, SameMarks
  <1>1. \A r : /\ Issued(r)' <=> Issued(r)
               /\ Awaits(r)' <=> Awaits(r)
               /\ Began(r)' <=> Began(r)
               /\ IsJob(r)' <=> IsJob(r)
               /\ InQueue(r)' <=> InQueue(r)
               /\ Clear(r)' <=> Clear(r)
               /\ Unwritten(r)' <=> Unwritten(r)
    BY DEF Issued, Awaits, Began, IsJob, InQueue, Clear, Unwritten
  <1>2. \A r : /\ Dead(r)' <=> Dead(r)
               /\ Fresh(r)' <=> Fresh(r)
               /\ Held(r)' <=> Held(r)
    BY <1>1 DEF Dead, Active, Fresh, Held
  <1>3. QueueOK'
    BY <1>2 DEF Work, QueueOK, EntryOK
  <1>4. JobOK'
    BY <1>1 DEF Work, JobOK, JobIs
  <1>5. StartedOK' /\ DoingOK' /\ SettingsPutBack'
    BY <1>1 DEF Work, StartedOK, DoingOK, SettingsPutBack
  <1>6. IssuedOK'
    BY <1>1 DEF Answers, IssuedOK
  <1>7. RepliesOK'
    BY <1>1, <1>2, ZenonT(30) DEF Answers, RepliesOK, ReplyOK, TellSuperseded
  <1>8. ToldOK'
    BY <1>1, <1>2 DEF Answers, ToldOK, ToldIs
  <1> QED BY <1>3, <1>4, <1>5, <1>6, <1>7, <1>8 DEF Work, Answers

\* The bridge goes, with what was queued and with the job: another one may stand.
Released ==
    /\ window'.bridge \notin 1..window.gen /\ window'.takeover = window.takeover
    /\ window'.queue = <<>> /\ window'.job = None /\ doing' = None
    /\ \A c \in Conns : window'.started[c] \in {None, window.started[c]}
    /\ window'.epoch = window.epoch
    /\ \/ window'.settings = window.settings
       \/ /\ window.job # None /\ window.job.kind = "drawings"
          /\ window'.settings = window.job.previous
    /\ \A r \in Requests : r \in window'.cancelled => r \in window.cancelled \/ IsJob(r)
    /\ \A r \in Requests : window'.gate[r] = window.gate[r] \/ IsJob(r)
    /\ lost \subseteq lost' /\ UNCHANGED <<applied, files, told>>
    /\ window.settings # None /\ IsJob(window.settings) /\ window'.settings = window.settings =>
          window.settings \in lost'
    /\ SameConns /\ \A c \in Conns : conn'[c].reply \in {"ok", conn[c].reply}

\* A bridge that goes takes with it all that may still take effect.
LEMMA ReleasedWork ==
    ASSUME Inv, Released
    PROVE  Work' /\ Answers'
  <1>1. \A r \in Requests : Issued(r)' <=> Issued(r)
    BY Request DEF Released, SameConns, Issued
  <1>2. \A r \in Requests : ~Active(r)'
    BY NoneApart, EmptyQueue DEF Released, Active, InQueue, IsJob
  <1>3. ASSUME NEW r \in Requests, Clear(r) PROVE Clear(r)'
    BY <1>3 DEF Released, Clear
  <1>4. ASSUME NEW r \in Requests, Unwritten(r), ~Active(r)
        PROVE  Unwritten(r)' /\ window'.gate[r] = window.gate[r]
    BY <1>4 DEF Released, Unwritten, Active
  <1>5. ASSUME NEW r \in Requests, r \in window'.cancelled
        PROVE  r \in window.cancelled \/ Issued(r)'
    BY <1>1, <1>5, ActiveHere DEF Released, Active
  <1>6. Steady
    BY <1>1, <1>2, <1>3, <1>4, <1>5 DEF Steady, Released
  <1>7. QueueOK' /\ DoingOK' /\ JobOK'
    BY EmptyQueue, NoneApart DEF QueueOK, DoingOK, JobOK, IsJob, Released
  <1>8. StartedOK'
    <2> SUFFICES ASSUME NEW r \in Requests, Began(r)'
                 PROVE  LET s == window'.started[r[1]] IN
                        /\ Issued(r)' /\ s.settings # r /\ s.epoch <= window'.epoch
                        /\ r \in applied' => s.epoch < window'.epoch
      BY DEF StartedOK
    <2>1. r[1] \in Conns
      BY Request
    <2>2. window'.started[r[1]] = window.started[r[1]] /\ Began(r)
      BY <2>1 DEF Released, Began
    <2> QED BY <1>1, <2>2 DEF Released, Inv, Work, StartedOK
  <1>9. SettingsPutBack'
    <2>1. ASSUME window'.settings # None PROVE window'.settings \in files' \cup lost'
      <3>1. CASE window'.settings = window.settings
        BY <2>1, <3>1 DEF Released, Inv, Work, SettingsPutBack, IsJob
      <3>2. CASE /\ window.job # None /\ window.job.kind = "drawings"
                 /\ window'.settings = window.job.previous
        <4>1. window.job.req \in Requests
          BY <3>2, Fields DEF Inv, Types
        <4>2. JobIs(window.job.req)
          BY <3>2, <4>1 DEF Inv, Work, JobOK, IsJob
        <4> QED BY <2>1, <3>2, <4>2 DEF JobIs, Released
      <3> QED BY <3>1, <3>2 DEF Released
    <2> QED BY <2>1 DEF SettingsPutBack
  <1>10. RepliesOK'
    <2> SUFFICES ASSUME NEW r \in Requests, Awaits(r)'
                 PROVE  ReplyOK(r)'
      BY DEF RepliesOK
    <2>1. r[1] \in Conns
      BY Request
    <2>2. Awaits(r) /\ conn'[r[1]].id = conn[r[1]].id /\ conn'[r[1]].gen = conn[r[1]].gen
      BY <2>1 DEF SameConns, Awaits, Released
    <2>3. ReplyOK(r) /\ conn'[r[1]].reply \in {"ok", conn[r[1]].reply}
      BY <2>1, <2>2 DEF Inv, Answers, RepliesOK, Released
    <2>4. conn[r[1]].gen \in 1..window.gen
      BY <2>1, <2>2 DEF Inv, Control, BridgeOK, Awaits
    <2>5. conn'[r[1]].gen # window'.bridge
      BY <2>2, <2>4 DEF Released
    <2>6. TellSuperseded(r[1])' = TellSuperseded(r[1])
      BY <2>2 DEF TellSuperseded, Released
    <2> QED BY <1>3, <1>6, <2>3, <2>5, <2>6, DeadStays, NoneApart DEF ReplyOK
  <1>11. ToldOK'
    <2> SUFFICES ASSUME NEW r \in Requests
                 PROVE  ToldIs(r)'
      BY DEF ToldOK
    <2>1. ToldIs(r) /\ told'[r] = told[r]
      BY DEF Inv, Answers, ToldOK, Released
    <2>2. r[1] \in Conns /\ r[2] \in 1..MaxRequests
      BY Request
    <2>3. conn'[r[1]].gen = conn[r[1]].gen
      BY <2>2 DEF Released, SameConns
    <2>4. ASSUME told[r] = "closed" PROVE conn[r[1]].gen # window'.bridge
      <3>1. Issued(r)
        BY <2>4 DEF Inv, Answers, IssuedOK
      <3>2. conn[r[1]].gen \in 1..window.gen
        BY <2>2, <3>1, ConnFields, ConstantAssumption DEF Issued, Inv, Types, Control, BridgeOK
      <3> QED BY <3>2 DEF Released
    <2> QED BY <1>6, <2>1, <2>3, <2>4, DeadStays DEF ToldIs, Released
  <1> QED BY <1>6, <1>7, <1>8, <1>9, <1>10, <1>11, IssuedKept DEF Work, Answers

\* What an abandoned job leaves: its settings are put back, its sheet is stopped
\* where it still can be.
JobUndone ==
    IF window.job = None THEN window'.settings = window.settings /\ SameMarks
    ELSE /\ window'.settings = Undone(window, window.job)
         /\ window'.gate = Gated(window, window.job)
         /\ window'.cancelled = window.cancelled \cup {window.job.req}

\* Undoing a job takes back its settings and touches nothing of other requests.
LEMMA UndoneJob ==
    ASSUME Inv, JobUndone
    PROVE  /\ \/ window'.settings = window.settings
              \/ /\ window.job # None /\ window.job.kind = "drawings"
                 /\ window'.settings = window.job.previous
           /\ window.job # None => /\ window'.settings # window.job.req
                                   /\ JobIs(window.job.req) /\ window.job.req \in Requests
           /\ \A r \in Requests : r \in window'.cancelled => r \in window.cancelled \/ IsJob(r)
           /\ \A r \in Requests : window'.gate[r] = window.gate[r] \/ IsJob(r)
           /\ \A r \in Requests :
                 window'.gate[r] # window.gate[r] =>
                    /\ window.job.kind = "sheet" /\ window.gate[r] = "free"
                    /\ window'.gate[r] = "cancelled"
  <1>1. ASSUME window.job # None PROVE window.job.req \in Requests /\ JobIs(window.job.req)
    BY <1>1, Fields DEF Inv, Types, Work, JobOK, IsJob
  <1>2. /\ \/ window'.settings = window.settings
           \/ /\ window.job # None /\ window.job.kind = "drawings"
              /\ window'.settings = window.job.previous
        /\ window.job # None => window'.settings # window.job.req
    BY <1>1 DEF JobUndone, Undone, JobIs
  <1>3. \A r \in Requests : r \in window'.cancelled => r \in window.cancelled \/ IsJob(r)
    BY DEF JobUndone, SameMarks, IsJob
  <1>4. window.gate \in [Requests -> Gates]
    BY Fields DEF Inv, Types
  <1>5. \A r \in Requests :
           /\ window'.gate[r] = window.gate[r] \/ IsJob(r)
           /\ window'.gate[r] # window.gate[r] =>
                 /\ window.job.kind = "sheet" /\ window.gate[r] = "free"
                 /\ window'.gate[r] = "cancelled"
    BY <1>1, <1>4 DEF JobUndone, SameMarks, IsJob, Gated
  <1> QED BY <1>1, <1>2, <1>3, <1>5

\* A takeover: the connections are told of it before their bridge goes.
TakenOver ==
    /\ window'.bridge = window.bridge /\ window.bridge # 0
    /\ \E t : /\ window'.takeover = [window.takeover EXCEPT ![window.bridge] = <<t>>]
              /\ \A c \in Conns :
                    /\ t[c] = None =>
                          \/ window.started[c] = None
                          \/ \E e \in Entries(window.queue) : e.req[1] = c
                    /\ t[c] # None =>
                          /\ window.started[c] # None /\ t[c].id = window.started[c].id
                          /\ ~t[c].changed =>
                                /\ window.started[c].epoch = window.epoch
                                /\ window.started[c].settings = window'.settings
    /\ SameQueue /\ window'.job = window.job
    /\ window'.epoch = window.epoch /\ window'.document = window.document
    /\ JobUndone /\ doing = None /\ doing' \in Clients
    /\ UNCHANGED <<conn, applied, files, lost, told>>

\* A takeover that leaves what is recorded of a bridge alone leaves what is told there.
LEMMA ToldTheSame ==
    ASSUME NEW c \in Conns, UNCHANGED conn,
           window'.takeover[conn[c].gen] = window.takeover[conn[c].gen]
    PROVE  TellSuperseded(c)' = TellSuperseded(c)
  BY DEF TellSuperseded

\* What a connection is told of its request by what a takeover recorded.
LEMMA ToldByTakeover ==
    ASSUME NEW c, UNCHANGED conn, NEW t, window'.takeover[conn[c].gen] = <<t>>
    PROVE  TellSuperseded(c)' = IF t[c] # None /\ t[c].id = conn[c].id /\ t[c].changed
                                THEN "changed" ELSE "unchanged"
  BY OneEntry DEF TellSuperseded

\* A takeover undoes the job of its bridge and records, for each connection, what is true
\* of its request.
LEMMA TakenOverWork ==
    ASSUME Inv, TakenOver
    PROVE  Work' /\ Answers'
  <1> USE DEF TakenOver, SameQueue
  <1>1. \A r \in Requests : /\ Issued(r)' <=> Issued(r)
                            /\ Awaits(r)' <=> Awaits(r)
                            /\ Began(r)' <=> Began(r)
                            /\ InQueue(r)' <=> InQueue(r)
                            /\ IsJob(r)' <=> IsJob(r)
                            /\ doing # r /\ doing' # r
    BY NoneApart DEF Issued, Awaits, Began, InQueue, IsJob
  <1>2. \A r \in Requests : (Active(r)' <=> Active(r)) /\ (Held(r)' <=> Held(r))
    BY <1>1, HeldIs, HeldNext DEF Active
  <1>3. ASSUME NEW r \in Requests, Clear(r) PROVE Clear(r)'
    BY <1>3, UndoneJob DEF Clear
  <1>4. ASSUME NEW r \in Requests, Unwritten(r), ~Active(r)
        PROVE  Unwritten(r)' /\ window'.gate[r] = window.gate[r]
    BY <1>4, UndoneJob DEF Unwritten, Active
  <1>5. ASSUME NEW r \in Requests, r \in window'.cancelled
        PROVE  r \in window.cancelled \/ Issued(r)'
    BY <1>1, <1>5, UndoneJob, ActiveHere DEF Active
  <1>6. Steady
    BY <1>1, <1>2, <1>3, <1>4, <1>5 DEF Steady
  <1>7. QueueOK'
    <2> SUFFICES ASSUME NEW e \in Entries(window.queue), EntryOK(e)
                 PROVE  EntryOK(e)'
      BY DEF QueueOK, Inv, Work
    <2>1. ASSUME e.kind # "closed" PROVE Fresh(e.req)'
      <3>1. Fresh(e.req) /\ e.req \in Requests
        BY <2>1 DEF EntryOK, Fresh
      <3> QED BY <1>1, <1>3, <3>1, UndoneJob DEF Fresh
    <2> QED BY <2>1 DEF EntryOK
  <1>8. JobOK'
    <2> SUFFICES ASSUME NEW r \in Requests, IsJob(r)
                 PROVE  JobIs(r)'
      BY <1>1 DEF JobOK
    <2>1. JobIs(r) /\ window.job # None /\ window.job.req = r
      BY DEF Inv, Work, JobOK, IsJob
    <2>2. window'.settings # r
      BY <2>1, UndoneJob
    <2>3. /\ window.job.kind # "sheet" => window'.gate[r] = "none"
          /\ window.job.kind = "sheet" /\ window'.gate[r] # "written" => r \notin files
      BY <2>1, UndoneJob DEF JobIs
    <2> QED BY <1>1, <2>1, <2>2, <2>3 DEF JobIs
  <1>9. StartedOK' /\ DoingOK'
    BY <1>1 DEF Inv, Work, StartedOK, DoingOK
  <1>10. SettingsPutBack'
    BY UndoneJob DEF SettingsPutBack, Inv, Work, JobIs
  <1>11. RepliesOK'
    <2> SUFFICES ASSUME NEW r \in Requests, Awaits(r)
                 PROVE  ReplyOK(r)'
      BY <1>1 DEF RepliesOK
    <2>1. r[1] \in Conns /\ r = <<r[1], r[2]>>
      BY Request
    <2>2. ReplyOK(r)
      BY DEF Inv, Answers, RepliesOK
    <2>3. conn[r[1]].gen \in 1..window.gen
      BY <2>1 DEF Inv, Control, BridgeOK, Awaits
    <2>4. conn[r[1]].gen \in Gens /\ window.takeover \in [Gens -> Seq([Conns -> Takeovers \cup {None}])]
      BY <2>3, GenBound, Fields DEF Inv, Types
    <2>5. ASSUME conn[r[1]].reply = None, TellSuperseded(r[1])' = "unchanged"
          PROVE  Clear(r)'
      <3>1. CASE conn[r[1]].gen # window.bridge
        <4>1. window'.takeover[conn[r[1]].gen] = window.takeover[conn[r[1]].gen]
          BY <2>4, <3>1
        <4>2. TellSuperseded(r[1])' = TellSuperseded(r[1])
          BY <2>1, <4>1, ToldTheSame
        <4>3. Clear(r)
          <5>1. TellSuperseded(r[1]) = "unchanged"
            BY <2>5, <4>2, Zenon
          <5>2. ReplyOK(r) => (conn[r[1]].reply = None /\ TellSuperseded(r[1]) = "unchanged"
                                  => Clear(r))
            BY Zenon DEF ReplyOK
          <5> QED BY <2>2, <2>5, <5>1, <5>2, Zenon
        <4> QED BY <1>3, <4>3
      <3>2. CASE conn[r[1]].gen = window.bridge
        <4>1. PICK t :
                 /\ window'.takeover = [window.takeover EXCEPT ![window.bridge] = <<t>>]
                 /\ t[r[1]] = None =>
                       \/ window.started[r[1]] = None
                       \/ \E e \in Entries(window.queue) : e.req[1] = r[1]
                 /\ t[r[1]] # None =>
                       /\ window.started[r[1]] # None /\ t[r[1]].id = window.started[r[1]].id
                       /\ ~t[r[1]].changed =>
                             /\ window.started[r[1]].epoch = window.epoch
                             /\ window.started[r[1]].settings = window'.settings
          BY <2>1
        <4>2. window'.takeover[conn'[r[1]].gen] = <<t>>
          BY <2>4, <3>2, <4>1
        <4>3. ~(t[r[1]] # None /\ t[r[1]].id = conn[r[1]].id /\ t[r[1]].changed)
          <5>1. conn' = conn /\ window'.takeover[conn[r[1]].gen] = <<t>>
            BY <4>2
          <5>2. TellSuperseded(r[1])' = IF t[r[1]] # None /\ t[r[1]].id = conn[r[1]].id
                                           /\ t[r[1]].changed
                                        THEN "changed" ELSE "unchanged"
            BY <5>1, ToldByTakeover
          <5> QED BY <2>5, <5>2
        <4>4. Held(r)
          BY <2>2, <2>5, <3>2 DEF ReplyOK
        <4>5. CASE InQueue(r)
          <5>1. PICK e \in Entries(window.queue) : e.req = r
            BY <4>5 DEF InQueue
          <5> QED BY <1>3, <5>1, QueuedIsFresh DEF Fresh
        <4>6. CASE IsJob(r) /\ ~window.job.replied
          <5>1. JobIs(r) /\ Began(r)
            BY <4>6 DEF Inv, Work, JobOK, JobIs
          <5>2. ASSUME NEW e \in Entries(window.queue), e.req[1] = r[1] PROVE FALSE
            <6>1. e \in Entry /\ EntryOK(e)
              BY QueuedIsFresh
            <6>2. e.kind # "closed"
              BY <5>2, <6>1 DEF EntryOK, Awaits
            <6>3. Fresh(e.req) /\ e.req \in Requests
              BY <6>1, <6>2 DEF EntryOK, Fresh
            <6>4. e.req[2] <= r[2] /\ e.req[2] \in Int /\ r[2] \in Int
              BY <5>2, <6>3, Request DEF Fresh, Issued, Awaits
            <6>5. window.started[r[1]].id < e.req[2] /\ window.started[r[1]].id = r[2]
              BY <5>1, <5>2, <6>3 DEF Fresh, Began
            <6> QED BY <6>4, <6>5
          <5>3. /\ window.started[r[1]].epoch = window.epoch
                /\ window.started[r[1]].settings = window'.settings
            BY <4>1, <4>3, <5>1, <5>2 DEF Began, Awaits
          <5>4. window.started[r[1]].epoch \in Nat /\ window.epoch \in Nat
            BY <2>1, <5>1, Fields DEF Began, Inv, Types
          <5>5. r \notin applied /\ window.started[r[1]].settings # r
            BY <5>1, <5>3, <5>4 DEF Inv, Work, StartedOK
          <5> QED BY <4>6, <5>1, <5>3, <5>5 DEF Clear, JobIs
        <4> QED BY <1>1, <4>4, <4>5, <4>6, HeldIs
      <3> QED BY <3>1, <3>2
    <2> QED BY <1>2, <1>6, <2>2, <2>5, DeadStays DEF ReplyOK
  <1>12. ToldOK'
    <2> SUFFICES ASSUME NEW r \in Requests, ToldIs(r)
                 PROVE  ToldIs(r)'
      BY DEF ToldOK, Inv, Answers
    <2>1. window.takeover \in [Gens -> Seq([Conns -> Takeovers \cup {None}])]
      BY Fields DEF Inv, Types
    <2> QED BY <1>6, <2>1, DeadStays DEF ToldIs
  <1> QED BY <1>6, <1>7, <1>8, <1>9, <1>10, <1>11, <1>12, IssuedKept DEF Work, Answers

\* A reply reaches the connection that waits for it and no other.
LEMMA DeliveredIs ==
    ASSUME Types, NEW r \in Requests, NEW answer \in {"ok", "error", "cancelled"},
           conn' = Delivered(r, answer)
    PROVE  /\ conn' \in [Conns -> Connections] /\ SameConns
           /\ \A c \in Conns : conn'[c].kind = conn[c].kind
           /\ \A c \in Conns : conn'[c].reply \in {answer, conn[c].reply}
           /\ \A s \in Requests :
                 Awaits(s) => conn'[s[1]].reply = IF s = r THEN answer ELSE conn[s[1]].reply
  <1>1. conn \in [Conns -> Connections] /\ r[1] \in Conns /\ r = <<r[1], r[2]>>
    BY Request DEF Types
  <1>2. CASE conn[r[1]].pc = "waiting" /\ conn[r[1]].id = r[2]
    <2>1. conn' = [conn EXCEPT ![r[1]].reply = answer]
      BY <1>2 DEF Delivered
    <2>2. conn' \in [Conns -> Connections]
      BY <1>1, <2>1 DEF Connections
    <2>3. \A c \in Conns : /\ conn'[c].pc = conn[c].pc /\ conn'[c].gen = conn[c].gen
                           /\ conn'[c].id = conn[c].id /\ conn'[c].kind = conn[c].kind
                           /\ conn'[c].reply = IF c = r[1] THEN answer ELSE conn[c].reply
      BY <1>1, <2>1 DEF Connections
    <2>4. ASSUME NEW s \in Requests, Awaits(s)
          PROVE  conn'[s[1]].reply = IF s = r THEN answer ELSE conn[s[1]].reply
      <3>1. s[1] \in Conns /\ s = <<s[1], s[2]>>
        BY Request
      <3>2. s[1] = r[1] => s = r
        BY <1>1, <1>2, <2>4, <3>1 DEF Awaits
      <3> QED BY <2>3, <3>1, <3>2
    <2> QED BY <2>2, <2>3, <2>4 DEF SameConns
  <1>3. CASE ~(conn[r[1]].pc = "waiting" /\ conn[r[1]].id = r[2])
    <2>1. conn' = conn
      BY <1>3 DEF Delivered
    <2> QED BY <1>1, <1>3, <2>1 DEF SameConns, Awaits
  <1> QED BY <1>2, <1>3

------------------------------------------------------------------------------
(* Moves of the job *)

JobStep ==
    /\ window.job # None /\ ui # "superseding" /\ doing = None /\ doing' = None
    /\ SameBridge /\ SameQueue /\ window'.document = window.document
    /\ \/ window'.job = None
       \/ /\ window'.job # None /\ window'.job.req = window.job.req
          /\ window'.job.previous = window.job.previous
    /\ window'.epoch \in Nat /\ window'.epoch >= window.epoch
    /\ \/ applied' = applied
       \/ applied' = applied \cup {window.job.req} /\ window'.epoch > window.epoch
    /\ \/ window'.settings = window.settings
       \/ window.job.kind = "drawings" /\ window'.settings = window.job.previous
    /\ window.cancelled \subseteq window'.cancelled
    /\ window'.cancelled \subseteq window.cancelled \cup {window.job.req}
    /\ \A r \in Requests : r # window.job.req => window'.gate[r] = window.gate[r]
    /\ files' \in {files, files \cup {window.job.req}}
    /\ SameConns /\ UNCHANGED <<lost, told>>

\* A step of the job leaves the queue and the other requests as they are.
LEMMA JobStepKeeps ==
    ASSUME Inv, JobStep
    PROVE  Steady /\ QueueOK' /\ StartedOK' /\ DoingOK'
  <1> USE DEF JobStep, SameBridge, SameQueue
  <1>0. PICK j : j = window.job /\ j.req \in Requests /\ JobIs(j.req) /\ IsJob(j.req)
    BY Fields DEF Inv, Types, Work, JobOK, IsJob
  <1>1. \A r \in Requests : /\ Issued(r)' <=> Issued(r)
                            /\ Awaits(r)' <=> Awaits(r)
                            /\ Began(r)' <=> Began(r)
                            /\ InQueue(r)' <=> InQueue(r)
                            /\ IsJob(r)' => IsJob(r)
                            /\ doing # r /\ doing' # r
    BY Request, NoneApart DEF Issued, Awaits, Began, InQueue, IsJob, SameConns
  <1>2. ASSUME NEW r \in Requests, Clear(r), ~IsJob(r) PROVE Clear(r)'
    BY <1>0, <1>2 DEF Clear, IsJob
  <1>3. ASSUME NEW r \in Requests, Unwritten(r), ~Active(r)
        PROVE  Unwritten(r)' /\ window'.gate[r] = window.gate[r]
    BY <1>0, <1>3 DEF Unwritten, Active, IsJob
  <1>4. \A r \in Requests : r \in window'.cancelled => r \in window.cancelled \/ r = j.req
    BY <1>0
  <1>5. Steady
    BY <1>0, <1>1, <1>2, <1>3, <1>4 DEF Steady, Active, JobIs
  <1>6. QueueOK'
    <2> SUFFICES ASSUME NEW e \in Entries(window.queue), EntryOK(e)
                 PROVE  EntryOK(e)'
      BY DEF QueueOK, Inv, Work
    <2>0. e \in Entry /\ e.req[1] \in Conns
      BY QueuedIsFresh, Pair DEF Entry
    <2>1. ASSUME e.kind # "closed" PROVE Fresh(e.req)'
      <3>1. Fresh(e.req) /\ e.req \in Requests
        BY <2>1 DEF EntryOK, Fresh
      <3>2. e.req # j.req
        BY <1>0, <3>1 DEF Fresh
      <3>3. Clear(e.req)' /\ ~IsJob(e.req)'
        BY <1>1, <1>2, <3>1 DEF Fresh
      <3>4. e.req \notin files' /\ window'.gate[e.req] = "none"
        BY <1>0, <3>1, <3>2 DEF Fresh
      <3> QED BY <1>1, <1>4, <3>1, <3>2, <3>3, <3>4 DEF Fresh
    <2> QED BY <2>0, <2>1 DEF EntryOK, SameConns
  <1>7. StartedOK'
    <2> SUFFICES ASSUME NEW r \in Requests, Began(r)
                 PROVE  LET s == window'.started[r[1]] IN
                        /\ Issued(r)' /\ s.settings # r /\ s.epoch <= window'.epoch
                        /\ r \in applied' => s.epoch < window'.epoch
      BY <1>1 DEF StartedOK
    <2>1. r[1] \in Conns /\ window.epoch \in Nat /\ window.started[r[1]].epoch \in Nat
      BY Request, Fields DEF Inv, Types, Began
    <2>2. /\ Issued(r) /\ window.started[r[1]].settings # r
          /\ window.started[r[1]].epoch <= window.epoch
          /\ r \in applied => window.started[r[1]].epoch < window.epoch
      BY DEF Inv, Work, StartedOK
    <2> QED BY <1>1, <2>1, <2>2
  <1>8. DoingOK'
    BY <1>1 DEF DoingOK
  <1> QED BY <1>5, <1>6, <1>7, <1>8

\* The job ends and its request is answered, unless it was before.
JobEnds(answer) ==
    /\ JobStep /\ window'.job = None
    /\ conn' = IF window.job.replied THEN conn ELSE Delivered(window.job.req, answer)
    /\ window'.settings = window.job.req => window.job.req \in files'
    /\ answer \in {"error", "cancelled"} =>
          /\ window'.settings # window.job.req
          /\ window.job.req \notin applied /\ applied' = applied
    /\ answer = "cancelled" =>
          /\ window.job.req \notin files'
          /\ window'.gate[window.job.req] \in {"none", "cancelled", "failed"}

\* A job that ends answers what is true of its request.
LEMMA JobEndsWork ==
    ASSUME Inv, NEW answer \in {"ok", "error", "cancelled"}, JobEnds(answer)
    PROVE  Work' /\ Answers'
  <1>0. PICK j : /\ j = window.job /\ j.req \in Requests /\ JobIs(j.req) /\ IsJob(j.req)
                 /\ window.job # None /\ j.kind \in {"program", "drawings", "sheet"}
    BY Fields DEF Inv, Types, Work, JobOK, IsJob, JobEnds, JobStep
  <1>1. Steady /\ QueueOK' /\ StartedOK' /\ DoingOK'
    BY JobStepKeeps DEF JobEnds
  <1>2. JobOK'
    BY DEF JobOK, IsJob, JobEnds
  <1>3. SettingsPutBack'
    <2>1. ASSUME window'.settings # None PROVE window'.settings \in files' \cup lost'
      <3>1. files \subseteq files' /\ lost' = lost
        BY DEF JobEnds, JobStep
      <3>2. CASE window'.settings = window.settings
        BY <1>0, <2>1, <3>1, <3>2 DEF Inv, Work, SettingsPutBack, JobEnds
      <3>3. CASE window'.settings # window.settings
        <4>1. window'.settings = j.previous /\ j.kind = "drawings"
          BY <1>0, <3>3 DEF JobEnds, JobStep
        <4> QED BY <1>0, <2>1, <3>1, <3>3, <4>1 DEF JobIs, JobEnds
      <3> QED BY <3>2, <3>3
    <2> QED BY <2>1 DEF SettingsPutBack
  <1>4. \A r \in Requests :
           Awaits(r) => IF r = j.req /\ ~j.replied THEN conn'[r[1]].reply = answer
                        ELSE conn'[r[1]].reply = conn[r[1]].reply
    <2>1. CASE j.replied
      <3>1. conn' = conn
        BY <1>0, <2>1 DEF JobEnds
      <3> QED BY <2>1, <3>1
    <2>2. CASE ~j.replied
      <3>1. conn' = Delivered(j.req, answer)
        BY <1>0, <2>2 DEF JobEnds
      <3>2. \A r \in Requests :
               Awaits(r) => conn'[r[1]].reply = IF r = j.req THEN answer ELSE conn[r[1]].reply
        BY <1>0, <3>1, DeliveredIs DEF Inv
      <3> QED BY <2>2, <3>2
    <2> QED BY <2>1, <2>2
  <1>5. \A r \in Requests : /\ Issued(r)' <=> Issued(r)
                            /\ InQueue(r)' <=> InQueue(r)
                            /\ ~IsJob(r)' /\ doing # r /\ doing' # r
    BY Request, NoneApart DEF Issued, InQueue, IsJob, JobEnds, JobStep, SameConns, SameQueue
  <1>6. TrueReplies
    <2> SUFFICES ASSUME NEW r \in Requests, Awaits(r), conn'[r[1]].reply # conn[r[1]].reply
                 PROVE  /\ conn'[r[1]].reply # None
                        /\ conn'[r[1]].reply \in {"error", "cancelled"} => Dead(r)'
                        /\ conn'[r[1]].reply = "cancelled" => Unwritten(r)'
      BY DEF TrueReplies
    <2>1. r = j.req /\ conn'[r[1]].reply = answer
      BY <1>4
    <2>2. ~InQueue(r)
      BY <1>0, <2>1, QueuedIsFresh DEF InQueue, Fresh
    <2>3. answer \in {"error", "cancelled"} => Dead(r)'
      BY <1>0, <1>5, <2>1, <2>2 DEF Dead, Active, Clear, JobEnds, JobIs
    <2>4. answer = "cancelled" => Unwritten(r)'
      BY <1>0, <2>1 DEF Unwritten, JobEnds
    <2> QED BY <2>1, <2>3, <2>4, NoneApart
  <1>7. StillHeld
    <2> SUFFICES ASSUME NEW r \in Requests, Awaits(r), conn'[r[1]].reply = None,
                        conn[r[1]].gen = window.bridge
                 PROVE  Held(r)'
      BY DEF StillHeld
    <2>1. conn[r[1]].reply = None /\ (r = j.req => j.replied)
      BY <1>4, NoneApart
    <2>2. r # j.req
      BY <1>0, <2>1 DEF JobIs
    <2>3. Held(r)
      BY <2>1 DEF Inv, Answers, RepliesOK, ReplyOK
    <2>4. InQueue(r)
      BY <1>0, <1>5, <2>2, <2>3, HeldIs DEF IsJob
    <2> QED BY <1>5, <2>4, HeldNext
  <1>8. Answers'
    BY <1>1, <1>6, <1>7, AnswersKept DEF JobEnds, JobStep, SameBridge
  <1> QED BY <1>1, <1>2, <1>3, <1>8 DEF Work

\* The job goes on: a program that was published, or one that is answered before its
\* exact check ends.
JobStays ==
    /\ JobStep /\ window'.job # None
    /\ window.job.kind = "program" /\ window'.job.kind = "program"
    /\ window'.settings = window.settings /\ SameMarks /\ files' = files
    /\ window'.job.document = window.job.document
    /\ window'.job.stage = "checking" /\ ~window.job.replied
    /\ \/ conn' = conn /\ ~window'.job.replied
       \/ conn' = Delivered(window.job.req, "ok") /\ window'.job.replied

\* A job that goes on, or answers before its end, keeps what is known of requests.
LEMMA JobStaysWork ==
    ASSUME Inv, JobStays
    PROVE  Work' /\ Answers'
  <1>0. PICK j : /\ j = window.job /\ j.req \in Requests /\ JobIs(j.req) /\ IsJob(j.req)
                 /\ window.job # None
    BY Fields DEF Inv, Types, Work, JobOK, IsJob, JobStays, JobStep
  <1>1. Steady /\ QueueOK' /\ StartedOK' /\ DoingOK'
    BY JobStepKeeps DEF JobStays
  <1>2. \A r \in Requests :
           Awaits(r) => IF r = j.req /\ window'.job.replied THEN conn'[r[1]].reply = "ok"
                        ELSE conn'[r[1]].reply = conn[r[1]].reply
    BY <1>0, DeliveredIs DEF JobStays, Inv, Types
  <1>3. \A r \in Requests : /\ Issued(r)' <=> Issued(r)
                            /\ Awaits(r)' <=> Awaits(r)
                            /\ Began(r)' <=> Began(r)
                            /\ InQueue(r)' <=> InQueue(r)
                            /\ IsJob(r)' <=> r = j.req
                            /\ IsJob(r) <=> r = j.req
                            /\ conn'[r[1]].gen = conn[r[1]].gen
                            /\ doing # r /\ doing' # r
    BY <1>0, Request, NoneApart
    DEF Issued, Awaits, Began, InQueue, IsJob, JobStays, JobStep, SameConns, SameQueue
  <1>4. JobOK'
    <2>1. JobIs(j.req)'
      BY <1>0, <1>2, <1>3, NoneApart DEF JobIs, JobStays, JobStep, SameMarks, SameBridge
    <2> QED BY <1>3, <2>1 DEF JobOK
  <1>5. SettingsPutBack'
    BY <1>0 DEF SettingsPutBack, Inv, Work, JobStays, JobStep
  <1>6. TrueReplies
    BY <1>2, NoneApart DEF TrueReplies
  <1>7. StillHeld
    <2> SUFFICES ASSUME NEW r \in Requests, Awaits(r), conn'[r[1]].reply = None,
                        conn[r[1]].gen = window.bridge
                 PROVE  Held(r)'
      BY DEF StillHeld
    <2>1. conn[r[1]].reply = None /\ (r = j.req => ~window'.job.replied)
      BY <1>2, NoneApart
    <2>2. Held(r)
      BY <2>1 DEF Inv, Answers, RepliesOK, ReplyOK
    <2> QED BY <1>3, <2>1, <2>2, HeldIs, HeldNext
  <1>8. Answers'
    BY <1>1, <1>6, <1>7, AnswersKept DEF JobStays, JobStep, SameBridge
  <1> QED BY <1>1, <1>4, <1>5, <1>8 DEF Work

------------------------------------------------------------------------------
(* Moves of the queue *)

\* What a request that is taken may find and leave: the check of an answered program
\* goes, and its connection's last request is another one.
JobKept == \/ window'.job = window.job
           \/ window'.job = None /\ window.job # None /\ window.job.replied

StartKept(q) ==
    \A c \in Conns :
        \/ window'.started[c] = window.started[c]
        \/ c = q.req[1] /\ window'.started[c] = None
        \/ /\ c = q.req[1] /\ q.kind # "closed"
           /\ window'.started[c] = [id |-> q.req[2], epoch |-> window.epoch,
                                    settings |-> window.settings]

\* It is dropped, or answered with nothing done, or runs, or becomes the job.
Passed(q) ==
    /\ q.kind = "closed" \/ q.req \in window.cancelled
    /\ conn' = conn /\ doing' = None /\ JobKept
    /\ window'.settings = window.settings /\ window'.gate = window.gate
AnsweredNow(q) ==
    /\ q.kind # "closed"
    /\ \E answer \in {"ok", "error"} : conn' = Delivered(q.req, answer)
    /\ doing' = None /\ JobKept
    /\ window'.settings = window.settings /\ window'.gate = window.gate
Runs(q) ==
    /\ q.kind # "closed" /\ q.req \notin window.cancelled
    /\ doing' = q.req /\ conn' = conn /\ JobKept
    /\ window'.started[q.req[1]] = [id |-> q.req[2], epoch |-> window.epoch,
                                    settings |-> window.settings]
    /\ window'.settings = window.settings /\ window'.gate = window.gate
BecomesJob(q) ==
    /\ q.kind \in {"program", "sheet"} /\ q.req \notin window.cancelled
    /\ doing' = None /\ conn' = conn
    /\ window.job = None \/ window.job.replied
    /\ window'.job = Job(q, window)
    /\ window'.started[q.req[1]] = [id |-> q.req[2], epoch |-> window.epoch,
                                    settings |-> window.settings]
    /\ window'.settings = window.settings
    /\ window'.gate = IF q.kind = "sheet" THEN [window.gate EXCEPT ![q.req] = "free"]
                      ELSE window.gate

TakeStep(q) ==
    /\ window.queue # <<>> /\ q = Head(window.queue) /\ window'.queue = Tail(window.queue)
    /\ SameBridge /\ window'.epoch = window.epoch /\ window'.document = window.document
    /\ window'.cancelled = window.cancelled /\ StartKept(q)
    /\ ui = "queue" /\ doing = None /\ UNCHANGED <<applied, files, lost, told>>
    /\ Passed(q) \/ AnsweredNow(q) \/ Runs(q) \/ BecomesJob(q)

\* The head of the queue, and the entries behind it.
LEMMA HeadOfQueue ==
    ASSUME Inv, window.queue # <<>>, NEW q, q = Head(window.queue)
    PROVE  /\ q \in Entry /\ EntryOK(q) /\ q \in Entries(window.queue)
           /\ q.req[1] \in Conns /\ q.req[2] \in 0..MaxRequests /\ q.req = <<q.req[1], q.req[2]>>
           /\ q.kind # "closed" => q.req \in Requests /\ Fresh(q.req)
           /\ q.kind = "closed" => q.req \notin Requests /\ conn[q.req[1]].pc = "closed"
           /\ Entries(Tail(window.queue)) \subseteq Entries(window.queue)
           /\ \A e \in Entries(window.queue) : e = q \/ e \in Entries(Tail(window.queue))
           /\ Ordered(Tail(window.queue))
           /\ \A e \in Entries(Tail(window.queue)) :
                 e.kind # "closed" => /\ e.req # q.req
                                      /\ e.req[1] = q.req[1] => q.req[2] < e.req[2]
  <1>1. window.queue \in Seq(Entry) /\ Ordered(window.queue)
    BY Fields DEF Inv, Types, Work, QueueOK
  <1>2. /\ q \in Entries(window.queue) /\ q \in Entry
        /\ Entries(Tail(window.queue)) \subseteq Entries(window.queue)
        /\ \A e \in Entries(window.queue) : e = q \/ e \in Entries(Tail(window.queue))
        /\ Ordered(Tail(window.queue))
        /\ \A e \in Entries(Tail(window.queue)) : Before(q, e)
    BY <1>1, TakeHead
  <1>3. EntryOK(q)
    BY <1>2, QueuedIsFresh
  <1>4. q.req[1] \in Conns /\ q.req[2] \in 0..MaxRequests /\ q.req = <<q.req[1], q.req[2]>>
    BY <1>2, Pair DEF Entry
  <1>5. /\ q.kind # "closed" => q.req \in Requests /\ Fresh(q.req)
        /\ q.kind = "closed" => q.req \notin Requests /\ conn[q.req[1]].pc = "closed"
    BY <1>2, <1>3, QueuedIsFresh, Zenon DEF EntryOK, Fresh
  <1>6. ASSUME NEW e \in Entries(Tail(window.queue)), e.kind # "closed"
        PROVE  e.req # q.req /\ (e.req[1] = q.req[1] => q.req[2] < e.req[2])
    <2>1. e.req \in Requests
      BY <1>2, <1>6, QueuedIsFresh DEF EntryOK, Fresh
    <2>2. e.req[1] = q.req[1] => q.req[2] < e.req[2]
      BY <1>2, <1>6 DEF Before
    <2> QED BY <1>4, <2>1, <2>2, Request
  <1> QED BY <1>2, <1>3, <1>4, <1>5, <1>6

\* A connection that waits for the job has nothing in the queue.
LEMMA JobIsLatest ==
    ASSUME Inv, NEW r \in Requests, IsJob(r), ~window.job.replied, Awaits(r),
           NEW e \in Entries(window.queue)
    PROVE  e.req[1] # r[1]
  <1> SUFFICES ASSUME e.req[1] = r[1] PROVE FALSE
    OBVIOUS
  <1>1. e \in Entry /\ EntryOK(e)
    BY QueuedIsFresh
  <1>2. e.kind # "closed"
    BY <1>1 DEF EntryOK, Awaits
  <1>3. Fresh(e.req) /\ e.req \in Requests
    BY <1>1, <1>2 DEF EntryOK, Fresh
  <1>4. e.req[2] <= r[2] /\ e.req[2] \in Int /\ r[2] \in Int
    BY <1>3, Request DEF Fresh, Issued, Awaits
  <1>5. Began(r)
    BY DEF Inv, Work, JobOK, JobIs
  <1>6. window.started[r[1]].id < e.req[2] /\ window.started[r[1]].id = r[2]
    BY <1>3, <1>5 DEF Fresh, Began
  <1> QED BY <1>4, <1>6

\* Taking a request from the queue leaves the others as they are.
LEMMA TakeStepKeeps ==
    ASSUME Inv, NEW q, TakeStep(q)
    PROVE  Steady /\ QueueOK' /\ StartedOK' /\ DoingOK' /\ SameConns
  <1>0. /\ q \in Entry /\ EntryOK(q) /\ q \in Entries(window.queue)
        /\ q.req[1] \in Conns /\ q.req[2] \in 0..MaxRequests /\ q.req = <<q.req[1], q.req[2]>>
        /\ q.kind # "closed" => q.req \in Requests /\ Fresh(q.req)
        /\ q.kind = "closed" => q.req \notin Requests /\ conn[q.req[1]].pc = "closed"
        /\ Entries(Tail(window.queue)) \subseteq Entries(window.queue)
        /\ Ordered(Tail(window.queue))
        /\ \A e \in Entries(Tail(window.queue)) :
              e.kind # "closed" => /\ e.req # q.req
                                   /\ e.req[1] = q.req[1] => q.req[2] < e.req[2]
    BY HeadOfQueue DEF TakeStep
  <1>1. SameConns
    <2>1. CASE conn' = conn
      BY <2>1 DEF SameConns
    <2>2. CASE AnsweredNow(q)
      BY <1>0, <2>2, DeliveredIs DEF AnsweredNow, Inv
    <2> QED BY <2>1, <2>2 DEF TakeStep, Passed, Runs, BecomesJob
  <1>2. window'.queue = Tail(window.queue) /\ doing = None
    BY DEF TakeStep
  <1>3. /\ q.kind = "closed" => JobKept /\ doing' = None
        /\ doing' = None \/ doing' = q.req
        /\ \/ JobKept /\ window'.settings = window.settings /\ window'.gate = window.gate
           \/ BecomesJob(q) /\ q.kind # "closed"
    BY DEF TakeStep, Passed, AnsweredNow, Runs, BecomesJob
  <1>4. \A r \in Requests : /\ Issued(r)' <=> Issued(r)
                            /\ Awaits(r)' <=> Awaits(r)
                            /\ InQueue(r)' => InQueue(r)
                            /\ IsJob(r)' => IsJob(r) \/ r = q.req
                            /\ doing # r
    BY <1>0, <1>1, <1>2, <1>3, Request, NoneApart
    DEF Issued, Awaits, InQueue, IsJob, SameConns, JobKept, BecomesJob, Job
  <1>5. ASSUME NEW r \in Requests, Clear(r), r # q.req PROVE Clear(r)'
    <2>1. /\ r \notin applied /\ window.settings # r
          /\ window.job # None => window.job.previous # r
      BY <1>5 DEF Clear
    <2>2. applied' = applied
      BY DEF TakeStep
    <2>3. CASE JobKept /\ window'.settings = window.settings
      BY <2>1, <2>2, <2>3 DEF Clear, JobKept
    <2>4. CASE BecomesJob(q)
      <3>1. window'.job.previous = window.settings
        BY <2>4 DEF BecomesJob, Job
      <3>2. window'.settings # r
        BY <1>5, <2>1, <2>4 DEF BecomesJob
      <3> QED BY <2>1, <2>2, <3>1, <3>2 DEF Clear
    <2> QED BY <1>3, <2>3, <2>4
  <1>6. ASSUME NEW r \in Requests, r # q.req PROVE window'.gate[r] = window.gate[r]
    <2>1. window.gate \in [Requests -> Gates]
      BY Fields DEF Inv, Types
    <2> QED BY <1>3, <1>6, <2>1 DEF BecomesJob
  <1>7. InQueue(q.req)
    BY <1>0 DEF InQueue
  <1>8. Steady
    BY <1>3, <1>4, <1>5, <1>6, <1>7, NoneApart DEF Steady, Active, Unwritten, TakeStep
  <1>9. QueueOK'
    <2> SUFFICES ASSUME NEW e \in Entries(Tail(window.queue)), EntryOK(e)
                 PROVE  EntryOK(e)'
      BY <1>0, <1>2 DEF QueueOK, Inv, Work
    <2>0. e \in Entry /\ e.req[1] \in Conns
      BY <1>0, QueuedIsFresh, Pair DEF Entry
    <2>1. ASSUME e.kind # "closed" PROVE Fresh(e.req)'
      <3>1. /\ Fresh(e.req) /\ e.req \in Requests /\ e.req # q.req
            /\ e.req[1] = q.req[1] => q.req[2] < e.req[2]
        BY <1>0, <2>1 DEF EntryOK, Fresh
      <3>2. Clear(e.req)' /\ ~IsJob(e.req)' /\ doing' # e.req
        BY <1>3, <1>4, <1>5, <3>1, NoneApart DEF Fresh
      <3>3. e.req \notin files' /\ window'.gate[e.req] = "none"
        BY <1>6, <3>1 DEF Fresh, TakeStep
      <3>4. window'.started[e.req[1]] # None => window'.started[e.req[1]].id < e.req[2]
        BY <2>0, <3>1 DEF Fresh, TakeStep, StartKept
      <3> QED BY <1>4, <3>1, <3>2, <3>3, <3>4 DEF Fresh, TakeStep
    <2> QED BY <1>1, <2>0, <2>1 DEF EntryOK, SameConns, TakeStep, SameBridge
  <1>10. StartedOK'
    <2> SUFFICES ASSUME NEW r \in Requests, Began(r)'
                 PROVE  LET s == window'.started[r[1]] IN
                        /\ Issued(r)' /\ s.settings # r /\ s.epoch <= window'.epoch
                        /\ r \in applied' => s.epoch < window'.epoch
      BY DEF StartedOK
    <2>1. r[1] \in Conns /\ r = <<r[1], r[2]>> /\ window.epoch \in Nat
      BY Request, Fields DEF Inv, Types
    <2>2. window'.epoch = window.epoch /\ applied' = applied
      BY DEF TakeStep
    <2>3. CASE window'.started[r[1]] = window.started[r[1]]
      BY <1>4, <2>2, <2>3 DEF Inv, Work, StartedOK, Began
    <2>4. CASE /\ r[1] = q.req[1] /\ q.kind # "closed"
               /\ window'.started[r[1]] = [id |-> q.req[2], epoch |-> window.epoch,
                                           settings |-> window.settings]
      <3>1. r = q.req
        BY <1>0, <2>1, <2>4 DEF Began
      <3> QED BY <1>0, <1>4, <2>1, <2>2, <2>4, <3>1 DEF Fresh, Clear
    <2> QED BY <2>1, <2>3, <2>4 DEF Began, TakeStep, StartKept
  <1>11. DoingOK'
    <2> SUFFICES ASSUME NEW r \in Requests, doing' = r
                 PROVE  /\ Issued(r)' /\ Clear(r)' /\ ~InQueue(r)'
                        /\ r \notin files' /\ window'.gate[r] = "none"
                        /\ conn'[r[1]].gen = window'.bridge /\ Began(r)'
      BY DEF DoingOK
    <2>1. r = q.req /\ Runs(q)
      BY <1>3, NoneApart DEF TakeStep, Passed, AnsweredNow, BecomesJob
    <2>2. Fresh(r) /\ q.kind # "closed"
      BY <1>0, <2>1 DEF Runs
    <2>3. Clear(r)'
      BY <2>1, <2>2 DEF Runs, Fresh, Clear, JobKept, TakeStep
    <2>4. ~InQueue(r)'
      BY <1>0, <1>2, <2>1, QueuedIsFresh DEF InQueue
    <2>5. conn[r[1]].gen = window.bridge
      BY <1>0, <2>1 DEF EntryOK
    <2>6. Began(r)'
      <3>1. window.epoch \in Nat /\ window.settings \in Settings /\ r[2] \in 1..MaxRequests
        BY Request, Fields DEF Inv, Types, Settings
      <3>2. window'.started[r[1]] \in Starts /\ window'.started[r[1]].id = r[2]
        BY <2>1, <3>1 DEF Runs, Starts
      <3> QED BY <3>2, NoneApart DEF Began
    <2> QED BY <1>4, <2>1, <2>2, <2>3, <2>4, <2>5, <2>6 DEF Fresh, Runs, TakeStep, SameBridge
  <1> QED BY <1>1, <1>8, <1>9, <1>10, <1>11

\* A request that is taken is answered, executed or becomes the job; none of it is done twice.
LEMMA TakeStepWork ==
    ASSUME Inv, NEW q, TakeStep(q)
    PROVE  Work' /\ Answers'
  <1>0. /\ q \in Entry /\ EntryOK(q) /\ q \in Entries(window.queue)
        /\ q.req[1] \in Conns /\ q.req[2] \in 0..MaxRequests /\ q.req = <<q.req[1], q.req[2]>>
        /\ q.kind # "closed" => q.req \in Requests /\ Fresh(q.req)
        /\ q.kind = "closed" => q.req \notin Requests
        /\ \A e \in Entries(window.queue) : e = q \/ e \in Entries(Tail(window.queue))
        /\ \A e \in Entries(Tail(window.queue)) : e.kind # "closed" => e.req # q.req
        /\ Entries(Tail(window.queue)) \subseteq Entries(window.queue)
    BY HeadOfQueue DEF TakeStep
  <1>1. Steady /\ QueueOK' /\ StartedOK' /\ DoingOK' /\ SameConns
    BY TakeStepKeeps
  <1>2. \A r \in Requests : /\ Issued(r)' <=> Issued(r)
                            /\ Awaits(r)' <=> Awaits(r)
                            /\ conn'[r[1]].gen = conn[r[1]].gen
                            /\ doing # r
    BY <1>1, Request, NoneApart DEF Issued, Awaits, SameConns, TakeStep
  <1>3. ~InQueue(q.req)' \/ q.kind = "closed"
    BY <1>0, QueuedIsFresh DEF InQueue, TakeStep
  <1>4. ASSUME NEW r \in Requests, IsJob(r), JobKept, window'.job # None,
               window'.settings = window.settings, window'.gate = window.gate,
               doing' \in {None, q.req},
               Awaits(r) => conn'[r[1]].reply \in {conn[r[1]].reply, "ok", "error"}
        PROVE  JobIs(r)'
    <2>1. window'.job = window.job /\ window.job # None /\ JobIs(r)
      BY <1>4 DEF JobKept, IsJob, Inv, Work, JobOK
    <2>2. doing' # r
      BY <1>0, <1>4, NoneApart DEF Fresh
    <2>3. ASSUME ~window.job.replied, Awaits(r) PROVE Began(r)'
      <3>1. Began(r) /\ r[1] # q.req[1] /\ r[1] \in Conns
        BY <1>0, <1>4, <2>1, <2>3, JobIsLatest, Request DEF JobIs
      <3> QED BY <3>1 DEF TakeStep, StartKept, Began
    <2> QED BY <1>2, <1>4, <2>1, <2>2, <2>3, NoneApart DEF JobIs, TakeStep, SameBridge
  <1>5. ASSUME JobKept, window'.settings = window.settings
        PROVE  SettingsPutBack'
    <2>1. CASE window'.job = window.job
      BY <1>5, <2>1 DEF SettingsPutBack, Inv, Work, TakeStep
    <2>2. CASE window.job # None /\ window.job.replied
      <3>1. window.job.req \in Requests /\ JobIs(window.job.req)
        BY <2>2, Fields DEF Inv, Types, Work, JobOK, IsJob
      <3> QED BY <1>5, <2>2, <3>1 DEF SettingsPutBack, Inv, Work, TakeStep, JobIs
    <2> QED BY <1>5, <2>1, <2>2 DEF JobKept
  <1>6. ASSUME NEW r \in Requests, Awaits(r), conn[r[1]].reply = None, r # q.req,
               conn[r[1]].gen = window.bridge
        PROVE  Held(r)'
    <2>1. Held(r)
      BY <1>6 DEF Inv, Answers, RepliesOK, ReplyOK
    <2>2. CASE InQueue(r)
      <3>1. PICK e \in Entries(window.queue) : e.req = r
        BY <2>2 DEF InQueue
      <3>2. e \in Entries(Tail(window.queue))
        BY <1>0, <1>6, <3>1
      <3> QED BY <3>1, <3>2, HeldNext DEF InQueue, TakeStep
    <2>3. CASE IsJob(r) /\ ~window.job.replied
      <3>1. window'.job = window.job
        BY <2>3 DEF TakeStep, Passed, AnsweredNow, Runs, BecomesJob, JobKept, IsJob
      <3> QED BY <2>3, <3>1, HeldNext DEF IsJob
    <2> QED BY <1>2, <2>1, <2>2, <2>3, HeldIs
  <1>7. CASE Passed(q)
    <2>1. JobOK'
      BY <1>4, <1>7 DEF JobOK, Passed, IsJob, JobKept
    <2>2. SettingsPutBack'
      BY <1>5, <1>7 DEF Passed
    <2>3. TrueReplies
      BY <1>7 DEF TrueReplies, Passed
    <2>4. StillHeld
      BY <1>0, <1>6, <1>7 DEF StillHeld, Passed, Fresh
    <2> QED BY <1>1, <2>1, <2>2, <2>3, <2>4, AnswersKept DEF Work, TakeStep, SameBridge
  <1>8. CASE AnsweredNow(q)
    <2>0. PICK answer \in {"ok", "error"} : conn' = Delivered(q.req, answer)
      BY <1>8 DEF AnsweredNow
    <2>1. \A r \in Requests :
             Awaits(r) => conn'[r[1]].reply = IF r = q.req THEN answer ELSE conn[r[1]].reply
      BY <1>0, <1>8, <2>0, DeliveredIs DEF AnsweredNow, Inv
    <2>2. JobOK'
      <3> SUFFICES ASSUME NEW r \in Requests, IsJob(r)'
                   PROVE  JobIs(r)'
        BY DEF JobOK
      <3>1. IsJob(r) /\ JobKept /\ window'.job # None
        BY <1>8 DEF AnsweredNow, IsJob, JobKept
      <3>2. Awaits(r) => conn'[r[1]].reply \in {conn[r[1]].reply, "ok", "error"}
        BY <2>1
      <3> QED BY <1>4, <1>8, <3>1, <3>2 DEF AnsweredNow
    <2>3. SettingsPutBack'
      BY <1>5, <1>8 DEF AnsweredNow
    <2>4. TrueReplies
      <3> SUFFICES ASSUME NEW r \in Requests, Awaits(r), conn'[r[1]].reply # conn[r[1]].reply
                   PROVE  conn'[r[1]].reply = answer /\ Dead(r)'
        BY NoneApart DEF TrueReplies
      <3>1. r = q.req /\ Fresh(r) /\ conn'[r[1]].reply = answer
        BY <1>0, <2>1
      <3>2. Clear(r)' /\ ~IsJob(r)' /\ doing' # r
        BY <1>8, <3>1, NoneApart, Zenon DEF AnsweredNow, Fresh, Clear, IsJob, JobKept, TakeStep
      <3> QED BY <1>2, <1>3, <1>8, <3>1, <3>2 DEF Dead, Active, Fresh, AnsweredNow
    <2>5. StillHeld
      <3> SUFFICES ASSUME NEW r \in Requests, Awaits(r), conn'[r[1]].reply = None,
                          conn[r[1]].gen = window.bridge
                   PROVE  Held(r)'
        BY DEF StillHeld
      <3>1. r # q.req /\ conn[r[1]].reply = None
        BY <2>1, NoneApart
      <3> QED BY <1>6, <3>1
    <2> QED BY <1>1, <2>2, <2>3, <2>4, <2>5, AnswersKept DEF Work, TakeStep, SameBridge
  <1>9. CASE Runs(q)
    <2>1. JobOK'
      BY <1>4, <1>9 DEF JobOK, Runs, IsJob, JobKept
    <2>2. SettingsPutBack'
      BY <1>5, <1>9 DEF Runs
    <2>3. TrueReplies
      BY <1>9 DEF TrueReplies, Runs
    <2>4. StillHeld
      BY <1>6, <1>9, HeldNext DEF StillHeld, Runs
    <2> QED BY <1>1, <2>1, <2>2, <2>3, <2>4, AnswersKept DEF Work, TakeStep, SameBridge
  <1>10. CASE BecomesJob(q)
    <2>1. Fresh(q.req) /\ q.req \in Requests /\ q.kind # "closed"
      BY <1>0, <1>10 DEF BecomesJob
    <2>2. /\ window'.job = Job(q, window) /\ window'.job.req = q.req
          /\ window'.job.kind = q.kind /\ window'.job.previous = window.settings
          /\ window'.job.document = window.document /\ ~window'.job.replied
          /\ window'.job.stage = "planning" /\ window'.job \in Jobs
      BY <1>10, <2>1, Fields DEF BecomesJob, Job, Jobs, Inv, Types, Settings
    <2>3. window'.job # None
      BY <2>2, NoneApart
    <2>4. window.settings \in {None} \cup files \cup lost
      <3>1. ASSUME window.job # None, window.job.replied PROVE window.settings # window.job.req
        <4>1. window.job.req \in Requests /\ JobIs(window.job.req)
          BY <3>1, Fields DEF Inv, Types, Work, JobOK, IsJob
        <4> QED BY <3>1, <4>1 DEF JobIs
      <3> QED BY <1>10, <3>1 DEF BecomesJob, Inv, Work, SettingsPutBack
    <2>5. window.gate \in [Requests -> Gates]
      BY Fields DEF Inv, Types
    <2>6. JobIs(q.req)'
      <3>1. Began(q.req)'
        <4>1. window'.started[q.req[1]] \in Starts
          BY <1>10, <2>1, Request, Fields DEF BecomesJob, Starts, Inv, Types, Settings
        <4>2. window'.started[q.req[1]].id = q.req[2]
          BY <1>10 DEF BecomesJob
        <4> QED BY <4>1, <4>2, NoneApart DEF Began
      <3>2. Issued(q.req)' /\ conn'[q.req[1]].gen = window'.bridge /\ doing' # q.req
        BY <1>0, <1>2, <1>10, <2>1, NoneApart, Zenon
        DEF Fresh, EntryOK, BecomesJob, TakeStep, SameBridge
      <3>3. q.req \notin files' /\ q.req \notin applied' /\ window.settings # q.req
        BY <2>1 DEF Fresh, Clear, TakeStep
      <3>4. q.kind # "sheet" => window'.gate[q.req] = "none"
        BY <1>10, <2>1 DEF BecomesJob, Fresh
      <3> QED BY <1>10, <2>2, <2>4, <3>1, <3>2, <3>3, <3>4, Zenon
          DEF JobIs, BecomesJob, TakeStep
    <2>7. JobOK'
      BY <2>2, <2>6 DEF JobOK, IsJob
    <2>8. SettingsPutBack'
      BY <1>10, <2>2, <2>3, <2>4 DEF SettingsPutBack, BecomesJob, TakeStep
    <2>9. TrueReplies
      BY <1>10 DEF TrueReplies, BecomesJob
    <2>10. StillHeld
      BY <1>6, <1>10, <2>2, <2>3, HeldNext DEF StillHeld, BecomesJob, IsJob
    <2> QED BY <1>1, <2>7, <2>8, <2>9, <2>10, AnswersKept DEF Work, TakeStep, SameBridge
  <1> QED BY <1>7, <1>8, <1>9, <1>10 DEF TakeStep

------------------------------------------------------------------------------
(* An edit runs; the user and the thread of a sheet act *)

Executed ==
    /\ ui \in {"executing", "keeping"} /\ doing \in Requests /\ doing' = None
    /\ SameBridge /\ SameQueue /\ SameMarks /\ window'.job = window.job
    /\ window'.document = window.document /\ window'.settings = window.settings
    /\ \/ /\ window'.epoch = window.epoch + 1 /\ applied' = applied \cup {doing}
          /\ conn' = Delivered(doing, "ok")
       \/ /\ window'.epoch = window.epoch /\ applied' = applied
          /\ conn' = Delivered(doing, "error")
    /\ UNCHANGED <<files, lost, told>>

\* An edit is made, or a request fails, and the answer says which.
LEMMA ExecutedWork ==
    ASSUME Inv, Executed
    PROVE  Work' /\ Answers'
  <1>0. PICK x \in Requests : x = doing
    BY DEF Executed
  <1>1. PICK answer \in {"ok", "error"} :
           conn' = Delivered(x, answer) /\ (answer = "error" => applied' = applied)
    BY <1>0 DEF Executed
  <1>2. /\ SameConns
        /\ \A r \in Requests :
              Awaits(r) => conn'[r[1]].reply = IF r = x THEN answer ELSE conn[r[1]].reply
    BY <1>1, DeliveredIs DEF Inv
  <1>3. Issued(x) /\ Clear(x) /\ ~InQueue(x) /\ ~IsJob(x)
    BY <1>0 DEF Inv, Work, DoingOK, JobOK, JobIs
  <1>4. /\ window.epoch \in Nat /\ window'.epoch \in {window.epoch, window.epoch + 1}
        /\ applied' \in {applied, applied \cup {x}}
        /\ x \in applied' => window'.epoch = window.epoch + 1
    BY <1>0, <1>3, Fields DEF Executed, Inv, Types, Clear
  <1>5. \A r \in Requests : /\ Issued(r)' <=> Issued(r)
                            /\ Awaits(r)' <=> Awaits(r)
                            /\ Began(r)' <=> Began(r)
                            /\ InQueue(r)' <=> InQueue(r)
                            /\ IsJob(r)' <=> IsJob(r)
                            /\ conn'[r[1]].gen = conn[r[1]].gen
                            /\ doing' # r
                            /\ Unwritten(r)' <=> Unwritten(r)
                            /\ r # x => (Clear(r)' <=> Clear(r))
    BY <1>2, <1>4, Request, NoneApart
    DEF Executed, SameQueue, SameMarks, SameConns, Issued, Awaits, Began, InQueue, IsJob, Unwritten, Clear
  <1>6. Steady
    BY <1>0, <1>5 DEF Steady, Active, Executed, SameMarks
  <1>7. QueueOK'
    <2> SUFFICES ASSUME NEW e \in Entries(window.queue), EntryOK(e)
                 PROVE  EntryOK(e)'
      BY DEF QueueOK, Inv, Work, Executed, SameQueue
    <2>0. e \in Entry /\ e.req[1] \in Conns
      BY QueuedIsFresh, Pair DEF Entry
    <2>1. ASSUME e.kind # "closed" PROVE Fresh(e.req)'
      <3>1. Fresh(e.req) /\ e.req \in Requests /\ e.req # x
        BY <1>0, <2>1 DEF EntryOK, Fresh
      <3> QED BY <1>5, <3>1 DEF Fresh, Executed, SameMarks, SameQueue
    <2> QED BY <1>2, <2>0, <2>1 DEF EntryOK, SameConns, Executed, SameBridge
  <1>8. JobOK'
    <2> SUFFICES ASSUME NEW r \in Requests, IsJob(r)
                 PROVE  JobIs(r)'
      BY <1>5 DEF JobOK
    <2>1. JobIs(r) /\ r # x
      BY <1>3 DEF Inv, Work, JobOK
    <2> QED BY <1>2, <1>4, <1>5, <2>1 DEF JobIs, Executed, SameBridge, SameMarks, IsJob
  <1>9. StartedOK'
    <2> SUFFICES ASSUME NEW r \in Requests, Began(r)
                 PROVE  LET s == window'.started[r[1]] IN
                        /\ Issued(r)' /\ s.settings # r /\ s.epoch <= window'.epoch
                        /\ r \in applied' => s.epoch < window'.epoch
      BY <1>5 DEF StartedOK
    <2>1. r[1] \in Conns /\ window.started[r[1]].epoch \in Nat
      BY Request, Fields DEF Inv, Types, Began
    <2>2. /\ Issued(r) /\ window.started[r[1]].settings # r
          /\ window.started[r[1]].epoch <= window.epoch
          /\ r \in applied => window.started[r[1]].epoch < window.epoch
      BY DEF Inv, Work, StartedOK
    <2> QED BY <1>4, <1>5, <2>1, <2>2 DEF Executed, SameQueue
  <1>10. DoingOK' /\ SettingsPutBack'
    BY <1>5 DEF DoingOK, SettingsPutBack, Inv, Work, Executed
  <1>11. TrueReplies
    <2> SUFFICES ASSUME answer = "error" PROVE Dead(x)'
      BY <1>2, NoneApart DEF TrueReplies
    <2>1. Clear(x)'
      BY <1>1, <1>3 DEF Clear, Executed
    <2> QED BY <1>3, <1>5, <2>1 DEF Dead, Active
  <1>12. StillHeld
    <2> SUFFICES ASSUME NEW r \in Requests, Awaits(r), conn'[r[1]].reply = None,
                        conn[r[1]].gen = window.bridge
                 PROVE  Held(r)'
      BY DEF StillHeld
    <2>1. r # x /\ conn[r[1]].reply = None
      BY <1>2, NoneApart
    <2>2. Held(r)
      BY <2>1 DEF Inv, Answers, RepliesOK, ReplyOK
    <2> QED BY <1>0, <1>5, <2>1, <2>2, HeldIs, HeldNext DEF Executed
  <1> QED BY <1>2, <1>6, <1>7, <1>8, <1>9, <1>10, <1>11, <1>12, AnswersKept
      DEF Work, Executed, SameBridge

\* An export becomes the job and keeps its settings.
Keeps ==
    /\ ui = "keeping" /\ doing \in Requests /\ doing' = None /\ window.job = None
    /\ SameBridge /\ SameQueue /\ SameMarks
    /\ window'.epoch = window.epoch /\ window'.document = window.document
    /\ window'.settings = doing
    /\ window'.job = Job([req |-> doing, kind |-> "drawings"], window)
    /\ UNCHANGED <<conn, applied, files, lost, told>>

\* The settings an export keeps are its own, and those it found are what goes back.
LEMMA KeepsWork ==
    ASSUME Inv, Keeps
    PROVE  Work' /\ Answers'
  <1>0. PICK x \in Requests : x = doing
    BY DEF Keeps
  <1>1. /\ Issued(x) /\ Clear(x) /\ ~InQueue(x) /\ x \notin files /\ window.gate[x] = "none"
        /\ conn[x[1]].gen = window.bridge /\ (Awaits(x) => Began(x))
    BY <1>0 DEF Inv, Work, DoingOK
  <1>2. /\ window'.job # None /\ window'.job.req = x /\ window'.job.kind = "drawings"
        /\ window'.job.previous = window.settings /\ window'.job.document = window.document
        /\ window'.job.stage = "planning" /\ ~window'.job.replied /\ window'.settings = x
    <2>1. window'.job = Job([req |-> x, kind |-> "drawings"], window) /\ window'.settings = x
      BY <1>0 DEF Keeps
    <2>2. window.epoch \in Nat /\ window.document \in Nat /\ window.settings \in Settings
      BY Fields DEF Inv, Types, Settings
    <2> DEFINE q == [req |-> x, kind |-> "drawings"]
               j == [req |-> x, kind |-> "drawings", epoch |-> window.epoch,
                     document |-> window.document, previous |-> window.settings,
                     stage |-> "planning", replied |-> FALSE]
    <2>3. window'.job = j
      <3>1. q.req = x /\ q.kind = "drawings"
        OBVIOUS
      <3>2. window'.job = Job(q, window)
        BY <2>1
      <3> QED BY <3>1, <3>2 DEF Job
    <2>4. /\ j.req = x /\ j.kind = "drawings" /\ j.previous = window.settings
          /\ j.document = window.document /\ j.stage = "planning" /\ ~j.replied
      OBVIOUS
    <2>5. j \in Jobs
      BY <1>0, <2>2 DEF Jobs
    <2>6. window'.job # None
      BY <2>3, <2>5, NoneApart
    <2> HIDE DEF j
    <2> QED BY <2>1, <2>3, <2>4, <2>6
  <1>3. window.settings \in {None} \cup files \cup lost
    BY DEF Keeps, Inv, Work, SettingsPutBack
  <1>4. \A r \in Requests : /\ Issued(r)' <=> Issued(r)
                            /\ Awaits(r)' <=> Awaits(r)
                            /\ Began(r)' <=> Began(r)
                            /\ InQueue(r)' <=> InQueue(r)
                            /\ IsJob(r)' <=> r = x
                            /\ ~IsJob(r) /\ doing' # r
                            /\ Unwritten(r)' <=> Unwritten(r)
                            /\ Clear(r) /\ r # x => Clear(r)'
    BY <1>2, NoneApart
    DEF Keeps, SameQueue, SameMarks, Issued, Awaits, Began, InQueue, IsJob, Unwritten, Clear
  <1>5. Steady
    BY <1>0, <1>4 DEF Steady, Active, Keeps, SameMarks
  <1>6. QueueOK'
    <2> SUFFICES ASSUME NEW e \in Entries(window.queue), EntryOK(e)
                 PROVE  EntryOK(e)'
      BY DEF QueueOK, Inv, Work, Keeps, SameQueue
    <2>1. ASSUME e.kind # "closed" PROVE Fresh(e.req)'
      <3>1. Fresh(e.req) /\ e.req \in Requests /\ e.req # x
        BY <1>0, <2>1 DEF EntryOK, Fresh
      <3> QED BY <1>4, <3>1 DEF Fresh, Keeps, SameMarks, SameQueue
    <2> QED BY <2>1 DEF EntryOK, Keeps, SameBridge
  <1>7. JobOK'
    <2>1. JobIs(x)'
      BY <1>1, <1>2, <1>3, <1>4 DEF JobIs, Clear, Keeps, SameBridge, SameMarks
    <2> QED BY <1>4, <2>1 DEF JobOK
  <1>8. StartedOK'
    BY <1>4 DEF StartedOK, Inv, Work, Keeps, SameQueue
  <1>9. DoingOK' /\ SettingsPutBack'
    BY <1>2, <1>4 DEF DoingOK, SettingsPutBack
  <1>10. TrueReplies /\ SameConns
    BY DEF TrueReplies, SameConns, Keeps
  <1>11. StillHeld
    <2> SUFFICES ASSUME NEW r \in Requests, Awaits(r), conn'[r[1]].reply = None,
                        conn[r[1]].gen = window.bridge
                 PROVE  Held(r)'
      BY DEF StillHeld
    <2>1. Held(r)
      BY DEF Keeps, Inv, Answers, RepliesOK, ReplyOK
    <2> QED BY <1>0, <1>2, <1>4, <2>1, HeldIs, HeldNext
  <1> QED BY <1>5, <1>6, <1>7, <1>8, <1>9, <1>10, <1>11, AnswersKept
      DEF Work, Keeps, SameBridge

\* The user changes or replaces the document, or a sheet is written.
Aside ==
    /\ SameBridge /\ SameQueue /\ window'.job = window.job
    /\ window'.epoch \in Nat /\ window'.epoch >= window.epoch
    /\ window'.settings \in {window.settings, None}
    /\ window'.document = window.document \/ window'.settings = None
    /\ \A r \in Requests : r \in window'.cancelled => r \in window.cancelled \/ IsJob(r)
    /\ \A r \in Requests :
          \/ window'.gate[r] = window.gate[r] /\ (r \in files' <=> r \in files)
          \/ /\ window.gate[r] \in {"free", "publishing"} /\ window'.gate[r] # "none"
             /\ window'.gate[r] # "written" => (r \in files' <=> r \in files)
    /\ files \subseteq files' /\ UNCHANGED <<conn, doing, applied, lost, told>>

\* What the user and the threads of sheets do, no client is told of.
LEMMA AsideWork ==
    ASSUME Inv, Aside
    PROVE  Work' /\ Answers'
  <1> USE DEF Aside, SameBridge, SameQueue
  <1>1. \A r \in Requests : /\ Issued(r)' <=> Issued(r)
                            /\ Awaits(r)' <=> Awaits(r)
                            /\ Began(r)' <=> Began(r)
                            /\ InQueue(r)' <=> InQueue(r)
                            /\ IsJob(r)' <=> IsJob(r)
                            /\ Clear(r) => Clear(r)'
                            /\ Unwritten(r) => Unwritten(r)' /\ window'.gate[r] = window.gate[r]
    BY NoneApart DEF Issued, Awaits, Began, InQueue, IsJob, Clear, Unwritten
  <1>2. \A r \in Requests : (Active(r)' <=> Active(r)) /\ (Held(r)' <=> Held(r))
    BY <1>1, HeldIs, HeldNext DEF Active
  <1>3. Steady
    BY <1>1, <1>2, ActiveHere DEF Steady, Active
  <1>4. QueueOK'
    <2> SUFFICES ASSUME NEW e \in Entries(window.queue), EntryOK(e)
                 PROVE  EntryOK(e)'
      BY DEF QueueOK, Inv, Work
    <2>1. ASSUME e.kind # "closed" PROVE Fresh(e.req)'
      <3>1. Fresh(e.req) /\ e.req \in Requests
        BY <2>1 DEF EntryOK, Fresh
      <3>2. Unwritten(e.req)
        BY <3>1 DEF Fresh, Unwritten
      <3>3. e.req \notin files' /\ window'.gate[e.req] = "none"
        BY <1>1, <3>1, <3>2 DEF Fresh, Unwritten
      <3> QED BY <1>1, <3>1, <3>3 DEF Fresh
    <2> QED BY <2>1 DEF EntryOK
  <1>5. JobOK'
    <2> SUFFICES ASSUME NEW r \in Requests, IsJob(r)
                 PROVE  JobIs(r)'
      BY <1>1 DEF JobOK
    <2>1. JobIs(r)
      BY DEF Inv, Work, JobOK
    <2>2. /\ window.settings # r => window'.settings # r
          /\ window.document # window'.document => window'.settings # r
      BY NoneApart
    <2>3. /\ window.job.kind # "sheet" =>
                window'.gate[r] = "none" /\ (r \in files' <=> r \in files)
          /\ window.job.kind = "sheet" /\ window'.gate[r] # "written" => r \notin files'
      BY <2>1 DEF JobIs
    <2> QED BY <1>1, <2>1, <2>2, <2>3 DEF JobIs
  <1>6. StartedOK'
    <2> SUFFICES ASSUME NEW r \in Requests, Began(r)
                 PROVE  LET s == window'.started[r[1]] IN
                        /\ Issued(r)' /\ s.settings # r /\ s.epoch <= window'.epoch
                        /\ r \in applied' => s.epoch < window'.epoch
      BY <1>1 DEF StartedOK
    <2>1. r[1] \in Conns /\ window.started[r[1]].epoch \in Nat /\ window.epoch \in Nat
      BY Request, Fields DEF Inv, Types, Began
    <2>2. /\ Issued(r) /\ window.started[r[1]].settings # r
          /\ window.started[r[1]].epoch <= window.epoch
          /\ r \in applied => window.started[r[1]].epoch < window.epoch
      BY DEF Inv, Work, StartedOK
    <2> QED BY <1>1, <2>1, <2>2
  <1>7. DoingOK' /\ SettingsPutBack'
    BY <1>1 DEF DoingOK, SettingsPutBack, Inv, Work
  <1>8. RepliesOK'
    BY <1>1, <1>2, <1>3, DeadStays, ZenonT(30) DEF Inv, Answers, RepliesOK, ReplyOK, TellSuperseded
  <1>9. ToldOK'
    BY <1>1, <1>3, DeadStays DEF Inv, Answers, ToldOK, ToldIs
  <1> QED BY <1>3, <1>4, <1>5, <1>6, <1>7, <1>8, <1>9, IssuedKept DEF Work, Answers

------------------------------------------------------------------------------
(* Moves of a connection *)

\* It queues its next request and waits, or it says that it closed.
Sends(c) ==
    /\ conn[c].gen = window.bridge /\ window.bridge # 0 /\ conn[c].id < MaxRequests
    /\ conn'[c].gen = conn[c].gen
    /\ conn'[c].id = conn[c].id + 1 /\ conn'[c].reply = None
    /\ \E kind \in Kinds :
          window'.queue = Append(window.queue, [req |-> <<c, conn[c].id + 1>>, kind |-> kind])
    /\ window'.cancelled = window.cancelled /\ told' = told
Closes(c) ==
    /\ conn[c].gen = window.bridge /\ window.bridge # 0 /\ conn'[c].pc = "closed"
    /\ conn'[c].id = conn[c].id /\ conn'[c].gen = conn[c].gen
    /\ window'.queue = Append(window.queue, [req |-> <<c, 0>>, kind |-> "closed"])
    /\ window'.cancelled = window.cancelled /\ told' = told

\* It comes, goes or stops waiting, and its client is told the truth.
Turns(c) ==
    /\ conn'[c].pc # "waiting" /\ window'.queue = window.queue
    /\ conn'[c].id \in {conn[c].id, conn[c].id + 1}
    /\ \A r \in Requests :
          r \in window'.cancelled => r \in window.cancelled \/ r = <<c, conn[c].id>>
    /\ \A r \in Requests : told'[r] # told[r] =>
          /\ r = <<c, conn'[c].id>>
          /\ told'[r] \in {"unchanged", "cancelled", "error", "unavailable"} =>
                Dead(r) \/ ~Issued(r)
          /\ told'[r] = "cancelled" => Issued(r) /\ Unwritten(r)
          /\ told'[r] = "closed" => /\ Issued(r) /\ window.takeover[conn[c].gen] = <<>>
                                    /\ conn[c].gen # window.bridge

ConnMove(c) ==
    /\ \A d \in Conns \ {c} : conn'[d] = conn[d]
    /\ conn'[c].gen = conn[c].gen \/ conn[c].pc = "new"
    /\ conn[c].pc # "closed" /\ conn'[c].pc # "new"
    /\ SameBridge /\ SameDocument /\ window'.started = window.started
    /\ window'.job = window.job /\ window'.gate = window.gate
    /\ UNCHANGED <<doing, applied, files, lost>>
    /\ Sends(c) \/ Closes(c) \/ Turns(c)

\* A connection sends, closes, or turns to its client with what it knows.
LEMMA ConnMoveWork ==
    ASSUME Inv, Types', NEW c \in Conns, ConnMove(c)
    PROVE  Work' /\ Answers'
  <1>1. PICK new : new = <<c, conn[c].id + 1>>
    OBVIOUS
  <1>2. /\ conn[c].id \in 0..MaxRequests /\ conn'[c].id \in 0..MaxRequests
        /\ conn'[c].id \in {conn[c].id, conn[c].id + 1}
        /\ conn[c].pc = "new" => conn[c].id = 0
    BY ConnFields, ConstantAssumption
    DEF Inv, Types, ConnMove, Sends, Closes, Turns, Control, BridgeOK
  <1>3. new[1] = c /\ new[2] = conn[c].id + 1 /\ (conn'[c].id # conn[c].id => new \in Requests)
    BY <1>1, <1>2 DEF Requests
  <1>4. \A r \in Requests :
           /\ Issued(r) => Issued(r)'
           /\ Issued(r)' => Issued(r) \/ (r = new /\ conn'[c].id = conn[c].id + 1)
           /\ Issued(r) => conn'[r[1]].gen = conn[r[1]].gen
    <2> SUFFICES ASSUME NEW r \in Requests
                 PROVE  /\ Issued(r) => Issued(r)'
                        /\ Issued(r)' => Issued(r) \/ (r = new /\ conn'[c].id = conn[c].id + 1)
                        /\ Issued(r) => conn'[r[1]].gen = conn[r[1]].gen
      OBVIOUS
    <2>1. r[1] \in Conns /\ r[2] \in 1..MaxRequests /\ r = <<r[1], r[2]>>
      BY Request
    <2>2. CASE r[1] # c
      BY <2>1, <2>2 DEF ConnMove, Issued
    <2>3. CASE r[1] = c
      BY <1>1, <1>2, <2>1, <2>3, ConstantAssumption DEF ConnMove, Issued
    <2> QED BY <2>2, <2>3
  <1>5. ASSUME new \in Requests
        PROVE  /\ ~Issued(new) /\ ~Active(new) /\ Clear(new) /\ new \notin files
               /\ window.gate[new] = "none" /\ new \notin window.cancelled
               /\ told[new] = "nothing"
    <2>1. ~Issued(new)
      BY <1>2, <1>3 DEF Issued
    <2> QED BY <1>5, <2>1, ActiveHere DEF Inv, Answers, IssuedOK
  <1>6. \A r \in Requests : /\ Began(r)' <=> Began(r)
                            /\ IsJob(r)' <=> IsJob(r)
                            /\ Clear(r)' <=> Clear(r)
                            /\ Unwritten(r)' <=> Unwritten(r)
    BY DEF ConnMove, SameDocument, Began, IsJob, Clear, Unwritten
  <1>7. \A r \in Requests : Awaits(r)' =>
           \/ r[1] # c /\ Awaits(r) /\ conn'[r[1]] = conn[r[1]]
           \/ r = new /\ Sends(c)
    <2> SUFFICES ASSUME NEW r \in Requests, Awaits(r)', r[1] = c
                 PROVE  r = new /\ Sends(c)
      BY Request DEF Awaits, ConnMove
    <2>1. r[2] \in 1..MaxRequests /\ r = <<r[1], r[2]>>
      BY Request
    <2> QED BY <1>1, <2>1 DEF Awaits, ConnMove, Turns, Sends, Closes
  <1>8. window.queue \in Seq(Entry)
    BY Fields DEF Inv, Types
  <1>9. /\ window'.queue = window.queue \/ Sends(c) \/ Closes(c)
        /\ Entries(window.queue) \subseteq Entries(window'.queue)
        /\ \A e \in Entries(window'.queue) :
              \/ e \in Entries(window.queue)
              \/ Sends(c) /\ e.req = new /\ e.kind # "closed"
              \/ Closes(c) /\ e.req = <<c, 0>> /\ e.kind = "closed"
        /\ Ordered(window'.queue)
    <2>0. Ordered(window.queue)
      BY DEF Inv, Work, QueueOK
    <2>1. CASE Turns(c)
      BY <2>0, <2>1 DEF Turns
    <2>2. CASE Sends(c)
      <3>1. PICK kind \in Kinds :
               window'.queue = Append(window.queue, [req |-> new, kind |-> kind])
        BY <1>1, <2>2 DEF Sends
      <3>2. PICK e : e = [req |-> new, kind |-> kind]
        OBVIOUS
      <3>3. e \in Entry /\ e.req = new /\ e.kind # "closed"
        BY <1>1, <1>2, <2>2, <3>2, ConstantAssumption DEF Entry, Kinds, Sends
      <3>4. ASSUME NEW d \in Entries(window.queue) PROVE Before(d, e)
        <4>1. d \in Entry /\ EntryOK(d)
          BY QueuedIsFresh
        <4>2. d.req[1] \in Conns /\ d.req[2] \in 0..MaxRequests
          BY <4>1, Pair DEF Entry
        <4>3. d.req[1] = c => d.req[2] <= conn[c].id
          BY <1>2, <4>1, <4>2 DEF EntryOK, Fresh, Issued
        <4> QED BY <1>2, <1>3, <3>3, <4>2, <4>3 DEF Before
      <3>5. /\ Entries(Append(window.queue, e)) = Entries(window.queue) \cup {e}
            /\ Ordered(Append(window.queue, e))
        BY <1>8, <2>0, <3>3, <3>4, AddEntry
      <3>6. /\ Entries(window'.queue) = Entries(window.queue) \cup {e}
            /\ Ordered(window'.queue)
        BY <3>1, <3>2, <3>5
      <3> QED BY <2>2, <3>3, <3>6
    <2>3. CASE Closes(c)
      <3>2. PICK e : /\ e = [req |-> <<c, 0>>, kind |-> "closed"]
                     /\ window'.queue = Append(window.queue, e)
        BY <2>3 DEF Closes
      <3>3. e \in Entry /\ e.req = <<c, 0>> /\ e.kind = "closed"
        BY <3>2, ConstantAssumption DEF Entry
      <3>4. \A d \in Entries(window.queue) : Before(d, e)
        BY <3>3 DEF Before
      <3>1. /\ Entries(Append(window.queue, e)) = Entries(window.queue) \cup {e}
            /\ Ordered(Append(window.queue, e))
        BY <1>8, <2>0, <3>3, <3>4, AddEntry
      <3>5. /\ Entries(window'.queue) = Entries(window.queue) \cup {e}
            /\ Ordered(window'.queue)
        BY <3>1, <3>2
      <3> QED BY <2>3, <3>3, <3>5
    <2> QED BY <2>1, <2>2, <2>3 DEF ConnMove
  <1>10. \A r \in Requests : /\ InQueue(r) => InQueue(r)'
                             /\ InQueue(r)' => InQueue(r) \/ (r = new /\ Sends(c))
    <2>1. <<c, 0>> \notin Requests
      BY Request
    <2> QED BY <1>9, <2>1 DEF InQueue
  <1>11. \A r \in Requests : /\ r \in window'.cancelled => r \in window.cancelled \/ Issued(r)
                             /\ r \in window'.cancelled =>
                                   r \in window.cancelled \/ (r[1] = c /\ Turns(c))
                             /\ told'[r] # told[r] => Issued(r)'
    <2>1. ASSUME NEW r \in Requests, r = <<c, conn[c].id>> PROVE Issued(r) /\ r[1] = c
      BY <1>2, <2>1 DEF Issued
    <2>2. ASSUME NEW r \in Requests, r = <<c, conn'[c].id>> PROVE Issued(r)'
      <3>1. r[1] = c /\ r[2] = conn'[c].id
        BY <2>2
      <3> QED BY <1>2, <3>1 DEF Issued
    <2> QED BY <2>1, <2>2 DEF ConnMove, Sends, Closes, Turns
  <1>12. Steady
    <2> SUFFICES ASSUME NEW r \in Requests
                 PROVE  /\ Issued(r) => Issued(r)'
                        /\ Active(r)' => Active(r) \/ ~Issued(r)
                        /\ Clear(r) /\ ~Active(r) => Clear(r)'
                        /\ Unwritten(r) /\ ~Active(r) =>
                              Unwritten(r)' /\ window'.gate[r] = window.gate[r]
                        /\ r \in window'.cancelled => r \in window.cancelled \/ Issued(r)'
                        /\ told'[r] # told[r] => Issued(r)'
      BY DEF Steady
    <2>1. Active(r)' => Active(r) \/ ~Issued(r)
      BY <1>5, <1>6, <1>10 DEF Active, ConnMove
    <2> QED BY <1>4, <1>6, <1>11, <2>1 DEF ConnMove
  <1>13. QueueOK'
    <2> SUFFICES ASSUME NEW e \in Entries(window'.queue)
                 PROVE  EntryOK(e)'
      BY <1>9 DEF QueueOK
    <2>1. CASE e \in Entries(window.queue)
      <3>1. e \in Entry /\ EntryOK(e) /\ e.req[1] \in Conns
        BY <2>1, QueuedIsFresh, Pair DEF Entry
      <3>2. CASE e.kind = "closed"
        BY <3>1, <3>2 DEF EntryOK, ConnMove, SameBridge
      <3>3. CASE e.kind # "closed"
        <4>1. Fresh(e.req) /\ e.req \in Requests
          BY <3>1, <3>3 DEF EntryOK, Fresh
        <4>2. ASSUME Awaits(e.req)' PROVE e.req \notin window'.cancelled
          <5>1. e.req # new
            BY <1>5, <4>1 DEF Fresh
          <5> QED BY <1>7, <1>11, <4>1, <4>2, <5>1 DEF Fresh
        <4>3. Fresh(e.req)'
          BY <1>4, <1>6, <4>1, <4>2 DEF Fresh, ConnMove
        <4> QED BY <1>4, <3>1, <3>3, <4>1, <4>3 DEF EntryOK, Fresh, ConnMove, SameBridge
      <3> QED BY <3>2, <3>3
    <2>2. CASE Sends(c) /\ e.req = new /\ e.kind # "closed"
      <3>1. new \in Requests
        BY <1>2, <1>3, <2>2 DEF Sends
      <3>2. Issued(new)' /\ conn'[c].gen = window'.bridge /\ window'.bridge # 0
        BY <1>2, <1>3, <2>2 DEF Sends, Issued, ConnMove, SameBridge
      <3>3. window.started[c] # None => window.started[c].id < new[2]
        <4> SUFFICES ASSUME window.started[c] # None PROVE window.started[c].id < new[2]
          OBVIOUS
        <4>1. PICK i \in 1..MaxRequests : i = window.started[c].id
          BY Fields DEF Inv, Types
        <4>2. <<c, i>> \in Requests /\ <<c, i>>[1] = c /\ <<c, i>>[2] = i
          BY DEF Requests
        <4>3. Issued(<<c, i>>)
          BY <4>1, <4>2 DEF Inv, Work, StartedOK, Began
        <4> QED BY <1>2, <1>3, <4>1, <4>2, <4>3 DEF Issued
      <3>4. ~IsJob(new)' /\ doing' # new /\ Clear(new)'
        BY <1>5, <1>6, <3>1 DEF Active, ConnMove
      <3>5. Fresh(new)'
        BY <1>3, <1>5, <2>2, <3>1, <3>2, <3>3, <3>4 DEF Fresh, ConnMove, Sends
      <3> QED BY <1>3, <2>2, <3>2, <3>5 DEF EntryOK
    <2>3. CASE Closes(c) /\ e.req = <<c, 0>> /\ e.kind = "closed"
      <3>1. e.req[1] = c /\ e.req[2] = 0
        BY <2>3
      <3> QED BY <1>2, <2>3, <3>1 DEF EntryOK, Closes, ConnMove, SameBridge
    <2> QED BY <1>9, <2>1, <2>2, <2>3
  <1>14. JobOK'
    <2> SUFFICES ASSUME NEW r \in Requests, IsJob(r)
                 PROVE  JobIs(r)'
      BY <1>6 DEF JobOK
    <2>1. JobIs(r) /\ r # new
      BY <1>5 DEF Inv, Work, JobOK, JobIs
    <2>2. Awaits(r)' => Awaits(r) /\ conn'[r[1]] = conn[r[1]]
      BY <1>7, <2>1
    <2> QED BY <1>4, <1>6, <2>1, <2>2 DEF JobIs, ConnMove, SameBridge, SameDocument
  <1>15. StartedOK'
    BY <1>4, <1>6 DEF Inv, Work, StartedOK, ConnMove, SameDocument
  <1>16. DoingOK'
    <2> SUFFICES ASSUME NEW r \in Requests, doing = r
                 PROVE  /\ Issued(r)' /\ Clear(r)' /\ ~InQueue(r)'
                        /\ r \notin files' /\ window'.gate[r] = "none"
                        /\ conn'[r[1]].gen = window'.bridge /\ (Awaits(r)' => Began(r)')
      BY DEF DoingOK, ConnMove
    <2>1. /\ Issued(r) /\ Clear(r) /\ ~InQueue(r) /\ r \notin files /\ window.gate[r] = "none"
          /\ conn[r[1]].gen = window.bridge /\ (Awaits(r) => Began(r)) /\ r # new
      BY <1>5 DEF Inv, Work, DoingOK
    <2>2. Awaits(r)' => Began(r)'
      BY <1>6, <1>7, <2>1
    <2> QED BY <1>4, <1>6, <1>10, <2>1, <2>2 DEF ConnMove, SameBridge
  <1>17. SettingsPutBack'
    BY DEF SettingsPutBack, Inv, Work, ConnMove, SameDocument
  <1>18. RepliesOK'
    <2> SUFFICES ASSUME NEW r \in Requests, Awaits(r)'
                 PROVE  ReplyOK(r)'
      BY DEF RepliesOK
    <2>1. CASE r[1] # c /\ Awaits(r) /\ conn'[r[1]] = conn[r[1]]
      <3>1. ReplyOK(r)
        BY <2>1 DEF Inv, Answers, RepliesOK
      <3>2. Held(r) => Held(r)'
        BY <1>6, <1>10, HeldIs, HeldNext DEF ConnMove
      <3>3. TellSuperseded(r[1])' = TellSuperseded(r[1])
        BY <2>1 DEF TellSuperseded, ConnMove, SameBridge
      <3> QED BY <1>6, <1>12, <2>1, <3>1, <3>2, <3>3, DeadStays
          DEF ReplyOK, ConnMove, SameBridge
    <2>2. CASE r = new /\ Sends(c)
      <3>1. InQueue(new)' /\ Clear(new)'
        <4>1. PICK kind \in Kinds :
                 window'.queue = Append(window.queue, [req |-> new, kind |-> kind])
          BY <1>1, <2>2 DEF Sends
        <4>2. PICK e : e = [req |-> new, kind |-> kind]
          OBVIOUS
        <4>3. e \in Entry /\ e.req = new
          BY <1>1, <1>2, <2>2, <4>2, ConstantAssumption DEF Entry, Kinds, Sends
        <4>4. e \in Entries(window'.queue)
          BY <1>8, <4>1, <4>2, <4>3, AddEntry
        <4> QED BY <1>5, <1>6, <2>2, <4>3, <4>4 DEF InQueue
      <3>2. conn'[r[1]].reply = None
        BY <1>3, <2>2 DEF Sends
      <3> QED BY <2>2, <3>1, <3>2, HeldNext, NoneApart DEF ReplyOK
    <2> QED BY <1>7, <2>1, <2>2
  <1>19. ToldOK'
    <2> SUFFICES ASSUME NEW r \in Requests
                 PROVE  ToldIs(r)'
      BY DEF ToldOK
    <2>1. CASE told'[r] = told[r]
      <3>1. ToldIs(r)
        BY DEF Inv, Answers, ToldOK
      <3>2. told[r] = "closed" => Issued(r)
        BY DEF Inv, Answers, IssuedOK
      <3> QED BY <1>4, <1>12, <2>1, <3>1, <3>2, DeadStays DEF ToldIs, ConnMove, SameBridge
    <2>2. CASE told'[r] # told[r]
      <3>1. /\ Turns(c) /\ r = <<c, conn'[c].id>> /\ r[1] = c
            /\ Issued(r)'
        <4>1. Turns(c)
          BY <2>2 DEF ConnMove, Sends, Closes
        <4>2. r = <<c, conn'[c].id>>
          BY <2>2, <4>1 DEF Turns
        <4>3. Issued(r)'
          BY <1>11, <2>2
        <4> QED BY <4>1, <4>2, <4>3
      <3>2. ASSUME ~Issued(r) PROVE Dead(r)'
        <4>1. r = new
          BY <1>4, <3>1, <3>2
        <4>2. ~Active(r)'
          BY <1>5, <1>6, <1>9, <3>1, <4>1 DEF Active, InQueue, ConnMove, Turns
        <4> QED BY <1>5, <1>6, <3>1, <4>1, <4>2 DEF Dead
      <3> QED BY <1>4, <1>6, <1>12, <2>2, <3>1, <3>2, DeadStays
          DEF ToldIs, Turns, ConnMove, SameBridge
    <2> QED BY <2>1, <2>2
  <1> QED BY <1>12, <1>13, <1>14, <1>15, <1>16, <1>17, <1>18, <1>19, IssuedKept
      DEF Work, Answers

------------------------------------------------------------------------------
(* The bridge, the UI thread and the broker *)

ConnsOK(f, gen) ==
    \A c \in Conns : /\ f[c].pc # "new" => f[c].gen \in 1..gen
                     /\ f[c].pc = "new" => f[c].id = 0
                     /\ f[c].pc \in {"waiting", "timing_out"} => f[c].id # 0

\* Steps that leave the bridge and the broker alone.
SameControl ==
    /\ SameBridge /\ window'.gen = window.gen /\ window'.attached = window.attached
    /\ UNCHANGED <<attach, broker, given>>
    /\ ConnsOK(conn', window.gen)
    /\ \/ /\ ui' = ui /\ doing' = doing /\ window'.job = window.job
          /\ window'.settings \in {window.settings, None}
       \/ /\ ui # "superseding" /\ ui' # "superseding" /\ ThreadOK'
          /\ doing' \in Requests \cup {None}

\* A step that lets nobody in and nobody go keeps who is attached.
LEMMA SameControlKept ==
    ASSUME Inv, SameControl
    PROVE  Control'
  <1> USE DEF SameControl, SameBridge
  <1>1. ThreadOK'
    <2>1. CASE /\ ui' = ui /\ doing' = doing /\ window'.job = window.job
               /\ window'.settings \in {window.settings, None}
      <3>1. window'.job # None => window'.job.req # None
        BY <2>1, Fields, NoneApart DEF Inv, Types
      <3> QED BY <2>1, <3>1 DEF ThreadOK, Inv, Control
    <2> QED BY <2>1
  <1>2. BrokerOK'
    <2>1. broker.request \in Clients \cup {None}
      BY DEF Inv, Types
    <2> QED BY <2>1, NoneApart DEF BrokerOK, Inv, Control
  <1>3. BridgeOK'
    BY DEF BridgeOK, Inv, Control, ConnsOK, Answered
  <1>4. AttachedIsReal'
    BY DEF AttachedIsReal, Inv, Control
  <1> QED BY <1>1, <1>2, <1>3, <1>4 DEF Control

\* A step that changes no connection but for a reply.
LEMMA SameConnsOK ==
    ASSUME Inv, SameConns
    PROVE  ConnsOK(conn', window.gen)
  BY DEF Inv, Control, BridgeOK, ConnsOK, SameConns

------------------------------------------------------------------------------
(* The UI thread: jobs *)

\* What poll_jobs and publish leave alone.
JobPolled ==
    /\ ui \in {"jobs", "publishing"} /\ ui' \in {"queue", "publishing"} /\ ThreadOK'
    /\ window' \in Window /\ doing = None
    /\ window'.gen = window.gen /\ window'.attached = window.attached
    /\ SameBridge /\ SameQueue /\ window'.document = window.document
    /\ applied' \subseteq Requests /\ files' \subseteq Requests
    /\ UNCHANGED <<doing, attach, broker, given, lost, told, scenario>>

\* The job is over: what it leaves, and the answer it gives.
Finishes(answer) ==
    /\ window'.job = None /\ window'.epoch >= window.epoch
    /\ \/ applied' = applied
       \/ applied' = applied \cup {window.job.req} /\ window'.epoch > window.epoch
    /\ \/ window'.settings = window.settings
       \/ window.job.kind = "drawings" /\ window'.settings = window.job.previous
    /\ window.cancelled \subseteq window'.cancelled
    /\ window'.cancelled \subseteq window.cancelled \cup {window.job.req}
    /\ \A r \in Requests : r # window.job.req => window'.gate[r] = window.gate[r]
    /\ files' \in {files, files \cup {window.job.req}}
    /\ conn' = IF window.job.replied THEN conn ELSE Delivered(window.job.req, answer)
    /\ window'.settings = window.job.req => window.job.req \in files'
    /\ answer \in {"error", "cancelled"} =>
          /\ window'.settings # window.job.req
          /\ window.job.req \notin applied /\ applied' = applied
    /\ answer = "cancelled" =>
          /\ window.job.req \notin files'
          /\ window'.gate[window.job.req] \in {"none", "cancelled", "failed"}

\* The job ends.
LEMMA PolledEnds ==
    ASSUME Inv, JobPolled, NEW answer \in {"ok", "error", "cancelled"}, window.job # None,
           Finishes(answer)
    PROVE  Inv'
  <1>1. window.job.req \in Requests /\ doing = None
    BY Fields DEF Inv, Types, JobPolled
  <1>2. conn' \in [Conns -> Connections] /\ SameConns
    <2>0. conn' = conn \/ conn' = Delivered(window.job.req, answer)
      BY DEF Finishes
    <2>1. CASE conn' = conn
      BY <2>1 DEF Inv, Types, SameConns
    <2>2. CASE conn' = Delivered(window.job.req, answer)
      BY <1>1, <2>2, DeliveredIs DEF Inv
    <2> QED BY <2>0, <2>1, <2>2
  <1>3. Types'
    BY <1>2 DEF Inv, Types, JobPolled
  <1>4. JobStep
    BY <1>1, <1>2, Fields DEF JobStep, JobPolled, Finishes
  <1>5. JobEnds(answer)
    BY <1>4 DEF JobEnds, Finishes
  <1>6. Work' /\ Answers'
    BY <1>5, JobEndsWork
  <1>7. Control'
    BY <1>1, <1>2, SameConnsOK, SameControlKept DEF SameControl, JobPolled
  <1> QED BY <1>3, <1>6, <1>7 DEF Inv

\* There is nothing to do yet.
LEMMA PolledIdle ==
    ASSUME Inv, JobPolled, UNCHANGED <<window, conn, applied, files>>
    PROVE  Inv'
  <1>1. Types'
    BY DEF Inv, Types, JobPolled
  <1>2. Work' /\ Answers'
    BY IdleWork DEF Inv, Idle, SameBridge, SameQueue, SameDocument, SameMarks, JobPolled
  <1>3. SameConns /\ doing = None
    BY DEF SameConns, JobPolled
  <1>4. Control'
    BY <1>3, SameConnsOK, SameControlKept DEF SameControl, JobPolled
  <1> QED BY <1>1, <1>2, <1>4 DEF Inv

\* A program is published or answered and its check runs on.
LEMMA PolledStays ==
    ASSUME Inv, JobPolled, window.job # None, window'.job # None,
           window.job.kind = "program", ~window.job.replied,
           window'.job.req = window.job.req, window'.job.previous = window.job.previous,
           window'.job.kind = "program", window'.job.document = window.job.document,
           window'.job.stage = "checking",
           window'.settings = window.settings, SameMarks, files' = files,
           window'.epoch >= window.epoch,
           \/ applied' = applied
           \/ applied' = applied \cup {window.job.req} /\ window'.epoch > window.epoch,
           \/ conn' = conn /\ ~window'.job.replied
           \/ conn' = Delivered(window.job.req, "ok") /\ window'.job.replied
    PROVE  Inv'
  <1>1. window.job.req \in Requests /\ doing = None
    BY Fields DEF Inv, Types, JobPolled
  <1>2. conn' \in [Conns -> Connections] /\ SameConns
    <2>1. CASE conn' = conn
      BY <2>1 DEF Inv, Types, SameConns
    <2>2. CASE conn' = Delivered(window.job.req, "ok")
      BY <1>1, <2>2, DeliveredIs DEF Inv
    <2> QED BY <2>1, <2>2
  <1>3. Types'
    BY <1>2 DEF Inv, Types, JobPolled
  <1>4. JobStep
    BY <1>1, <1>2, Fields DEF JobStep, JobPolled, SameMarks
  <1>5. Work' /\ Answers'
    BY <1>4, JobStaysWork DEF JobStays
  <1>6. Control'
    BY <1>1, <1>2, SameConnsOK, SameControlKept DEF SameControl, JobPolled
  <1> QED BY <1>3, <1>5, <1>6 DEF Inv

\* poll_jobs.
LEMMA PollJobsKeeps ==
    ASSUME Inv, poll_jobs, UNCHANGED scenario
    PROVE  Inv'
  <1>1. /\ ui = "jobs" /\ ui' \in {"queue", "publishing"} /\ window \in Window
        /\ UNCHANGED <<doing, attach, broker, given, lost, told, scenario>>
        /\ applied \subseteq Requests /\ files \subseteq Requests
        /\ doing = None /\ ThreadOK'
    <2>1. doing = None /\ doing' = None
      BY DEF poll_jobs, Inv, Control, ThreadOK
    <2>2. ThreadOK'
      <3>1. CASE ui' = "queue"
        BY <2>1, <3>1 DEF ThreadOK
      <3>2. CASE ui' = "publishing"
        <4>1. /\ window' = window /\ window.job # None /\ window.job.kind # "sheet"
              /\ window.job.kind = "program" => window.job.stage = "planning"
          BY <3>2 DEF poll_jobs, MayPublish
        <4> QED BY <2>1, <3>2, <4>1 DEF ThreadOK
      <3> QED BY <3>1, <3>2 DEF poll_jobs
    <2> QED BY <2>1, <2>2 DEF poll_jobs, Inv, Types
  <1>2. ASSUME UNCHANGED <<window, conn, applied, files>> PROVE Inv'
    BY <1>1, <1>2, PolledIdle DEF JobPolled, SameBridge, SameQueue
  <1>3. SUFFICES ASSUME window.job # None PROVE Inv'
    BY <1>2 DEF poll_jobs
  <1>4. PICK j : /\ j = window.job /\ j.req \in Requests /\ JobIs(j.req) /\ j \in Jobs
                 /\ j.previous \in Settings /\ window.settings \in Settings
                 /\ window.epoch \in Nat /\ window.gate \in [Requests -> Gates]
                 /\ window.cancelled \subseteq Requests /\ j.replied \in BOOLEAN
    BY <1>1, <1>3, Fields DEF Inv, Work, JobOK, IsJob, Settings
  <1>5. CASE poll_program_plan
    <2>1. j.kind = "program" /\ j.stage = "planning" /\ ~j.replied /\ UNCHANGED <<applied, files>>
      BY <1>4, <1>5 DEF poll_program_plan, JobIs
    <2>2. window.settings # j.req /\ j.req \notin applied
      BY <1>4, <2>1 DEF JobIs
    <2>3. CASE UNCHANGED <<window, conn>>
      BY <1>2, <2>1, <2>3
    <2>4. CASE Answer("error", FALSE)
      <3>1. window' = [window EXCEPT !.job = None] /\ conn' = Delivered(j.req, "error")
        BY <1>4, <2>1, <2>4 DEF Answer
      <3>2. JobPolled /\ window'.job = None /\ SameMarks /\ SameDocument
        BY <1>1, <2>1, <3>1
        DEF JobPolled, SameBridge, SameQueue, SameMarks, SameDocument, Window
      <3>9. Finishes("error")
        BY <1>3, <1>4, <2>1, <2>2, <3>1, <3>2 DEF Finishes, SameMarks, SameDocument
      <3> QED BY <1>3, <3>2, <3>9, PolledEnds
    <2> QED BY <1>5, <2>3, <2>4 DEF poll_program_plan
  <1>6. CASE poll_program_check
    <2>1. /\ j.kind = "program" /\ j.stage = "checking"
          /\ UNCHANGED <<applied, files>> /\ window.settings # j.req
      BY <1>4, <1>6 DEF poll_program_check, JobIs
    <2>2. CASE UNCHANGED <<window, conn>>
      BY <1>2, <2>1, <2>2
    <2>3. CASE Answer("ok", FALSE)
      <3>1. /\ window' = [window EXCEPT !.job = None]
            /\ conn' = IF j.replied THEN conn ELSE Delivered(j.req, "ok")
        BY <1>4, <2>3 DEF Answer
      <3>2. JobPolled /\ window'.job = None /\ SameMarks /\ SameDocument
        BY <1>1, <2>1, <3>1
        DEF JobPolled, SameBridge, SameQueue, SameMarks, SameDocument, Window
      <3>9. Finishes("ok")
        BY <1>3, <1>4, <2>1, <3>1, <3>2 DEF Finishes, SameMarks, SameDocument
      <3> QED BY <1>3, <3>2, <3>9, PolledEnds
    <2>4. CASE ~window.job.replied /\ Answer("ok", TRUE)
      <3>1. PICK k \in Jobs : k = [j EXCEPT !.replied = TRUE]
        BY <1>4 DEF Jobs
      <3>2. window' = [window EXCEPT !.job = k] /\ conn' = Delivered(j.req, "ok")
        BY <1>1, <1>4, <2>4, <3>1 DEF Answer, Window
      <3>3. /\ k.req = j.req /\ k.previous = j.previous /\ k.kind = j.kind
            /\ k.document = j.document /\ k.stage = "checking" /\ k.replied
            /\ k # None
        BY <1>4, <2>1, <3>1, NoneApart DEF Jobs
      <3>4. JobPolled /\ window'.job = k /\ SameMarks /\ SameDocument
        BY <1>1, <2>1, <3>2
        DEF JobPolled, SameBridge, SameQueue, SameMarks, SameDocument, Window
      <3> QED BY <1>3, <1>4, <2>1, <2>4, <3>2, <3>3, <3>4, PolledStays DEF SameDocument
    <2> QED BY <1>6, <2>2, <2>3, <2>4 DEF poll_program_check
  <1>7. CASE poll_project_drawings_export
    <2>1. /\ j.kind = "drawings" /\ UNCHANGED <<applied, files>> /\ ~j.replied
          /\ j.req \notin applied /\ j.req \notin files /\ window.gate[j.req] = "none"
      BY <1>4, <1>7 DEF poll_project_drawings_export, JobIs
    <2>2. PICK u \in Settings : u = Undone(window, j)
      BY <1>4 DEF Undone
    <2>3. (u = window.settings \/ u = j.previous) /\ u # j.req
      BY <1>4, <2>1, <2>2 DEF Undone, JobIs
    <2>4. PICK ended : ended = [window EXCEPT !.job = None, !.settings = u]
      OBVIOUS
    <2>5. ASSUME NEW x \in {{}, {j.req}}, NEW answer \in {"error", "cancelled"},
                 window' = [ended EXCEPT !.cancelled = @ \cup x],
                 conn' = Delivered(j.req, answer)
          PROVE  Inv'
      <3>1. /\ JobPolled /\ window'.job = None /\ window'.settings = u
            /\ window'.epoch = window.epoch /\ window'.gate = window.gate
            /\ window'.cancelled = window.cancelled \cup x
        BY <1>1, <1>4, <2>1, <2>4, <2>5, ZenonT(30)
        DEF JobPolled, SameBridge, SameQueue, Window, Settings
      <3>9. Finishes(answer)
        BY <1>3, <1>4, <2>1, <2>3, <2>5, <3>1 DEF Finishes
      <3> QED BY <1>3, <3>1, <3>9, PolledEnds
    <2>6. ended.cancelled = window.cancelled /\ ended = [ended EXCEPT !.cancelled = @ \cup {}]
      BY <1>1, <1>4, <2>4, Zenon DEF Window
    <2>7. CASE Replaced
      BY <1>4, <1>7, <2>2, <2>4, <2>5, <2>7 DEF poll_project_drawings_export, WithoutJob
    <2>8. CASE ~Replaced /\ Revoked
      BY <1>4, <1>7, <2>2, <2>4, <2>5, <2>6, <2>8 DEF poll_project_drawings_export, WithoutJob
    <2>9. CASE ~Replaced /\ ~Revoked
      BY <1>2, <1>7, <2>9 DEF poll_project_drawings_export
    <2> QED BY <2>7, <2>8, <2>9
  <1>8. CASE poll_sheet_export
    <2>1. /\ j.kind = "sheet" /\ UNCHANGED <<applied, files>> /\ ~j.replied
          /\ j.req \notin applied /\ window.settings # j.req
      BY <1>4, <1>8 DEF poll_sheet_export, JobIs
    <2>2. PICK g \in [Requests -> Gates] : g = Gated(window, j)
      BY <1>4 DEF Gated, Gates
    <2>3. /\ \A r \in Requests : r # j.req => g[r] = window.gate[r]
          /\ g[j.req] = IF window.gate[j.req] = "free" THEN "cancelled" ELSE window.gate[j.req]
      BY <1>4, <2>1, <2>2 DEF Gated
    <2>4. PICK gated : /\ gated = [window EXCEPT !.job = None, !.gate = g]
                       /\ gated \in Window /\ SameButJob(gated, window)
                       /\ gated.job = None /\ gated.gate = g
                       /\ gated.started = window.started /\ gated.settings = window.settings
      <3>1. PICK h \in Window : h = [window EXCEPT !.job = None]
        BY <1>1, WindowParts
      <3>2. PICK k \in Window : k = [h EXCEPT !.gate = g]
        BY <3>1, WindowParts
      <3>3. k = [window EXCEPT !.job = None, !.gate = g]
        BY <3>1, <3>2
      <3>4. /\ SameButJob(h, window) /\ h.job = None /\ h.started = window.started
            /\ h.settings = window.settings
        BY <1>1, <3>1 DEF Window, SameButJob
      <3>5. /\ SameButJob(k, h) /\ k.job = h.job /\ k.gate = g /\ k.started = h.started
            /\ k.settings = h.settings
        BY <3>1, <3>2 DEF Window, SameButJob
      <3>6. SameButJob(k, window)
        BY <3>4, <3>5 DEF SameButJob
      <3> QED BY <3>2, <3>3, <3>4, <3>5, <3>6
    <2>5. CASE Replaced
      <3>1. /\ window' = [gated EXCEPT !.cancelled = @ \cup {j.req}]
            /\ conn' = Delivered(j.req, "error")
        BY <1>4, <1>8, <2>2, <2>4, <2>5 DEF poll_sheet_export
      <3>2. /\ JobPolled /\ window'.job = None /\ SameDocument /\ window'.gate = g
            /\ window'.cancelled = window.cancelled \cup {j.req}
        <4>1. PICK x \in SUBSET Requests : x = window.cancelled \cup {j.req}
          BY <1>1, <1>4, Fields
        <4>2. window' = [gated EXCEPT !.cancelled = x]
          BY <2>4, <3>1, <4>1 DEF SameButJob
        <4>3. /\ window' \in Window /\ window'.cancelled = x /\ window'.job = gated.job
              /\ window'.gate = gated.gate /\ window'.started = gated.started
              /\ window'.settings = gated.settings /\ window'.bridge = gated.bridge
              /\ window'.gen = gated.gen /\ window'.attached = gated.attached
              /\ window'.queue = gated.queue /\ window'.epoch = gated.epoch
              /\ window'.document = gated.document /\ window'.takeover = gated.takeover
          BY <2>4, <4>2, ZenonT(30) DEF Window
        <4>4. SameBridge /\ SameQueue /\ SameDocument
          BY <2>4, <4>3 DEF SameButJob, SameBridge, SameQueue, SameDocument
        <4>5. window'.gen = window.gen /\ window'.attached = window.attached
          BY <2>4, <4>3 DEF SameButJob
        <4>6. JobPolled
          BY <1>1, <2>1, <4>3, <4>4, <4>5 DEF JobPolled, SameDocument
        <4> QED BY <2>4, <4>1, <4>3, <4>4, <4>6
      <3>9. Finishes("error")
        BY <1>3, <1>4, <2>1, <2>3, <3>1, <3>2 DEF Finishes, SameDocument
      <3> QED BY <1>3, <3>2, <3>9, PolledEnds
    <2>6. CASE ~Replaced /\ Revoked /\ window.gate[j.req] \notin {"publishing", "written", "kept"}
      <3>1. window' = gated /\ conn' = Delivered(j.req, "cancelled")
        BY <1>4, <1>8, <2>2, <2>4, <2>6 DEF poll_sheet_export
      <3>2. /\ JobPolled /\ window'.job = None /\ SameDocument /\ window'.gate = g
            /\ window'.cancelled = window.cancelled
        BY <1>1, <1>4, <2>1, <2>4, <3>1
        DEF JobPolled, SameBridge, SameQueue, SameDocument, Window
      <3>3. j.req \notin files /\ g[j.req] \in {"none", "cancelled", "failed"}
        BY <1>4, <2>1, <2>3, <2>6 DEF JobIs, Gates
      <3>9. Finishes("cancelled")
        BY <1>3, <1>4, <2>1, <2>3, <3>1, <3>2, <3>3 DEF Finishes, SameDocument
      <3> QED BY <1>3, <3>2, <3>9, PolledEnds
    <2>7. CASE ~Replaced /\ ~(Revoked /\ window.gate[j.req] \notin {"publishing", "written", "kept"})
      <3>1. CASE UNCHANGED <<window, conn>>
        BY <1>2, <2>1, <3>1
      <3>2. ASSUME NEW answer \in {"ok", "error"}, Answer(answer, FALSE) PROVE Inv'
        <4>1. window' = [window EXCEPT !.job = None] /\ conn' = Delivered(j.req, answer)
          BY <1>4, <2>1, <3>2 DEF Answer
        <4>2. JobPolled /\ window'.job = None /\ SameMarks /\ SameDocument
          BY <1>1, <1>4, <2>1, <4>1
          DEF JobPolled, SameBridge, SameQueue, SameMarks, SameDocument, Window
        <4>9. Finishes(answer)
          BY <1>3, <1>4, <2>1, <4>1, <4>2 DEF Finishes, SameMarks, SameDocument
        <4> QED BY <1>3, <4>2, <4>9, PolledEnds
      <3> QED BY <1>4, <1>8, <2>7, <3>1, <3>2 DEF poll_sheet_export
    <2> QED BY <2>5, <2>6, <2>7
  <1> QED BY <1>2, <1>3, <1>5, <1>6, <1>7, <1>8 DEF poll_jobs

\* publish: a program is published, the files of an export are written, or neither.
LEMMA PublishKeeps ==
    ASSUME Inv, publish, UNCHANGED scenario
    PROVE  Inv'
  <1>1. /\ ui = "publishing" /\ ui' = "queue" /\ window \in Window
        /\ UNCHANGED <<doing, attach, broker, given, lost, told, scenario>>
        /\ applied \subseteq Requests /\ files \subseteq Requests
        /\ doing = None /\ ThreadOK'
    <2>1. doing = None /\ doing' = None /\ ui' = "queue"
      BY DEF publish, Inv, Control, ThreadOK
    <2>2. ThreadOK'
      BY <2>1 DEF ThreadOK
    <2> QED BY <2>1, <2>2 DEF publish, Inv, Types
  <1>3. window.job # None /\ (window.job.kind = "program" => window.job.stage = "planning")
    BY <1>1 DEF Inv, Control, ThreadOK
  <1>4. PICK j : /\ j = window.job /\ j.req \in Requests /\ JobIs(j.req) /\ j \in Jobs
                 /\ j.previous \in Settings /\ window.settings \in Settings
                 /\ window.epoch \in Nat /\ j.replied \in BOOLEAN
    BY <1>1, <1>3, Fields DEF Inv, Work, JobOK, IsJob, Settings
  <1>5. CASE publish_program
    <2>1. j.kind = "program" /\ j.stage = "planning" /\ ~j.replied /\ files' = files
      BY <1>3, <1>4, <1>5 DEF publish_program, JobIs
    <2>2. window.settings # j.req /\ j.req \notin applied
      BY <1>4, <2>1 DEF JobIs
    <2>4. CASE Answer("error", FALSE) /\ UNCHANGED applied
      <3>1. window' = [window EXCEPT !.job = None] /\ conn' = Delivered(j.req, "error")
        BY <1>4, <2>1, <2>4 DEF Answer
      <3>2. JobPolled /\ window'.job = None /\ SameMarks /\ SameDocument
        BY <1>1, <2>1, <2>4, <3>1
        DEF JobPolled, SameBridge, SameQueue, SameMarks, SameDocument, Window
      <3>9. Finishes("error")
        BY <1>3, <1>4, <2>1, <2>2, <2>4, <3>1, <3>2 DEF Finishes, SameMarks, SameDocument
      <3> QED BY <1>3, <3>2, <3>9, PolledEnds
    <2>5. CASE ~(Answer("error", FALSE) /\ UNCHANGED applied)
      <3>1. applied' = applied \cup {j.req} /\ applied' \subseteq Requests
        BY <1>1, <1>4, <1>5, <2>5 DEF publish_program
      <3>0. PICK n \in Nat : n = window.epoch + 1
        BY <1>4
      <3>2. CASE /\ window' = [window EXCEPT !.epoch = @ + 1, !.job.stage = "checking"]
                 /\ UNCHANGED conn
        <4>1. PICK k \in Jobs : k = [j EXCEPT !.stage = "checking"]
          BY <1>4 DEF Jobs
        <4>2. window' = [window EXCEPT !.epoch = n, !.job = k]
          BY <1>1, <1>4, <3>0, <3>2, <4>1 DEF Window
        <4>3. /\ k.req = j.req /\ k.previous = j.previous /\ k.kind = j.kind
              /\ k.document = j.document /\ k.stage = "checking" /\ k.replied = j.replied
              /\ k # None
          BY <1>4, <4>1, NoneApart DEF Jobs
        <4>4. /\ JobPolled /\ window'.job = k /\ SameMarks /\ window'.settings = window.settings
              /\ window'.epoch = n
          BY <1>1, <2>1, <3>1, <4>2
          DEF JobPolled, SameBridge, SameQueue, SameMarks, Window
        <4> QED BY <1>3, <1>4, <2>1, <3>0, <3>1, <3>2, <4>3, <4>4, PolledStays
      <3>3. CASE /\ conn' = Delivered(window.job.req, "ok")
                 /\ window' = [window EXCEPT !.epoch = @ + 1, !.job = None]
        <4>0. window' = [window EXCEPT !.epoch = n, !.job = None]
          BY <3>0, <3>3
        <4>1. /\ JobPolled /\ window'.job = None /\ SameMarks
              /\ window'.settings = window.settings /\ window'.epoch = n
          BY <1>1, <2>1, <3>1, <4>0
          DEF JobPolled, SameBridge, SameQueue, SameMarks, Window
        <4>9. Finishes("ok")
          BY <1>3, <1>4, <2>1, <2>2, <3>0, <3>1, <3>3, <4>1 DEF Finishes, SameMarks
        <4> QED BY <1>3, <4>1, <4>9, PolledEnds
      <3> QED BY <1>5, <2>5, <3>2, <3>3 DEF publish_program
    <2> QED BY <1>5, <2>4, <2>5 DEF publish_program
  <1>6. CASE finish_export
    <2>1. /\ j.kind = "drawings" /\ applied' = applied /\ ~j.replied
          /\ j.req \notin applied /\ j.req \notin files /\ window.gate[j.req] = "none"
      BY <1>4, <1>6 DEF finish_export, JobIs
    <2>2. CASE Answer("ok", FALSE) /\ files' = files \cup {window.job.req}
      <3>1. window' = [window EXCEPT !.job = None] /\ conn' = Delivered(j.req, "ok")
        BY <1>4, <2>1, <2>2 DEF Answer
      <3>2. JobPolled /\ window'.job = None /\ SameMarks /\ SameDocument
        BY <1>1, <1>4, <2>1, <2>2, <3>1
        DEF JobPolled, SameBridge, SameQueue, SameMarks, SameDocument, Window
      <3>9. Finishes("ok")
        BY <1>3, <1>4, <2>1, <2>2, <3>1, <3>2 DEF Finishes, SameMarks, SameDocument
      <3> QED BY <1>3, <3>2, <3>9, PolledEnds
    <2>3. CASE window' = WithoutJob /\ conn' = Delivered(window.job.req, "error") /\ UNCHANGED files
      <3>1. PICK u \in Settings : u = Undone(window, j)
        BY <1>4 DEF Undone
      <3>2. (u = window.settings \/ u = j.previous) /\ u # j.req
        BY <1>4, <2>1, <3>1 DEF Undone, JobIs
      <3>3. window' = [window EXCEPT !.job = None, !.settings = u]
        BY <1>4, <2>3, <3>1 DEF WithoutJob
      <3>4. /\ JobPolled /\ window'.job = None /\ window'.settings = u
            /\ window'.epoch = window.epoch /\ window'.gate = window.gate
            /\ window'.cancelled = window.cancelled
        BY <1>1, <1>4, <2>1, <2>3, <3>3, ZenonT(30)
        DEF JobPolled, SameBridge, SameQueue, Window, Settings
      <3>9. Finishes("error")
        BY <1>3, <1>4, <2>1, <2>3, <3>2, <3>4 DEF Finishes
      <3> QED BY <1>3, <3>4, <3>9, PolledEnds
    <2> QED BY <1>6, <2>2, <2>3 DEF finish_export
  <1> QED BY <1>5, <1>6 DEF publish

------------------------------------------------------------------------------
(* Edits, the end of a frame, the thread of a sheet and the user *)

\* execute_edit.
LEMMA ExecuteEditKeeps ==
    ASSUME Inv, execute_edit, UNCHANGED scenario
    PROVE  Inv'
  <1>1. /\ ui = "executing" /\ ui' = "queue" /\ doing \in Requests /\ doing' = None
        /\ window \in Window /\ window.epoch \in Nat
        /\ UNCHANGED <<attach, broker, given, files, lost, told, scenario>>
    BY Fields DEF execute_edit, Inv, Types, Control, ThreadOK
  <1>2. PICK n \in Nat, answer \in {"ok", "error"} :
           /\ conn' = Delivered(doing, answer) /\ window' = [window EXCEPT !.epoch = n]
           /\ \/ answer = "ok" /\ n = window.epoch + 1 /\ applied' = applied \cup {doing}
              \/ answer = "error" /\ n = window.epoch /\ applied' = applied
    <2>1. window = [window EXCEPT !.epoch = window.epoch]
      BY <1>1 DEF Window
    <2> QED BY <1>1, <2>1 DEF execute_edit
  <1>3. /\ window' \in Window /\ SameBridge /\ SameQueue /\ SameMarks
        /\ window'.job = window.job /\ window'.document = window.document
        /\ window'.settings = window.settings /\ window'.epoch = n
        /\ window'.gen = window.gen /\ window'.attached = window.attached
    BY <1>1, <1>2 DEF Window, SameBridge, SameQueue, SameMarks
  <1>4. conn' \in [Conns -> Connections] /\ SameConns
    BY <1>1, <1>2, DeliveredIs DEF Inv
  <1>5. Types'
    BY <1>1, <1>2, <1>3, <1>4 DEF Inv, Types
  <1>6. Work' /\ Answers'
    BY <1>1, <1>2, <1>3, ExecutedWork DEF Executed
  <1>7. Control'
    BY <1>1, <1>3, <1>4, SameConnsOK, SameControlKept DEF SameControl, ThreadOK
  <1> QED BY <1>5, <1>6, <1>7 DEF Inv

\* start_export: the export is refused, or becomes the job.
LEMMA StartExportKeeps ==
    ASSUME Inv, start_export, UNCHANGED scenario
    PROVE  Inv'
  <1>1. /\ ui = "keeping" /\ ui' = "queue" /\ doing \in Requests /\ doing' = None
        /\ window \in Window /\ conn \in [Conns -> Connections] /\ window.job = None
        /\ UNCHANGED <<attach, broker, given, applied, files, lost, told, scenario>>
    BY DEF start_export, Inv, Types, Control, ThreadOK
  <1>2. ThreadOK'
    BY <1>1 DEF ThreadOK
  <1>3. CASE conn' = Delivered(doing, "error") /\ UNCHANGED window
    <2>1. conn' \in [Conns -> Connections] /\ SameConns
      BY <1>1, <1>3, DeliveredIs DEF Inv
    <2>2. Types'
      BY <1>1, <1>3, <2>1 DEF Inv, Types
    <2>3. Work' /\ Answers'
      BY <1>1, <1>3, ExecutedWork DEF Executed, SameBridge, SameQueue, SameMarks
    <2>4. Control'
      BY <1>1, <1>2, <1>3, <2>1, SameConnsOK, SameControlKept DEF SameControl, SameBridge
    <2> QED BY <2>2, <2>3, <2>4 DEF Inv
  <1>4. CASE ~(conn' = Delivered(doing, "error") /\ UNCHANGED window)
    <2>1. PICK j \in Jobs : j = Job([req |-> doing, kind |-> "drawings"], window)
      <3>1. window.epoch \in Nat /\ window.document \in Nat /\ window.settings \in Settings
        BY <1>1, Fields DEF Settings
      <3> QED BY <1>1, <3>1 DEF Job, Jobs
    <2>2. window' = [window EXCEPT !.job = j, !.settings = doing] /\ conn' = conn
      BY <1>4, <2>1 DEF start_export
    <2>3. doing \in Settings
      BY <1>1 DEF Settings
    <2>4. /\ window' \in Window /\ SameBridge /\ SameQueue /\ SameMarks
          /\ window'.job = j /\ window'.settings = doing
          /\ window'.epoch = window.epoch /\ window'.document = window.document
          /\ window'.gen = window.gen /\ window'.attached = window.attached
      BY <1>1, <2>1, <2>2, <2>3 DEF Window, SameBridge, SameQueue, SameMarks
    <2>5. SameConns
      BY <2>2 DEF SameConns
    <2>6. Types'
      BY <1>1, <2>2, <2>4 DEF Inv, Types
    <2>7. Work' /\ Answers'
      BY <1>1, <2>1, <2>2, <2>4, KeepsWork DEF Keeps
    <2>8. Control'
      BY <1>1, <1>2, <2>4, <2>5, SameConnsOK, SameControlKept DEF SameControl
    <2> QED BY <2>6, <2>7, <2>8 DEF Inv
  <1> QED BY <1>3, <1>4

\* end_frame.
LEMMA EndFrameKeeps ==
    ASSUME Inv, end_frame, UNCHANGED scenario
    PROVE  Inv'
  <1>1. Types'
    BY DEF Inv, Types, end_frame
  <1>2. Work' /\ Answers'
    BY IdleWork DEF Inv, Idle, SameBridge, SameQueue, SameDocument, SameMarks, end_frame
  <1>3. SameConns /\ doing = None
    BY DEF SameConns, Inv, Control, ThreadOK, end_frame
  <1>4. Control'
    BY <1>3, SameConnsOK, SameControlKept DEF SameControl, ThreadOK, end_frame, SameBridge
  <1> QED BY <1>1, <1>2, <1>4 DEF Inv

\* A step aside leaves the bridge, the UI thread and the connections alone.
LEMMA AsideKeeps ==
    ASSUME Inv, Aside, window' \in Window, files' \subseteq Requests,
           window'.gen = window.gen, window'.attached = window.attached,
           UNCHANGED <<ui, attach, broker, given, scenario>>
    PROVE  Inv'
  <1>1. Types'
    BY DEF Inv, Types, Aside
  <1>2. Work' /\ Answers'
    BY AsideWork
  <1>3. SameConns
    BY DEF SameConns, Aside
  <1>4. Control'
    BY <1>3, SameConnsOK, SameControlKept DEF SameControl, Aside
  <1> QED BY <1>1, <1>2, <1>4 DEF Inv

\* sheet_thread: the file of a sheet is written through its gate, or kept, or not at all.
LEMMA SheetThreadKeeps ==
    ASSUME Inv, NEW r \in Requests, sheet_thread(r), UNCHANGED scenario
    PROVE  Inv'
  <1>1. /\ window \in Window /\ files \subseteq Requests /\ window.gate \in [Requests -> Gates]
        /\ window.epoch \in Nat
        /\ UNCHANGED <<ui, doing, conn, attach, broker, given, applied, lost, told, scenario>>
    BY Fields DEF Inv, Types, sheet_thread
  <1>2. PICK at \in {"publishing", "failed", "written", "kept"} :
           /\ window' = [window EXCEPT !.gate[r] = at]
           /\ window.gate[r] \in {"free", "publishing"}
           /\ files' = IF at = "written" THEN files \cup {r} ELSE files
    BY DEF sheet_thread
  <1>3. PICK g \in [Requests -> Gates] : g = [window.gate EXCEPT ![r] = at]
    BY <1>1 DEF Gates
  <1>4. window' = [window EXCEPT !.gate = g]
    BY <1>1, <1>2, <1>3 DEF Window
  <1>5. /\ window' \in Window /\ SameBridge /\ SameQueue /\ SameDocument
        /\ window'.job = window.job /\ window'.gate = g /\ window'.cancelled = window.cancelled
        /\ window'.gen = window.gen /\ window'.attached = window.attached
    BY <1>1, <1>4 DEF Window, SameBridge, SameQueue, SameDocument
  <1>6. Aside
    <2>1. \A s \in Requests :
             \/ g[s] = window.gate[s] /\ (s \in files' <=> s \in files)
             \/ /\ window.gate[s] \in {"free", "publishing"} /\ g[s] # "none"
                /\ g[s] # "written" => (s \in files' <=> s \in files)
      BY <1>1, <1>2, <1>3
    <2> QED BY <1>1, <1>2, <1>5, <2>1 DEF Aside, SameDocument
  <1> QED BY <1>1, <1>2, <1>5, <1>6, AsideKeeps

\* The user edits, stores settings or opens another document.
LEMMA UserEditKeeps ==
    ASSUME Inv, edit_document \/ store_settings \/ open_document,
           UNCHANGED <<ui, doing, conn, attach, broker, given, applied, files, lost, told,
                       scenario>>
    PROVE  Inv'
  <1>1. /\ window \in Window /\ files \subseteq Requests /\ window.epoch \in Nat
        /\ window.document \in Nat /\ window.settings \in Settings
        /\ window.cancelled \subseteq Requests
        /\ window.job # None => window.job.req \in Requests
    BY Fields DEF Inv, Types, Settings
  <1>2. CASE edit_document
    <2>1. PICK n \in Nat : n = window.epoch + 1
      BY <1>1
    <2>2. window' = [window EXCEPT !.epoch = n]
      BY <1>2, <2>1 DEF edit_document
    <2>3. /\ window' \in Window /\ SameBridge /\ SameQueue /\ SameMarks
          /\ window'.job = window.job /\ window'.settings = window.settings
          /\ window'.epoch = n /\ window'.document = window.document
          /\ window'.gen = window.gen /\ window'.attached = window.attached
      BY <1>1, <2>2 DEF Window, SameBridge, SameQueue, SameMarks
    <2>4. Aside
      BY <1>1, <2>1, <2>3 DEF Aside, SameMarks
    <2> QED BY <1>1, <2>3, <2>4, AsideKeeps
  <1>3. CASE store_settings
    <2>1. window' = [window EXCEPT !.settings = None] /\ None \in Settings
      BY <1>3 DEF store_settings, Settings
    <2>2. /\ window' \in Window /\ SameBridge /\ SameQueue /\ SameMarks
          /\ window'.job = window.job /\ window'.settings = None
          /\ window'.epoch = window.epoch
          /\ window'.gen = window.gen /\ window'.attached = window.attached
      BY <1>1, <2>1 DEF Window, SameBridge, SameQueue, SameMarks
    <2>3. Aside
      BY <1>1, <2>2 DEF Aside, SameMarks
    <2> QED BY <1>1, <2>2, <2>3, AsideKeeps
  <1>4. CASE open_document
    <2>1. PICK n \in Nat, d \in Nat : n = window.epoch + 1 /\ d = window.document + 1
      BY <1>1
    <2>2. PICK x \in SUBSET Requests :
             x = IF window.job = None THEN window.cancelled
                 ELSE window.cancelled \cup {window.job.req}
      BY <1>1
    <2>3. /\ window' = [window EXCEPT !.epoch = n, !.document = d, !.settings = None,
                                      !.cancelled = x]
          /\ None \in Settings
      BY <1>4, <2>1, <2>2 DEF open_document, Settings
    <2>4. /\ window' \in Window /\ SameBridge /\ SameQueue
          /\ window'.job = window.job /\ window'.gate = window.gate
          /\ window'.cancelled = x /\ window'.epoch = n /\ window'.settings = None
          /\ window'.gen = window.gen /\ window'.attached = window.attached
      BY <1>1, <2>3 DEF Window, SameBridge, SameQueue
    <2>5. \A r \in Requests : r \in window'.cancelled => r \in window.cancelled \/ IsJob(r)
      BY <2>2, <2>4 DEF IsJob
    <2>6. Aside
      BY <1>1, <2>1, <2>4, <2>5 DEF Aside
    <2> QED BY <1>1, <2>4, <2>6, AsideKeeps
  <1> QED BY <1>2, <1>3, <1>4

------------------------------------------------------------------------------
(* The connections *)

Tellings ==
    {"nothing", "ok", "error", "cancelled", "gone", "timeout", "unavailable", "closed",
     "unchanged", "changed"}

\* The connection c comes to the state k.
ComesTo(c, k) ==
    /\ k \in Connections /\ conn' = [conn EXCEPT ![c] = k]
    /\ k.pc # "new" /\ k.gen \in 1..window.gen
    /\ k.pc \in {"waiting", "timing_out"} => k.id # 0
    /\ k.gen = conn[c].gen \/ conn[c].pc = "new"
    /\ conn[c].pc # "closed"

\* It leaves the queue u and the revoked requests x, and what is not its own.
Leaves(u, x) ==
    /\ u \in Seq(Entry) /\ x \in SUBSET Requests
    /\ window' = [window EXCEPT !.queue = u, !.cancelled = x]
    /\ told' \in [Requests -> Tellings]
    /\ UNCHANGED <<ui, doing, attach, broker, given, applied, files, lost, scenario>>

\* What a move of a connection leaves as it was.
LEMMA ConnectionFields ==
    ASSUME Inv, NEW c \in Conns, NEW k, NEW u, NEW x, ComesTo(c, k), Leaves(u, x)
    PROVE  /\ window' \in Window /\ SameBridge /\ SameDocument
           /\ window'.started = window.started /\ window'.job = window.job
           /\ window'.gate = window.gate /\ window'.gen = window.gen
           /\ window'.attached = window.attached /\ window'.queue = u /\ window'.cancelled = x
           /\ conn' \in [Conns -> Connections] /\ conn'[c] = k
           /\ \A d \in Conns \ {c} : conn'[d] = conn[d]
  <1>1. window \in Window /\ conn \in [Conns -> Connections]
    BY DEF Inv, Types
  <1>2. /\ window' \in Window /\ SameBridge /\ SameDocument
        /\ window'.started = window.started /\ window'.job = window.job
        /\ window'.gate = window.gate /\ window'.gen = window.gen
        /\ window'.attached = window.attached /\ window'.queue = u /\ window'.cancelled = x
    BY <1>1 DEF Window, SameBridge, SameDocument, Leaves
  <1>3. /\ conn' \in [Conns -> Connections] /\ conn'[c] = k
        /\ \A d \in Conns \ {c} : conn'[d] = conn[d]
    BY <1>1 DEF ComesTo
  <1> QED BY <1>2, <1>3

\* A move of a connection keeps the invariant.
LEMMA ConnectionMoved ==
    ASSUME Inv, NEW c \in Conns, NEW k, NEW u, NEW x, ComesTo(c, k), Leaves(u, x),
           Sends(c) \/ Closes(c) \/ Turns(c)
    PROVE  Inv'
  <1>2. /\ window' \in Window /\ SameBridge /\ SameDocument
        /\ window'.started = window.started /\ window'.job = window.job
        /\ window'.gate = window.gate /\ window'.gen = window.gen
        /\ window'.attached = window.attached /\ window'.queue = u /\ window'.cancelled = x
        /\ conn' \in [Conns -> Connections] /\ conn'[c] = k
        /\ \A d \in Conns \ {c} : conn'[d] = conn[d]
    BY ConnectionFields
  <1>4. Types'
    BY <1>2 DEF Inv, Types, Tellings, Leaves
  <1>5. ConnMove(c)
    BY <1>2 DEF ConnMove, ComesTo, Leaves
  <1>6. Work' /\ Answers'
    BY <1>4, <1>5, ConnMoveWork
  <1>7. ConnsOK(conn', window.gen)
    BY <1>2 DEF ConnsOK, Inv, Control, BridgeOK, ComesTo
  <1>8. Control'
    BY <1>2, <1>7, SameControlKept DEF SameControl, SameDocument, Leaves
  <1> QED BY <1>4, <1>6, <1>8 DEF Inv

\* What the client of the connection c is told of its request k.id is the truth.
Tells(c, k) ==
    \A r \in Requests : told'[r] # told[r] =>
        /\ r = <<c, k.id>>
        /\ told'[r] \in {"unchanged", "cancelled", "error", "unavailable"} =>
              Dead(r) \/ ~Issued(r)
        /\ told'[r] = "cancelled" => Issued(r) /\ Unwritten(r)
        /\ told'[r] = "closed" => /\ Issued(r) /\ window.takeover[conn[c].gen] = <<>>
                                  /\ conn[c].gen # window.bridge

\* A step in which a connection sends nothing.
LEMMA ConnectionTurned ==
    ASSUME Inv, NEW c \in Conns, NEW k, NEW x, ComesTo(c, k), Leaves(window.queue, x),
           k.pc # "waiting", k.id \in {conn[c].id, conn[c].id + 1},
           x \subseteq window.cancelled \cup {<<c, conn[c].id>>}, Tells(c, k)
    PROVE  Inv'
  <1>1. window'.queue = window.queue /\ window'.cancelled = x /\ conn'[c] = k
    BY ConnectionFields
  <1>2. Turns(c)
    BY <1>1 DEF Turns, Tells
  <1> QED BY <1>2, ConnectionMoved

\* Every action of a connection.
LEMMA ConnectionKeeps ==
    ASSUME Inv, NEW c \in Conns, Connection(c), UNCHANGED scenario
    PROVE  Inv'
  <1>1. /\ window \in Window /\ conn \in [Conns -> Connections] /\ told \in [Requests -> Tellings]
        /\ window.queue \in Seq(Entry) /\ window.cancelled \in SUBSET Requests
        /\ window = [window EXCEPT !.queue = window.queue, !.cancelled = window.cancelled]
        /\ UNCHANGED <<ui, doing, attach, broker, given, applied, files, lost, scenario>>
    BY Fields DEF Inv, Types, Tellings, Connection, Window
  <1>2. PICK k : /\ k = conn[c] /\ k \in Connections
                 /\ k.pc \in {"new", "idle", "waiting", "timing_out", "ending", "closed"}
                 /\ k.id \in 0..MaxRequests /\ k.reply \in {None, "ok", "error", "cancelled"}
                 /\ k.gen \in Nat /\ k.kind \in Kinds
    BY <1>1, ConnFields
  <1>3. k.pc # "new" => k.gen \in 1..window.gen
    BY <1>2 DEF Inv, Control, BridgeOK
  <1>4. PICK r : r = <<c, k.id>> /\ r[1] = c /\ r[2] = k.id
    <2>1. <<c, k.id>>[1] = c /\ <<c, k.id>>[2] = k.id
      BY <1>2, Request
    <2> WITNESS <<c, k.id>>
    <2> QED BY <2>1
  <1>5. /\ r = Current(c) /\ (k.id # 0 => r \in Requests) /\ Issued(r)
        /\ k.pc \in {"waiting", "timing_out"} => k.id # 0
        /\ k.pc = "waiting" => Awaits(r)
    BY <1>2, <1>4 DEF Current, Requests, Issued, Awaits, Inv, Control, BridgeOK
  <1>6. ASSUME k.pc = "waiting" PROVE r \in Requests /\ ReplyOK(r)
    BY <1>5, <1>6 DEF Inv, Answers, RepliesOK
  <1>0. ASSUME window' = window, told' = told, NEW n, ComesTo(c, n), n.pc # "waiting", n.id = k.id
        PROVE  Inv'
    <2>1. Leaves(window.queue, window.cancelled)
      BY <1>0, <1>1 DEF Leaves
    <2>2. Tells(c, n)
      BY <1>0 DEF Tells
    <2> QED BY <1>0, <1>2, <2>1, <2>2, ConnectionTurned
  <1>7. CASE connect(c)
    <2>1. PICK n \in Connections : n = [k EXCEPT !.pc = "idle", !.gen = window.bridge]
      BY <1>1, <1>2, Fields DEF Connections
    <2>2. /\ conn' = [conn EXCEPT ![c] = n] /\ n.pc = "idle" /\ n.gen = window.bridge
          /\ n.id = k.id
      BY <1>1, <1>2, <1>7, <2>1 DEF connect, Connections
    <2>3. window.bridge \in 1..window.gen /\ k.pc = "new"
      <3>1. window.bridge # 0 /\ k.pc = "new"
        BY <1>2, <1>7 DEF connect, Inv, Types
      <3> QED BY <1>1, <3>1, Fields DEF Inv, Control, BridgeOK
    <2>4. ComesTo(c, n)
      BY <1>2, <2>2, <2>3 DEF ComesTo
    <2> QED BY <1>0, <1>7, <2>2, <2>4 DEF connect
  <1>8. CASE leave(c)
    <2>1. PICK n \in Connections : n = [k EXCEPT !.pc = "ending"]
      BY <1>2 DEF Connections
    <2>2. /\ conn' = [conn EXCEPT ![c] = n] /\ n.pc = "ending" /\ n.gen = k.gen
          /\ n.id = k.id /\ k.pc = "idle"
      BY <1>1, <1>2, <1>8, <2>1 DEF leave, Connections
    <2>3. ComesTo(c, n)
      BY <1>2, <1>3, <2>2 DEF ComesTo
    <2> QED BY <1>0, <1>8, <2>2, <2>3 DEF leave
  <1>9. CASE await_answer(c)
    <2>0. k.pc = "waiting" /\ k.reply # None /\ window' = window
      BY <1>2, <1>9 DEF await_answer
    <2>1. PICK n \in Connections :
             n = [k EXCEPT !.pc = IF k.kind = "disconnect" THEN "ending" ELSE "idle",
                           !.reply = None]
      BY <1>2 DEF Connections
    <2>2. /\ conn' = [conn EXCEPT ![c] = n] /\ n.pc \in {"idle", "ending"} /\ n.gen = k.gen
          /\ n.id = k.id
      BY <1>1, <1>2, <1>9, <2>1 DEF await_answer, Connections
    <2>3. told' = [told EXCEPT ![r] = k.reply]
      BY <1>2, <1>5, <1>9 DEF await_answer
    <2>4. told' \in [Requests -> Tellings] /\ k.reply \in {"ok", "error", "cancelled"}
      BY <1>1, <1>2, <2>0, <2>3 DEF Tellings
    <2>5. ASSUME NEW s \in Requests, told'[s] # told[s]
          PROVE  /\ s = <<c, n.id>>
                 /\ told'[s] \in {"unchanged", "cancelled", "error", "unavailable"} =>
                       Dead(s) \/ ~Issued(s)
                 /\ told'[s] = "cancelled" => Issued(s) /\ Unwritten(s)
                 /\ told'[s] # "closed"
      <3>1. s = r /\ told'[s] = k.reply
        BY <1>1, <2>3, <2>5
      <3> QED BY <1>2, <1>4, <1>5, <1>6, <2>0, <2>2, <2>4, <3>1 DEF ReplyOK
    <2>6. ComesTo(c, n) /\ Leaves(window.queue, window.cancelled)
      BY <1>1, <1>2, <1>3, <2>0, <2>2, <2>4 DEF ComesTo, Leaves
    <2>7. Tells(c, n)
      BY <2>5 DEF Tells
    <2> QED BY <1>2, <2>2, <2>6, <2>7, ConnectionTurned
  <1>10. ASSUME NEW at \in {"ending", "idle"}, NEW n \in Connections, k.pc \in {"waiting", "timing_out"},
                n.pc = at, n.gen = k.gen, n.id = k.id, conn' = [conn EXCEPT ![c] = n],
                window' = [window EXCEPT !.cancelled = @ \cup {r}],
                NEW what \in Tellings, told' = [told EXCEPT ![r] = what],
                what \notin {"cancelled", "error", "unavailable"},
                what = "unchanged" => Dead(r),
                what = "closed" => /\ window.takeover[conn[c].gen] = <<>>
                                   /\ conn[c].gen # window.bridge
         PROVE  Inv'
    <2>1. PICK x \in SUBSET Requests : x = window.cancelled \cup {r}
      BY <1>1, <1>5, <1>10
    <2>2. window' = [window EXCEPT !.queue = window.queue, !.cancelled = x]
      BY <1>1, <1>10, <2>1 DEF Window
    <2>3. told' \in [Requests -> Tellings]
      BY <1>1, <1>10
    <2>4. ASSUME NEW s \in Requests, told'[s] # told[s]
          PROVE  s = r /\ told'[s] = what
      BY <1>1, <1>10, <2>4
    <2>5. n.pc \notin {"new", "waiting"} /\ n.pc # "timing_out" /\ k.pc # "closed" /\ k.pc # "new"
      BY <1>10
    <2>6. ASSUME NEW s \in Requests, told'[s] # told[s]
          PROVE  /\ s = <<c, n.id>>
                 /\ told'[s] \in {"unchanged", "cancelled", "error", "unavailable"} =>
                       Dead(s) \/ ~Issued(s)
                 /\ told'[s] = "cancelled" => Issued(s) /\ Unwritten(s)
                 /\ told'[s] = "closed" => /\ Issued(s) /\ window.takeover[conn[c].gen] = <<>>
                                           /\ conn[c].gen # window.bridge
      BY <1>4, <1>5, <1>10, <2>4, <2>6
    <2>7. ComesTo(c, n) /\ Leaves(window.queue, x)
      BY <1>1, <1>2, <1>3, <1>10, <2>2, <2>3, <2>5 DEF ComesTo, Leaves
    <2>8. Tells(c, n) /\ x \subseteq window.cancelled \cup {<<c, conn[c].id>>}
      BY <1>2, <1>4, <2>1, <2>6 DEF Tells
    <2> QED BY <1>2, <1>10, <2>5, <2>7, <2>8, ConnectionTurned
  <1>11. CASE hang_up(c)
    <2>1. PICK n \in Connections : n = [k EXCEPT !.pc = "ending", !.reply = None]
      BY <1>2 DEF Connections
    <2>2. /\ conn' = [conn EXCEPT ![c] = n] /\ n.pc = "ending" /\ n.gen = k.gen
          /\ n.id = k.id /\ k.pc = "waiting"
      BY <1>1, <1>2, <1>11, <2>1 DEF hang_up, Connections
    <2>3. /\ window' = [window EXCEPT !.cancelled = @ \cup {r}]
          /\ told' = [told EXCEPT ![r] = "gone"] /\ "gone" \in Tellings
      BY <1>5, <1>11 DEF hang_up, Tellings
    <2> QED BY <1>10, <2>1, <2>2, <2>3
  <1>12. CASE await_timeout(c)
    <2>1. PICK n \in Connections : n = [k EXCEPT !.pc = "timing_out"]
      BY <1>2 DEF Connections
    <2>2. /\ conn' = [conn EXCEPT ![c] = n] /\ n.pc = "timing_out" /\ n.gen = k.gen
          /\ n.id = k.id /\ k.pc = "waiting" /\ window' = window /\ told' = told
      BY <1>1, <1>2, <1>12, <2>1 DEF await_timeout, Connections
    <2>3. ComesTo(c, n)
      BY <1>2, <1>3, <1>5, <2>2 DEF ComesTo
    <2> QED BY <1>0, <2>2, <2>3
  <1>13. CASE response_timeout(c)
    <2>1. PICK n \in Connections : n = [k EXCEPT !.pc = "idle"]
      BY <1>2 DEF Connections
    <2>2. /\ conn' = [conn EXCEPT ![c] = n] /\ n.pc = "idle" /\ n.gen = k.gen
          /\ n.id = k.id /\ k.pc = "timing_out"
      BY <1>1, <1>2, <1>13, <2>1 DEF response_timeout, Connections
    <2>3. /\ window' = [window EXCEPT !.cancelled = @ \cup {r}]
          /\ told' = [told EXCEPT ![r] = "timeout"] /\ "timeout" \in Tellings
      BY <1>5, <1>13 DEF response_timeout, Tellings
    <2> QED BY <1>10, <2>1, <2>2, <2>3
  <1>14. CASE await_ended(c)
    <2>1. PICK n \in Connections : n = [k EXCEPT !.pc = "ending"]
      BY <1>2 DEF Connections
    <2>2. /\ conn' = [conn EXCEPT ![c] = n] /\ n.pc = "ending" /\ n.gen = k.gen
          /\ n.id = k.id /\ k.pc = "waiting" /\ k.reply = None
      BY <1>1, <1>2, <1>14, <2>1 DEF await_ended, Connections
    <2>3. PICK what : what = TellSuperseded(c)
      OBVIOUS
    <2>4. /\ what \in {"closed", "unchanged", "changed"} /\ what \in Tellings
          /\ what = "closed" => window.takeover[conn[c].gen] = <<>>
      BY <2>3 DEF TellSuperseded, Tellings
    <2>5. /\ window' = [window EXCEPT !.cancelled = @ \cup {r}]
          /\ told' = [told EXCEPT ![r] = what]
          /\ window.bridge # k.gen \/ ~Held(r)
      BY <1>2, <1>5, <1>14, <2>3 DEF await_ended, Stopped
    <2>6. r \in Requests /\ ReplyOK(r) /\ Awaits(r)
      BY <1>5, <1>6, <2>2
    <2>7. window.bridge # k.gen
      BY <1>2, <1>4, <2>2, <2>5, <2>6 DEF ReplyOK
    <2>8. what = "unchanged" => Dead(r)
      BY <1>2, <1>4, <1>5, <2>2, <2>3, <2>6, <2>7, ActiveHere DEF Dead, ReplyOK
    <2> QED BY <1>2, <1>10, <2>1, <2>2, <2>4, <2>5, <2>7, <2>8
  <1>15. CASE close(c)
    <2>1. PICK n \in Connections : n = [k EXCEPT !.pc = "closed"]
      BY <1>2 DEF Connections
    <2>2. /\ conn' = [conn EXCEPT ![c] = n] /\ n.pc = "closed" /\ n.gen = k.gen
          /\ n.id = k.id /\ k.pc = "ending" /\ told' = told
      BY <1>1, <1>2, <1>15, <2>1 DEF close, Connections
    <2>0. ComesTo(c, n)
      BY <1>2, <1>3, <2>2 DEF ComesTo
    <2>3. CASE window' = window
      BY <1>0, <2>0, <2>2, <2>3
    <2>4. CASE /\ ~Stopped(c)
               /\ window' = [window EXCEPT
                               !.queue = Append(@, [req |-> <<c, 0>>, kind |-> "closed"])]
      <3>1. PICK u \in Seq(Entry) :
               u = Append(window.queue, [req |-> <<c, 0>>, kind |-> "closed"])
        <4>1. [req |-> <<c, 0>>, kind |-> "closed"] \in Entry
          BY ConstantAssumption DEF Entry
        <4> QED BY <1>1, <4>1, AddEntry
      <3>2. window' = [window EXCEPT !.queue = u, !.cancelled = window.cancelled]
        BY <1>1, <2>4, <3>1 DEF Window
      <3>3. window.bridge = k.gen /\ window.bridge # 0 /\ k.gen \in 1..window.gen
        BY <1>2, <1>3, <2>2, <2>4 DEF Stopped
      <3>4. Leaves(u, window.cancelled)
        BY <1>1, <2>2, <3>2 DEF Leaves
      <3>5. window'.queue = u /\ window'.cancelled = window.cancelled /\ conn'[c] = n
        BY <2>0, <3>4, ConnectionFields
      <3>6. Closes(c)
        BY <1>2, <2>2, <3>1, <3>3, <3>5 DEF Closes
      <3> QED BY <2>0, <3>4, <3>6, ConnectionMoved
    <2> QED BY <1>15, <2>3, <2>4 DEF close
  <1>16. ASSUME NEW kind \in Kinds \cap scenario, send(c, kind) PROVE Inv'
    <2>0. /\ k.pc = "idle" /\ window.bridge = k.gen /\ k.id < MaxRequests
          /\ k.gen \in 1..window.gen /\ kind \in Kinds
      BY <1>2, <1>3, <1>16 DEF send, Stopped
    <2>1. PICK i \in 0..MaxRequests : i = k.id + 1 /\ i # 0
      BY <1>2, <2>0, ConstantAssumption
    <2>2. PICK new \in Requests : new = <<c, i>> /\ new[1] = c /\ new[2] = i
      <3>1. <<c, i>> \in Requests /\ <<c, i>>[1] = c /\ <<c, i>>[2] = i
        BY <2>1, Request
      <3> QED BY <3>1, Zenon
    <2>3. CASE Len(window.queue) >= QueueCapacity
      <3>1. PICK n \in Connections :
               n = [k EXCEPT !.pc = "ending", !.id = i, !.kind = kind, !.reply = None]
        BY <1>2, <2>0 DEF Connections
      <3>2. /\ conn' = [conn EXCEPT ![c] = n] /\ n.pc = "ending" /\ n.gen = k.gen /\ n.id = i
        <4>1. conn' = [conn EXCEPT ![c].pc = "ending", ![c].id = @ + 1, ![c].kind = kind,
                                   ![c].reply = None]
          BY <1>16, <2>3 DEF send
        <4>2. conn' = [conn EXCEPT ![c] = [k EXCEPT !.pc = "ending", !.id = i, !.kind = kind,
                                                    !.reply = None]]
          BY <1>1, <1>2, <2>1, <4>1
        <4>3. n.pc = "ending" /\ n.gen = k.gen /\ n.id = i
          BY <1>2, <3>1 DEF Connections
        <4> QED BY <3>1, <4>2, <4>3
      <3>3. window' = window /\ told' = [told EXCEPT ![new] = "unavailable"]
        BY <1>2, <1>16, <2>1, <2>2, <2>3 DEF send
      <3>4. told' \in [Requests -> Tellings]
        BY <1>1, <3>3 DEF Tellings
      <3>5. ~Issued(new)
        BY <1>2, <2>1, <2>2 DEF Issued
      <3>6. ASSUME NEW s \in Requests, told'[s] # told[s]
            PROVE  s = <<c, n.id>> /\ ~Issued(s) /\ told'[s] = "unavailable"
        BY <1>1, <2>2, <3>2, <3>3, <3>5, <3>6
      <3>7. ComesTo(c, n) /\ Leaves(window.queue, window.cancelled)
        BY <1>1, <1>2, <2>0, <3>2, <3>3, <3>4 DEF ComesTo, Leaves
      <3>8. Tells(c, n)
        BY <3>6 DEF Tells
      <3> QED BY <1>2, <2>1, <3>2, <3>7, <3>8, ConnectionTurned
    <2>4. CASE ~(Len(window.queue) >= QueueCapacity)
      <3>1. PICK n \in Connections :
               n = [k EXCEPT !.pc = "waiting", !.id = i, !.kind = kind, !.reply = None]
        BY <1>2, <2>0 DEF Connections
      <3>2. /\ conn' = [conn EXCEPT ![c] = n] /\ n.pc = "waiting" /\ n.gen = k.gen /\ n.id = i
            /\ n.reply = None
        <4>1. conn' = [conn EXCEPT ![c].pc = "waiting", ![c].id = @ + 1, ![c].kind = kind,
                                   ![c].reply = None]
          BY <1>16, <2>4 DEF send
        <4>2. conn' = [conn EXCEPT ![c] = [k EXCEPT !.pc = "waiting", !.id = i, !.kind = kind,
                                                    !.reply = None]]
          BY <1>1, <1>2, <2>1, <4>1
        <4>3. n.pc = "waiting" /\ n.gen = k.gen /\ n.id = i /\ n.reply = None
          BY <1>2, <3>1 DEF Connections
        <4> QED BY <3>1, <4>2, <4>3
      <3>3. PICK u \in Seq(Entry) : u = Append(window.queue, [req |-> new, kind |-> kind])
        <4>1. [req |-> new, kind |-> kind] \in Entry
          BY <2>0, <2>2, Request DEF Entry
        <4> QED BY <1>1, <4>1, AddEntry
      <3>4. window' = [window EXCEPT !.queue = u] /\ told' = [told EXCEPT ![new] = @]
        BY <1>2, <1>16, <2>1, <2>2, <2>4, <3>3 DEF send
      <3>5. /\ window' = [window EXCEPT !.queue = u, !.cancelled = window.cancelled]
            /\ told' = told
        <4>1. told' = told
          BY <1>1, <3>4
        <4> QED BY <1>1, <3>4, <4>1, QueueOnly
      <3>6. ComesTo(c, n) /\ Leaves(u, window.cancelled)
        BY <1>1, <1>2, <2>0, <2>1, <3>2, <3>5 DEF ComesTo, Leaves
      <3>7. window'.queue = u /\ window'.cancelled = window.cancelled /\ conn'[c] = n
        BY <3>6, ConnectionFields
      <3>8. Sends(c)
        <4>1. /\ conn[c].gen = window.bridge /\ window.bridge # 0 /\ conn[c].id < MaxRequests
              /\ conn[c].gen = k.gen /\ i = conn[c].id + 1
          BY <1>2, <2>0, <2>1
        <4>2. conn'[c].gen = conn[c].gen /\ conn'[c].id = i /\ conn'[c].reply = None
          BY <3>2, <3>7, <4>1
        <4>3. new = <<c, conn[c].id + 1>>
          BY <2>2, <4>1
        <4>4. window'.queue = Append(window.queue, [req |-> <<c, conn[c].id + 1>>, kind |-> kind])
          BY <3>3, <3>7, <4>3
        <4> QED BY <2>0, <3>5, <3>7, <4>1, <4>2, <4>4 DEF Sends
      <3> QED BY <3>6, <3>8, ConnectionMoved
    <2> QED BY <2>3, <2>4
  <1> QED BY <1>7, <1>8, <1>9, <1>11, <1>12, <1>13, <1>14, <1>15, <1>16 DEF Connection

------------------------------------------------------------------------------
(* The consent broker *)

\* Attach requests move on: none that was answered is asked again.
LEMMA AnsweredGrows ==
    ASSUME Answered \subseteq Answered'
    PROVE  Cardinality(Answered) \in Nat /\ Cardinality(Answered)' \in Nat
           /\ Cardinality(Answered) <= Cardinality(Answered)'
  <1>1. IsFiniteSet(Answered')
    BY ConstantAssumption, FS_Subset DEF Answered
  <1> QED BY <1>1, FS_Subset, FS_CardinalityType

\* A step of the broker on the attach request a.
LEMMA BrokerKeeps ==
    ASSUME Inv, NEW a \in Clients, UNCHANGED scenario,
           ask(a) \/ release_late_grant(a) \/ receive_decision(a) \/ write_grant(a)
    PROVE  Inv'
  <1>1. /\ attach \in [Clients -> Attaches] /\ broker.request \in Clients \cup {None}
        /\ broker.abandoned \in SUBSET Clients /\ broker.failed \in BOOLEAN
        /\ broker \in [request : Clients \cup {None}, abandoned : SUBSET Clients,
                       failed : BOOLEAN]
        /\ UNCHANGED <<window, ui, doing, conn, applied, files, lost, told, scenario>>
        /\ None \notin Clients
    BY NoneApart DEF Inv, Types, ask, release_late_grant, receive_decision, write_grant
  <1>2. PICK p \in {"waiting", "taken", "done"} : attach' = [attach EXCEPT ![a].pc = p]
    BY DEF ask, release_late_grant, receive_decision, write_grant
  <1>3. /\ attach' \in [Clients -> Attaches] /\ attach'[a].pc = p
        /\ \A b \in Clients : attach'[b].gen = attach[b].gen
        /\ \A b \in Clients \ {a} : attach'[b] = attach[b]
    BY <1>1, <1>2 DEF Attaches
  <1>4. /\ broker' \in [request : Clients \cup {None}, abandoned : SUBSET Clients,
                        failed : BOOLEAN]
        /\ \/ broker'.request = broker.request
           \/ broker'.request = a /\ attach[a].pc = "new" /\ p = "waiting"
        /\ \/ broker'.abandoned = broker.abandoned
           \/ broker'.abandoned = broker.abandoned \cup {a} /\ p = "done"
        /\ broker.failed => broker'.failed
        /\ broker.request = a => broker'.abandoned = broker.abandoned \cup {a}
                                 \/ attach[a].pc # "waiting"
        /\ given \subseteq given' /\ given' \subseteq Nat \ {0}
        /\ attach[a].pc = "granted" => p = "taken" \/ broker'.failed
        /\ attach[a].pc = "taken" => attach[a].gen \in given' \/ broker'.failed
        /\ attach[a].pc # "done" /\ (doing = a => attach[a].pc # "waiting")
        /\ attach[a].pc # "new" => p \in {"taken", "done"}
        /\ p = "taken" => attach[a].pc = "granted"
    <2>1. /\ given \subseteq Nat \ {0} /\ attach[a].gen \in Nat
          /\ attach[a].pc = "taken" => attach[a].gen # 0
      BY <1>1 DEF Inv, Types, Control, BridgeOK, Attaches
    <2>2. CASE ask(a)
      <3>1. attach[a].pc = "new" /\ p = IF broker.request = None THEN "waiting" ELSE "done"
        BY <1>1, <1>3, <2>2 DEF ask, Attaches
      <3>2. given' = given
        BY <2>2 DEF ask
      <3>3. CASE broker.request = None
        <4>1. broker' = [broker EXCEPT !.request = a]
          BY <2>2, <3>3 DEF ask
        <4>2. /\ broker' \in [request : Clients \cup {None}, abandoned : SUBSET Clients,
                              failed : BOOLEAN]
              /\ broker'.request = a /\ broker'.abandoned = broker.abandoned
              /\ broker'.failed = broker.failed
          BY <1>1, <4>1
        <4> QED BY <1>1, <2>1, <3>1, <3>2, <3>3, <4>2
      <3>4. CASE broker.request # None
        <4>1. broker' = broker
          BY <2>2, <3>4 DEF ask
        <4> QED BY <1>1, <2>1, <3>1, <3>2, <3>4, <4>1
      <3> QED BY <3>3, <3>4
    <2>3. CASE release_late_grant(a)
      <3>1. attach[a].pc \in {"waiting", "granted"} /\ p = "done" /\ doing # a /\ given' = given
        BY <1>1, <1>3, <2>3 DEF release_late_grant, Attaches
      <3>2. PICK f \in BOOLEAN : f = (broker.failed \/ attach[a].pc = "granted")
        BY <1>1
      <3>3. broker' = [broker EXCEPT !.abandoned = @ \cup {a}, !.failed = f]
        BY <2>3, <3>2 DEF release_late_grant
      <3>4. /\ broker' \in [request : Clients \cup {None}, abandoned : SUBSET Clients,
                            failed : BOOLEAN]
            /\ broker'.request = broker.request
            /\ broker'.abandoned = broker.abandoned \cup {a} /\ broker'.failed = f
        BY <1>1, <3>3
      <3> QED BY <1>1, <2>1, <3>1, <3>2, <3>4
    <2>4. CASE receive_decision(a)
      <3>1. attach[a].pc = "granted" /\ p = "taken" /\ given' = given /\ broker' = broker
        BY <1>1, <1>3, <2>4 DEF receive_decision, Attaches
      <3> QED BY <1>1, <2>1, <3>1
    <2>5. CASE write_grant(a)
      <3>1. attach[a].pc = "taken" /\ p = "done"
        BY <1>1, <1>3, <2>5 DEF write_grant, Attaches
      <3>2. CASE given' = given \cup {attach[a].gen} /\ UNCHANGED broker
        BY <1>1, <2>1, <3>1, <3>2
      <3>3. CASE broker' = [broker EXCEPT !.failed = TRUE] /\ UNCHANGED given
        <4>1. /\ broker' \in [request : Clients \cup {None}, abandoned : SUBSET Clients,
                              failed : BOOLEAN]
              /\ broker'.request = broker.request
              /\ broker'.abandoned = broker.abandoned /\ broker'.failed
          BY <1>1, <3>3
        <4> QED BY <1>1, <2>1, <3>1, <3>3, <4>1
      <3> QED BY <2>5, <3>2, <3>3 DEF write_grant
    <2> QED BY <2>2, <2>3, <2>4, <2>5
  <1>5. Types'
    BY <1>1, <1>3, <1>4 DEF Inv, Types
  <1>6. Work' /\ Answers'
    BY <1>1, IdleWork DEF Inv, Idle, SameBridge, SameQueue, SameDocument, SameMarks
  <1>7. ThreadOK'
    BY <1>1, <1>3, <1>4 DEF Inv, Control, ThreadOK
  <1>8. BrokerOK'
    <2>1. doing = a => attach[a].pc = "waiting"
      BY <1>1, NoneApart DEF Inv, Control, ThreadOK
    <2> QED BY <1>1, <1>3, <1>4, <2>1 DEF Inv, Control, BrokerOK
  <1>9. BridgeOK'
    <2>1. Answered \subseteq Answered'
      BY <1>1, <1>3, <1>4 DEF Answered
    <2>2. window.gen <= 1 + Cardinality(Answered)'
      BY <2>1, AnsweredGrows, Fields DEF Inv, Types, Control, BridgeOK
    <2> QED BY <1>1, <1>3, <1>4, <2>2 DEF Inv, Control, BridgeOK
  <1>10. AttachedIsReal'
    <2> SUFFICES ASSUME window.attached
                 PROVE  /\ window.bridge # 0
                        /\ \/ window.bridge \in given' \/ broker'.failed
                           \/ \E b \in Clients : /\ attach'[b].pc \in {"granted", "taken"}
                                                 /\ attach'[b].gen = window.bridge
      BY <1>1 DEF AttachedIsReal
    <2>1. /\ window.bridge # 0
          /\ \/ window.bridge \in given \/ broker.failed
             \/ \E b \in Clients : /\ attach[b].pc \in {"granted", "taken"}
                                   /\ attach[b].gen = window.bridge
      BY DEF Inv, Control, AttachedIsReal
    <2>2. CASE window.bridge \in given \/ broker.failed
      BY <1>4, <2>1, <2>2
    <2>3. ASSUME NEW b \in Clients, attach[b].pc \in {"granted", "taken"},
                 attach[b].gen = window.bridge
          PROVE  \/ window.bridge \in given' \/ broker'.failed
                 \/ attach'[b].pc \in {"granted", "taken"} /\ attach'[b].gen = window.bridge
      <3>1. CASE b # a
        BY <1>3, <2>3, <3>1
      <3>2. CASE b = a
        BY <1>3, <1>4, <2>3, <3>2
      <3> QED BY <3>1, <3>2
    <2> QED BY <2>1, <2>2, <2>3
  <1> QED BY <1>5, <1>6, <1>7, <1>8, <1>9, <1>10 DEF Inv, Control

------------------------------------------------------------------------------
(* What a step may do with a request that was revoked *)

RevokedStep ==
    \A r \in window.cancelled :
        /\ Acts(r) => Checked(r) \/ window.gate[r] = "publishing"
        /\ Checked(r)' => Checked(r) /\ ~Acts(r)

\* Settings stay, go, or go back to those an export found.
SettingsBack ==
    \/ window'.settings \in {window.settings, None}
    \/ /\ window.job # None /\ window.job.kind = "drawings"
       /\ window'.settings = window.job.previous

\* Settings that go back are not those of a request that was revoked.
LEMMA NoneKept ==
    ASSUME Inv, SettingsBack, NEW r \in window.cancelled, window'.settings = r
    PROVE  window.settings = r \/ r \in files \cup lost
  <1>1. r # None
    BY Fields, NoneApart DEF Inv, Types
  <1>2. CASE /\ window.job # None /\ window.job.kind = "drawings"
             /\ window'.settings = window.job.previous
    <2>1. JobIs(window.job.req)
      BY <1>2, Fields DEF Inv, Types, Work, JobOK, IsJob
    <2>2. window.job.previous \in {None} \cup files \cup lost
      BY <1>2, <2>1 DEF JobIs
    <2> QED BY <1>1, <1>2, <2>2
  <1> QED BY <1>1, <1>2 DEF SettingsBack

\* A step that checks and does nothing new, and that at most puts settings back.
LEMMA QuietStep ==
    ASSUME Inv, doing' \in {doing, None} \cup Clients, UNCHANGED <<applied, files>>,
           ui' = "publishing" => ui = "publishing" /\ window'.job = window.job,
           SettingsBack
    PROVE  RevokedStep
  <1> SUFFICES ASSUME NEW r \in window.cancelled
               PROVE  ~Acts(r) /\ (Checked(r)' => Checked(r))
    BY DEF RevokedStep
  <1>1. r \notin Clients /\ r # None
    BY Fields, NoneApart DEF Inv, Types
  <1>2. ~Acts(r)
    BY NoneKept DEF Acts
  <1> QED BY <1>1, <1>2 DEF Checked

\* What takes nothing from the queue executes nothing of a revoked request.
LEMMA MovesAreQuiet ==
    ASSUME Inv, ui' # "publishing"
    PROVE  /\ Idle => RevokedStep
           /\ Released => RevokedStep
           /\ TakenOver => RevokedStep
  <1>1. Idle => RevokedStep
    BY QuietStep DEF Idle, SameDocument, SettingsBack
  <1>2. Released => RevokedStep
    BY QuietStep DEF Released, SettingsBack
  <1>3. ASSUME TakenOver PROVE RevokedStep
    BY <1>3, QuietStep, UndoneJob DEF TakenOver, SettingsBack
  <1> QED BY <1>1, <1>2, <1>3

\* A request that is taken from the queue begins only if it still stands.
LEMMA TakeStepRevokes ==
    ASSUME Inv, NEW q, TakeStep(q), ui' # "publishing"
    PROVE  RevokedStep
  <1>1. UNCHANGED <<applied, files>> /\ window'.settings = window.settings
    BY DEF TakeStep, Passed, AnsweredNow, Runs, BecomesJob
  <1>2. CASE doing' = None
    BY <1>1, <1>2, QuietStep DEF SettingsBack
  <1>3. CASE Runs(q)
    BY <1>1, <1>3 DEF RevokedStep, Acts, Checked, Runs
  <1> QED BY <1>2, <1>3 DEF TakeStep, Passed, AnsweredNow, BecomesJob

------------------------------------------------------------------------------
(* A window is granted, taken over, or given up *)

\* A window w that still stands, or whose bridge is gone.
Standing(w) ==
    /\ w \in Window /\ w.gen = window.gen /\ w.takeover = window.takeover
    /\ w.bridge \in {0, window.bridge}
    /\ w.bridge # 0 => ui # "superseding"
    /\ w.attached => window.attached /\ w.bridge = window.bridge /\ ~broker.failed

\* The client a is let in or not, or nobody asked.
Answering(w, a) ==
    \/ window' = w /\ attach' = attach
    \/ a \in Clients /\ attach[a].pc = "waiting" /\ Allow(w, a)
BrokerRead(a) == broker' = Emptied \/ (broker' = broker /\ doing = a)

\* What the window keeps of w.
Kept(w) ==
    /\ window' \in Window
    /\ \/ window'.bridge = w.bridge
       \/ w.bridge = 0 /\ window'.bridge = window.gen + 1
    /\ window'.queue = w.queue /\ window'.started = w.started /\ window'.job = w.job
    /\ window'.epoch = w.epoch /\ window'.document = w.document
    /\ window'.settings = w.settings /\ window'.cancelled = w.cancelled
    /\ window'.gate = w.gate /\ window'.takeover = w.takeover

\* The three answers.
Unanswered(w) == window' = w /\ attach' = attach
Refused(w, a) ==
    /\ w.bridge = 0 /\ window' = w
    /\ a \in Clients /\ attach[a].pc = "waiting" /\ attach' \in [Clients -> Attaches]
    /\ attach'[a].pc = "done" /\ \A b \in Clients \ {a} : attach'[b] = attach[b]
LetIn(w, a) ==
    /\ window' \in Window /\ window'.bridge # 0 /\ window'.takeover = w.takeover
    /\ \/ window'.bridge = w.bridge /\ window'.gen = w.gen
       \/ window'.bridge = w.gen + 1 /\ window'.gen = w.gen + 1
    /\ a \in Clients /\ attach[a].pc = "waiting" /\ attach' \in [Clients -> Attaches]
    /\ attach'[a].pc = "granted" /\ attach'[a].gen = window'.bridge
    /\ \A b \in Clients \ {a} : attach'[b] = attach[b]

\* The broker answers a client in one of three ways: not at all, with a refusal, by letting it in.
LEMMA Answers3 ==
    ASSUME Inv, NEW w, NEW a, Standing(w), Answering(w, a)
    PROVE  Kept(w) /\ (Unanswered(w) \/ Refused(w, a) \/ LetIn(w, a))
  <1>1. /\ w \in Window /\ w.gen \in Nat /\ w.bridge \in Nat /\ w.gen = window.gen
        /\ attach \in [Clients -> Attaches]
    BY Fields DEF Standing, Inv, Types
  <1>2. CASE Unanswered(w)
    BY <1>1, <1>2 DEF Kept, Unanswered
  <1>3. CASE /\ a \in Clients /\ attach[a].pc = "waiting" /\ w.bridge = 0 /\ window' = w
             /\ attach' = [attach EXCEPT ![a].pc = "done"]
    <2>1. /\ attach' \in [Clients -> Attaches] /\ attach'[a].pc = "done"
          /\ \A b \in Clients \ {a} : attach'[b] = attach[b]
      BY <1>1, <1>3 DEF Attaches
    <2> QED BY <1>1, <1>3, <2>1 DEF Kept, Refused
  <1>4. CASE /\ a \in Clients /\ attach[a].pc = "waiting" /\ window' = Granted(w)
             /\ attach' = [attach EXCEPT ![a] = [pc |-> "granted", gen |-> window'.bridge]]
    <2>1. PICK g \in Nat, n \in Nat :
             /\ window' = [w EXCEPT !.bridge = g, !.gen = n, !.attached = TRUE] /\ g # 0
             /\ \/ g = w.bridge /\ n = w.gen
                \/ w.bridge = 0 /\ g = w.gen + 1 /\ n = w.gen + 1
      <3>1. CASE w.bridge = 0
        <4>1. w.gen + 1 \in Nat /\ w.gen + 1 # 0
          BY <1>1
        <4>2. window' = [w EXCEPT !.bridge = w.gen + 1, !.gen = w.gen + 1, !.attached = TRUE]
          BY <1>4, <3>1 DEF Granted
        <4> QED BY <3>1, <4>1, <4>2
      <3>2. CASE w.bridge # 0
        <4>1. window' = [w EXCEPT !.attached = TRUE]
          BY <1>4, <3>2 DEF Granted
        <4>2. window' = [w EXCEPT !.bridge = w.bridge, !.gen = w.gen, !.attached = TRUE]
          BY <1>1, <4>1 DEF Window
        <4> QED BY <1>1, <3>2, <4>2
      <3> QED BY <3>1, <3>2, Zenon
    <2>2. /\ window' \in Window /\ window'.bridge = g /\ window'.gen = n
          /\ window'.queue = w.queue /\ window'.started = w.started /\ window'.job = w.job
          /\ window'.epoch = w.epoch /\ window'.document = w.document
          /\ window'.settings = w.settings /\ window'.cancelled = w.cancelled
          /\ window'.gate = w.gate /\ window'.takeover = w.takeover
      BY <1>1, <2>1 DEF Window
    <2>3. /\ attach' \in [Clients -> Attaches] /\ attach'[a].pc = "granted"
          /\ attach'[a].gen = g /\ \A b \in Clients \ {a} : attach'[b] = attach[b]
      BY <1>1, <1>4, <2>2 DEF Attaches
    <2> QED BY <1>1, <1>4, <2>1, <2>2, <2>3 DEF Kept, LetIn
  <1> QED BY <1>2, <1>3, <1>4 DEF Answering, Allow, Unanswered

\* The broker, the bridge and the UI thread fit each other after the answer.
LEMMA AllowedControl ==
    ASSUME Inv, NEW w, NEW a, Standing(w), Answering(w, a), BrokerRead(a), SameConns,
           doing' = None, ui' \in {"events", "jobs"}, given' = given
    PROVE  /\ Control' /\ Kept(w) /\ attach' \in [Clients -> Attaches]
           /\ broker' \in [request : Clients \cup {None}, abandoned : SUBSET Clients,
                           failed : BOOLEAN]
  <1>1. Kept(w) /\ (Unanswered(w) \/ Refused(w, a) \/ LetIn(w, a))
    BY Answers3
  <1>2. /\ broker \in [request : Clients \cup {None}, abandoned : SUBSET Clients,
                       failed : BOOLEAN]
        /\ attach \in [Clients -> Attaches] /\ window.gen \in Nat /\ window.bridge \in Nat
        /\ w.bridge \in Nat
    BY Fields DEF Inv, Types, Standing
  <1>3. attach' \in [Clients -> Attaches]
    BY <1>1, <1>2 DEF Unanswered, Refused, LetIn
  <1>4. /\ broker' \in [request : Clients \cup {None}, abandoned : SUBSET Clients,
                        failed : BOOLEAN]
        /\ broker'.abandoned = broker.abandoned
        /\ \/ broker'.request = None
           \/ broker' = broker /\ doing = a
    BY <1>2 DEF BrokerRead, Emptied
  <1>5. ThreadOK'
    BY DEF ThreadOK
  <1>6. \A b \in Clients : attach'[b] = attach[b] \/ (b = a /\ attach[a].pc = "waiting")
    BY <1>1 DEF Unanswered, Refused, LetIn
  <1>7. BrokerOK'
    <2>1. \A b \in broker'.abandoned : attach'[b].pc = "done"
      BY <1>2, <1>4, <1>6 DEF Inv, Control, BrokerOK
    <2>2. ASSUME broker'.request # None, broker'.request \notin broker'.abandoned
          PROVE  attach'[broker'.request].pc = "waiting" /\ doing' # broker'.request
      BY <1>2, <1>4, <1>6, <2>2 DEF Inv, Control, BrokerOK
    <2> QED BY <2>1, <2>2 DEF BrokerOK
  <1>8. BridgeOK'
    <2>1. window'.gen \in Nat /\ window'.bridge \in {0, window'.gen}
      BY <1>1, Fields DEF Kept, Unanswered, Refused, LetIn, Standing, Inv, Control, BridgeOK
    <2>2. window'.gen <= 1 + Cardinality(Answered)'
      <3>1. Answered \subseteq Answered'
        BY <1>6 DEF Answered
      <3>2. CASE window'.gen = window.gen
        BY <1>2, <3>1, <3>2, AnsweredGrows DEF Inv, Control, BridgeOK
      <3>3. CASE LetIn(w, a) /\ window'.gen = w.gen + 1
        <4>1. Answered' = Answered \cup {a} /\ a \notin Answered
          BY <1>6, <3>3 DEF Answered, LetIn
        <4>2. Cardinality(Answered)' = Cardinality(Answered) + 1
          BY <4>1, AnsweredCard, FS_AddElement
        <4> QED BY <1>2, <3>3, <4>2, AnsweredCard DEF Inv, Control, BridgeOK, Standing
      <3> QED BY <1>1, <3>2, <3>3 DEF Unanswered, Refused, LetIn, Standing
    <2>3. \A b \in Clients : attach'[b].pc \in {"granted", "taken"} => attach'[b].gen # 0
      BY <1>1 DEF Unanswered, Refused, LetIn, Inv, Control, BridgeOK
    <2>4. window.gen <= window'.gen
      BY <1>1, <1>2 DEF Unanswered, Refused, LetIn, Standing
    <2>5. ConnsOK(conn', window'.gen)
      <3>1. ConnsOK(conn', window.gen)
        BY SameConnsOK
      <3> QED BY <1>2, <2>1, <2>4, <3>1 DEF ConnsOK
    <2>6. ASSUME NEW g \in Gens, window'.takeover[g] # <<>>
          PROVE  g <= window'.gen /\ g # window'.bridge
      <3>1. window.takeover[g] # <<>> /\ g \in Nat \ {0}
        BY <1>1, <2>6, AnsweredCard DEF Kept, Standing, Gens
      <3>2. g <= window.gen /\ (g = window.bridge => ui = "superseding")
        BY <2>6, <3>1 DEF Inv, Control, BridgeOK
      <3>3. /\ window'.bridge \in {w.bridge, window.gen + 1}
            /\ w.bridge # 0 => w.bridge = window.bridge /\ ui # "superseding"
        BY <1>1 DEF Kept, Standing
      <3> QED BY <1>2, <2>1, <2>4, <3>1, <3>2, <3>3
    <2> QED BY <2>1, <2>2, <2>3, <2>5, <2>6 DEF BridgeOK, ConnsOK
  <1>9. AttachedIsReal'
    <2>1. CASE LetIn(w, a)
      BY <2>1 DEF LetIn, AttachedIsReal
    <2>2. CASE Refused(w, a)
      BY <2>2 DEF Refused, AttachedIsReal, Standing, Inv, Control
    <2>3. CASE Unanswered(w)
      BY <2>3 DEF Unanswered, AttachedIsReal, Standing, Inv, Control
    <2> QED BY <1>1, <2>1, <2>2, <2>3
  <1> QED BY <1>1, <1>3, <1>4, <1>5, <1>7, <1>8, <1>9 DEF Control

\* A window without a bridge has no work.
LEMMA NoBridge ==
    ASSUME Inv, window.bridge = 0
    PROVE  window.queue = <<>> /\ window.job = None /\ doing \notin Requests
  <1>1. window.queue \in Seq(Entry)
    BY Fields DEF Inv, Types
  <1>2. ASSUME window.queue # <<>> PROVE FALSE
    BY <1>1, <1>2, TakeHead, QueuedIsFresh DEF EntryOK
  <1>3. ASSUME window.job # None PROVE FALSE
    <2>1. window.job.req \in Requests
      BY <1>3, Fields DEF Inv, Types
    <2> QED BY <1>3, <2>1, ActiveHere DEF Active, IsJob
  <1>4. doing \notin Requests
    BY ActiveHere DEF Active
  <1> QED BY <1>2, <1>3, <1>4

\* LiveBridge::drop, field by field.
LEMMA Dropped ==
    ASSUME NEW v \in Window
    PROVE  LET w == Drop(v) IN
           /\ w \in Window /\ w.bridge = 0 /\ w.gen = v.gen
           /\ w.attached = v.attached /\ w.takeover = v.takeover
           /\ w.queue = <<>> /\ w.job = None /\ \A c \in Conns : w.started[c] = None
           /\ w.epoch = v.epoch /\ w.document = v.document
           /\ w.settings = v.settings /\ w.gate = v.gate /\ w.cancelled = v.cancelled
  <1>1. PICK s \in [Conns -> Starts \cup {None}], e \in Seq(Entry), z \in Nat :
           s = [c \in Conns |-> None] /\ e = <<>> /\ z = 0
    <2>1. /\ [c \in Conns |-> None] \in [Conns -> Starts \cup {None}]
          /\ <<>> \in Seq(Entry) /\ 0 \in Nat
      OBVIOUS
    <2> QED BY <2>1
  <1>2. PICK w : w = Drop(v)
    OBVIOUS
  <1>3. w = [v EXCEPT !.bridge = z, !.queue = e, !.started = s, !.session = None, !.job = None]
    BY <1>1, <1>2 DEF Drop
  <1>4. /\ w \in Window /\ w.bridge = z /\ w.gen = v.gen
        /\ w.attached = v.attached /\ w.takeover = v.takeover
        /\ w.queue = e /\ w.job = None /\ w.started = s
        /\ w.epoch = v.epoch /\ w.document = v.document
        /\ w.settings = v.settings /\ w.gate = v.gate /\ w.cancelled = v.cancelled
    BY <1>3 DEF Window
  <1> QED BY <1>1, <1>2, <1>4

\* abandon_jobs, field by field.
LEMMA Abandoned ==
    ASSUME NEW v \in Window
    PROVE  LET u == Abandon(v) IN
           /\ u \in Window /\ u.bridge = v.bridge /\ u.gen = v.gen
           /\ u.attached = v.attached /\ u.takeover = v.takeover
           /\ u.queue = v.queue /\ u.job = v.job /\ u.started = v.started
           /\ u.epoch = v.epoch /\ u.document = v.document
           /\ u.settings = IF v.job = None THEN v.settings ELSE Undone(v, v.job)
           /\ u.gate = IF v.job = None THEN v.gate ELSE Gated(v, v.job)
           /\ u.cancelled = IF v.job = None THEN v.cancelled ELSE v.cancelled \cup {v.job.req}
  <1>1. v.gate \in [Requests -> Gates] /\ v.settings \in Settings
    BY Fields DEF Settings
  <1>2. PICK g \in [Requests -> Gates], x \in SUBSET Requests, t \in Settings :
           /\ t = IF v.job = None THEN v.settings ELSE Undone(v, v.job)
           /\ g = IF v.job = None THEN v.gate ELSE Gated(v, v.job)
           /\ x = IF v.job = None THEN v.cancelled ELSE v.cancelled \cup {v.job.req}
    <2>1. CASE v.job = None
      BY <1>1, <2>1, Fields
    <2>2. CASE v.job # None
      <3>1. v.job.req \in Requests /\ v.job.previous \in Settings
        BY <2>2, Fields
      <3>2. Undone(v, v.job) \in Settings
        BY <1>1, <3>1 DEF Undone
      <3>3. Gated(v, v.job) \in [Requests -> Gates]
        BY <1>1, <3>1 DEF Gated, Gates
      <3>4. v.cancelled \cup {v.job.req} \in SUBSET Requests
        BY <3>1, Fields
      <3> QED BY <2>2, <3>2, <3>3, <3>4
    <2> QED BY <2>1, <2>2
  <1>3. PICK u : u = Abandon(v)
    OBVIOUS
  <1>4. u = [v EXCEPT !.cancelled = x, !.settings = t, !.gate = g]
    <2>1. CASE v.job = None
      <3>1. v = [v EXCEPT !.cancelled = v.cancelled, !.settings = v.settings, !.gate = v.gate]
        BY DEF Window
      <3> QED BY <1>2, <1>3, <2>1, <3>1 DEF Abandon
    <2>2. CASE v.job # None
      BY <1>2, <1>3, <2>2 DEF Abandon
    <2> QED BY <2>1, <2>2
  <1>5. /\ u \in Window /\ u.bridge = v.bridge /\ u.gen = v.gen
        /\ u.attached = v.attached /\ u.takeover = v.takeover
        /\ u.queue = v.queue /\ u.job = v.job /\ u.started = v.started
        /\ u.epoch = v.epoch /\ u.document = v.document
        /\ u.settings = t /\ u.gate = g /\ u.cancelled = x
    BY <1>2, <1>4, ZenonT(30) DEF Window
  <1> QED BY <1>2, <1>3, <1>5

\* disable_live_bridge: nothing is left of the work, and the job is undone.
LEMMA Disabled ==
    ASSUME Inv
    PROVE  LET w == Disable(window) IN
           /\ w \in Window /\ w.bridge = 0 /\ w.gen = window.gen
           /\ w.attached = window.attached /\ w.takeover = window.takeover
           /\ w.queue = <<>> /\ w.job = None
           /\ \A c \in Conns : w.started[c] \in {None, window.started[c]}
           /\ w.epoch = window.epoch /\ w.document = window.document
           /\ w.settings = IF window.job = None THEN window.settings
                           ELSE Undone(window, window.job)
           /\ w.gate = IF window.job = None THEN window.gate ELSE Gated(window, window.job)
           /\ w.cancelled = IF window.job = None THEN window.cancelled
                            ELSE window.cancelled \cup {window.job.req}
  <1>1. window \in Window
    BY DEF Inv, Types
  <1>2. CASE window.bridge = 0
    BY <1>1, <1>2, NoBridge DEF Disable
  <1>3. CASE window.bridge # 0
    <2>1. PICK v : v = Abandon(window)
      OBVIOUS
    <2>2. v \in Window /\ Disable(window) = Drop(v)
      BY <1>1, <1>3, <2>1, Abandoned DEF Disable
    <2>3. /\ v.gen = window.gen /\ v.attached = window.attached
          /\ v.takeover = window.takeover
          /\ v.epoch = window.epoch /\ v.document = window.document
          /\ v.settings = IF window.job = None THEN window.settings
                          ELSE Undone(window, window.job)
          /\ v.gate = IF window.job = None THEN window.gate ELSE Gated(window, window.job)
          /\ v.cancelled = IF window.job = None THEN window.cancelled
                           ELSE window.cancelled \cup {window.job.req}
      BY <1>1, <2>1, Abandoned
    <2>4. PICK w : w = Drop(v)
      OBVIOUS
    <2>5. /\ w \in Window /\ w.bridge = 0 /\ w.gen = v.gen
          /\ w.attached = v.attached /\ w.takeover = v.takeover
          /\ w.queue = <<>> /\ w.job = None /\ \A c \in Conns : w.started[c] = None
          /\ w.epoch = v.epoch /\ w.document = v.document
          /\ w.settings = v.settings /\ w.gate = v.gate /\ w.cancelled = v.cancelled
      BY <2>2, <2>4, Dropped
    <2> QED BY <2>2, <2>3, <2>4, <2>5
  <1> QED BY <1>2, <1>3

\* The bridge goes and its job is undone: the work is released.
LEMMA Goes ==
    ASSUME Inv, JobUndone, window'.bridge \notin 1..window.gen,
           window'.takeover = window.takeover, window'.queue = <<>>, window'.job = None,
           \A c \in Conns : window'.started[c] \in {None, window.started[c]},
           window'.epoch = window.epoch, doing' = None,
           UNCHANGED <<conn, applied, files, lost, told>>
    PROVE  Released
  <1>1. /\ \/ window'.settings = window.settings
           \/ /\ window.job # None /\ window.job.kind = "drawings"
              /\ window'.settings = window.job.previous
        /\ window.job # None => window'.settings # window.job.req
        /\ \A r \in Requests : r \in window'.cancelled => r \in window.cancelled \/ IsJob(r)
        /\ \A r \in Requests : window'.gate[r] = window.gate[r] \/ IsJob(r)
    BY UndoneJob
  <1>2. IsJob(window.settings) => window'.settings # window.settings
    BY <1>1 DEF IsJob
  <1>3. SameConns /\ \A c \in Conns : conn'[c].reply \in {"ok", conn[c].reply}
    BY DEF SameConns
  <1> QED BY <1>1, <1>2, <1>3 DEF Released

\* The types of a step that answers a client.
LEMMA AnsweredTypes ==
    ASSUME Inv, window' \in Window, conn' \in [Conns -> Connections],
           ui' \in {"events", "superseding", "jobs", "queue", "executing"},
           doing' \in Requests \cup Clients \cup {None}, attach' \in [Clients -> Attaches],
           broker' \in [request : Clients \cup {None}, abandoned : SUBSET Clients,
                        failed : BOOLEAN],
           lost' \subseteq Requests, UNCHANGED <<given, applied, files, told, scenario>>
    PROVE  Types'
  BY DEF Inv, Types

\* disconnect_ai.
LEMMA DisconnectAIKeeps ==
    ASSUME Inv, ui = "events", disconnect_ai,
           UNCHANGED <<ui, doing, conn, attach, broker, given, applied, files, lost, told,
                       scenario>>
    PROVE  Inv' /\ RevokedStep
  <1>1. PICK v : v = Disable(window)
    OBVIOUS
  <1>2. /\ v \in Window /\ v.bridge = 0 /\ v.gen = window.gen /\ v.takeover = window.takeover
        /\ v.queue = <<>> /\ v.job = None
        /\ \A c \in Conns : v.started[c] \in {None, window.started[c]}
        /\ v.epoch = window.epoch /\ v.document = window.document
        /\ v.settings = IF window.job = None THEN window.settings
                        ELSE Undone(window, window.job)
        /\ v.gate = IF window.job = None THEN window.gate ELSE Gated(window, window.job)
        /\ v.cancelled = IF window.job = None THEN window.cancelled
                         ELSE window.cancelled \cup {window.job.req}
    BY <1>1, Disabled
  <1>3. window' = [v EXCEPT !.attached = FALSE, !.launched = FALSE] /\ doing = None
    BY <1>1 DEF disconnect_ai, Inv, Control, ThreadOK
  <1>4. /\ window' \in Window /\ window'.bridge = 0 /\ window'.gen = v.gen
        /\ window'.attached = FALSE
        /\ window'.takeover = v.takeover /\ window'.queue = v.queue /\ window'.job = v.job
        /\ window'.started = v.started /\ window'.epoch = v.epoch
        /\ window'.document = v.document /\ window'.settings = v.settings
        /\ window'.gate = v.gate /\ window'.cancelled = v.cancelled
    BY <1>2, <1>3, ZenonT(30) DEF Window
  <1>5. JobUndone
    BY <1>2, <1>4 DEF JobUndone, SameMarks
  <1>6. window'.bridge \notin 1..window.gen
    BY <1>4
  <1>7. Released
    BY <1>2, <1>3, <1>4, <1>5, <1>6, Goes
  <1>8. Work' /\ Answers'
    BY <1>7, ReleasedWork
  <1>9. Standing(window') /\ Answering(window', None) /\ BrokerRead(None) /\ SameConns
    BY <1>2, <1>3, <1>4 DEF Standing, Answering, BrokerRead, SameConns
  <1>10. Control'
    BY <1>3, <1>9, AllowedControl
  <1>11. Types'
    BY <1>4 DEF Inv, Types
  <1>12. ui' # "publishing"
    OBVIOUS
  <1> QED BY <1>7, <1>8, <1>10, <1>11, <1>12, MovesAreQuiet DEF Inv

\* The rest of a takeover: the bridge is dropped, its job was undone before.
LEMMA SupersedeKeeps ==
    ASSUME Inv, supersede_live_bridge, UNCHANGED scenario
    PROVE  Inv' /\ RevokedStep
  <1>1. /\ ui = "superseding" /\ doing \in Clients /\ attach[doing].pc = "waiting"
        /\ doing' = None /\ ui' \in {"events", "jobs"} /\ ~window.attached
        /\ window.job # None => window.settings # window.job.req
        /\ window \in Window /\ window.gen \in Nat
        /\ UNCHANGED <<conn, broker, given, applied, files, lost, told, scenario>>
    BY Fields DEF supersede_live_bridge, Inv, Control, ThreadOK, Types
  <1>2. PICK w : w = Drop(window)
    OBVIOUS
  <1>3. /\ w \in Window /\ w.bridge = 0 /\ w.gen = window.gen
        /\ w.attached = window.attached /\ w.takeover = window.takeover
        /\ w.queue = <<>> /\ w.job = None /\ \A c \in Conns : w.started[c] = None
        /\ w.epoch = window.epoch /\ w.settings = window.settings
        /\ w.gate = window.gate /\ w.cancelled = window.cancelled
    BY <1>1, <1>2, Dropped
  <1>4. Standing(w)
    BY <1>1, <1>3 DEF Standing
  <1>5. Answering(w, doing) /\ BrokerRead(doing) /\ SameConns
    BY <1>1, <1>2 DEF Answering, BrokerRead, SameConns, supersede_live_bridge
  <1>6. /\ Control' /\ Kept(w) /\ attach' \in [Clients -> Attaches]
        /\ broker' \in [request : Clients \cup {None}, abandoned : SUBSET Clients,
                        failed : BOOLEAN]
    BY <1>1, <1>4, <1>5, AllowedControl
  <1>7. window'.bridge \notin 1..window.gen
    BY <1>1, <1>3, <1>6 DEF Kept
  <1>8. IsJob(window.settings) => FALSE
    BY <1>1 DEF IsJob
  <1>9. Released
    BY <1>1, <1>3, <1>5, <1>6, <1>7, <1>8 DEF Kept, Released, SameConns
  <1>10. Types'
    BY <1>1, <1>6, AnsweredTypes DEF Kept, Inv, Types
  <1> QED BY <1>1, <1>6, <1>9, <1>10, ReleasedWork, MovesAreQuiet DEF Inv

\* A request of the broker that somebody still waits for.
LEMMA AskingIs ==
    ASSUME Inv
    PROVE  /\ Asking \in Clients \cup {None}
           /\ Asking # None => attach[Asking].pc = "waiting"
           /\ Emptied \in [request : Clients \cup {None}, abandoned : SUBSET Clients,
                           failed : BOOLEAN]
           /\ Emptied.request = None /\ Emptied.abandoned = broker.abandoned
  <1>1. /\ broker \in [request : Clients \cup {None}, abandoned : SUBSET Clients,
                       failed : BOOLEAN]
        /\ broker.request \in Clients \cup {None}
    BY DEF Inv, Types
  <1>2. /\ Asking \in Clients \cup {None}
        /\ Asking # None => attach[Asking].pc = "waiting"
    BY <1>1 DEF Asking, Inv, Control, BrokerOK
  <1> QED BY <1>1, <1>2 DEF Emptied

\* Consent on a window w that stands or was given up.
LEMMA ConsentAnswers ==
    ASSUME Inv, NEW w, Consent(w)
    PROVE  Answering(w, Asking) /\ BrokerRead(Asking) /\ doing' = doing
  <1>1. Asking # None => Asking \in Clients /\ attach[Asking].pc = "waiting"
    BY AskingIs
  <1> QED BY <1>1 DEF Consent, Answering, BrokerRead

\* poll_live_consent: the client that asks is answered by the bridge that stands, or after
\* the bridge of a client that is gone was disabled.
LEMMA ConsentKeeps ==
    ASSUME Inv, NEW w, Standing(w), Consent(w), ui = "events", ui' \in {"events", "jobs"},
           \/ w = window /\ window.bridge # 0
           \/ /\ w.bridge = 0 /\ w.queue = <<>> /\ w.job = None /\ w.epoch = window.epoch
              /\ \A c \in Conns : w.started[c] \in {None, window.started[c]}
              /\ w.settings = IF window.job = None THEN window.settings
                              ELSE Undone(window, window.job)
              /\ w.gate = IF window.job = None THEN window.gate ELSE Gated(window, window.job)
              /\ w.cancelled = IF window.job = None THEN window.cancelled
                               ELSE window.cancelled \cup {window.job.req},
           UNCHANGED <<conn, given, applied, files, lost, told, scenario>>
    PROVE  Inv' /\ RevokedStep
  <1>1. Answering(w, Asking) /\ BrokerRead(Asking) /\ SameConns /\ doing' = None /\ doing = None
    BY ConsentAnswers DEF SameConns, Inv, Control, ThreadOK
  <1>2. /\ Control' /\ Kept(w) /\ attach' \in [Clients -> Attaches]
        /\ broker' \in [request : Clients \cup {None}, abandoned : SUBSET Clients,
                        failed : BOOLEAN]
    BY <1>1, AllowedControl
  <1>3. Types'
    BY <1>1, <1>2, AnsweredTypes DEF Kept, Inv, Types
  <1>4. w.takeover = window.takeover /\ window.gen \in Nat
    BY Fields DEF Standing, Inv, Types
  <1>5. CASE w = window /\ window.bridge # 0
    <2>1. Idle
      BY <1>1, <1>2, <1>5 DEF Idle, Kept, SameBridge, SameQueue, SameDocument, SameMarks
    <2> QED BY <1>2, <1>3, <2>1, IdleWork, MovesAreQuiet DEF Inv
  <1>6. CASE /\ w.bridge = 0 /\ w.queue = <<>> /\ w.job = None /\ w.epoch = window.epoch
             /\ \A c \in Conns : w.started[c] \in {None, window.started[c]}
             /\ w.settings = IF window.job = None THEN window.settings
                             ELSE Undone(window, window.job)
             /\ w.gate = IF window.job = None THEN window.gate ELSE Gated(window, window.job)
             /\ w.cancelled = IF window.job = None THEN window.cancelled
                              ELSE window.cancelled \cup {window.job.req}
    <2>1. JobUndone
      BY <1>2, <1>6 DEF JobUndone, SameMarks, Kept
    <2>2. window'.bridge \notin 1..window.gen
      BY <1>2, <1>4, <1>6 DEF Kept
    <2>3. /\ window'.takeover = window.takeover /\ window'.queue = <<>> /\ window'.job = None
          /\ \A c \in Conns : window'.started[c] \in {None, window.started[c]}
          /\ window'.epoch = window.epoch
      BY <1>2, <1>4, <1>6 DEF Kept
    <2>4. Released
      BY <1>1, <2>1, <2>2, <2>3, Goes
    <2> QED BY <1>2, <1>3, <2>4, ReleasedWork, MovesAreQuiet DEF Inv
  <1> QED BY <1>5, <1>6

\* A takeover begins: the job is abandoned, the connections are told.
LEMMA TakeoverKeeps ==
    ASSUME Inv, ui = "events", ui' = "superseding", Supersede(window), window.bridge # 0,
           Asking # None,
           UNCHANGED <<conn, given, applied, files, lost, told, scenario>>
    PROVE  Inv' /\ RevokedStep
  <1>1. /\ window \in Window /\ window.bridge \in 1..window.gen /\ window.bridge \in Gens
        /\ doing = None /\ doing' = Asking /\ Asking \in Clients
        /\ attach[Asking].pc = "waiting" /\ attach' = attach
        /\ broker' = Emptied
    <2>1. window.bridge \in 1..window.gen
      BY Fields DEF Inv, Types, Control, BridgeOK
    <2> QED BY <2>1, GenBound, AskingIs DEF Supersede, Inv, Types, Control, ThreadOK
  <1>2. PICK v : v = [window EXCEPT !.attached = FALSE, !.launched = FALSE]
    OBVIOUS
  <1>3. /\ v \in Window /\ v.bridge = window.bridge /\ v.gen = window.gen
        /\ v.attached = FALSE /\ v.takeover = window.takeover
        /\ v.queue = window.queue /\ v.job = window.job /\ v.started = window.started
        /\ v.epoch = window.epoch /\ v.document = window.document
        /\ v.settings = window.settings /\ v.gate = window.gate
        /\ v.cancelled = window.cancelled
    BY <1>1, <1>2 DEF Window
  <1>4. PICK u : u = Abandon(v)
    OBVIOUS
  <1>5. /\ u \in Window /\ u.bridge = window.bridge /\ u.gen = window.gen
        /\ u.attached = FALSE /\ u.takeover = window.takeover
        /\ u.queue = window.queue /\ u.job = window.job /\ u.started = window.started
        /\ u.epoch = window.epoch /\ u.document = window.document
        /\ u.settings = IF v.job = None THEN v.settings ELSE Undone(v, v.job)
        /\ u.gate = IF v.job = None THEN v.gate ELSE Gated(v, v.job)
        /\ u.cancelled = IF v.job = None THEN v.cancelled ELSE v.cancelled \cup {v.job.req}
    BY <1>3, <1>4, Abandoned
  <1>6. PICK t : t = Takeover(u)
    OBVIOUS
  <1>7. ASSUME NEW c \in Conns
        PROVE  /\ t[c] = None => \/ window.started[c] = None
                                 \/ \E e \in Entries(window.queue) : e.req[1] = c
               /\ t[c] # None =>
                     /\ window.started[c] # None /\ t[c].id = window.started[c].id
                     /\ ~t[c].changed => /\ window.started[c].epoch = window.epoch
                                         /\ window.started[c].settings = u.settings
               /\ t[c] \in Takeovers \cup {None}
    <2>1. t[c] = IF u.started[c] = None \/ c \in Queued(u) THEN None
                 ELSE [id |-> u.started[c].id,
                       changed |-> u.started[c].epoch # u.epoch
                                   \/ u.started[c].settings # u.settings]
      BY <1>6 DEF Takeover
    <2>2. c \in Queued(u) => \E e \in Entries(window.queue) : e.req[1] = c
      BY <1>5 DEF Queued, Entries
    <2>3. CASE u.started[c] = None \/ c \in Queued(u)
      BY <1>5, <2>1, <2>2, <2>3
    <2>4. CASE ~(u.started[c] = None \/ c \in Queued(u))
      <3>1. PICK b \in BOOLEAN :
               b = (u.started[c].epoch # u.epoch \/ u.started[c].settings # u.settings)
        OBVIOUS
      <3>2. PICK i \in 1..MaxRequests : i = u.started[c].id
        BY <1>5, <2>4, Fields
      <3>3. t[c] = [id |-> i, changed |-> b]
        BY <2>1, <2>4, <3>1, <3>2
      <3>4. t[c] \in Takeovers /\ t[c].id = i /\ t[c].changed = b
        BY <3>3, ConstantAssumption DEF Takeovers
      <3> QED BY <1>5, <2>4, <3>1, <3>2, <3>4, NoneApart
    <2> QED BY <2>3, <2>4
  <1>8. t \in [Conns -> Takeovers \cup {None}]
    BY <1>6, <1>7 DEF Takeover
  <1>9. PICK k \in [Gens -> Seq([Conns -> Takeovers \cup {None}])] :
           k = [window.takeover EXCEPT ![window.bridge] = <<t>>]
    <2>1. window.takeover \in [Gens -> Seq([Conns -> Takeovers \cup {None}])]
      BY <1>1, Fields
    <2>2. <<t>> \in Seq([Conns -> Takeovers \cup {None}])
      BY <1>8
    <2> QED BY <1>1, <2>1, <2>2
  <1>10. window' = [u EXCEPT !.takeover = k]
    BY <1>2, <1>4, <1>5, <1>6, <1>9 DEF Supersede, Record
  <1>11. /\ window' \in Window /\ window'.bridge = window.bridge /\ window'.gen = window.gen
         /\ window'.attached = FALSE /\ window'.takeover = k
         /\ window'.queue = window.queue /\ window'.job = window.job
         /\ window'.started = window.started
         /\ window'.epoch = window.epoch /\ window'.document = window.document
         /\ window'.settings = u.settings /\ window'.gate = u.gate
         /\ window'.cancelled = u.cancelled
    BY <1>5, <1>10 DEF Window
  <1>12. JobUndone
    BY <1>3, <1>5, <1>11 DEF JobUndone, SameMarks, Undone, Gated
  <1>13. TakenOver
    <2>1. \A c \in Conns :
             /\ t[c] = None => \/ window.started[c] = None
                               \/ \E e \in Entries(window.queue) : e.req[1] = c
             /\ t[c] # None =>
                   /\ window.started[c] # None /\ t[c].id = window.started[c].id
                   /\ ~t[c].changed => /\ window.started[c].epoch = window.epoch
                                       /\ window.started[c].settings = window'.settings
      BY <1>7, <1>11
    <2>2. window'.takeover = [window.takeover EXCEPT ![window.bridge] = <<t>>]
      BY <1>9, <1>11
    <2> QED BY <1>1, <1>11, <1>12, <2>1, <2>2 DEF TakenOver, SameQueue
  <1>14. Work' /\ Answers'
    BY <1>13, TakenOverWork
  <1>15. Types'
    BY <1>1, <1>11, AskingIs DEF Inv, Types
  <1>16. ThreadOK'
    BY <1>1, <1>11, <1>12, UndoneJob DEF ThreadOK
  <1>17. BrokerOK'
    BY <1>1, AskingIs DEF BrokerOK, Inv, Control
  <1>18. BridgeOK'
    <2>1. \A g \in Gens : window'.takeover[g] # <<>> => g <= window'.gen
      BY <1>1, <1>9, <1>11, Fields DEF Inv, Control, BridgeOK
    <2>2. Answered' = Answered
      BY <1>1 DEF Answered
    <2> QED BY <1>1, <1>11, <2>1, <2>2 DEF Inv, Control, BridgeOK
  <1>19. AttachedIsReal'
    BY <1>11 DEF AttachedIsReal
  <1> QED BY <1>13, <1>14, <1>15, <1>16, <1>17, <1>18, <1>19, MovesAreQuiet DEF Inv, Control

\* poll_live_consent.
LEMMA PollConsentKeeps ==
    ASSUME Inv, poll_live_consent, UNCHANGED scenario
    PROVE  Inv' /\ RevokedStep
  <1>1. PICK w : w = IF broker.failed THEN [Disable(window) EXCEPT !.attached = FALSE]
                     ELSE window
    OBVIOUS
  <1>2. /\ ui = "events" /\ window \in Window
        /\ UNCHANGED <<conn, given, applied, files, lost, told, scenario>>
    BY DEF poll_live_consent, Inv, Types
  <1>3. /\ Standing(w)
        /\ \/ w = window /\ window.bridge # 0
           \/ /\ w.bridge = 0 /\ w.queue = <<>> /\ w.job = None /\ w.epoch = window.epoch
              /\ \A c \in Conns : w.started[c] \in {None, window.started[c]}
              /\ w.settings = IF window.job = None THEN window.settings
                              ELSE Undone(window, window.job)
              /\ w.gate = IF window.job = None THEN window.gate ELSE Gated(window, window.job)
              /\ w.cancelled = IF window.job = None THEN window.cancelled
                               ELSE window.cancelled \cup {window.job.req}
    <2>1. CASE broker.failed
      <3>1. PICK v : v = Disable(window)
        OBVIOUS
      <3>2. /\ v \in Window /\ v.bridge = 0 /\ v.gen = window.gen
            /\ v.takeover = window.takeover
            /\ v.queue = <<>> /\ v.job = None
            /\ \A c \in Conns : v.started[c] \in {None, window.started[c]}
            /\ v.epoch = window.epoch
            /\ v.settings = IF window.job = None THEN window.settings
                            ELSE Undone(window, window.job)
            /\ v.gate = IF window.job = None THEN window.gate ELSE Gated(window, window.job)
            /\ v.cancelled = IF window.job = None THEN window.cancelled
                             ELSE window.cancelled \cup {window.job.req}
        BY <3>1, Disabled
      <3>3. w = [v EXCEPT !.attached = FALSE]
        BY <1>1, <2>1, <3>1
      <3>4. /\ w \in Window /\ w.bridge = v.bridge /\ w.gen = v.gen
            /\ w.attached = FALSE /\ w.takeover = v.takeover
            /\ w.queue = v.queue /\ w.job = v.job /\ w.started = v.started
            /\ w.epoch = v.epoch /\ w.settings = v.settings /\ w.gate = v.gate
            /\ w.cancelled = v.cancelled
        BY <3>2, <3>3 DEF Window
      <3> QED BY <3>2, <3>4 DEF Standing
    <2>2. CASE ~broker.failed
      <3>1. w = window /\ Standing(w)
        BY <1>1, <1>2, <2>2 DEF Standing
      <3>2. CASE window.bridge = 0
        BY <3>1, <3>2, NoBridge
      <3> QED BY <3>1, <3>2
    <2> QED BY <2>1, <2>2
  <1>4. CASE /\ Asking # None /\ w.bridge # 0 /\ Supersede(w) /\ ui' = "superseding"
    BY <1>2, <1>3, <1>4, TakeoverKeeps
  <1>5. CASE Consent(w) /\ ui' \in {"events", "jobs"}
    BY <1>2, <1>3, <1>5, ConsentKeeps
  <1>6. \/ Asking # None /\ w.bridge # 0 /\ Supersede(w) /\ ui' = "superseding"
        \/ Consent(w) /\ ui' \in {"events", "jobs"}
    BY <1>1 DEF poll_live_consent
  <1> QED BY <1>4, <1>5, <1>6

------------------------------------------------------------------------------
(* Requests are taken from the queue *)

\* A window whose first request was taken: the check of an answered program may go,
\* and only the connection c is remembered anew.
Taken(v, c) ==
    /\ v \in Window /\ v.bridge = window.bridge /\ v.gen = window.gen
    /\ v.attached = window.attached /\ v.queue = Tail(window.queue)
    /\ v.epoch = window.epoch /\ v.document = window.document
    /\ v.settings = window.settings /\ v.cancelled = window.cancelled
    /\ v.gate = window.gate /\ v.takeover = window.takeover
    /\ \/ v.job = window.job
       \/ v.job = None /\ window.job # None /\ window.job.replied
    /\ \A d \in Conns \ {c} : v.started[d] = window.started[d]

\* The window after the head of the queue was taken.
LEMMA QueueTaken ==
    ASSUME Inv, window.queue # <<>>, NEW q, q = Head(window.queue),
           NEW w, w = [window EXCEPT !.queue = Tail(@)]
    PROVE  /\ Taken(w, q.req[1]) /\ w.job = window.job /\ w.started = window.started
           /\ Taken(Unchecked(q, w), q.req[1]) /\ Unchecked(q, w).started = window.started
           /\ q.kind # "closed" =>
                 /\ Taken(Begun(q, w), q.req[1])
                 /\ Begun(q, w).started[q.req[1]] =
                       [id |-> q.req[2], epoch |-> window.epoch,
                        settings |-> window.settings]
                 /\ Begun(q, w).job = Unchecked(q, w).job
  <1>1. window \in Window /\ window.queue \in Seq(Entry)
    BY Fields DEF Inv, Types
  <1>2. q.req[1] \in Conns /\ (q.kind # "closed" => q.req \in Requests)
    BY HeadOfQueue
  <1>3. PICK s \in Seq(Entry) : s = Tail(window.queue)
    BY <1>1, TakeHead
  <1>4. w = [window EXCEPT !.queue = s]
    BY <1>3
  <1>5. /\ Taken(w, q.req[1]) /\ w.job = window.job /\ w.started = window.started
        /\ w.epoch = window.epoch /\ w.settings = window.settings
    BY <1>1, <1>3, <1>4 DEF Taken, Window
  <1>6. PICK u : u = Unchecked(q, w)
    OBVIOUS
  <1>7. Taken(u, q.req[1]) /\ u.started = window.started
    <2>1. CASE q.kind # "read" /\ w.job # None /\ w.job.replied
      <3>1. u = [w EXCEPT !.job = None] /\ w \in Window
        BY <1>5, <1>6, <2>1 DEF Unchecked, Taken
      <3>2. /\ u \in Window /\ u.job = None /\ u.bridge = w.bridge /\ u.gen = w.gen
            /\ u.attached = w.attached /\ u.queue = w.queue /\ u.started = w.started
            /\ u.epoch = w.epoch /\ u.document = w.document /\ u.settings = w.settings
            /\ u.cancelled = w.cancelled /\ u.gate = w.gate /\ u.takeover = w.takeover
        BY <3>1, ZenonT(30) DEF Window
      <3> QED BY <1>5, <2>1, <3>2 DEF Taken
    <2>2. CASE ~(q.kind # "read" /\ w.job # None /\ w.job.replied)
      BY <1>5, <1>6, <2>2 DEF Unchecked
    <2> QED BY <2>1, <2>2
  <1>8. ASSUME q.kind # "closed"
        PROVE  /\ Taken(Begun(q, w), q.req[1])
               /\ Begun(q, w).started[q.req[1]] =
                     [id |-> q.req[2], epoch |-> window.epoch, settings |-> window.settings]
               /\ Begun(q, w).job = u.job
    <2>1. PICK e \in Starts :
             e = [id |-> q.req[2], epoch |-> window.epoch, settings |-> window.settings]
      <3>1. q.req[2] \in 1..MaxRequests /\ window.epoch \in Nat /\ window.settings \in Settings
        BY <1>1, <1>2, <1>8, Request, Fields DEF Settings
      <3> QED BY <3>1 DEF Starts
    <2>2. u \in Window /\ u.started \in [Conns -> Starts \cup {None}]
      BY <1>7, Fields DEF Taken
    <2>3. PICK m \in [Conns -> Starts \cup {None}] : m = [u.started EXCEPT ![q.req[1]] = e]
      BY <1>2, <2>2
    <2>4. PICK b : b = Begun(q, w)
      OBVIOUS
    <2>5. b = [u EXCEPT !.session = q.req[1], !.started = m]
      <3>1. [id |-> q.req[2], epoch |-> w.epoch, settings |-> w.settings] = e
        BY <1>5, <2>1
      <3>2. b = [u EXCEPT !.session = q.req[1], !.started[q.req[1]] = e]
        BY <1>6, <2>4, <3>1 DEF Begun
      <3> QED BY <2>3, <3>2
    <2>6. /\ b \in Window /\ b.job = u.job /\ b.bridge = u.bridge /\ b.gen = u.gen
          /\ b.attached = u.attached /\ b.queue = u.queue /\ b.started = m
          /\ b.epoch = u.epoch /\ b.document = u.document /\ b.settings = u.settings
          /\ b.cancelled = u.cancelled /\ b.gate = u.gate /\ b.takeover = u.takeover
      <3>1. PICK h \in Window : h = [u EXCEPT !.session = q.req[1]]
        BY <1>2, <2>2, WindowParts
      <3>2. PICK k \in Window : k = [h EXCEPT !.started = m]
        BY <2>3, <3>1, WindowParts
      <3>3. b = k
        BY <2>5, <3>1, <3>2
      <3>4. SameButJob(h, u) /\ h.job = u.job /\ h.settings = u.settings /\ h.gate = u.gate
        BY <2>2, <3>1 DEF Window, SameButJob
      <3>5. /\ SameButJob(k, h) /\ k.job = h.job /\ k.settings = h.settings /\ k.gate = h.gate
            /\ k.started = m
        BY <3>1, <3>2, ZenonT(30) DEF Window, SameButJob
      <3> QED BY <3>2, <3>3, <3>4, <3>5 DEF SameButJob
    <2>7. m[q.req[1]] = e /\ \A d \in Conns \ {q.req[1]} : m[d] = u.started[d]
      BY <1>2, <2>2, <2>3
    <2>8. Taken(b, q.req[1])
      BY <1>7, <2>6, <2>7 DEF Taken
    <2>9. b.started[q.req[1]] =
             [id |-> q.req[2], epoch |-> window.epoch, settings |-> window.settings]
      BY <2>1, <2>6, <2>7
    <2> QED BY <2>4, <2>6, <2>8, <2>9
  <1> QED BY <1>5, <1>6, <1>7, <1>8

\* A request that is taken while its bridge stands.
LEMMA TakenKeeps ==
    ASSUME Inv, NEW q, TakeStep(q), window' \in Window, window'.gen = window.gen,
           window'.attached = window.attached, conn' \in [Conns -> Connections],
           \/ ui' = "queue" /\ doing' = None
           \/ ui' = "executing" /\ doing' \in Requests
           \/ ui' = "keeping" /\ doing' \in Requests /\ window'.job = None,
           UNCHANGED <<attach, broker, given, scenario>>
    PROVE  Inv' /\ RevokedStep
  <1>1. Work' /\ Answers' /\ SameConns
    BY TakeStepWork, TakeStepKeeps
  <1>0. ThreadOK'
    BY DEF ThreadOK
  <1>2. Control'
    BY <1>0, <1>1, SameConnsOK, SameControlKept DEF SameControl, TakeStep
  <1>3. Types'
    BY DEF Inv, Types, TakeStep
  <1> QED BY <1>1, <1>2, <1>3, TakeStepRevokes DEF Inv

\* The fields of a window that was left as v.
LEMMA TakenStep ==
    ASSUME Inv, window.queue # <<>>, NEW q, q = Head(window.queue), ui = "queue",
           Taken(window', q.req[1]),
           \/ window'.started[q.req[1]] \in {None, window.started[q.req[1]]}
           \/ /\ q.kind # "closed"
              /\ window'.started[q.req[1]] = [id |-> q.req[2], epoch |-> window.epoch,
                                              settings |-> window.settings],
           UNCHANGED <<applied, files, lost, told>>,
           Passed(q) \/ AnsweredNow(q) \/ Runs(q)
    PROVE  TakeStep(q)
  <1>1. doing = None
    BY Zenon DEF Inv, Control, ThreadOK
  <1>2. StartKept(q)
    BY Zenon DEF StartKept, Taken
  <1> QED BY <1>1, <1>2, Zenon DEF TakeStep, Taken, SameBridge

\* The client of a request that is taken is gone, or asked to go.
LEMMA DisconnectedKeeps ==
    ASSUME Inv, ui = "queue", window.queue # <<>>, NEW q, q = Head(window.queue),
           NEW v, Taken(v, q.req[1]), Disconnected(v, q.req[1]),
           \/ q.kind = "closed" /\ conn' = conn
           \/ q.kind # "closed" /\ conn' = Delivered(q.req, "ok"),
           UNCHANGED <<given, applied, files, told, scenario>>
    PROVE  Inv' /\ RevokedStep
  <1>1. /\ window \in Window /\ v \in Window /\ q.req[1] \in Conns /\ doing = None
        /\ q.kind # "closed" => q.req \in Requests
        /\ conn \in [Conns -> Connections] /\ window.gen \in Nat
    BY HeadOfQueue, Fields, Zenon DEF Taken, Inv, Types, Control, ThreadOK
  <1>2. /\ conn' \in [Conns -> Connections] /\ SameConns
        /\ \A c \in Conns : conn'[c].reply \in {"ok", conn[c].reply}
    <2>1. CASE q.kind = "closed" /\ conn' = conn
      BY <1>1, <2>1 DEF SameConns
    <2>2. CASE q.kind # "closed" /\ conn' = Delivered(q.req, "ok")
      BY <1>1, <2>2, DeliveredIs, Zenon DEF Inv
    <2> QED BY <2>1, <2>2
  <1>3. PICK z : z = [Removed(v, q.req[1]) EXCEPT !.launched = FALSE]
    OBVIOUS
  <1>4. Taken(z, q.req[1]) /\ z.job = v.job /\ z.started[q.req[1]] = None
    <2>1. PICK m \in [Conns -> Starts \cup {None}] : m = [v.started EXCEPT ![q.req[1]] = None]
      BY <1>1, Fields
    <2>2. PICK n \in Conns \cup {None} : n = IF v.session = q.req[1] THEN None ELSE v.session
      BY <1>1, Fields
    <2>3. PICK b \in Window : b = [v EXCEPT !.started = m]
      BY <1>1, <2>1, WindowParts
    <2>4. PICK e \in Window : e = [b EXCEPT !.session = n]
      BY <2>2, <2>3, WindowParts
    <2>5. PICK k \in Window : k = [e EXCEPT !.launched = FALSE]
      BY <2>4, WindowParts
    <2>6. z = k
      BY <1>3, <2>1, <2>2, <2>3, <2>4, <2>5, Zenon DEF Removed
    <2>7. SameButJob(b, v) /\ b.started = m /\ b.job = v.job /\ b.settings = v.settings
          /\ b.gate = v.gate
      BY <1>1, <2>3 DEF Window, SameButJob
    <2>8. SameButJob(e, b) /\ e.started = b.started /\ e.job = b.job /\ e.settings = b.settings
           /\ e.gate = b.gate
      BY <2>3, <2>4 DEF Window, SameButJob
    <2>9. SameButJob(k, e) /\ k.started = e.started /\ k.job = e.job /\ k.settings = e.settings
           /\ k.gate = e.gate
      BY <2>4, <2>5 DEF Window, SameButJob
    <2>10. /\ z \in Window /\ z.job = v.job /\ z.started = m /\ z.settings = v.settings
           /\ z.gate = v.gate
      BY <2>5, <2>6, <2>7, <2>8, <2>9
    <2>11. SameButJob(z, v)
      BY <2>6, <2>7, <2>8, <2>9 DEF SameButJob
    <2>12. m[q.req[1]] = None /\ \A d \in Conns \ {q.req[1]} : m[d] = v.started[d]
      BY <1>1, <2>1, Fields
    <2>13. \A d \in Conns \ {q.req[1]} : v.started[d] = window.started[d]
      BY DEF Taken
    <2>14. \A d \in Conns \ {q.req[1]} : z.started[d] = window.started[d]
      BY <2>12, <2>13, <2>10
    <2>15. Taken(z, q.req[1])
      BY <2>10, <2>11, <2>14 DEF Taken, SameButJob
    <2> QED BY <2>12, <2>10, <2>15
  <1>5. CASE z.attached
    <2>1. PICK d : d = Drop(z)
      OBVIOUS
    <2>2. /\ d \in Window /\ d.bridge = 0 /\ d.gen = z.gen /\ d.takeover = z.takeover
          /\ d.queue = <<>> /\ d.job = None /\ \A c \in Conns : d.started[c] = None
          /\ d.epoch = z.epoch /\ d.settings = z.settings /\ d.gate = z.gate
          /\ d.cancelled = z.cancelled
      BY <1>4, <2>1, Dropped DEF Taken
    <2>3. PICK w : w = [d EXCEPT !.attached = FALSE]
      OBVIOUS
    <2>4. /\ w \in Window /\ w.bridge = d.bridge /\ w.gen = d.gen /\ w.takeover = d.takeover
          /\ w.queue = d.queue /\ w.job = d.job /\ w.started = d.started
          /\ w.epoch = d.epoch /\ w.settings = d.settings /\ w.gate = d.gate
          /\ w.cancelled = d.cancelled /\ w.attached = FALSE
      BY <2>2, <2>3, ZenonT(30) DEF Window
    <2>5. /\ Consent(w) /\ ui' = "events"
          /\ lost' = IF z.job = None THEN lost ELSE lost \cup {z.job.req}
      BY <1>3, <1>5, <2>1, <2>3, Zenon DEF Disconnected
    <2>6. /\ window'.takeover = window.takeover
          /\ w.bridge = 0 /\ w.queue = <<>> /\ w.job = None /\ \A c \in Conns : w.started[c] = None
          /\ w.epoch = window.epoch /\ w.settings = window.settings
          /\ w.gate = window.gate /\ w.cancelled = window.cancelled /\ Standing(w)
          /\ Answering(w, Asking) /\ BrokerRead(Asking) /\ doing' = None
      <3>1. Standing(w)
        BY <1>4, <2>2, <2>4 DEF Standing, Taken
      <3>2. Answering(w, Asking) /\ BrokerRead(Asking) /\ doing' = None
        BY <1>1, <2>5, ConsentAnswers
      <3>3. Kept(w)
        BY <3>1, <3>2, Answers3
      <3>4. /\ z.takeover = window.takeover /\ z.epoch = window.epoch
            /\ z.settings = window.settings /\ z.gate = window.gate
            /\ z.cancelled = window.cancelled
        BY <1>4 DEF Taken
      <3>5. window'.takeover = w.takeover
        BY <3>3 DEF Kept
      <3>6. \A c \in Conns : w.started[c] = None
        BY <2>2, <2>4
      <3> QED BY <2>2, <2>4, <3>1, <3>2, <3>4, <3>5, <3>6
    <2>7. /\ Control' /\ Kept(w) /\ attach' \in [Clients -> Attaches]
          /\ broker' \in [request : Clients \cup {None}, abandoned : SUBSET Clients,
                          failed : BOOLEAN]
      BY <1>2, <2>5, <2>6, AllowedControl
    <2>8. lost' \subseteq Requests /\ lost \subseteq lost'
          /\ (IsJob(window.settings) => window.settings \in lost')
      <3>1. z.job # None => z.job.req \in Requests
        BY <1>4, Fields DEF Taken
      <3>2. ASSUME IsJob(window.settings) PROVE window.settings \in lost'
        <4>1. window.settings = window.job.req /\ window.job # None
          BY <3>2 DEF IsJob
        <4>2. window.settings \in Requests
          BY <1>1, <4>1, Fields
        <4>3. JobIs(window.settings)
          BY <3>2, <4>2 DEF Inv, Work, JobOK
        <4>4. ~window.job.replied
          BY <4>3 DEF JobIs
        <4>5. z.job = window.job
          BY <1>4, <4>4 DEF Taken
        <4> QED BY <2>5, <4>1, <4>5
      <3> QED BY <2>5, <3>1, <3>2 DEF Inv, Types
    <2>9. window'.bridge \notin 1..window.gen
      BY <1>1, <2>6, <2>7 DEF Kept
    <2>10. Released
      BY <1>2, <2>6, <2>7, <2>8, <2>9 DEF Released, Kept
    <2>11. Types'
      BY <1>2, <2>5, <2>6, <2>7, <2>8, AnsweredTypes DEF Kept
    <2> QED BY <2>5, <2>7, <2>10, <2>11, ReleasedWork, MovesAreQuiet DEF Inv
  <1>6. CASE ~z.attached
    <2>1. window' = z /\ UNCHANGED <<ui, doing, attach, broker, lost>>
      BY <1>3, <1>6 DEF Disconnected
    <2>2. JobKept /\ window'.settings = window.settings /\ window'.gate = window.gate
      BY <1>4, <2>1 DEF JobKept, Taken
    <2>3. Passed(q) \/ AnsweredNow(q)
      BY <1>1, <2>1, <2>2 DEF Passed, AnsweredNow
    <2>4. TakeStep(q)
      BY <1>4, <2>1, <2>3, TakenStep
    <2> QED BY <1>1, <1>2, <1>4, <2>1, <2>4, TakenKeeps DEF Taken
  <1> QED BY <1>5, <1>6

\* take_request.
LEMMA TakeRequestKeeps ==
    ASSUME Inv, take_request, UNCHANGED scenario
    PROVE  Inv' /\ RevokedStep
  <1>1. /\ ui = "queue" /\ window.queue # <<>> /\ doing = None
        /\ conn \in [Conns -> Connections]
        /\ UNCHANGED <<given, applied, files, told, scenario>>
    BY DEF take_request, Inv, Types, Control, ThreadOK
  <1>2. PICK q, w : q = Head(window.queue) /\ w = [window EXCEPT !.queue = Tail(@)]
    OBVIOUS
  <1>3. /\ Taken(w, q.req[1]) /\ w.job = window.job /\ w.started = window.started
        /\ Taken(Unchecked(q, w), q.req[1]) /\ Unchecked(q, w).started = window.started
        /\ q.kind # "closed" =>
              /\ Taken(Begun(q, w), q.req[1])
              /\ Begun(q, w).started[q.req[1]] =
                    [id |-> q.req[2], epoch |-> window.epoch, settings |-> window.settings]
              /\ Begun(q, w).job = Unchecked(q, w).job
    BY <1>1, <1>2, QueueTaken, ZenonT(30)
  <1>4. /\ q.kind # "closed" => q.req \in Requests
        /\ q.req[1] \in Conns
    BY <1>1, <1>2, HeadOfQueue
  <1>5. ASSUME Taken(window', q.req[1]),
               \/ window'.started[q.req[1]] \in {None, window.started[q.req[1]]}
               \/ /\ q.kind # "closed"
                  /\ window'.started[q.req[1]] = [id |-> q.req[2], epoch |-> window.epoch,
                                                  settings |-> window.settings],
               UNCHANGED <<attach, broker, lost>>,
               conn' \in [Conns -> Connections],
               \/ ui' = "queue" /\ doing' = None
               \/ ui' = "executing" /\ doing' \in Requests
               \/ ui' = "keeping" /\ doing' \in Requests /\ window'.job = None,
               (JobKept /\ window'.settings = window.settings /\ window'.gate = window.gate) =>
                  Passed(q) \/ AnsweredNow(q) \/ Runs(q)
        PROVE  Inv' /\ RevokedStep
    <2>1. JobKept /\ window'.settings = window.settings /\ window'.gate = window.gate
      BY <1>5 DEF JobKept, Taken
    <2>2. TakeStep(q)
      BY <1>1, <1>2, <1>5, <2>1, TakenStep, Zenon
    <2> QED BY <1>1, <1>5, <2>2, TakenKeeps DEF Taken
  <1>6. CASE connection_closed(q, w)
    BY <1>1, <1>2, <1>3, <1>6, DisconnectedKeeps DEF connection_closed
  <1>7. CASE skip_revoked(q, w)
    <2>1. window' = w /\ UNCHANGED <<ui, doing, conn, attach, broker, lost>>
          /\ q.req \in window.cancelled
      BY <1>3, <1>7 DEF skip_revoked, Taken
    <2> QED BY <1>1, <1>3, <1>5, <2>1 DEF Passed
  <1>8. ASSUME NEW answer \in {"ok", "error"}, q.kind # "closed",
               conn' = Delivered(q.req, answer), UNCHANGED <<ui, doing, attach, broker, lost>>,
               \/ window' = Unchecked(q, w)
               \/ window' = Begun(q, w)
        PROVE  Inv' /\ RevokedStep
    <2>1. conn' \in [Conns -> Connections]
      BY <1>4, <1>8, DeliveredIs DEF Inv
    <2>2. doing' = None /\ ui' = "queue"
      BY <1>1, <1>8
    <2>3. JobKept /\ window'.settings = window.settings /\ window'.gate = window.gate =>
             AnsweredNow(q)
      BY <1>8, <2>2 DEF AnsweredNow
    <2>4. /\ Taken(window', q.req[1])
          /\ \/ window'.started[q.req[1]] \in {None, window.started[q.req[1]]}
             \/ window'.started[q.req[1]] = [id |-> q.req[2], epoch |-> window.epoch,
                                             settings |-> window.settings]
      BY <1>3, <1>8
    <2> QED BY <1>5, <1>8, <2>1, <2>2, <2>3, <2>4
  <1>9. CASE refuse_request(q, w)
    BY <1>8, <1>9 DEF refuse_request, Admitted
  <1>10. CASE answer_read(q, w)
    BY <1>8, <1>10 DEF answer_read, Admitted
  <1>11. CASE answer_disconnect(q, w)
    BY <1>1, <1>2, <1>3, <1>11, DisconnectedKeeps DEF answer_disconnect, Admitted
  <1>12. CASE begin_edit(q, w)
    <2>1. /\ window' = Begun(q, w) /\ ui' = "executing" /\ doing' = q.req
          /\ UNCHANGED <<conn, attach, broker, lost>> /\ q.kind # "closed"
          /\ q.req \notin window.cancelled
      BY <1>3, <1>12 DEF begin_edit, Admitted, Taken
    <2> QED BY <1>1, <1>3, <1>4, <1>5, <2>1 DEF Runs
  <1>13. ASSUME MayStart(q, w), q.kind \in {"program", "sheet"},
                UNCHANGED <<ui, doing, conn, attach, broker, lost>>,
                NEW g \in [Requests -> Gates],
                g = IF q.kind = "sheet" THEN [window.gate EXCEPT ![q.req] = "free"]
                    ELSE window.gate,
                window' = [Begun(q, w) EXCEPT !.job = Job(q, w), !.gate = g]
         PROVE  Inv' /\ RevokedStep
    <2>1. PICK b : b = Begun(q, w)
      OBVIOUS
    <2>2. /\ q.kind # "closed" /\ q.req \in Requests /\ Taken(b, q.req[1]) /\ b \in Window
          /\ b.job = None
          /\ b.started[q.req[1]] = [id |-> q.req[2], epoch |-> window.epoch,
                                    settings |-> window.settings]
          /\ q.req \notin window.cancelled
      BY <1>3, <1>4, <1>13, <2>1 DEF MayStart, Admitted, Taken
    <2>3. PICK j \in Jobs : j = Job(q, window)
      <3>1. window.epoch \in Nat /\ window.document \in Nat /\ window.settings \in Settings
        BY Fields DEF Inv, Types, Settings
      <3> QED BY <1>13, <2>2, <3>1 DEF Job, Jobs
    <2>4. Job(q, w) = j
      BY <1>3, <2>3 DEF Job, Taken
    <2>5. window' = [b EXCEPT !.job = j, !.gate = g]
      BY <1>13, <2>1, <2>4
    <2>6. PICK b1 \in Window : b1 = [b EXCEPT !.job = j]
      BY <2>2, <2>3, WindowParts
    <2>7. PICK b2 \in Window : b2 = [b1 EXCEPT !.gate = g]
      BY <1>13, <2>6, WindowParts
    <2>9. window' = b2
      BY <2>5, <2>6, <2>7
    <2>10. SameButJob(b1, b) /\ b1.started = b.started /\ b1.job = j /\ b1.settings = b.settings
      BY <2>2, <2>6 DEF Window, SameButJob
    <2>11. SameButJob(b2, b1) /\ b2.started = b1.started /\ b2.job = b1.job
           /\ b2.settings = b1.settings /\ b2.gate = g
      BY <2>6, <2>7 DEF Window, SameButJob
    <2>13. /\ window' \in Window /\ window'.job = j /\ window'.settings = b.settings /\ window'.gate = g
          /\ window'.bridge = b.bridge /\ window'.gen = b.gen
          /\ window'.attached = b.attached /\ window'.queue = b.queue
          /\ window'.started = b.started /\ window'.epoch = b.epoch
          /\ window'.document = b.document /\ window'.cancelled = b.cancelled
          /\ window'.takeover = b.takeover
      BY <2>7, <2>9, <2>10, <2>11 DEF SameButJob
    <2>14. BecomesJob(q)
      BY <1>1, <1>13, <2>2, <2>3, <2>13 DEF BecomesJob, Taken
    <2>15. StartKept(q)
      BY <2>2, <2>13 DEF StartKept, Taken
    <2>16. TakeStep(q)
      BY <1>1, <1>2, <1>13, <2>2, <2>13, <2>14, <2>15, ZenonT(30) DEF TakeStep, Taken, SameBridge
    <2> QED BY <1>1, <1>13, <2>2, <2>13, <2>16, TakenKeeps DEF Taken
  <1>14. CASE start_queued_apply_program(q, w)
    <2>1. PICK b : b = Begun(q, w)
      OBVIOUS
    <2>2. /\ b \in Window /\ b.gate = window.gate
          /\ window.gate \in [Requests -> Gates]
      BY <1>3, <1>14, <2>1, Fields
      DEF start_queued_apply_program, MayStart, Admitted, Taken
    <2>3. PICK j : j = Job(q, w)
      OBVIOUS
    <2>4. [b EXCEPT !.job = j] = [b EXCEPT !.job = j, !.gate = window.gate]
      BY <2>2 DEF Window
    <2> QED BY <1>13, <1>14, <2>1, <2>2, <2>3, <2>4 DEF start_queued_apply_program
  <1>15. CASE start_project_drawings_export(q, w)
    <2>1. /\ window' = Begun(q, w) /\ ui' = "keeping" /\ doing' = q.req
          /\ UNCHANGED <<conn, attach, broker, lost>> /\ q.kind # "closed"
          /\ q.req \notin window.cancelled /\ window'.job = None
      BY <1>3, <1>15 DEF start_project_drawings_export, MayStart, Admitted, Taken
    <2> QED BY <1>1, <1>3, <1>4, <1>5, <2>1 DEF Runs
  <1>16. CASE start_sheet_export(q, w)
    <2>1. PICK b : b = Begun(q, w)
      OBVIOUS
    <2>2. /\ b \in Window /\ b.gate = window.gate /\ window.gate \in [Requests -> Gates]
          /\ q.req \in Requests
      BY <1>3, <1>4, <1>16, <2>1, Fields DEF start_sheet_export, MayStart, Admitted, Taken
    <2>3. PICK g \in [Requests -> Gates] : g = [window.gate EXCEPT ![q.req] = "free"]
      BY <2>2 DEF Gates
    <2>4. window' = [b EXCEPT !.job = Job(q, w), !.gate = g]
      BY <1>16, <2>1, <2>2, <2>3 DEF start_sheet_export
    <2> QED BY <1>13, <1>16, <2>1, <2>3, <2>4 DEF start_sheet_export
  <1> QED BY <1>2, <1>6, <1>7, <1>9, <1>10, <1>11, <1>12, <1>14, <1>15, <1>16 DEF take_request

------------------------------------------------------------------------------
(* The steps that leave the bridge alone, and what was revoked *)

\* poll_jobs ends a job that was revoked, and checks no other one of it.
LEMMA PollJobsRevokes ==
    ASSUME Inv, poll_jobs
    PROVE  RevokedStep
  <1>1. /\ window \in Window /\ window.cancelled \subseteq Requests
        /\ doing' = doing /\ doing = None /\ UNCHANGED <<applied, files>>
    BY Fields DEF Inv, Types, Control, ThreadOK, poll_jobs, poll_program_plan, poll_program_check,
                  poll_project_drawings_export, poll_sheet_export
  <1>2. CASE ui' = "publishing"
    <2>1. window' = window /\ ~Revoked
      BY <1>2 DEF poll_jobs, MayPublish
    <2> QED BY <1>1, <2>1, NoneApart DEF RevokedStep, Acts, Checked, Revoked
  <1>3. CASE ui' # "publishing"
    <2>1. ASSUME SettingsBack PROVE RevokedStep
      BY <1>1, <1>3, <2>1, QuietStep
    <2>2. CASE window' = window
      BY <2>1, <2>2 DEF SettingsBack
    <2>3. ASSUME NEW answer, NEW stays, Answer(answer, stays) PROVE RevokedStep
      <3>1. PICK j : window' = [window EXCEPT !.job = j]
        BY <2>3 DEF Answer
      <3>2. window'.settings = window.settings
        BY <1>1, <3>1 DEF Window
      <3> QED BY <2>1, <3>2 DEF SettingsBack
    <2>4. CASE poll_program_plan \/ poll_program_check
      BY <2>2, <2>3, <2>4 DEF poll_program_plan, poll_program_check
    <2>5. CASE window.job # None /\ poll_project_drawings_export
      <3>0. PICK u : u = Undone(window, window.job)
        OBVIOUS
      <3>1. /\ WithoutJob.settings = u
            /\ \A x : [WithoutJob EXCEPT !.cancelled = x].settings = u
        BY <1>1, <3>0 DEF WithoutJob, Window
      <3>2. window'.settings \in {window.settings, Undone(window, window.job)}
        BY <2>5, <3>0, <3>1 DEF poll_project_drawings_export
      <3> QED BY <2>1, <2>5, <3>2 DEF SettingsBack, Undone, poll_project_drawings_export
    <2>6. CASE poll_sheet_export
      <3>1. CASE \E x : window' = [[window EXCEPT !.job = None, !.gate = Gated(window, window.job)]
                                      EXCEPT !.cancelled = x]
        BY <1>1, <2>1, <3>1 DEF Window, SettingsBack
      <3>2. CASE window' = [window EXCEPT !.job = None, !.gate = Gated(window, window.job)]
        BY <1>1, <2>1, <3>2 DEF Window, SettingsBack
      <3> QED BY <2>2, <2>3, <2>6, <3>1, <3>2 DEF poll_sheet_export
    <2> QED BY <1>3, <2>2, <2>4, <2>5, <2>6 DEF poll_jobs
  <1> QED BY <1>2, <1>3

\* publish does for a revoked request no more than what its check allowed.
LEMMA PublishRevokes ==
    ASSUME Inv, publish
    PROVE  RevokedStep
  <1>1. /\ window \in Window /\ window.cancelled \subseteq Requests
        /\ ui = "publishing" /\ ui' = "queue" /\ doing' = None /\ window.job # None
    BY Fields DEF Inv, Types, Control, ThreadOK, publish
  <1>2. SettingsBack
    <2>1. ASSUME window'.settings = window.settings PROVE SettingsBack
      BY <2>1 DEF SettingsBack
    <2>2. ASSUME Answer("ok", FALSE) \/ Answer("error", FALSE) PROVE SettingsBack
      <3>1. window' = [window EXCEPT !.job = None]
        BY <2>2 DEF Answer
      <3>2. window'.settings = window.settings
        BY <1>1, <3>1 DEF Window
      <3> QED BY <2>1, <3>2
    <2>3. CASE publish_program
      <3>1. ASSUME NEW j, NEW n, window' = [window EXCEPT !.epoch = n, !.job = j]
            PROVE  SettingsBack
        <4>1. window'.settings = window.settings
          BY <1>1, <3>1 DEF Window
        <4> QED BY <2>1, <4>1
      <3> QED BY <2>2, <2>3, <3>1 DEF publish_program
    <2>4. CASE finish_export
      <3>1. ASSUME window' = WithoutJob PROVE SettingsBack
        <4>1. window'.settings = Undone(window, window.job)
          BY <1>1, <3>1 DEF WithoutJob, Window
        <4> QED BY <1>1, <4>1 DEF SettingsBack, Undone
      <3> QED BY <2>2, <2>4, <3>1 DEF finish_export
    <2> QED BY <2>3, <2>4 DEF publish
  <1>3. /\ applied' \in {applied, applied \cup {window.job.req}}
        /\ files' \in {files, files \cup {window.job.req}}
    BY DEF publish, publish_program, finish_export
  <1> SUFFICES ASSUME NEW r \in window.cancelled
               PROVE  (Acts(r) => Checked(r)) /\ ~Checked(r)'
    BY DEF RevokedStep
  <1>4. ~Checked(r)'
    BY <1>1, NoneApart DEF Checked
  <1>5. ASSUME Acts(r) PROVE window.job.req = r
    BY <1>2, <1>3, <1>5, NoneKept DEF Acts
  <1> QED BY <1>1, <1>4, <1>5 DEF Checked

\* No other action makes a revoked request do anything.
LEMMA OthersRevoke ==
    ASSUME Inv,
           \/ \E a \in Clients :
                 ask(a) \/ release_late_grant(a) \/ receive_decision(a) \/ write_grant(a)
           \/ execute_edit \/ start_export \/ end_frame
           \/ \E r \in Requests : sheet_thread(r)
           \/ (edit_document \/ store_settings \/ open_document)
                 /\ UNCHANGED <<ui, doing, applied, files>>
           \/ \E c \in Conns : Connection(c)
    PROVE  RevokedStep
  <1>1. window \in Window /\ window.cancelled \subseteq Requests
    BY Fields DEF Inv, Types
  <1>2. ASSUME (ui' = ui /\ window'.job = window.job) \/ ui' # "publishing", doing' = doing,
               UNCHANGED <<applied, files>>, window'.settings \in {window.settings, None}
        PROVE  RevokedStep
    BY <1>2, QuietStep DEF SettingsBack
  <1>3. ASSUME NEW a \in Clients,
               ask(a) \/ release_late_grant(a) \/ receive_decision(a) \/ write_grant(a)
        PROVE  RevokedStep
    <2>1. UNCHANGED <<window, ui, doing, applied, files>>
      BY <1>3, Zenon DEF ask, release_late_grant, receive_decision, write_grant
    <2> QED BY <1>2, <2>1
  <1>4. CASE execute_edit
    <2>1. window' = window \/ window' = [window EXCEPT !.epoch = @ + 1]
      BY <1>4 DEF execute_edit
    <2>2. window'.settings = window.settings
      BY <1>1, <2>1 DEF Window
    <2>3. /\ ui' = "queue" /\ doing' = None /\ files' = files
          /\ applied' = applied \/ applied' = applied \cup {doing}
      BY <1>4 DEF execute_edit
    <2> QED BY <1>1, <2>2, <2>3, NoneApart DEF RevokedStep, Acts, Checked
  <1>5. CASE start_export
    <2>1. \/ window' = window
          \/ \E j : window' = [window EXCEPT !.job = j, !.settings = doing]
      BY <1>5 DEF start_export
    <2>2. window'.settings \in {window.settings, doing}
      BY <1>1, <2>1 DEF Window
    <2>3. ui' = "queue" /\ doing' = None /\ UNCHANGED <<applied, files>>
      BY <1>5 DEF start_export
    <2> QED BY <1>1, <2>2, <2>3, NoneApart DEF RevokedStep, Acts, Checked
  <1>6. CASE end_frame
    BY <1>2, <1>6 DEF end_frame
  <1>7. ASSUME NEW r \in Requests, sheet_thread(r) PROVE RevokedStep
    <2>1. PICK at : window' = [window EXCEPT !.gate[r] = at]
      BY <1>7 DEF sheet_thread
    <2>2. window'.settings = window.settings /\ window'.job = window.job
      BY <1>1, <2>1 DEF Window
    <2>3. /\ UNCHANGED <<ui, doing>> /\ applied' = applied
          /\ \/ files' = files
             \/ window.gate[r] = "publishing" /\ files' = files \cup {r}
      BY <1>7 DEF sheet_thread
    <2>4. CASE files' = files
      BY <1>2, <2>2, <2>3, <2>4
    <2>5. CASE window.gate[r] = "publishing" /\ files' = files \cup {r}
      <3> SUFFICES ASSUME NEW x \in window.cancelled
                   PROVE  /\ Acts(x) => window.gate[x] = "publishing"
                          /\ Checked(x)' => Checked(x) /\ ~Acts(x)
        BY DEF RevokedStep
      <3>1. Acts(x) => x = r
        BY <2>2, <2>3, <2>5 DEF Acts
      <3>2. Checked(x)' => Checked(x)
        BY <2>2, <2>3 DEF Checked
      <3>3. ~Checked(r)
        <4>1. doing # r
          BY <2>5 DEF Inv, Work, DoingOK
        <4>2. ASSUME ui = "publishing", window.job.req = r PROVE FALSE
          <5>1. window.job # None /\ window.job.kind # "sheet"
            BY <4>2 DEF Inv, Control, ThreadOK
          <5>2. JobIs(r)
            BY <4>2, <5>1 DEF Inv, Work, JobOK, IsJob
          <5> QED BY <2>5, <5>1, <5>2 DEF JobIs
        <4> QED BY <4>1, <4>2 DEF Checked
      <3> QED BY <2>5, <3>1, <3>2, <3>3
    <2> QED BY <2>3, <2>4, <2>5
  <1>8. CASE /\ edit_document \/ store_settings \/ open_document
             /\ UNCHANGED <<ui, doing, applied, files>>
    <2>1. window'.settings \in {window.settings, None} /\ window'.job = window.job
      BY <1>1, <1>8 DEF edit_document, store_settings, open_document, Window
    <2> QED BY <1>2, <1>8, <2>1
  <1>9. ASSUME NEW c \in Conns, Connection(c) PROVE RevokedStep
    <2>1. \/ window' = window
          \/ \E u : window' = [window EXCEPT !.queue = u]
          \/ \E x : window' = [window EXCEPT !.cancelled = x]
      BY <1>9, Zenon DEF Connection, connect, send, leave, await_answer, hang_up, await_timeout,
                  response_timeout, await_ended, close
    <2>2. window'.settings = window.settings /\ window'.job = window.job
      BY <1>1, <2>1 DEF Window
    <2>3. UNCHANGED <<ui, doing, applied, files>>
      BY <1>9 DEF Connection
    <2> QED BY <1>2, <2>2, <2>3
  <1> QED BY <1>3, <1>4, <1>5, <1>6, <1>7, <1>8, <1>9

------------------------------------------------------------------------------
(* The invariant, and what follows from it *)

\* The window starts without a bridge, or with the one of the client that launched it.
LEMMA InvInit == Init => Inv
  <1> SUFFICES ASSUME Init PROVE Inv
    OBVIOUS
  <1>1. PICK g \in {0, 1}, l \in BOOLEAN :
           /\ g = IF l THEN 1 ELSE 0
           /\ window = [bridge |-> g, gen |-> g, attached |-> FALSE, launched |-> l,
                        queue |-> <<>>, started |-> [c \in Conns |-> None],
                        session |-> None, job |-> None, epoch |-> 0, document |-> 0,
                        settings |-> None, cancelled |-> {},
                        gate |-> [r \in Requests |-> "none"],
                        takeover |-> [h \in Gens |-> <<>>]]
           /\ given = IF l THEN {1} ELSE {}
    <2>1. PICK l \in BOOLEAN : l = ("launched" \in scenario)
      <3>1. ("launched" \in scenario) \in BOOLEAN
        OBVIOUS
      <3> QED BY <3>1, Zenon
    <2>2. PICK g \in {0, 1} : g = IF l THEN 1 ELSE 0
      OBVIOUS
    <2>3. /\ window = [bridge |-> g, gen |-> g, attached |-> FALSE, launched |-> l,
                       queue |-> <<>>, started |-> [c \in Conns |-> None],
                       session |-> None, job |-> None, epoch |-> 0, document |-> 0,
                       settings |-> None, cancelled |-> {},
                       gate |-> [r \in Requests |-> "none"],
                       takeover |-> [h \in Gens |-> <<>>]]
          /\ given = IF l THEN {1} ELSE {}
      BY <2>1, <2>2 DEF Init
    <2> QED BY <2>2, <2>3
  <1>2. /\ scenario \in Scenarios /\ ui = "events" /\ doing = None
        /\ conn = [c \in Conns |-> [pc |-> "new", gen |-> 0, id |-> 0, kind |-> "read",
                                    reply |-> None]]
        /\ attach = [a \in Clients |-> [pc |-> "new", gen |-> 0]]
        /\ broker = [request |-> None, abandoned |-> {}, failed |-> FALSE]
        /\ applied = {} /\ files = {} /\ lost = {}
        /\ told = [r \in Requests |-> "nothing"]
    BY DEF Init
  <1>3. window \in Window
    <2>1. /\ [c \in Conns |-> None] \in [Conns -> Starts \cup {None}]
          /\ [r \in Requests |-> "none"] \in [Requests -> Gates]
          /\ [h \in Gens |-> <<>>] \in [Gens -> Seq([Conns -> Takeovers \cup {None}])]
          /\ <<>> \in Seq(Entry)
      BY DEF Gates
    <2> QED BY <1>1, <2>1 DEF Window, Settings
  <1>4. conn \in [Conns -> Connections]
    BY <1>2, ConstantAssumption DEF Connections, Kinds
  <1>5. attach \in [Clients -> Attaches]
    BY <1>2 DEF Attaches
  <1>6. scenario \subseteq Kinds \cup {"launched", "user", "open", "gone", "slow"}
    BY <1>2, ConstantAssumption
  <1>7. Types
    BY <1>1, <1>2, <1>3, <1>4, <1>5, <1>6 DEF Types
  <1>8. Control
    <2>1. Cardinality(Answered) \in Nat
      BY AnsweredCard
    <2>2. BridgeOK
      BY <1>1, <1>2, <2>1 DEF BridgeOK
    <2> QED BY <1>1, <1>2, <2>2 DEF Control, ThreadOK, BrokerOK, AttachedIsReal
  <1>9. \A r \in Requests : ~Issued(r) /\ ~Began(r) /\ ~Awaits(r) /\ ~IsJob(r) /\ Clear(r)
    BY <1>1, <1>2, Request, NoneApart DEF Issued, Began, Awaits, IsJob, Clear
  <1>10. Work
    BY <1>1, <1>2, <1>9, EmptyQueue, NoneApart
    DEF Work, QueueOK, JobOK, StartedOK, DoingOK, SettingsPutBack
  <1>11. Answers
    BY <1>1, <1>2, <1>9 DEF Answers, IssuedOK, RepliesOK, ToldOK, ToldIs
  <1> QED BY <1>7, <1>8, <1>10, <1>11 DEF Inv

\* Every step keeps the invariant, and lets no revoked request do anything more.
LEMMA InvNext == Inv /\ [Next]_vars => Inv' /\ (RevokedStep \/ UNCHANGED vars)
  <1> SUFFICES ASSUME Inv, [Next]_vars PROVE Inv' /\ (RevokedStep \/ UNCHANGED vars)
    OBVIOUS
  <1>1. CASE UNCHANGED vars
    <2>1. Types'
      BY <1>1 DEF vars, Inv, Types
    <2>2. Work' /\ Answers'
      BY <1>1, IdleWork DEF vars, Inv, Idle, SameBridge, SameQueue, SameDocument, SameMarks
    <2>3. SameConns
      BY <1>1 DEF vars, SameConns
    <2>4. Control'
      BY <1>1, <2>3, SameConnsOK, SameControlKept DEF vars, SameControl, SameBridge
    <2> QED BY <1>1, <2>1, <2>2, <2>4 DEF Inv
  <1>2. CASE Next
    <2>1. UNCHANGED scenario
      BY <1>2 DEF Next
    <2>2. ASSUME NEW a \in Clients,
                 ask(a) \/ release_late_grant(a) \/ receive_decision(a) \/ write_grant(a)
          PROVE  Inv' /\ RevokedStep
      BY <2>1, <2>2, BrokerKeeps, OthersRevoke
    <2>3. CASE poll_live_consent
      BY <2>1, <2>3, PollConsentKeeps
    <2>4. CASE supersede_live_bridge
      BY <2>1, <2>4, SupersedeKeeps
    <2>5. CASE poll_jobs
      BY <2>1, <2>5, PollJobsKeeps, PollJobsRevokes
    <2>12. CASE publish
      BY <2>1, <2>12, PublishKeeps, PublishRevokes
    <2>13. CASE start_export
      BY <2>1, <2>13, StartExportKeeps, OthersRevoke
    <2>6. CASE take_request
      BY <2>1, <2>6, TakeRequestKeeps
    <2>7. CASE execute_edit
      BY <2>1, <2>7, ExecuteEditKeeps, OthersRevoke
    <2>8. CASE end_frame
      BY <2>1, <2>8, EndFrameKeeps, OthersRevoke
    <2>9. ASSUME NEW r \in Requests, sheet_thread(r) PROVE Inv' /\ RevokedStep
      BY <2>1, <2>9, SheetThreadKeeps, OthersRevoke
    <2>10. CASE User
      <3>1. /\ ui = "events"
            /\ UNCHANGED <<ui, doing, conn, attach, broker, given, applied, files, lost, told,
                           scenario>>
        BY <2>1, <2>10 DEF User
      <3>2. CASE disconnect_ai
        BY <3>1, <3>2, DisconnectAIKeeps
      <3>3. CASE edit_document \/ store_settings \/ open_document
        BY <3>1, <3>3, UserEditKeeps, OthersRevoke
      <3> QED BY <2>10, <3>2, <3>3 DEF User
    <2>11. ASSUME NEW c \in Conns, Connection(c) PROVE Inv' /\ RevokedStep
      BY <2>1, <2>11, ConnectionKeeps, OthersRevoke
    <2> QED BY <1>2, <2>2, <2>3, <2>4, <2>5, <2>6, <2>7, <2>8, <2>9, <2>10, <2>11,
              <2>12, <2>13 DEF Next
  <1> QED BY <1>1, <1>2

\* The inductive invariant holds in every reachable state, for all constants.
LEMMA Invariant == Spec => []Inv
  <1>1. Inv /\ [Next]_vars => Inv'
    BY InvNext
  <1> QED BY InvInit, <1>1, PTL DEF Spec

\* What a client was told of its request (tell_superseded and the answers of
\* live_bridge/transport.rs) stays true for any number of clients, connections and
\* requests: a request it was told failed, was cancelled or changed nothing has left
\* nothing in the document, and it is told of a takeover if there was one.
THEOREM ToldTheTruth == Spec => []ToldTruth
  <1>1. Inv => ToldTruth
    BY DEF Inv, Answers, ToldOK, ToldIs, Dead, Clear, Unwritten, ToldTruth
  <1> QED BY <1>1, Invariant, PTL

\* StartedDrawings::undo: settings that an export kept in the document go back with
\* it, unless its files were written or its bridge went with its client.
THEOREM SettingsAreUndone == Spec => []SettingsPutBack
  <1>1. Inv => SettingsPutBack
    BY DEF Inv, Work
  <1> QED BY <1>1, Invariant, PTL

\* The consent broker and poll_live_consent: a window that shows a client has a
\* bridge whose credentials reached it, are on their way, or whose loss is noticed.
THEOREM AttachedClient == Spec => []AttachedIsReal
  <1>1. Inv => AttachedIsReal
    BY DEF Inv, Control
  <1> QED BY <1>1, Invariant, PTL

\* RequestAuthority: a request that was revoked passes no check of its authority any
\* more, and does at most the one thing whose check it had passed, whatever the window
\* and the connections do next.
THEOREM RevokedForGood == Spec => RevokedStaysRevoked
  <1>1. RevokedStep => \A r \in window.cancelled :
           /\ Acts(r) => Checked(r) \/ window.gate[r] = "publishing"
           /\ Checked(r)' => Checked(r) /\ ~Acts(r)
    BY DEF RevokedStep
  <1>2. Inv /\ [Next]_vars => RevokedStep \/ UNCHANGED vars
    BY InvNext
  <1> QED BY <1>1, <1>2, Invariant, PTL DEF Spec, RevokedStaysRevoked

==============================================================================

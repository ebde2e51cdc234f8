------------------------- MODULE ExactWorkerProofs -------------------------
(***************************************************************************)
(* What ExactWorker promises for any number of calls, deaths and starts.   *)
(*                                                                         *)
(* The argument: a worker that was not given up has at most one thing of   *)
(* its holder in its channels and pipes, the request that is being made or *)
(* the reply to it, and none between two requests.  A worker that was      *)
(* given up is dead, except on Windows, where it may still answer; there a *)
(* body call compares every reply with its request and a pair batch takes  *)
(* a new worker.                                                           *)
(***************************************************************************)
EXTENDS ExactWorker, TLAPS, SequenceTheorems

Kinds == {"body", "pairs"}
Results == Errors \cup {"ok"}
AnyRequest == Requests \cup {NoRequest}
MessageKinds == {"exited", "malformed", "refused", "geometry", "resource_limit",
                 "graph", "mesh", "done", "loaded", "pair"}
Message == [kind : MessageKinds, for : AnyRequest, by : Nat]
Took == [req : Requests, reply : Message]

Client ==
    [serial : Nat, live : {"yes", "dying", "no"}, terminated : BOOLEAN, exceeded : BOOLEAN,
     tail : {"quiet", "allocation", "taken"}, queue : Seq(Requests), writing : BOOLEAN,
     ack : [req : AnyRequest, ok : BOOLEAN], stdin : Seq(Requests),
     stdout : Seq(Message), chan : Seq(Message), reading : BOOLEAN,
     session : {"none", "begun", "loaded"}]

Types ==
    /\ client \in Client
    /\ place \in {"none", "held", "idle"}
    /\ cancelled \in BOOLEAN
    /\ pc \in {"ready", "batch", "send", "writing", "receiving", "lost"}
    /\ call \in Nat /\ call <= MaxCalls
    /\ kinds \in [Calls -> Kinds \cup {"none"}]
    /\ stage \in Stages
    /\ attempt \in {1, 2}
    /\ outcome \in [Calls -> Results \cup {"none"}]
    /\ taken \in SUBSET Took
    /\ sent \in [Requests -> Nat]

\* The place of a request in its call.
Position(s) ==
    CASE s \in {"evaluate", "begin"} -> 1
      [] s \in {"mesh", "load"} -> 2
      [] s = "query1" -> 3
      [] s = "query2" -> 4
      [] s = "end" -> 5
      [] OTHER -> 0

Before(q, r) == q.call < r.call \/ (q.call = r.call /\ Position(q.stage) < Position(r.stage))
NotAfter(q, r) == q.call < r.call \/ (q.call = r.call /\ Position(q.stage) <= Position(r.stage))

\* The holder is where its call is.
HolderOK ==
    /\ pc # "ready" => call > 0 /\ kinds[call] \in Kinds
                       /\ stage \in {StagesOf(kinds[call])[i] : i \in 1..Len(StagesOf(kinds[call]))}
    /\ pc = "batch" => kinds[call] = "pairs" /\ stage = "begin" /\ attempt = 1
    /\ pc = "lost" => kinds[call] = "body" /\ attempt = 1
    /\ pc # "ready" /\ kinds[call] = "pairs" =>
           attempt = 1 /\ (pc # "batch" => ~client.terminated)
    /\ place = "idle" => pc = "ready" /\ ~client.terminated

\* The worker was not given up, or is dead.
Sound(c) == platform # "windows" \/ ~c.terminated

NoTrace(c) == c.queue = <<>> /\ c.stdin = <<>> /\ c.stdout = <<>> /\ c.chan = <<>>

AnswerTo(m, c, r) == m.for = r /\ m.by = c.serial /\ m.kind \notin EndEvents

\* The request r is on its way to the worker or the reply to it on its way back.
InFlight(c, r) ==
    /\ c.queue = <<>>
    /\ \/ c.stdin = <<r>> /\ c.stdout = <<>> /\ c.chan = <<>>
       \/ /\ c.stdin = <<>> /\ c.chan = <<>>
          /\ Len(c.stdout) = 1 /\ AnswerTo(c.stdout[1], c, r)
       \/ /\ c.stdin = <<>> /\ c.stdout = <<>>
          /\ Len(c.chan) = 1 /\ AnswerTo(c.chan[1], c, r)

Acknowledged(c, r) == c.ack.req = r /\ c.ack.ok

\* What a dead worker left are answers to r and the end of its stream.
Leaves(c, r) ==
    /\ \A i \in 1..Len(c.stdout) : c.stdout[i].kind \in EndEvents \/ AnswerTo(c.stdout[i], c, r)
    /\ \A i \in 1..Len(c.chan) : c.chan[i].kind \in EndEvents \/ AnswerTo(c.chan[i], c, r)

\* The worker c between two requests.
Rested(c) ==
    /\ c.live = "dying" => c.terminated
    /\ Sound(c) /\ c.terminated => c.live = "no"
    /\ Sound(c) /\ c.live = "yes" => NoTrace(c)

PipesOK ==
    /\ client.live = "dying" => client.terminated
    /\ Sound(client) /\ client.terminated => client.live = "no"
    /\ Sound(client) /\ client.live = "yes" =>
          /\ pc \in {"ready", "batch", "send", "lost"} => NoTrace(client)
          /\ pc = "writing" =>
                \/ /\ client.queue = <<Request>> /\ client.ack.req # Request
                   /\ client.stdin = <<>> /\ client.stdout = <<>> /\ client.chan = <<>>
                \/ InFlight(client, Request)
          /\ pc = "receiving" => InFlight(client, Request)
    /\ Sound(client) /\ pc = "receiving" => Acknowledged(client, Request)
    /\ Sound(client) /\ client.live = "no" /\ pc \in {"writing", "receiving"}
       /\ Acknowledged(client, Request) => client.queue = <<>> /\ Leaves(client, Request)

\* The requests the worker c holds are of r and the requests before it.
Holds(c, r) ==
    /\ \A i \in 1..Len(c.queue) : NotAfter(c.queue[i], r)
    /\ NotAfter(c.ack.req, r)

HoldsOlder(c, r) ==
    /\ \A i \in 1..Len(c.queue) : Before(c.queue[i], r)
    /\ Before(c.ack.req, r)

AgesOK ==
    /\ Holds(client, Request)
    /\ pc \in {"batch", "send"} => HoldsOlder(client, Request)

\* The replies of the worker c are its own.
Made(c) ==
    /\ \A i \in 1..Len(c.stdout) : c.stdout[i].by <= c.serial
    /\ \A i \in 1..Len(c.chan) : c.chan[i].by <= c.serial

\* A call that has ended.
Over(n) == n < call \/ (n = call /\ pc = "ready")

\* The request at hand was answered by a mesh of no use, and another process is asked.
AnsweredMesh(t) ==
    /\ t.req = Request /\ kinds[call] = "body"
    /\ t.reply.kind = "mesh" /\ t.reply.for = Request
    /\ pc = "lost" \/ (attempt = 2 /\ t.reply.by < client.serial)

TakenOK ==
    \A t \in taken :
        /\ t.req.call <= call /\ t.reply.by <= client.serial
        /\ ~Over(t.req.call) => Before(t.req, Request) \/ AnsweredMesh(t)
        /\ \/ t.reply.for = t.req
           \/ platform = "windows" /\ Over(t.req.call) /\ outcome[t.req.call] # "ok"
        /\ ~Over(t.req.call) /\ kinds[call] = "pairs" => t.reply.by = client.serial

SentOK ==
    /\ \A r \in Requests : Before(Request, r) => sent[r] = 0
    /\ pc \in {"batch", "send"} /\ attempt = 1 => sent[Request] = 0
    /\ pc \in {"batch", "send"} /\ attempt = 2 => sent[Request] <= 1
    /\ pc \in {"writing", "receiving", "lost"} /\ attempt = 1 => sent[Request] <= 1

Inv ==
    /\ Types /\ HolderOK /\ PipesOK /\ AgesOK /\ TakenOK /\ BatchIsWhole /\ SentOK
    /\ Made(client)

------------------------------------------------------------------------------
(* The stages of a call *)

\* The stages of the two kinds of call.
LEMMA StageNames ==
    /\ Stages = {"evaluate", "mesh", "begin", "load", "query1", "query2", "end"}
    /\ Len(StagesOf("body")) = 2 /\ Len(StagesOf("pairs")) = 5
    /\ {StagesOf("body")[i] : i \in 1..Len(StagesOf("body"))} = {"evaluate", "mesh"}
    /\ {StagesOf("pairs")[i] : i \in 1..Len(StagesOf("pairs"))}
           = {"begin", "load", "query1", "query2", "end"}
<1>1. /\ Len(BodyStages) = 2 /\ BodyStages[1] = "evaluate" /\ BodyStages[2] = "mesh"
  BY DEF BodyStages
<1>2. /\ Len(PairStages) = 5 /\ PairStages[1] = "begin" /\ PairStages[2] = "load"
      /\ PairStages[3] = "query1" /\ PairStages[4] = "query2" /\ PairStages[5] = "end"
  BY DEF PairStages
<1>3. 1..2 = {1, 2} /\ 1..5 = {1, 2, 3, 4, 5}
  OBVIOUS
<1>4. {BodyStages[i] : i \in 1..Len(BodyStages)} = {"evaluate", "mesh"}
  BY <1>1, <1>3
<1>5. {PairStages[i] : i \in 1..Len(PairStages)} = {"begin", "load", "query1", "query2", "end"}
  BY <1>2, <1>3
<1> QED
  BY <1>1, <1>2, <1>4, <1>5, ZenonT(30) DEF Stages, StagesOf

\* The place of each stage in its call.
LEMMA Positions ==
    /\ Position("none") = 0
    /\ Position("evaluate") = 1 /\ Position("mesh") = 2
    /\ Position("begin") = 1 /\ Position("load") = 2 /\ Position("query1") = 3
    /\ Position("query2") = 4 /\ Position("end") = 5
    /\ \A q \in AnyRequest : Position(q.stage) \in Nat
BY StageNames DEF Position, AnyRequest, Requests, NoRequest

\* Requests are ordered by their calls and their places in them.
LEMMA Order ==
    ASSUME NEW q \in AnyRequest, NEW r \in AnyRequest, NEW s \in AnyRequest
    PROVE  /\ NotAfter(q, r) /\ Before(r, s) => Before(q, s)
           /\ Before(q, r) => NotAfter(q, r) /\ q # r /\ ~Before(r, q)
           /\ NotAfter(q, q) /\ ~Before(q, q)
           /\ NotAfter(q, r) /\ NotAfter(r, s) => NotAfter(q, s)
<1>1. q.call \in Nat /\ r.call \in Nat /\ s.call \in Nat
  BY BoundsAssumption DEF AnyRequest, Requests, NoRequest, Calls
<1> QED
  BY <1>1, Positions DEF NotAfter, Before

------------------------------------------------------------------------------
(* Workers *)

\* A worker with one of its parts replaced is a worker.
LEMMA ClientParts ==
    ASSUME NEW c \in Client
    PROVE  /\ \A x \in {"yes", "dying", "no"} : [c EXCEPT !.live = x] \in Client
           /\ \A x \in BOOLEAN : [c EXCEPT !.terminated = x] \in Client
           /\ \A x \in BOOLEAN : [c EXCEPT !.exceeded = x] \in Client
           /\ \A x \in {"quiet", "allocation", "taken"} : [c EXCEPT !.tail = x] \in Client
           /\ \A x \in Seq(Requests) : [c EXCEPT !.queue = x] \in Client
           /\ \A x \in BOOLEAN : [c EXCEPT !.writing = x] \in Client
           /\ \A x \in [req : AnyRequest, ok : BOOLEAN] : [c EXCEPT !.ack = x] \in Client
           /\ \A x \in Seq(Requests) : [c EXCEPT !.stdin = x] \in Client
           /\ \A x \in Seq(Message) : [c EXCEPT !.stdout = x] \in Client
           /\ \A x \in Seq(Message) : [c EXCEPT !.chan = x] \in Client
           /\ \A x \in BOOLEAN : [c EXCEPT !.reading = x] \in Client
           /\ \A x \in {"none", "begun", "loaded"} : [c EXCEPT !.session = x] \in Client
<1>1. \A x \in {"yes", "dying", "no"} : [c EXCEPT !.live = x] \in Client
  BY DEF Client
<1>2. \A x \in BOOLEAN : [c EXCEPT !.terminated = x] \in Client
  BY DEF Client
<1>3. \A x \in BOOLEAN : [c EXCEPT !.exceeded = x] \in Client
  BY DEF Client
<1>4. \A x \in {"quiet", "allocation", "taken"} : [c EXCEPT !.tail = x] \in Client
  BY DEF Client
<1>5. \A x \in Seq(Requests) : [c EXCEPT !.queue = x] \in Client
  BY DEF Client
<1>6. \A x \in BOOLEAN : [c EXCEPT !.writing = x] \in Client
  BY DEF Client
<1>7. \A x \in [req : AnyRequest, ok : BOOLEAN] : [c EXCEPT !.ack = x] \in Client
  BY DEF Client
<1>8. \A x \in Seq(Requests) : [c EXCEPT !.stdin = x] \in Client
  BY DEF Client
<1>9. \A x \in Seq(Message) : [c EXCEPT !.stdout = x] \in Client
  BY DEF Client
<1>10. \A x \in Seq(Message) : [c EXCEPT !.chan = x] \in Client
  BY DEF Client
<1>11. \A x \in BOOLEAN : [c EXCEPT !.reading = x] \in Client
  BY DEF Client
<1>12. \A x \in {"none", "begun", "loaded"} : [c EXCEPT !.session = x] \in Client
  BY DEF Client
<1> QED
  BY <1>1, <1>2, <1>3, <1>4, <1>5, <1>6, <1>7, <1>8, <1>9, <1>10, <1>11, <1>12

\* A client just started: nothing was sent, nothing is queued.
LEMMA FreshFacts ==
    ASSUME NEW n \in Nat
    PROVE  LET c == FreshClient(n) IN
           /\ c \in Client /\ c.serial = n /\ c.live = "yes" /\ ~c.terminated /\ NoTrace(c)
           /\ c.ack.req = NoRequest /\ ~c.ack.ok /\ Rested(c) /\ Made(c)
BY DEF FreshClient, Client, NoTrace, AnyRequest, Rested, Sound, Made

\* A terminated client keeps its serial number and what it had received.
LEMMA TerminatedFacts ==
    ASSUME NEW c \in Client
    PROVE  LET d == Terminated(c) IN
           /\ d \in Client /\ d.serial = c.serial /\ d.terminated
           /\ d.queue = c.queue /\ d.ack = c.ack /\ Rested(d)
           /\ d.stdout = c.stdout /\ d.chan = c.chan
<1> DEFINE d == Terminated(c)
<1>1. PICK l \in {"dying", "no"} :
          /\ d = [c EXCEPT !.terminated = TRUE, !.live = l, !.stdin = <<>>]
          /\ platform # "windows" => l = "no"
  BY DEF Terminated
<1>2. d \in Client /\ d.serial = c.serial /\ d.terminated = TRUE /\ d.live = l
      /\ d.queue = c.queue /\ d.ack = c.ack /\ d.stdout = c.stdout /\ d.chan = c.chan
  <2>1. d.serial = c.serial /\ d.queue = c.queue /\ d.ack = c.ack
        /\ d.stdout = c.stdout /\ d.chan = c.chan
    BY <1>1 DEF Client
  <2>2. d.live = l
    BY <1>1 DEF Client
  <2>3. d.terminated = TRUE
    BY <1>1 DEF Client
  <2>4. d \in Client
    <3>1. PICK a \in Client : a = [c EXCEPT !.terminated = TRUE]
      BY ClientParts
    <3>2. PICK b \in Client : b = [a EXCEPT !.live = l]
      BY ClientParts
    <3>3. <<>> \in Seq(Requests)
      OBVIOUS
    <3>4. PICK e \in Client : e = [b EXCEPT !.stdin = <<>>]
      BY <3>3, ClientParts
    <3>5. d = e
      BY <1>1, <3>1, <3>2, <3>4
    <3> QED
      BY <3>5
  <2> QED BY <2>1, <2>2, <2>3, <2>4
<1> HIDE DEF d
<1>3. Rested(d)
  BY <1>1, <1>2 DEF Rested, Sound
<1> QED
  BY <1>2, <1>3 DEF d

\* A failed call terminates its client; the error is the one given or the memory limit.
LEMMA FailedFacts ==
    ASSUME NEW c \in Client, NEW error \in Errors
    PROVE  /\ LET d == Failed(c, error) IN
              /\ d \in Client /\ d.serial = c.serial /\ d.terminated
              /\ d.queue = c.queue /\ d.ack = c.ack /\ Rested(d)
              /\ d.stdout = c.stdout /\ d.chan = c.chan
           /\ FailError(c, error) \in {error, "memory_limit"} /\ FailError(c, error) \in Errors
<1>1. PICK d : d = Terminated(c)
  OBVIOUS
<1>2. /\ d \in Client /\ d.serial = c.serial /\ d.terminated
      /\ d.queue = c.queue /\ d.ack = c.ack /\ Rested(d)
      /\ d.stdout = c.stdout /\ d.chan = c.chan
  BY <1>1, TerminatedFacts
<1>3. LET e == Failed(c, error) IN
      /\ e \in Client /\ e.serial = c.serial /\ e.terminated
      /\ e.queue = c.queue /\ e.ack = c.ack /\ Rested(e)
      /\ e.stdout = c.stdout /\ e.chan = c.chan
  <2>1. PICK x \in {"quiet", "allocation", "taken"} : Failed(c, error) = [d EXCEPT !.tail = x]
    BY <1>1, <1>2 DEF Failed, Client
  <2>2. PICK e \in Client : e = [d EXCEPT !.tail = x]
    BY <1>2, ClientParts
  <2>3. /\ e.serial = d.serial /\ e.terminated = d.terminated /\ e.live = d.live
        /\ e.queue = d.queue /\ e.ack = d.ack /\ e.stdin = d.stdin
        /\ e.stdout = d.stdout /\ e.chan = d.chan
    BY <1>2, <2>2 DEF Client
  <2>4. Rested(e)
    BY <1>2, <2>3 DEF Rested, Sound, NoTrace
  <2> QED
    BY <1>2, <2>1, <2>2, <2>3, <2>4
<1>4. FailError(c, error) \in {error, "memory_limit"} /\ FailError(c, error) \in Errors
  BY DEF FailError, Errors
<1> QED
  BY <1>3, <1>4

\* The invariant gives what the call's own steps need to know.
LEMMA InCallFacts ==
    ASSUME Inv, pc # "ready"
    PROVE  /\ call \in Calls /\ kinds[call] \in Kinds /\ Request \in Requests
           /\ Request.call = call /\ Request.stage = stage
           /\ kinds[call] = "body" => stage \in {"evaluate", "mesh"}
           /\ kinds[call] = "pairs" => stage \in {"begin", "load", "query1", "query2", "end"}
<1>1. call \in Calls /\ kinds[call] \in Kinds
  BY BoundsAssumption DEF Inv, Types, HolderOK, Calls
<1>2. Request \in Requests /\ Request.call = call /\ Request.stage = stage
  BY <1>1 DEF Inv, Types, Request, Requests
<1>3. stage \in {StagesOf(kinds[call])[i] : i \in 1..Len(StagesOf(kinds[call]))}
  BY DEF Inv, HolderOK
<1>4. CASE kinds[call] = "body"
  BY <1>1, <1>2, <1>3, <1>4, StageNames
<1>5. CASE kinds[call] = "pairs"
  BY <1>1, <1>2, <1>3, <1>5, StageNames
<1> QED
  BY <1>1, <1>4, <1>5 DEF Kinds

------------------------------------------------------------------------------
(* How a request ends *)

\* What a request that ends with `result` may add to the replies taken.
Fits(more, result) ==
    \A t \in more :
        /\ t \in Took /\ t.req = Request
        /\ t.reply.by <= client.serial
        /\ t.reply.for = Request \/ (platform = "windows" /\ result # "ok")
        /\ kinds[call] = "pairs" => t.reply.by = client.serial

\* Results that fit the call together come from one call, and from one worker where a batch needs that.
LEMMA FitsWhole ==
    ASSUME Inv, pc # "ready", NEW more, NEW result, Fits(more, result)
    PROVE  /\ taken \cup more \in SUBSET Took
           /\ \A t, u \in taken \cup more :
                 t.req.call = u.req.call /\ kinds[t.req.call] = "pairs" => t.reply.by = u.reply.by
<1>1. taken \cup more \in SUBSET Took
  BY DEF Inv, Types, Fits
<1>2. ASSUME NEW t \in taken, NEW u \in more, t.req.call = u.req.call, kinds[t.req.call] = "pairs"
      PROVE  t.reply.by = u.reply.by
  <2>1. u.req.call = call /\ u.reply.by = client.serial
    BY <1>2, InCallFacts DEF Fits
  <2>2. ~Over(t.req.call)
    BY <1>2, <2>1 DEF Over, Inv, Types
  <2> QED
    BY <1>2, <2>1, <2>2 DEF Inv, TakenOK
<1>3. ASSUME NEW t \in more, NEW u \in more, kinds[t.req.call] = "pairs"
      PROVE  t.reply.by = u.reply.by
  BY <1>3, InCallFacts DEF Fits
<1>4. ASSUME NEW t \in taken, NEW u \in taken, t.req.call = u.req.call,
             kinds[t.req.call] = "pairs"
      PROVE  t.reply.by = u.reply.by
  BY <1>4 DEF Inv, BatchIsWhole
<1> QED
  BY <1>1, <1>2, <1>3, <1>4

\* A call ends with a worker that is between two requests.
LEMMA EndCallOK ==
    ASSUME Inv, pc # "ready", NEW c \in Client, NEW result \in Results, NEW more,
           Rested(c), Holds(c, Request), Made(c), c.serial = client.serial, Fits(more, result),
           EndCall(c, result), taken' = taken \cup more, UNCHANGED <<sent, platform>>
    PROVE  Inv'
<1>1. /\ UNCHANGED <<place, since, cancelled, call, kinds, stage, attempt>> /\ pc' = "ready"
      /\ outcome' = [outcome EXCEPT ![call] = result]
  BY DEF EndCall
<1>2. /\ client' \in Client /\ Rested(client') /\ Holds(client', Request) /\ Made(client')
      /\ client'.serial = client.serial
  <2>1. client' = c \/ client' = Terminated(c)
    BY DEF EndCall
  <2>2. CASE client' = c
    BY <2>2
  <2>3. CASE client' = Terminated(c)
    BY <2>3, TerminatedFacts DEF Holds, Made
  <2> QED
    BY <2>1, <2>2, <2>3
<1>3. Types'
  BY <1>1, <1>2, FitsWhole DEF Inv, Types
<1>4. HolderOK'
  BY <1>1 DEF Inv, HolderOK
<1>5. PipesOK'
  BY <1>1, <1>2 DEF PipesOK, Rested, Sound, NoTrace
<1>6. AgesOK'
  BY <1>1, <1>2 DEF AgesOK, Holds, Request
<1>7. TakenOK'
  <2> SUFFICES ASSUME NEW t \in taken'
               PROVE  /\ t.req.call <= call /\ Over(t.req.call)'
                      /\ t.reply.by <= client.serial
                      /\ \/ t.reply.for = t.req
                         \/ platform = "windows" /\ outcome'[t.req.call] # "ok"
    BY <1>1, <1>2 DEF TakenOK
  <2>1. CASE t \in taken
    <3>1. t.req.call \in Calls /\ call \in Calls /\ t.req.call <= call
          /\ t.reply.by <= client.serial
      BY <2>1, InCallFacts DEF Inv, Types, TakenOK, Took, Requests
    <3>2. Over(t.req.call)'
      BY <1>1, <3>1, BoundsAssumption DEF Over, Calls
    <3>3. CASE t.reply.for = t.req
      BY <3>1, <3>2, <3>3
    <3>4. CASE platform = "windows" /\ Over(t.req.call) /\ outcome[t.req.call] # "ok"
      <4>1. t.req.call # call
        BY <3>1, <3>4, BoundsAssumption DEF Over, Calls
      <4>2. outcome'[t.req.call] = outcome[t.req.call]
        BY <1>1, <3>1, <4>1 DEF Inv, Types
      <4> QED
        BY <3>1, <3>2, <3>4, <4>2
    <3> QED
      BY <2>1, <3>3, <3>4 DEF Inv, TakenOK
  <2>2. CASE t \in more
    <3>1. t.req.call = call /\ call \in Calls /\ t.req = Request
      BY <2>2, InCallFacts DEF Fits
    <3>2. outcome'[call] = result
      BY <1>1, <3>1 DEF Inv, Types
    <3> QED
      BY <1>1, <2>2, <3>1, <3>2, BoundsAssumption DEF Fits, Over, Calls
  <2> QED
    BY <2>1, <2>2
<1>8. BatchIsWhole'
  BY <1>1, FitsWhole DEF BatchIsWhole
<1>9. SentOK'
  BY <1>1 DEF Inv, SentOK, Request
<1> QED
  BY <1>2, <1>3, <1>4, <1>5, <1>6, <1>7, <1>8, <1>9 DEF Inv, Made

\* A request fails: it is asked again of a new worker or its call ends.
LEMMA RequestFailsOK ==
    ASSUME Inv, pc # "ready", pc # "batch", NEW c \in Client, NEW error \in Errors, NEW more,
           Rested(c), Holds(c, Request), Made(c), c.serial = client.serial, Fits(more, error),
           PermitsRestart(error) =>
               \A t \in more : t.reply.kind = "mesh" /\ t.reply.for = Request,
           pc = "send" => attempt = 2 \/ sent[Request] <= 1,
           RequestFails(c, error), taken' = taken \cup more, UNCHANGED <<sent, platform>>
    PROVE  Inv'
<1>1. CASE kinds[call] = "body" /\ attempt = 1 /\ PermitsRestart(error)
  <2>1. /\ client' = c /\ pc' = "lost" /\ taken' = taken \cup more
        /\ UNCHANGED <<place, since, cancelled, call, kinds, stage, attempt, outcome, sent,
                       platform>>
    BY <1>1 DEF RequestFails
  <2>2. Request' = Request
    BY <2>1 DEF Request
  <2>3. Types'
    BY <2>1, FitsWhole DEF Inv, Types
  <2>4. HolderOK'
    BY <1>1, <2>1 DEF Inv, HolderOK
  <2>5. PipesOK'
    BY <2>1 DEF PipesOK, Rested, Sound, NoTrace
  <2>6. AgesOK'
    BY <2>1, <2>2 DEF AgesOK, Holds
  <2>7. TakenOK'
    <3> SUFFICES ASSUME NEW t \in taken'
                 PROVE  /\ t.req.call <= call /\ t.reply.by <= client.serial
                        /\ ~Over(t.req.call) => Before(t.req, Request) \/ AnsweredMesh(t)'
                        /\ \/ t.reply.for = t.req
                           \/ /\ platform = "windows" /\ Over(t.req.call)
                              /\ outcome[t.req.call] # "ok"
      BY <1>1, <2>1, <2>2 DEF TakenOK, Over
    <3>1. CASE t \in taken
      <4>1. AnsweredMesh(t) => AnsweredMesh(t)'
        BY <1>1, <2>1, <2>2 DEF AnsweredMesh
      <4> QED
        BY <3>1, <4>1 DEF Inv, TakenOK
    <3>2. CASE t \in more
      <4>1. t.req = Request /\ t.reply.kind = "mesh" /\ t.reply.for = Request
            /\ t.reply.by <= client.serial
        BY <1>1, <3>2 DEF Fits
      <4>2. t.req.call = call /\ call \in Nat
        BY <4>1, InCallFacts DEF Inv, Types
      <4>3. AnsweredMesh(t)'
        BY <1>1, <2>1, <2>2, <4>1 DEF AnsweredMesh
      <4> QED
        BY <4>1, <4>2, <4>3
    <3> QED
      BY <2>1, <3>1, <3>2
  <2>8. BatchIsWhole'
    BY <2>1, FitsWhole DEF BatchIsWhole
  <2>9. SentOK'
    BY <1>1, <2>1, <2>2 DEF Inv, SentOK, Types
  <2> QED
    BY <2>1, <2>3, <2>4, <2>5, <2>6, <2>7, <2>8, <2>9 DEF Inv, Made
<1>2. CASE ~(kinds[call] = "body" /\ attempt = 1 /\ PermitsRestart(error))
  <2>1. EndCall(c, error)
    BY <1>2 DEF RequestFails
  <2>2. error \in Results
    BY DEF Results
  <2> QED
    BY <2>1, <2>2, EndCallOK
<1> QED
  BY <1>1, <1>2

\* The client fails, and with it the request.
LEMMA ClientFailsOK ==
    ASSUME Inv, pc \in {"send", "writing", "receiving"}, NEW error \in Errors,
           ClientFails(error), UNCHANGED <<taken, sent, platform>>
    PROVE  Inv'
<1> DEFINE c == Failed(client, error)
           e == FailError(client, error)
<1>1. client \in Client
  BY DEF Inv, Types
<1>2. /\ c \in Client /\ c.serial = client.serial /\ c.terminated /\ Rested(c)
      /\ c.queue = client.queue /\ c.ack = client.ack /\ e \in Errors
      /\ c.stdout = client.stdout /\ c.chan = client.chan
  BY <1>1, FailedFacts
<1>3. RequestFails(c, e) /\ Fits({}, e) /\ taken' = taken \cup {}
  BY DEF ClientFails, Fits
<1> HIDE DEF c, e
<1>4. Holds(c, Request) /\ Made(c)
  BY <1>2 DEF Inv, AgesOK, Holds, Made
<1>5. pc = "send" => attempt = 2 \/ sent[Request] <= 1
  BY DEF Inv, SentOK, Types
<1> QED
  BY <1>2, <1>3, <1>4, <1>5, RequestFailsOK

\* The stage after the current one.
LEMMA NextStage ==
    ASSUME Inv, pc # "ready", NEW c, Advance(c), NEW stages, NEW at,
           stages = StagesOf(kinds[call]),
           at = CHOOSE i \in 1..Len(stages) : stages[i] = stage
    PROVE  IF at = Len(stages) THEN EndCall(c, "ok")
           ELSE /\ stages[at + 1] \in Stages
                /\ stages[at + 1] \in {stages[i] : i \in 1..Len(stages)}
                /\ Position(stage) < Position(stages[at + 1])
                /\ client' = c /\ stage' = stages[at + 1] /\ attempt' = 1 /\ pc' = "send"
                /\ UNCHANGED <<place, since, cancelled, call, kinds, outcome>>
<1>1. kinds[call] \in Kinds /\ stage \in {stages[i] : i \in 1..Len(stages)}
  BY InCallFacts DEF Inv, HolderOK
<1>2. at \in 1..Len(stages) /\ stages[at] = stage
  BY <1>1
<1>3. IF at = Len(stages) THEN EndCall(c, "ok")
      ELSE /\ client' = c /\ stage' = stages[at + 1] /\ attempt' = 1 /\ pc' = "send"
           /\ UNCHANGED <<place, since, cancelled, call, kinds, outcome>>
  BY DEF Advance
<1>4. at # Len(stages) =>
          stages[at + 1] \in Stages /\ Position(stage) < Position(stages[at + 1])
          /\ at + 1 \in 1..Len(stages)
  <2>1. CASE kinds[call] = "body"
    <3>1. /\ Len(stages) = 2 /\ stages[1] = "evaluate" /\ stages[2] = "mesh"
      BY <2>1 DEF StagesOf, BodyStages
    <3> QED
      BY <1>2, <3>1, StageNames, Positions
  <2>2. CASE kinds[call] = "pairs"
    <3>1. /\ Len(stages) = 5 /\ stages[1] = "begin" /\ stages[2] = "load"
          /\ stages[3] = "query1" /\ stages[4] = "query2" /\ stages[5] = "end"
      BY <2>2 DEF StagesOf, PairStages
    <3> QED
      BY <1>2, <3>1, StageNames, Positions
  <2> QED
    BY <1>1, <2>1, <2>2 DEF Kinds
<1> QED
  BY <1>3, <1>4

\* A reply to the request is taken and the call goes on.
LEMMA AdvanceOK ==
    ASSUME Inv, pc # "ready", pc # "batch", NEW c \in Client, NEW more,
           Rested(c), Holds(c, Request), Made(c), Fits(more, "ok"), c.serial = client.serial,
           kinds[call] = "pairs" => ~c.terminated,
           Advance(c), taken' = taken \cup more, UNCHANGED <<sent, platform>>
    PROVE  Inv'
<1>1. PICK stages, at : /\ stages = StagesOf(kinds[call])
                        /\ at = CHOOSE i \in 1..Len(stages) : stages[i] = stage
  OBVIOUS
<1>2. CASE at = Len(stages)
  <2>1. EndCall(c, "ok") /\ "ok" \in Results
    BY <1>1, <1>2, NextStage DEF Results
  <2> QED
    BY <2>1, EndCallOK
<1>3. CASE at # Len(stages)
  <2>1. /\ stage' \in Stages /\ stage' \in {stages[i] : i \in 1..Len(stages)}
        /\ Position(stage) < Position(stage')
        /\ client' = c /\ attempt' = 1 /\ pc' = "send"
        /\ UNCHANGED <<place, since, cancelled, call, kinds, outcome>>
    BY <1>1, <1>3, NextStage
  <2>2. Request \in Requests /\ Request' \in Requests /\ Before(Request, Request')
    BY <2>1, InCallFacts DEF Request, Requests, Before
  <2>3. Types'
    BY <2>1, FitsWhole DEF Inv, Types
  <2>4. HolderOK'
    BY <1>1, <2>1 DEF Inv, HolderOK
  <2>5. PipesOK'
    BY <2>1 DEF PipesOK, Rested, Sound, NoTrace
  <2>6. AgesOK'
    <3>1. \A i \in 1..Len(c.queue) : c.queue[i] \in AnyRequest
      BY DEF Client, AnyRequest
    <3>2. c.ack.req \in AnyRequest /\ Request \in AnyRequest /\ Request' \in AnyRequest
      BY <2>2 DEF Client, AnyRequest
    <3>3. HoldsOlder(c, Request')
      BY <2>2, <3>1, <3>2, Order DEF Holds, HoldsOlder
    <3>4. Holds(c, Request')
      BY <3>1, <3>2, <3>3, Order DEF Holds, HoldsOlder
    <3> QED
      BY <2>1, <3>3, <3>4 DEF AgesOK, Holds, HoldsOlder
  <2>7. TakenOK'
    <3> SUFFICES ASSUME NEW t \in taken'
                 PROVE  (/\ t.req.call <= call /\ t.reply.by <= client.serial
                         /\ ~Over(t.req.call) => Before(t.req, Request)
                         /\ \/ t.reply.for = t.req
                            \/ platform = "windows" /\ Over(t.req.call) /\ outcome[t.req.call] # "ok"
                         /\ ~Over(t.req.call) /\ kinds[call] = "pairs" =>
                                t.reply.by = client.serial)'
      BY DEF TakenOK
    <3>1. CASE t \in taken
      <4>1. t.req \in AnyRequest /\ Request \in AnyRequest /\ Request' \in AnyRequest
        BY <2>2, <3>1 DEF Inv, Types, Took, AnyRequest
      <4>2. Over(t.req.call)' = Over(t.req.call)
        BY <2>1 DEF Over
      <4>3. ~Over(t.req.call) => Before(t.req, Request')
        BY <2>2, <3>1, <4>1, Order DEF Inv, TakenOK, AnsweredMesh
      <4> QED
        BY <2>1, <3>1, <4>2, <4>3 DEF Inv, TakenOK
    <3>2. CASE t \in more
      <4>1. t.req = Request /\ t.req.call = call /\ t.reply.for = t.req /\ call \in Nat
        BY <3>2, InCallFacts DEF Fits, Inv, Types
      <4>2. /\ t.reply.by <= client.serial
            /\ kinds[call] = "pairs" => t.reply.by = client.serial
        BY <3>2 DEF Fits
      <4> QED
        BY <2>1, <2>2, <4>1, <4>2
    <3> QED
      BY <3>1, <3>2
  <2>8. BatchIsWhole'
    BY <2>1, FitsWhole DEF BatchIsWhole
  <2>9. SentOK'
    <3>1. Request \in AnyRequest /\ Request' \in AnyRequest /\ Requests \subseteq AnyRequest
      BY <2>2 DEF AnyRequest
    <3>2. \A r \in Requests : Before(Request', r) => sent[r] = 0
      BY <2>2, <3>1, Order DEF Inv, SentOK
    <3>3. sent[Request'] = 0
      BY <2>2 DEF Inv, SentOK
    <3> QED
      BY <2>1, <3>2, <3>3 DEF SentOK
  <2> QED
    BY <2>1, <2>3, <2>4, <2>5, <2>6, <2>7, <2>8, <2>9 DEF Inv, Made
<1> QED
  BY <1>2, <1>3

------------------------------------------------------------------------------
(* The holder *)

\* A step of the pool between two calls.
LEMMA PoolStep ==
    ASSUME Inv, pc = "ready", client' \in Client, Rested(client'), Holds(client', Request),
           Made(client'), client'.serial >= client.serial,
           place' \in {"none", "held", "idle"}, place' = "idle" => ~client'.terminated,
           cancelled' \in BOOLEAN,
           UNCHANGED <<pc, call, kinds, stage, attempt, outcome, taken, sent, platform>>
    PROVE  Inv'
<1>1. Types'
  BY DEF Inv, Types
<1>2. HolderOK'
  BY DEF Inv, HolderOK
<1>3. PipesOK'
  BY DEF PipesOK, Rested, Sound, NoTrace
<1>4. AgesOK'
  BY DEF AgesOK, Holds, Request
<1>5. TakenOK'
  <2>1. \A t \in taken : t.req.call \in Nat
    BY BoundsAssumption DEF Inv, Types, Took, Requests, Calls
  <2>2. \A t \in taken : Over(t.req.call) /\ Over(t.req.call)'
    BY <2>1 DEF Inv, Types, TakenOK, Over
  <2>3. \A t \in taken : t.reply.by <= client'.serial
    <3>1. \A t \in taken : t.reply.by \in Nat /\ t.reply.by <= client.serial
      BY DEF Inv, Types, TakenOK, Took, Message
    <3>2. client.serial \in Nat /\ client'.serial \in Nat
      BY DEF Inv, Types, Client
    <3> QED
      BY <3>1, <3>2
  <2> QED
    BY <2>2, <2>3 DEF Inv, TakenOK
<1>6. BatchIsWhole'
  BY DEF Inv, BatchIsWhole
<1>7. SentOK'
  BY DEF Inv, SentOK, Request
<1> QED
  BY <1>1, <1>2, <1>3, <1>4, <1>5, <1>6, <1>7 DEF Inv, Made

\* What the invariant says of the worker between two calls.
LEMMA ReadyFacts ==
    ASSUME Inv, pc \in {"ready", "batch", "send", "lost"}
    PROVE  client \in Client /\ Rested(client) /\ Holds(client, Request) /\ Made(client)
BY DEF Inv, Types, PipesOK, Rested, AgesOK

\* A client just started holds nothing of a request at hand.
LEMMA FreshHolds ==
    ASSUME Inv, NEW n \in Nat
    PROVE  /\ Holds(FreshClient(n), Request)
           /\ pc # "ready" => HoldsOlder(FreshClient(n), Request)
<1>1. PICK c : c = FreshClient(n)
  OBVIOUS
<1>2. c.queue = <<>> /\ c.ack.req = NoRequest
  BY <1>1 DEF FreshClient
<1>3. call \in Nat /\ Position(stage) \in Nat /\ (pc # "ready" => call > 0)
      /\ Request.call = call /\ Request.stage = stage /\ Position(stage) > 0
  BY StageNames, Positions DEF Inv, Types, HolderOK, Request
<1>4. NotAfter(NoRequest, Request) /\ (pc # "ready" => Before(NoRequest, Request))
  BY <1>3, Positions DEF NotAfter, Before, NoRequest
<1> QED
  BY <1>1, <1>2, <1>4 DEF Holds, HoldsOlder

\* A worker checked out of the pool keeps the invariant.
LEMMA CheckoutOK ==
    ASSUME Inv, Checkout, UNCHANGED platform PROVE Inv'
<1>1. client' = client \/ client' = FreshClient(client.serial + 1)
  BY DEF Checkout
<1>2. client'\in Client /\ Rested(client') /\ Holds(client', Request)
      /\ Made(client') /\ client'.serial >= client.serial
  <2>1. client.serial \in Nat /\ client.serial + 1 \in Nat
    BY DEF Inv, Types, Client
  <2> QED
    BY <1>1, <2>1, ReadyFacts, FreshFacts, FreshHolds DEF Checkout
<1>3. /\ pc = "ready" /\ place' \in {"none", "held"} /\ cancelled' \in BOOLEAN
      /\ UNCHANGED <<pc, call, kinds, stage, attempt, outcome, taken, sent>>
  BY DEF Checkout
<1> QED
  BY <1>2, <1>3, PoolStep

\* A worker given back, or dropped from a full pool, keeps the invariant.
LEMMA GiveBackOK ==
    ASSUME Inv, GiveBack \/ Evicted, UNCHANGED platform PROVE Inv'
<1>1. pc = "ready"
  BY DEF GiveBack, Evicted, Inv, HolderOK
<1>2. \/ client' = client /\ place' = "idle" /\ ~client.terminated
      \/ client' = Terminated(client) /\ place' = "none"
  BY DEF GiveBack, Evicted, IsAlive
<1>3. client'\in Client /\ Rested(client') /\ Holds(client', Request)
      /\ Made(client') /\ client'.serial >= client.serial
  <2>1. client.serial \in Nat
    BY DEF Inv, Types, Client
  <2> QED
    BY <1>1, <1>2, <2>1, ReadyFacts, TerminatedFacts DEF Holds, Made
<1>4. UNCHANGED <<cancelled, pc, call, kinds, stage, attempt, outcome, taken, sent>>
  BY DEF GiveBack, Evicted
<1>5. cancelled' \in BOOLEAN
  BY <1>4 DEF Inv, Types
<1> QED
  BY <1>1, <1>2, <1>3, <1>4, <1>5, PoolStep

\* A new call keeps the invariant: everything on its way is of an earlier one.
LEMMA StartCallOK ==
    ASSUME Inv, NEW kind \in CallKinds, StartCall(kind), UNCHANGED platform
    PROVE  Inv'
<1>1. /\ pc = "ready" /\ call < MaxCalls /\ call' = call + 1 /\ place = "held"
      /\ kinds' = [kinds EXCEPT ![call + 1] = kind] /\ stage' = StagesOf(kind)[1]
      /\ attempt' = 1 /\ pc' = (IF kind = "pairs" THEN "batch" ELSE "send")
      /\ UNCHANGED <<client, place, since, cancelled, outcome, taken, sent, platform>>
  BY DEF StartCall
<1>2. kind \in Kinds /\ call \in Nat /\ call + 1 \in Calls
  BY <1>1, BoundsAssumption DEF Kinds, Inv, Types, Calls
<1>3. /\ stage' \in Stages /\ stage' \in {StagesOf(kind)[i] : i \in 1..Len(StagesOf(kind))}
      /\ kind = "pairs" => stage' = "begin"
  BY <1>1, <1>2, StageNames DEF Kinds, StagesOf, BodyStages, PairStages
<1>4. kinds'[call + 1] = kind
  BY <1>1, <1>2 DEF Inv, Types
<1>5. /\ Request' \in Requests /\ Request'.call = call + 1 /\ Request.call = call
      /\ Before(Request, Request')
  BY <1>1, <1>2, <1>3 DEF Request, Requests, Before
<1>6. \A t \in taken : t.req.call \in Calls /\ t.req.call <= call /\ t.req.call # call + 1
  BY <1>2, BoundsAssumption DEF Inv, Types, TakenOK, Took, Requests, Calls
<1>7. \A t \in taken : Over(t.req.call) /\ Over(t.req.call)'
                        /\ kinds'[t.req.call] = kinds[t.req.call]
  BY <1>1, <1>2, <1>6, BoundsAssumption DEF Over, Calls, Inv, Types
<1>8. Types'
  BY <1>1, <1>2, <1>3 DEF Inv, Types, Calls
<1>9. HolderOK'
  BY <1>1, <1>2, <1>3, <1>4 DEF HolderOK, Kinds
<1>10. PipesOK'
  BY <1>1 DEF Inv, PipesOK, Sound, NoTrace
<1>11. AgesOK'
  <2>1. \A q \in AnyRequest : NotAfter(q, Request) => NotAfter(q, Request') /\ Before(q, Request')
    <3>1. \A q \in AnyRequest : q.call \in Nat
      BY BoundsAssumption DEF AnyRequest, Requests, NoRequest, Calls
    <3> QED
      BY <1>2, <1>5, <3>1 DEF NotAfter, Before
  <2>2. (\A i \in 1..Len(client.queue) : client.queue[i] \in AnyRequest)
        /\ client.ack.req \in AnyRequest
    BY DEF Inv, Types, Client, AnyRequest
  <2> QED
    BY <1>1, <2>1, <2>2 DEF Inv, AgesOK, Holds, HoldsOlder
<1>12. TakenOK'
  BY <1>1, <1>2, <1>6, <1>7 DEF Inv, TakenOK, Calls
<1>13. BatchIsWhole'
  BY <1>1, <1>7 DEF Inv, BatchIsWhole
<1>14. SentOK'
  <2>1. \A r \in Requests : Before(Request', r) => Before(Request, r)
    BY <1>2, <1>5, BoundsAssumption DEF Before, Requests, Calls
  <2> QED
    BY <1>1, <1>5, <2>1 DEF Inv, SentOK
<1> QED
  BY <1>1, <1>8, <1>9, <1>10, <1>11, <1>12, <1>13, <1>14 DEF Inv, Made

\* A step that leaves the holder where it is.
LEMMA ThreadStep ==
    ASSUME Inv, client' \in Client, client'.serial = client.serial,
           client'.terminated = client.terminated, PipesOK', AgesOK', Made(client'),
           cancelled' \in BOOLEAN,
           UNCHANGED <<place, pc, call, kinds, stage, attempt, outcome, taken, sent, platform>>
    PROVE  Inv'
<1>1. Request' = Request
  BY DEF Request
<1>2. Types'
  BY DEF Inv, Types
<1>3. HolderOK'
  BY DEF Inv, HolderOK
<1>4. TakenOK'
  BY <1>1 DEF Inv, TakenOK, Over, AnsweredMesh
<1>5. BatchIsWhole'
  BY DEF Inv, BatchIsWhole
<1>6. SentOK'
  BY <1>1 DEF Inv, SentOK
<1> QED
  BY <1>2, <1>3, <1>4, <1>5, <1>6 DEF Inv, Made

\* A cancellation keeps the invariant.
LEMMA CancelOK ==
    ASSUME Inv, Cancel, UNCHANGED platform PROVE Inv'
<1>1. /\ cancelled' \in BOOLEAN
      /\ UNCHANGED <<client, place, pc, call, kinds, stage, attempt, outcome, taken, sent>>
  BY DEF Cancel
<1>2. PipesOK' /\ AgesOK'
  BY <1>1 DEF Inv, PipesOK, AgesOK, Sound, NoTrace, InFlight, AnswerTo, Acknowledged, Leaves,
              Holds, HoldsOlder, Request
<1>3. client' \in Client /\ Made(client')
  BY <1>1 DEF Inv, Types, Made
<1> QED
  BY <1>1, <1>2, <1>3, ThreadStep

\* A call goes on with a worker that has nothing in its pipes.
LEMMA SendNext ==
    ASSUME Inv, pc \in {"batch", "lost"}, NEW c \in Client, ~c.terminated, Rested(c),
           HoldsOlder(c, Request), Made(c), c.serial >= client.serial,
           pc = "lost" => c.serial > client.serial, client' = c, pc' = "send",
           attempt' \in {1, 2}, pc = "batch" => attempt' = 1, pc = "lost" => attempt' = 2,
           kinds[call] = "pairs" => pc = "batch",
           UNCHANGED <<place, since, cancelled, call, kinds, stage, outcome, taken, sent, platform>>
    PROVE  Inv'
<1>1. Request' = Request /\ Request \in Requests
  BY InCallFacts DEF Request
<1>2. Types'
  BY DEF Inv, Types
<1>3. HolderOK'
  BY DEF Inv, HolderOK
<1>4. PipesOK'
  BY DEF PipesOK, Rested, Sound, NoTrace
<1>5. AgesOK'
  <2>1. Holds(c, Request)
    <3>1. \A i \in 1..Len(c.queue) : c.queue[i] \in AnyRequest
      BY DEF Client, AnyRequest
    <3>2. c.ack.req \in AnyRequest /\ Request \in AnyRequest
      BY <1>1 DEF Client, AnyRequest
    <3> QED
      BY <3>1, <3>2, Order DEF Holds, HoldsOlder
  <2> QED
    BY <1>1, <2>1 DEF AgesOK, Holds, HoldsOlder
<1>6. TakenOK'
  <2>1. kinds[call] = "pairs" => \A t \in taken : Over(t.req.call)
    <3> SUFFICES ASSUME kinds[call] = "pairs", NEW t \in taken, ~Over(t.req.call)
                 PROVE  FALSE
      OBVIOUS
    <3>1. stage = "begin" /\ Before(t.req, Request)
      BY DEF Inv, HolderOK, TakenOK, AnsweredMesh
    <3>2. t.req \in Requests /\ t.req.call \in Nat /\ call \in Nat /\ t.req.call <= call
      BY BoundsAssumption DEF Inv, Types, TakenOK, Took, Requests, Calls
    <3>3. t.req.call = call
      BY <3>2 DEF Over
    <3>4. Position(t.req.stage) >= 1
      BY <3>2, StageNames, Positions DEF Requests
    <3> QED
      <4>1. Request.call = call /\ Request.stage = "begin"
        BY <3>1 DEF Request
      <4>2. Position(t.req.stage) \in Nat
        BY <3>2, Positions DEF AnyRequest
      <4> QED
        BY <3>1, <3>2, <3>3, <3>4, <4>1, <4>2, Positions DEF Before
  <2>2. \A t \in taken : Over(t.req.call)' = Over(t.req.call)
    BY DEF Over
  <2>3. \A t \in taken : /\ t.reply.by <= c.serial
                         /\ pc = "lost" => t.reply.by < c.serial
    <3>1. \A t \in taken : t.reply.by \in Nat /\ t.reply.by <= client.serial
      BY DEF Inv, Types, TakenOK, Took, Message
    <3>2. client.serial \in Nat /\ c.serial \in Nat
      BY DEF Inv, Types, Client
    <3> QED
      BY <3>1, <3>2
  <2>4. \A t \in taken : AnsweredMesh(t) => AnsweredMesh(t)'
    BY <1>1, <2>3 DEF AnsweredMesh, Inv, HolderOK
  <2> QED
    BY <1>1, <2>1, <2>2, <2>3, <2>4 DEF Inv, TakenOK
<1>7. BatchIsWhole'
  BY DEF Inv, BatchIsWhole
<1>8. SentOK'
  BY <1>1 DEF Inv, SentOK, HolderOK
<1> QED
  BY <1>2, <1>3, <1>4, <1>5, <1>6, <1>7, <1>8 DEF Inv, Made

\* The same when the worker stays.
LEMMA EndCallHere ==
    ASSUME Inv, pc # "ready", NEW result \in Results, Rested(client), EndCall(client, result),
           UNCHANGED <<taken, sent, platform>>
    PROVE  Inv'
<1>1. client \in Client /\ Holds(client, Request) /\ Made(client)
  BY DEF Inv, Types, AgesOK
<1>2. Fits({}, result) /\ taken' = taken \cup {}
  BY DEF Fits
<1> QED
  BY <1>1, <1>2, EndCallOK

\* A batch begun keeps the invariant.
LEMMA BeginBatchOK ==
    ASSUME Inv, BeginBatch, UNCHANGED platform PROVE Inv'
<1>1. pc = "batch" /\ UNCHANGED <<taken, sent>> /\ attempt = 1 /\ Rested(client)
  BY ReadyFacts DEF BeginBatch, Inv, HolderOK
<1>2. CASE \E result \in {"cancelled", "spawn"} : EndCall(client, result)
  <2>1. PICK result \in Results : EndCall(client, result)
    BY <1>2 DEF Results, Errors
  <2> QED
    BY <1>1, <2>1, EndCallHere
<1>3. CASE /\ ~NeedsNewWorker(client) /\ pc' = "send"
           /\ UNCHANGED <<client, place, since, cancelled, call, kinds, stage, attempt, outcome>>
  <2>1. /\ client \in Client /\ ~client.terminated /\ HoldsOlder(client, Request)
        /\ Made(client) /\ client.serial >= client.serial
    BY <1>1, <1>3 DEF NeedsNewWorker, Inv, Types, AgesOK, Client
  <2> QED
    BY <1>1, <1>3, <2>1, SendNext
<1>4. CASE /\ client' = FreshClient(client.serial + 1) /\ pc' = "send"
           /\ UNCHANGED <<place, since, cancelled, call, kinds, stage, attempt, outcome>>
  <2>1. PICK c : c = FreshClient(client.serial + 1)
    OBVIOUS
  <2>2. client.serial \in Nat /\ client.serial + 1 \in Nat
    BY DEF Inv, Types, Client
  <2>3. /\ c \in Client /\ ~c.terminated /\ Rested(c) /\ HoldsOlder(c, Request)
        /\ Made(c) /\ c.serial >= client.serial /\ c.serial > client.serial
    BY <1>1, <2>1, <2>2, FreshFacts, FreshHolds
  <2> QED
    BY <1>1, <1>4, <2>1, <2>3, SendNext
<1> QED
  BY <1>2, <1>3, <1>4 DEF BeginBatch

\* A restarted worker keeps the invariant.
LEMMA RestartOK ==
    ASSUME Inv, Restart, UNCHANGED platform PROVE Inv'
<1>1. pc = "lost" /\ UNCHANGED <<taken, sent>> /\ kinds[call] = "body" /\ Rested(client)
  BY ReadyFacts DEF Restart, Inv, HolderOK
<1>2. CASE \E result \in {"cancelled", "spawn"} : EndCall(client, result)
  <2>1. PICK result \in Results : EndCall(client, result)
    BY <1>2 DEF Results, Errors
  <2> QED
    BY <1>1, <2>1, EndCallHere
<1>3. CASE /\ client' = FreshClient(client.serial + 1) /\ pc' = "send" /\ attempt' = 2
           /\ UNCHANGED <<place, since, cancelled, call, kinds, stage, outcome>>
  <2>1. PICK c : c = FreshClient(client.serial + 1)
    OBVIOUS
  <2>2. client.serial \in Nat /\ client.serial + 1 \in Nat
    BY DEF Inv, Types, Client
  <2>3. /\ c \in Client /\ ~c.terminated /\ Rested(c) /\ HoldsOlder(c, Request)
        /\ Made(c) /\ c.serial >= client.serial /\ c.serial > client.serial
    BY <1>1, <2>1, <2>2, FreshFacts, FreshHolds
  <2> QED
    BY <1>1, <1>3, <2>1, <2>3, SendNext
<1> QED
  BY <1>2, <1>3 DEF Restart

\* A request sent keeps the invariant: it is the newest of its client.
LEMMA SendOK ==
    ASSUME Inv, Send, UNCHANGED platform PROVE Inv'
<1>1. pc = "send" /\ taken' = taken
  BY DEF Send
<1>2. CASE \E error \in {"cancelled", "malformed"} : ClientFails(error) /\ UNCHANGED sent
  BY <1>1, <1>2, ClientFailsOK DEF Errors, Lost
<1>3. CASE /\ client' = [client EXCEPT !.queue = Append(@, Request)]
           /\ sent' = [sent EXCEPT ![Request] = @ + 1] /\ pc' = "writing"
           /\ UNCHANGED <<place, since, cancelled, call, kinds, stage, attempt, outcome>>
  <2>1. Request' = Request /\ Request \in Requests /\ client \in Client
    BY <1>1, <1>3, InCallFacts DEF Request, Inv, Types
  <2>2. PICK q \in Seq(Requests) : q = Append(client.queue, Request)
    <3>1. client.queue \in Seq(Requests)
      BY <2>1 DEF Client
    <3>2. Append(client.queue, Request) \in Seq(Requests)
      BY <2>1, <3>1, AppendProperties
    <3> QED
      BY <3>2
  <2>3. /\ client' = [client EXCEPT !.queue = q] /\ client' \in Client
        /\ client'.queue = q /\ client'.ack = client.ack /\ client'.live = client.live
        /\ client'.stdin = client.stdin /\ client'.stdout = client.stdout
        /\ client'.chan = client.chan /\ client'.serial = client.serial
        /\ client'.terminated = client.terminated /\ Made(client')
    <3>1. client' = [client EXCEPT !.queue = q]
      BY <1>3, <2>2
    <3>2. client' \in Client
      BY <2>1, <3>1, ClientParts
    <3> QED
      BY <2>1, <3>1, <3>2 DEF Client, Inv, Made
  <2>4. client.ack.req # Request
    <3>1. client.ack.req \in AnyRequest /\ Request \in AnyRequest
      BY <2>1 DEF Client, AnyRequest
    <3> QED
      BY <1>1, <3>1, Order DEF Inv, AgesOK, HoldsOlder
  <2>5. Types'
    <3>1. sent' \in [Requests -> Nat]
      BY <1>3, <2>1 DEF Inv, Types
    <3> QED
      BY <1>1, <1>3, <2>3, <3>1 DEF Inv, Types
  <2>6. HolderOK'
    BY <1>1, <1>3, <2>3 DEF Inv, HolderOK
  <2>7. PipesOK'
    <3>1. client.queue = <<>> => q = <<Request>>
      BY <2>1, <2>2
    <3> QED
      BY <1>1, <1>3, <2>1, <2>3, <2>4, <3>1
      DEF Inv, PipesOK, Sound, NoTrace, Acknowledged
  <2>8. AgesOK'
    <3>1. \A i \in 1..Len(q) : NotAfter(q[i], Request)
      <4>1. NotAfter(Request, Request)
        BY <2>1, Order DEF AnyRequest
      <4>2. client.queue \in Seq(Requests)
        BY <2>1 DEF Client
      <4>3. \A i \in 1..Len(q) : i \in 1..Len(client.queue) \/ q[i] = Request
        BY <2>1, <2>2, <4>2
      <4>4. \A i \in 1..Len(client.queue) : q[i] = client.queue[i]
        BY <2>1, <2>2, <4>2
      <4> QED
        BY <4>1, <4>3, <4>4 DEF Inv, AgesOK, Holds
    <3> QED
      BY <1>3, <2>1, <2>3, <3>1 DEF Inv, AgesOK, Holds
  <2>9. TakenOK'
    BY <1>1, <1>3, <2>1, <2>3 DEF Inv, TakenOK, Over, AnsweredMesh
  <2>10. BatchIsWhole'
    BY <1>1, <1>3 DEF Inv, BatchIsWhole
  <2>11. SentOK'
    <3>1. \A r \in Requests : Before(Request, r) => r # Request
      BY <2>1, Order DEF AnyRequest
    <3>2. \A r \in Requests : r # Request => sent'[r] = sent[r]
      BY <1>3, <2>1 DEF Inv, Types
    <3>3. attempt = 1 => sent'[Request] <= 1
      BY <1>1, <1>3, <2>1 DEF Inv, Types, SentOK
    <3> QED
      BY <1>3, <2>1, <3>1, <3>2, <3>3 DEF Inv, SentOK
  <2> QED
    BY <2>3, <2>5, <2>6, <2>7, <2>8, <2>9, <2>10, <2>11 DEF Inv, Made
<1> QED
  BY <1>2, <1>3 DEF Send

\* The acknowledgement of a write keeps the invariant.
LEMMA AwaitWriteOK ==
    ASSUME Inv, AwaitWrite, UNCHANGED platform PROVE Inv'
<1>1. pc = "writing" /\ UNCHANGED <<taken, sent>>
  BY DEF AwaitWrite
<1>2. CASE \E error \in {"cancelled", "malformed", "transport"} : ClientFails(error)
  BY <1>1, <1>2, ClientFailsOK DEF Errors, Lost
<1>3. CASE /\ client.ack.req = Request /\ client.ack.ok /\ pc' = "receiving"
           /\ UNCHANGED <<client, place, since, cancelled, call, kinds, stage, attempt, outcome>>
  <2>1. Request' = Request
    BY <1>3 DEF Request
  <2>2. Types'
    <3>1. pc' \in {"ready", "batch", "send", "writing", "receiving", "lost"}
      BY <1>3
    <3> QED
      BY <1>1, <1>3, <3>1 DEF Inv, Types
  <2>3. HolderOK'
    BY <1>1, <1>3 DEF Inv, HolderOK
  <2>4. PipesOK'
    <3>1. Acknowledged(client, Request)
      BY <1>1, <1>3 DEF Acknowledged
    <3>2. Sound(client) /\ client.live = "yes" => InFlight(client, Request)
      BY <1>1, <1>3 DEF Inv, PipesOK
    <3>3. Sound(client) /\ client.live = "no" => client.queue = <<>> /\ Leaves(client, Request)
      BY <1>1, <3>1 DEF Inv, PipesOK
    <3>4. client' = client /\ platform' = platform
      BY <1>3
    <3>5. /\ client.live = "dying" => client.terminated
          /\ Sound(client) /\ client.terminated => client.live = "no"
      BY DEF Inv, PipesOK
    <3> QED
      BY <1>3, <2>1, <3>1, <3>2, <3>3, <3>4, <3>5
      DEF PipesOK, Sound, InFlight, AnswerTo, Leaves, Acknowledged
  <2>5. AgesOK'
    <3>1. Holds(client, Request) /\ client' = client
      BY <1>3 DEF Inv, AgesOK
    <3> QED
      BY <1>3, <2>1, <3>1 DEF AgesOK, Holds
  <2>6. TakenOK'
    BY <1>1, <1>3, <2>1 DEF Inv, TakenOK, Over, AnsweredMesh
  <2>7. BatchIsWhole'
    BY <1>1, <1>3 DEF Inv, BatchIsWhole
  <2>8. SentOK'
    BY <1>1, <1>3, <2>1 DEF Inv, SentOK
  <2> QED
    BY <1>3, <2>2, <2>3, <2>4, <2>5, <2>6, <2>7, <2>8 DEF Inv, Made
<1>4. client.ack.req = Request \/ WriterIsGone
  BY DEF AwaitWrite
<1> QED
  BY <1>2, <1>3, <1>4 DEF AwaitWrite

\* A call that times out or sees its cancellation keeps the invariant.
LEMMA GivesUpOK ==
    ASSUME Inv, TimeOut \/ SeeCancel, UNCHANGED platform PROVE Inv'
<1>1. PICK error \in {"timed_out", "cancelled"} : ClientFails(error)
  BY DEF TimeOut, SeeCancel
<1>2. pc \in {"writing", "receiving"} /\ UNCHANGED <<taken, sent>> /\ error \in Errors
  BY <1>1 DEF TimeOut, SeeCancel, TimeoutPcs, Errors
<1> QED
  BY <1>1, <1>2, ClientFailsOK

\* What may come of a reply.
LEMMA ReplyCases ==
    ASSUME NEW c, NEW m, TakeReply(c, m)
    PROVE  \/ /\ Advance(c)
              /\ stage \in {"evaluate", "mesh"} => m.for = Request
           \/ \E error \in {"geometry", "resource_limit", "protocol"} : RequestFails(c, error)
           \/ RequestFails(Failed(c, "protocol"), FailError(c, "protocol"))
           \/ EndCall(c, "transport")
           \/ /\ RequestFails(c, "transport")
              /\ stage = "mesh" /\ m.kind = "mesh" /\ m.for = Request
<1>1. ReplyKinds["mesh"] = "mesh"
  BY DEF ReplyKinds
<1> QED
  BY <1>1 DEF TakeReply, MatchesRequest, Unusable

\* A reply received keeps the invariant, the reply to an earlier request included.
LEMMA ReceiveOK ==
    ASSUME Inv, Receive, UNCHANGED platform PROVE Inv'
<1>1. pc = "receiving" /\ UNCHANGED sent /\ client \in Client
  BY DEF Receive, Inv, Types
<1>2. Request \in Requests
  BY <1>1, InCallFacts
<1>3. PICK c : c = [client EXCEPT !.chan = <<>>]
  OBVIOUS
<1>4. /\ c \in Client /\ c.serial = client.serial /\ c.queue = client.queue
      /\ c.ack = client.ack /\ c.live = client.live /\ c.terminated = client.terminated
      /\ c.stdin = client.stdin /\ c.stdout = client.stdout /\ c.chan = <<>> /\ Made(c)
  <2>1. <<>> \in Seq(Message)
    OBVIOUS
  <2>2. c \in Client
    BY <1>1, <1>3, <2>1, ClientParts
  <2> QED
    BY <1>1, <1>3, <2>2 DEF Client, Inv, Made
<1>5. Holds(c, Request)
  BY <1>4 DEF Inv, AgesOK, Holds
<1>6. PICK m : m = (IF client.chan = <<>> THEN Event("malformed") ELSE Head(client.chan))
  OBVIOUS
<1>7. CASE m.kind \in EndEvents
  <2>1. /\ RequestFails(Failed(c, m.kind), FailError(c, m.kind))
        /\ taken' = taken \cup {} /\ Fits({}, FailError(c, m.kind))
    BY <1>3, <1>6, <1>7 DEF Receive, Fits
  <2>2. m.kind \in Errors
    BY <1>7 DEF EndEvents, Errors, Lost
  <2>3. PICK d, e : d = Failed(c, m.kind) /\ e = FailError(c, m.kind)
    OBVIOUS
  <2>4. /\ d \in Client /\ d.serial = client.serial /\ d.terminated /\ Rested(d)
        /\ d.queue = c.queue /\ d.ack = c.ack /\ e \in Errors
        /\ d.stdout = c.stdout /\ d.chan = c.chan
    BY <1>4, <2>2, <2>3, FailedFacts
  <2>5. Holds(d, Request) /\ Made(d)
    BY <1>4, <1>5, <2>4 DEF Holds, Made
  <2> QED
    BY <1>1, <2>1, <2>3, <2>4, <2>5, RequestFailsOK
<1>8. CASE m.kind \notin EndEvents
  <2>1. client.chan # <<>> /\ m = Head(client.chan)
    BY <1>6, <1>8 DEF Event, EndEvents
  <2>2. client.chan \in Seq(Message) /\ m \in Message /\ m = client.chan[1]
        /\ Len(client.chan) >= 1
    BY <1>1, <2>1 DEF Client
  <2> DEFINE took == [req |-> Request, reply |-> m]
  <2>3. TakeReply(c, m) /\ taken' = taken \cup {took}
    BY <1>3, <1>6, <1>8 DEF Receive
  <2>4. took \in Took /\ took.req = Request /\ took.reply = m
    BY <1>2, <2>2 DEF Took
  <2> HIDE DEF took
  <2>5. Sound(client) => AnswerTo(m, client, Request)
    <3>1. CASE client.live = "yes"
      BY <1>1, <2>1, <2>2, <3>1 DEF Inv, PipesOK, InFlight
    <3>2. CASE client.live = "no"
      BY <1>1, <1>8, <2>2, <3>2 DEF Inv, PipesOK, Leaves
    <3>3. CASE client.live = "dying"
      BY <3>3 DEF Inv, PipesOK
    <3> QED
      BY <1>1, <3>1, <3>2, <3>3 DEF Client
  <2>6. Rested(c)
    <3>1. Sound(client) /\ client.live = "yes" => NoTrace(c)
      BY <1>1, <1>4, <2>1 DEF Inv, PipesOK, InFlight, NoTrace
    <3> QED
      BY <1>4, <3>1 DEF Inv, PipesOK, Rested, Sound
  <2>7. kinds[call] = "pairs" => Sound(client)
    BY <1>1 DEF Inv, HolderOK, Sound
  <2>8. Sound(client) \/ platform = "windows"
    BY DEF Sound
  <2>13. m.by <= client.serial
    BY <2>2 DEF Inv, Made
  <2>9. \A result : result # "ok" => Fits({took}, result)
    BY <2>4, <2>5, <2>7, <2>8, <2>13 DEF Fits, AnswerTo
  <2>10. CASE Advance(c) /\ (stage \in {"evaluate", "mesh"} => m.for = Request)
    <3>1. m.for = Request
      <4>1. CASE kinds[call] = "pairs"
        BY <2>5, <2>7, <4>1 DEF AnswerTo
      <4>2. CASE kinds[call] = "body"
        BY <1>1, <2>10, <4>2, InCallFacts
      <4> QED
        BY <1>1, <4>1, <4>2, InCallFacts DEF Kinds
    <3>2. Fits({took}, "ok")
      BY <2>4, <2>5, <2>7, <2>13, <3>1 DEF Fits, AnswerTo
    <3>3. kinds[call] = "pairs" => ~c.terminated
      BY <1>1, <1>4 DEF Inv, HolderOK
    <3> QED
      BY <1>1, <1>4, <1>5, <2>3, <2>6, <2>10, <3>2, <3>3, AdvanceOK
  <2>11. ASSUME NEW error \in {"geometry", "resource_limit", "protocol"}, RequestFails(c, error)
         PROVE  Inv'
    <3>1. error \in Errors /\ ~PermitsRestart(error) /\ Fits({took}, error)
      BY <2>9 DEF Errors, PermitsRestart, Lost
    <3> QED
      BY <1>1, <1>4, <1>5, <2>3, <2>6, <2>11, <3>1, RequestFailsOK
  <2>12. CASE RequestFails(Failed(c, "protocol"), FailError(c, "protocol"))
    <3>1. PICK d, e : d = Failed(c, "protocol") /\ e = FailError(c, "protocol")
      OBVIOUS
    <3>2. /\ d \in Client /\ d.serial = client.serial /\ d.terminated /\ Rested(d)
          /\ d.queue = c.queue /\ d.ack = c.ack /\ e \in {"protocol", "memory_limit"}
          /\ d.stdout = c.stdout /\ d.chan = c.chan
      <4>1. "protocol" \in Errors
        BY DEF Errors
      <4> QED
        BY <1>4, <3>1, <4>1, FailedFacts
    <3>3. Holds(d, Request) /\ Made(d)
      BY <1>4, <1>5, <3>2 DEF Holds, Made
    <3>4. e \in Errors /\ ~PermitsRestart(e) /\ Fits({took}, e)
      BY <2>9, <3>2 DEF Errors, PermitsRestart, Lost
    <3> QED
      BY <1>1, <2>3, <2>12, <3>1, <3>2, <3>3, <3>4, RequestFailsOK
  <2>14. CASE EndCall(c, "transport")
    <3>1. "transport" \in Results /\ Fits({took}, "transport")
      BY <2>9 DEF Results, Errors, Lost
    <3> QED
      BY <1>1, <1>4, <1>5, <2>3, <2>6, <2>14, <3>1, EndCallOK
  <2>15. CASE RequestFails(c, "transport") /\ m.kind = "mesh" /\ m.for = Request
    <3>1. "transport" \in Errors /\ Fits({took}, "transport")
      BY <2>9 DEF Errors, Lost
    <3>2. \A t \in {took} : t.reply.kind = "mesh" /\ t.reply.for = Request
      BY <2>4, <2>15
    <3> QED
      BY <1>1, <1>4, <1>5, <2>3, <2>6, <2>15, <3>1, <3>2, RequestFailsOK
  <2> QED
    BY <2>3, <2>10, <2>11, <2>12, <2>14, <2>15, ReplyCases
<1> QED
  BY <1>7, <1>8

------------------------------------------------------------------------------
(* The threads and the process *)

\* A worker of which a thread or the process changes the pipes.
LEMMA ClientStepOK ==
    ASSUME Inv, NEW c \in Client, ClientStep(c), UNCHANGED platform,
           c.serial = client.serial, c.terminated = client.terminated, Made(c),
           c.live = "dying" => c.terminated,
           Sound(client) /\ c.terminated => c.live = "no",
           Sound(client) /\ c.live = "yes" =>
              /\ pc \in {"ready", "batch", "send", "lost"} => NoTrace(c)
              /\ pc = "writing" =>
                    \/ /\ c.queue = <<Request>> /\ c.ack.req # Request
                       /\ c.stdin = <<>> /\ c.stdout = <<>> /\ c.chan = <<>>
                    \/ InFlight(c, Request)
              /\ pc = "receiving" => InFlight(c, Request),
           Sound(client) /\ pc = "receiving" => Acknowledged(c, Request),
           Sound(client) /\ c.live = "no" /\ pc \in {"writing", "receiving"}
              /\ Acknowledged(c, Request) => c.queue = <<>> /\ Leaves(c, Request),
           \A i \in 1..Len(c.queue) : \E j \in 1..Len(client.queue) : c.queue[i] = client.queue[j],
           c.ack.req = client.ack.req \/ \E j \in 1..Len(client.queue) : c.ack.req = client.queue[j]
    PROVE  Inv'
<1>1. /\ client' = c
      /\ UNCHANGED <<place, since, cancelled, pc, call, kinds, stage, attempt, outcome, taken, sent>>
  BY DEF ClientStep
<1>2. Request' = Request /\ Sound(client)' = Sound(client) /\ cancelled' \in BOOLEAN
  BY <1>1 DEF Request, Sound, Inv, Types
<1>3. PipesOK'
  BY <1>1, <1>2 DEF PipesOK, NoTrace, InFlight, AnswerTo, Acknowledged, Leaves
<1>4. AgesOK'
  BY <1>1, <1>2 DEF Inv, AgesOK, Holds, HoldsOlder
<1> QED
  BY <1>1, <1>2, <1>3, <1>4, ThreadStep

\* The head and the tail of a sequence that is not empty.
LEMMA HeadAndTail ==
    ASSUME NEW S, NEW s \in Seq(S), s # <<>>
    PROVE  /\ Head(s) \in S /\ Tail(s) \in Seq(S) /\ 1 \in 1..Len(s) /\ Head(s) = s[1]
           /\ \A i \in 1..Len(Tail(s)) : i + 1 \in 1..Len(s) /\ Tail(s)[i] = s[i + 1]
           /\ Len(s) = 1 => Tail(s) = <<>>
<1>1. Len(s) \in Nat \ {0}
  BY EmptySeq
<1>2. /\ Head(s) \in S /\ Tail(s) \in Seq(S) /\ Len(Tail(s)) = Len(s) - 1
      /\ \A i \in 1..Len(Tail(s)) : Tail(s)[i] = s[i + 1]
  BY HeadTailProperties
<1>3. Head(s) = s[1]
  OBVIOUS
<1>4. Len(s) = 1 => Tail(s) = <<>>
  <2> SUFFICES ASSUME Len(s) = 1 PROVE Tail(s) = <<>>
    OBVIOUS
  <2>1. Len(Tail(s)) = 0
    BY <1>2
  <2> QED
    BY <1>2, <2>1, EmptySeq
<1> QED
  BY <1>1, <1>2, <1>3, <1>4

\* The writer thread keeps the invariant.
LEMMA WritesOK ==
    ASSUME Inv, Writes, UNCHANGED platform PROVE Inv'
<1>1. client.queue # <<>> /\ client.live # "no" /\ client \in Client
  BY DEF Writes, Inv, Types
<1>2. PICK h, q, s, a :
          /\ h = Head(client.queue) /\ q = Tail(client.queue) /\ a = [req |-> h, ok |-> TRUE]
          /\ s = IF client.live = "yes" THEN Append(client.stdin, h) ELSE client.stdin
  OBVIOUS
<1>3. client.queue \in Seq(Requests) /\ client.stdin \in Seq(Requests)
  BY <1>1 DEF Client
<1>4. /\ h \in Requests /\ q \in Seq(Requests) /\ s \in Seq(Requests)
      /\ a \in [req : AnyRequest, ok : BOOLEAN] /\ a.req = h /\ a.ok = TRUE
  <2>1. h \in Requests /\ q \in Seq(Requests)
    BY <1>1, <1>2, <1>3, HeadAndTail
  <2>2. s \in Seq(Requests)
    BY <1>2, <1>3, <2>1
  <2> QED
    BY <1>2, <2>1, <2>2 DEF AnyRequest
<1>5. PICK c : c = [client EXCEPT !.queue = q, !.ack = a, !.stdin = s]
  OBVIOUS
<1>6. /\ c \in Client /\ c.queue = q /\ c.ack = a /\ c.stdin = s /\ c.stdout = client.stdout
      /\ c.chan = client.chan /\ c.serial = client.serial
      /\ c.terminated = client.terminated /\ c.live = client.live /\ Made(c)
  <2>1. [client EXCEPT !.queue = q] \in Client
    BY <1>1, <1>4, ClientParts
  <2>2. [[client EXCEPT !.queue = q] EXCEPT !.ack = a] \in Client
    BY <1>4, <2>1, ClientParts
  <2>3. c \in Client
    BY <1>4, <1>5, <2>2, ClientParts
  <2> QED
    BY <1>1, <1>5, <2>3 DEF Client, Inv, Made
<1>7. ClientStep(c)
  BY <1>2, <1>5 DEF Writes
<1>8. \A i \in 1..Len(q) : \E j \in 1..Len(client.queue) : q[i] = client.queue[j]
  BY <1>1, <1>2, <1>3, HeadAndTail
<1>9. \E j \in 1..Len(client.queue) : a.req = client.queue[j]
  BY <1>1, <1>2, <1>3, <1>4, HeadAndTail
<1>10. client.live = "dying" => client.terminated
  BY DEF Inv, PipesOK
<1>11. CASE ~Sound(client)
  BY <1>6, <1>7, <1>8, <1>9, <1>10, <1>11, ClientStepOK
<1>12. CASE Sound(client)
  <2>1. client.live = "yes" /\ ~client.terminated
    BY <1>1, <1>12 DEF Inv, PipesOK, Client
  <2>2. pc = "writing" /\ client.queue = <<Request>> /\ client.stdin = <<>>
        /\ client.stdout = <<>> /\ client.chan = <<>>
    <3>1. pc \notin {"ready", "batch", "send", "receiving", "lost"}
      BY <1>1, <1>12, <2>1 DEF Inv, PipesOK, NoTrace, InFlight
    <3>2. pc = "writing"
      BY <3>1 DEF Inv, Types
    <3> QED
      BY <1>1, <1>12, <2>1, <3>2 DEF Inv, PipesOK, InFlight
  <2>3. h = Request /\ q = <<>> /\ s = <<Request>>
    <3>1. Len(client.queue) = 1 /\ client.queue[1] = Request
      BY <2>2
    <3>2. h = Request /\ q = <<>>
      BY <1>1, <1>2, <1>3, <3>1, HeadAndTail
    <3> QED
      BY <1>2, <2>1, <2>2, <3>2
  <2>4. InFlight(c, Request)
    BY <1>6, <2>2, <2>3 DEF InFlight
  <2> QED
    BY <1>6, <1>7, <1>8, <1>9, <1>12, <2>1, <2>2, <2>4, ClientStepOK
<1> QED
  BY <1>11, <1>12

\* A write that fails keeps the invariant.
LEMMA WriteFailsOK ==
    ASSUME Inv, WriteFails, UNCHANGED platform PROVE Inv'
<1>1. client.queue # <<>> /\ client.live = "no" /\ client \in Client
  BY DEF WriteFails, Inv, Types
<1>2. PICK h, a : h = Head(client.queue) /\ a = [req |-> h, ok |-> FALSE]
  OBVIOUS
<1>3. client.queue \in Seq(Requests)
  BY <1>1 DEF Client
<1>4. h \in Requests /\ \E j \in 1..Len(client.queue) : h = client.queue[j]
  BY <1>1, <1>2, <1>3, HeadAndTail
<1>5. a \in [req : AnyRequest, ok : BOOLEAN] /\ a.req = h /\ ~a.ok
  BY <1>2, <1>4 DEF AnyRequest
<1>6. PICK c : c = [client EXCEPT !.queue = <<>>, !.writing = FALSE, !.ack = a]
  OBVIOUS
<1>7. /\ c \in Client /\ c.queue = <<>> /\ c.ack = a /\ c.serial = client.serial
      /\ c.terminated = client.terminated /\ c.live = client.live /\ Made(c)
  <2>1. <<>> \in Seq(Requests)
    OBVIOUS
  <2>2. [client EXCEPT !.queue = <<>>] \in Client
    BY <1>1, <2>1, ClientParts
  <2>3. [[client EXCEPT !.queue = <<>>] EXCEPT !.writing = FALSE] \in Client
    BY <2>2, ClientParts
  <2>4. c \in Client
    BY <1>5, <1>6, <2>3, ClientParts
  <2> QED
    BY <1>1, <1>6, <2>4 DEF Client, Inv, Made
<1>8. ClientStep(c)
  BY <1>2, <1>6 DEF WriteFails
<1>9. Sound(client) /\ pc = "receiving" => FALSE
  BY <1>1 DEF Inv, PipesOK
<1>10. ~Acknowledged(c, Request)
  BY <1>5, <1>7 DEF Acknowledged
<1> QED
  BY <1>1, <1>4, <1>5, <1>7, <1>8, <1>9, <1>10, ClientStepOK

\* The reader thread keeps the invariant: replies are queued in the order they came.
LEMMA ReadsOK ==
    ASSUME Inv, Reads, UNCHANGED platform PROVE Inv'
<1>1. client.chan = <<>> /\ client \in Client
  BY DEF Reads, Inv, Types
<1>2. client.stdout \in Seq(Message) /\ client.queue \in Seq(Requests)
  BY <1>1 DEF Client
<1>3. CASE client.stdout # <<>>
  <2>1. PICK m, o, r : /\ m = Head(client.stdout) /\ o = Tail(client.stdout)
                       /\ r = (m.kind \notin EndEvents)
    OBVIOUS
  <2>2. m \in Message /\ o \in Seq(Message) /\ m = client.stdout[1] /\ r \in BOOLEAN
    BY <1>2, <1>3, <2>1, HeadAndTail
  <2>3. PICK c : c = [client EXCEPT !.stdout = o, !.chan = <<m>>, !.reading = r]
    OBVIOUS
  <2>4. /\ c \in Client /\ c.queue = client.queue /\ c.ack = client.ack
        /\ c.stdin = client.stdin /\ c.stdout = o /\ c.chan = <<m>>
        /\ c.serial = client.serial /\ c.terminated = client.terminated
        /\ c.live = client.live
    <3>1. <<m>> \in Seq(Message)
      BY <2>2
    <3>2. [client EXCEPT !.stdout = o] \in Client
      BY <1>1, <2>2, ClientParts
    <3>3. [[client EXCEPT !.stdout = o] EXCEPT !.chan = <<m>>] \in Client
      BY <3>1, <3>2, ClientParts
    <3>4. c \in Client
      BY <2>2, <2>3, <3>3, ClientParts
    <3> QED
      BY <1>1, <2>3, <3>4 DEF Client
  <2>5. ClientStep(c)
    BY <1>3, <2>1, <2>3 DEF Reads
  <2>6. Sound(client) /\ client.live = "yes" =>
            pc \notin {"ready", "batch", "send", "lost"}
            /\ (pc \in {"writing", "receiving"} => InFlight(c, Request))
    <3> SUFFICES ASSUME Sound(client), client.live = "yes"
                 PROVE  pc \notin {"ready", "batch", "send", "lost"}
                        /\ (pc \in {"writing", "receiving"} => InFlight(c, Request))
      OBVIOUS
    <3>1. pc \notin {"ready", "batch", "send", "lost"}
      BY <1>3 DEF Inv, PipesOK, NoTrace
    <3>2. pc \in {"writing", "receiving"} =>
              /\ client.queue = <<>> /\ client.stdin = <<>> /\ Len(client.stdout) = 1
              /\ AnswerTo(client.stdout[1], client, Request)
      BY <1>3 DEF Inv, PipesOK, InFlight
    <3>3. Len(client.stdout) = 1 => o = <<>>
      BY <1>2, <1>3, <2>1, HeadAndTail
    <3> QED
      BY <2>2, <2>4, <3>1, <3>2, <3>3 DEF InFlight, AnswerTo
  <2>7. Leaves(client, Request) => Leaves(c, Request)
    <3>1. \A i \in 1..Len(o) : i + 1 \in 1..Len(client.stdout) /\ o[i] = client.stdout[i + 1]
      BY <1>2, <1>3, <2>1, HeadAndTail
    <3>2. 1 \in 1..Len(client.stdout)
      BY <1>2, <1>3, HeadAndTail
    <3>3. Leaves(client, Request) =>
              \A i \in 1..Len(o) : o[i].kind \in EndEvents \/ AnswerTo(o[i], c, Request)
      BY <2>4, <3>1 DEF Leaves, AnswerTo
    <3>4. Leaves(client, Request) => m.kind \in EndEvents \/ AnswerTo(m, c, Request)
      BY <2>2, <2>4, <3>2 DEF Leaves, AnswerTo
    <3>5. \A i \in 1..Len(c.chan) : c.chan[i] = m
      BY <2>4
    <3> QED
      BY <2>4, <3>3, <3>4, <3>5 DEF Leaves
  <2>8. Acknowledged(c, Request) = Acknowledged(client, Request)
    BY <2>4 DEF Acknowledged
  <2>9. /\ client.live = "dying" => client.terminated
        /\ Sound(client) /\ client.terminated => client.live = "no"
        /\ Sound(client) /\ pc = "receiving" => Acknowledged(client, Request)
        /\ Sound(client) /\ client.live = "no" /\ pc \in {"writing", "receiving"}
           /\ Acknowledged(client, Request) => client.queue = <<>> /\ Leaves(client, Request)
    BY DEF Inv, PipesOK
  <2>10. Made(c)
    <3>1. \A i \in 1..Len(o) : i + 1 \in 1..Len(client.stdout) /\ o[i] = client.stdout[i + 1]
      BY <1>2, <1>3, <2>1, HeadAndTail
    <3>2. 1 \in 1..Len(client.stdout)
      BY <1>2, <1>3, HeadAndTail
    <3>3. \A i \in 1..Len(client.stdout) : client.stdout[i].by <= client.serial
      BY DEF Inv, Made
    <3>4. \A i \in 1..Len(c.chan) : c.chan[i] = m
      BY <2>4
    <3> QED
      BY <2>2, <2>4, <3>1, <3>2, <3>3, <3>4 DEF Made
  <2> QED
    BY <2>4, <2>5, <2>6, <2>7, <2>8, <2>9, <2>10, ClientStepOK
<1>4. CASE client.stdout = <<>>
  <2>1. PICK m : m = Event("exited")
    OBVIOUS
  <2>2. m \in Message /\ m.kind \in EndEvents /\ m.by = 0
    BY <2>1 DEF Event, Message, MessageKinds, AnyRequest, EndEvents
  <2>3. PICK c : c = [client EXCEPT !.chan = <<m>>, !.reading = FALSE]
    OBVIOUS
  <2>4. /\ c \in Client /\ c.queue = client.queue /\ c.ack = client.ack
        /\ c.stdin = client.stdin /\ c.stdout = <<>> /\ c.chan = <<m>>
        /\ c.serial = client.serial /\ c.terminated = client.terminated
        /\ c.live = client.live
    <3>1. <<m>> \in Seq(Message)
      BY <2>2
    <3>2. [client EXCEPT !.chan = <<m>>] \in Client
      BY <1>1, <3>1, ClientParts
    <3>3. c \in Client
      BY <2>3, <3>2, ClientParts
    <3> QED
      BY <1>1, <1>4, <2>3, <3>3 DEF Client
  <2>5. ClientStep(c) /\ client.live = "no"
    BY <1>4, <2>1, <2>3 DEF Reads
  <2>6. Leaves(c, Request)
    <3>1. \A i \in 1..Len(c.chan) : c.chan[i] = m
      BY <2>4
    <3>2. Len(c.stdout) = 0
      BY <2>4
    <3> QED
      BY <2>2, <3>1, <3>2 DEF Leaves
  <2>7. Acknowledged(c, Request) = Acknowledged(client, Request)
    BY <2>4 DEF Acknowledged
  <2>8. /\ Sound(client) /\ pc = "receiving" => Acknowledged(client, Request)
        /\ Sound(client) /\ client.live = "no" /\ pc \in {"writing", "receiving"}
           /\ Acknowledged(client, Request) => client.queue = <<>>
    BY DEF Inv, PipesOK
  <2>9. Made(c)
    <3>1. \A i \in 1..Len(c.chan) : c.chan[i] = m
      BY <2>4
    <3>2. Len(c.stdout) = 0 /\ c.serial \in Nat
      BY <1>1, <2>4 DEF Client
    <3> QED
      BY <2>2, <3>1, <3>2 DEF Made
  <2> QED
    BY <2>4, <2>5, <2>6, <2>7, <2>8, <2>9, ClientStepOK
<1> QED
  BY <1>3, <1>4

\* The process never answers with the end of its stream.
LEMMA AnswerKinds ==
    ASSUME NEW session, NEW at \in Stages, NEW kind \in Answers(session, at)
    PROVE  kind \notin EndEvents /\ kind \in MessageKinds
<1>1. kind \in {"refused", "geometry", "resource_limit", ReplyKinds[at]}
  BY DEF Answers
<1>2. ReplyKinds[at] \in {"graph", "mesh", "done", "loaded", "pair"}
  BY StageNames DEF ReplyKinds
<1> QED
  BY <1>1, <1>2 DEF EndEvents, MessageKinds

\* The worker's answer keeps the invariant.
LEMMA WorkerAnswersOK ==
    ASSUME Inv, WorkerAnswers, UNCHANGED platform PROVE Inv'
<1>1. client.live = "yes" /\ client.stdin # <<>> /\ client \in Client
  BY DEF WorkerAnswers, Inv, Types
<1>2. /\ client.stdin \in Seq(Requests) /\ client.stdout \in Seq(Message)
      /\ client.serial \in Nat /\ client.session \in {"none", "begun", "loaded"}
  BY <1>1 DEF Client
<1>3. PICK req, kind, m, i, o, s :
          /\ req = Head(client.stdin) /\ kind \in Answers(client.session, req.stage)
          /\ m = Reply(kind, req, client.serial) /\ i = Tail(client.stdin)
          /\ o = Append(client.stdout, m) /\ s = SessionAfter(client.session, req.stage, kind)
          /\ ClientStep([client EXCEPT !.stdin = i, !.stdout = o, !.session = s])
  BY Zenon DEF WorkerAnswers
<1>4. req \in Requests /\ i \in Seq(Requests) /\ req = client.stdin[1] /\ req.stage \in Stages
  <2>1. req \in Requests /\ i \in Seq(Requests) /\ req = client.stdin[1]
    BY <1>1, <1>2, <1>3, HeadAndTail
  <2> QED
    BY <2>1 DEF Requests
<1>5. kind \notin EndEvents /\ kind \in MessageKinds
  BY <1>3, <1>4, AnswerKinds
<1>6. m \in Message /\ m.for = req /\ m.by = client.serial /\ m.kind = kind
  BY <1>2, <1>3, <1>4, <1>5 DEF Message, Reply, AnyRequest
<1>7. o \in Seq(Message) /\ s \in {"none", "begun", "loaded"}
  BY <1>2, <1>3, <1>6, AppendProperties DEF SessionAfter
<1>8. PICK c : c = [client EXCEPT !.stdin = i, !.stdout = o, !.session = s]
  OBVIOUS
<1>9. /\ c \in Client /\ c.queue = client.queue /\ c.ack = client.ack
      /\ c.stdin = i /\ c.stdout = o /\ c.chan = client.chan
      /\ c.serial = client.serial /\ c.terminated = client.terminated
      /\ c.live = client.live
  <2>1. [client EXCEPT !.stdin = i] \in Client
    BY <1>1, <1>4, ClientParts
  <2>2. [[client EXCEPT !.stdin = i] EXCEPT !.stdout = o] \in Client
    BY <1>7, <2>1, ClientParts
  <2>3. c \in Client
    BY <1>7, <1>8, <2>2, ClientParts
  <2> QED
    BY <1>1, <1>8, <2>3 DEF Client
<1>10. Sound(client) =>
           pc \notin {"ready", "batch", "send", "lost"}
           /\ (pc \in {"writing", "receiving"} => InFlight(c, Request))
  <2> SUFFICES ASSUME Sound(client)
               PROVE  pc \notin {"ready", "batch", "send", "lost"}
                      /\ (pc \in {"writing", "receiving"} => InFlight(c, Request))
    OBVIOUS
  <2>1. pc \notin {"ready", "batch", "send", "lost"}
    BY <1>1 DEF Inv, PipesOK, NoTrace
  <2>2. pc \in {"writing", "receiving"} =>
            /\ client.queue = <<>> /\ client.stdin = <<Request>>
            /\ client.stdout = <<>> /\ client.chan = <<>>
    BY <1>1 DEF Inv, PipesOK, InFlight
  <2>3. client.stdin = <<Request>> => req = Request /\ i = <<>>
    <3>1. client.stdin = <<Request>> => Len(client.stdin) = 1 /\ client.stdin[1] = Request
      OBVIOUS
    <3> QED
      BY <1>1, <1>2, <1>3, <1>4, <3>1, HeadAndTail
  <2>4. client.stdout = <<>> => Len(o) = 1 /\ o[1] = m
    BY <1>3
  <2> QED
    BY <1>5, <1>6, <1>9, <2>1, <2>2, <2>3, <2>4 DEF InFlight, AnswerTo
<1>11. Acknowledged(c, Request) = Acknowledged(client, Request)
  BY <1>9 DEF Acknowledged
<1>12. /\ Sound(client) /\ client.terminated => client.live = "no"
       /\ Sound(client) /\ pc = "receiving" => Acknowledged(client, Request)
  BY DEF Inv, PipesOK
<1>13. Made(c)
  <2>1. \A i1 \in 1..Len(o) : o[i1] = m \/ (i1 \in 1..Len(client.stdout)
                                          /\ o[i1] = client.stdout[i1])
    BY <1>2, <1>3, <1>6, AppendProperties
  <2>2. Made(client)
    BY DEF Inv
  <2> QED
    BY <1>2, <1>6, <1>9, <2>1, <2>2 DEF Made
<1> QED
  BY <1>1, <1>3, <1>8, <1>9, <1>10, <1>11, <1>12, <1>13, ClientStepOK

\* A worker dies: what it answered before stays, with or without the start of a frame.
LEMMA DiesOK ==
    ASSUME Inv, NEW c \in Client, ClientStep(c), UNCHANGED platform, client.live = "yes",
           c.serial = client.serial, c.terminated = client.terminated, c.live = "no",
           c.queue = client.queue, c.ack = client.ack, c.chan = client.chan,
           \A i \in 1..Len(c.stdout) :
               (c.stdout[i].kind \in EndEvents /\ c.stdout[i].by = 0)
               \/ (i \in 1..Len(client.stdout) /\ c.stdout[i] = client.stdout[i])
    PROVE  Inv'
<1>1. Acknowledged(c, Request) = Acknowledged(client, Request)
  BY DEF Acknowledged
<1>2. Sound(client) /\ pc \in {"writing", "receiving"} /\ Acknowledged(client, Request) =>
          InFlight(client, Request)
  BY DEF Inv, PipesOK, Acknowledged
<1>3. InFlight(client, Request) => c.queue = <<>> /\ Leaves(c, Request)
  <2> SUFFICES ASSUME InFlight(client, Request)
               PROVE  c.queue = <<>> /\ Leaves(c, Request)
    OBVIOUS
  <2>1. c.queue = <<>>
    BY DEF InFlight
  <2>2. \A i \in 1..Len(client.stdout) : AnswerTo(client.stdout[i], c, Request)
    BY DEF InFlight, AnswerTo
  <2>3. \A i \in 1..Len(c.chan) : AnswerTo(c.chan[i], c, Request)
    BY DEF InFlight, AnswerTo
  <2> QED
    BY <2>1, <2>2, <2>3 DEF Leaves
<1>4. Sound(client) /\ pc = "receiving" => Acknowledged(client, Request)
  BY DEF Inv, PipesOK
<1>5. Made(c)
  <2>1. client.serial \in Nat /\ Made(client)
    BY DEF Inv, Types, Client
  <2> QED
    BY <2>1 DEF Made
<1> QED
  BY <1>1, <1>2, <1>3, <1>4, <1>5, ClientStepOK

\* A worker that dies keeps the invariant.
LEMMA WorkerDiesOK ==
    ASSUME Inv, WorkerDies, UNCHANGED platform PROVE Inv'
<1>1. client.live = "yes" /\ client \in Client
  BY DEF WorkerDies, Inv, Types
<1>2. client.stdout \in Seq(Message)
  BY <1>1 DEF Client
<1>3. PICK m : m = Event("malformed")
  OBVIOUS
<1>4. m \in Message /\ m.kind \in EndEvents /\ m.by = 0
  BY <1>3 DEF Event, Message, MessageKinds, AnyRequest, EndEvents
<1>5. PICK o : /\ o = client.stdout \/ o = Append(client.stdout, m)
               /\ ClientStep([[client EXCEPT !.live = "no", !.stdin = <<>>] EXCEPT !.stdout = o])
  <2>1. PICK torn \in BOOLEAN :
            ClientStep([Dead(client) EXCEPT !.stdout = IF torn THEN Append(@, m) ELSE @])
    BY <1>3 DEF WorkerDies
  <2>2. PICK d : d = [client EXCEPT !.live = "no", !.stdin = <<>>]
    OBVIOUS
  <2>3. d.stdout = client.stdout
    BY <1>1, <2>2 DEF Client
  <2> QED
    BY <2>1, <2>2, <2>3 DEF Dead
<1>6. /\ o \in Seq(Message)
      /\ \A i \in 1..Len(o) :
            \/ o[i].kind \in EndEvents /\ o[i].by = 0
            \/ i \in 1..Len(client.stdout) /\ o[i] = client.stdout[i]
  <2>1. CASE o = client.stdout
    BY <1>2, <2>1
  <2>2. CASE o = Append(client.stdout, m)
    BY <1>2, <1>4, <2>2, AppendProperties
  <2> QED
    BY <1>5, <2>1, <2>2
<1>7. PICK c : c = [[client EXCEPT !.live = "no", !.stdin = <<>>] EXCEPT !.stdout = o]
  OBVIOUS
<1>8. /\ c \in Client /\ c.queue = client.queue /\ c.ack = client.ack
      /\ c.stdout = o /\ c.chan = client.chan /\ c.live = "no"
      /\ c.serial = client.serial /\ c.terminated = client.terminated
  <2>1. [client EXCEPT !.live = "no"] \in Client
    BY <1>1, ClientParts
  <2>2. <<>> \in Seq(Requests)
    OBVIOUS
  <2>3. [[client EXCEPT !.live = "no"] EXCEPT !.stdin = <<>>] \in Client
    BY <2>1, <2>2, ClientParts
  <2>4. c \in Client
    BY <1>6, <1>7, <2>3, ClientParts
  <2> QED
    BY <1>1, <1>7, <2>4 DEF Client
<1> QED
  BY <1>1, <1>5, <1>6, <1>7, <1>8, DiesOK, ZenonT(30)

\* A worker stopped at its memory limit keeps the invariant.
LEMMA WorkerOverrunsOK ==
    ASSUME Inv, WorkerOverruns, UNCHANGED platform PROVE Inv'
<1>1. client.live = "yes" /\ client \in Client
  BY DEF WorkerOverruns, Inv, Types
<1>2. PICK d : d = [client EXCEPT !.live = "no", !.stdin = <<>>]
  OBVIOUS
<1>3. d \in Client
  <2>1. [client EXCEPT !.live = "no"] \in Client
    BY <1>1, ClientParts
  <2>2. <<>> \in Seq(Requests)
    OBVIOUS
  <2> QED
    BY <1>2, <2>1, <2>2, ClientParts
<1>4. PICK e, f : /\ e = (d.exceeded \/ platform = "macos")
                  /\ f = IF platform # "macos" /\ d.tail = "quiet" THEN "allocation" ELSE d.tail
  OBVIOUS
<1>5. e \in BOOLEAN /\ f \in {"quiet", "allocation", "taken"}
  BY <1>3, <1>4 DEF Client
<1>6. PICK c : c = [d EXCEPT !.exceeded = e, !.tail = f]
  OBVIOUS
<1>7. ClientStep(c)
  BY <1>2, <1>4, <1>6 DEF WorkerOverruns, Dead
<1>8. c \in Client
  <2>1. [d EXCEPT !.exceeded = e] \in Client
    BY <1>3, <1>5, ClientParts
  <2> QED
    BY <1>5, <1>6, <2>1, ClientParts
<1>9. /\ c.queue = client.queue /\ c.ack = client.ack /\ c.stdout = client.stdout
      /\ c.chan = client.chan /\ c.live = "no"
      /\ c.serial = client.serial /\ c.terminated = client.terminated
  BY <1>1, <1>2, <1>3, <1>6 DEF Client
<1> QED
  BY <1>1, <1>7, <1>8, <1>9, DiesOK

\* A process that is still ending is of a worker that was given up, on Windows.
LEMMA ProcessEndsOK ==
    ASSUME Inv, ProcessEnds, UNCHANGED platform PROVE Inv'
<1>1. client.live = "dying" /\ client \in Client
  BY DEF ProcessEnds, Inv, Types
<1>2. ~Sound(client)
  BY <1>1 DEF Inv, PipesOK
<1>3. PICK c : c = [client EXCEPT !.live = "no"]
  OBVIOUS
<1>4. c \in Client /\ ClientStep(c)
  BY <1>1, <1>3, ClientParts DEF ProcessEnds
<1>5. /\ c.queue = client.queue /\ c.ack = client.ack /\ c.live = "no"
      /\ c.serial = client.serial /\ c.terminated = client.terminated /\ Made(c)
  BY <1>1, <1>3 DEF Client, Inv, Made
<1> QED
  BY <1>2, <1>4, <1>5, ClientStepOK

------------------------------------------------------------------------------
(* The invariant and what follows from it *)

\* The invariant holds at first.
LEMMA InitOK ==
    ASSUME Init PROVE Inv
<1>1. PICK f : f = FreshClient(0)
  OBVIOUS
<1>2. /\ f \in Client /\ f.serial = 0 /\ NoTrace(f)
      /\ f.ack.req = NoRequest /\ ~f.ack.ok
  BY <1>1, FreshFacts
<1>3. client = [f EXCEPT !.live = "no", !.terminated = TRUE, !.reading = FALSE]
  BY <1>1 DEF Init, NoClient
<1>4. client \in Client
  <2>1. [f EXCEPT !.live = "no"] \in Client
    BY <1>2, ClientParts
  <2>2. [[f EXCEPT !.live = "no"] EXCEPT !.terminated = TRUE] \in Client
    BY <2>1, ClientParts
  <2> QED
    BY <1>3, <2>2, ClientParts
<1>5. client.queue = <<>> /\ client.ack = f.ack /\ client.live = "no" /\ client.terminated
      /\ Made(client)
  BY <1>2, <1>3 DEF Client, NoTrace, Made
<1>6. Types
  <2>1. cancelled \in BOOLEAN
    BY DEF Init
  <2>2. kinds \in [Calls -> Kinds \cup {"none"}] /\ outcome \in [Calls -> Results \cup {"none"}]
    BY DEF Init
  <2>3. stage \in Stages /\ taken \in SUBSET Took /\ sent \in [Requests -> Nat]
    BY StageNames DEF Init
  <2>4. call \in Nat /\ call <= MaxCalls /\ attempt \in {1, 2}
    BY BoundsAssumption DEF Init
  <2> QED
    BY <1>4, <2>1, <2>2, <2>3, <2>4 DEF Init, Types
<1>7. HolderOK /\ PipesOK
  BY <1>5 DEF Init, HolderOK, PipesOK
<1>8. AgesOK
  <2>1. Request.call = 0 /\ Request.stage = "evaluate"
    BY DEF Init, Request
  <2>2. NotAfter(NoRequest, Request)
    BY <2>1, Positions DEF NotAfter, NoRequest
  <2> QED
    BY <1>2, <1>5, <2>2 DEF AgesOK, Holds, Init
<1>9. TakenOK /\ BatchIsWhole /\ SentOK
  BY DEF Init, TakenOK, BatchIsWhole, SentOK
<1> QED
  BY <1>5, <1>6, <1>7, <1>8, <1>9 DEF Inv

\* A step that changes nothing.
LEMMA StutterOK ==
    ASSUME Inv, UNCHANGED vars PROVE Inv'
<1>1. UNCHANGED <<platform, client, place, pc, call, kinds, stage, attempt, outcome, taken, sent,
                  cancelled>>
  BY DEF vars
<1>2. Request' = Request
  BY <1>1 DEF Request
<1>3. Types' /\ HolderOK'
  BY <1>1 DEF Inv, Types, HolderOK
<1>4. PipesOK'
  BY <1>1, <1>2 DEF Inv, PipesOK, Sound, NoTrace, InFlight, AnswerTo, Acknowledged, Leaves
<1>5. AgesOK'
  BY <1>1, <1>2 DEF Inv, AgesOK, Holds, HoldsOlder
<1>6. TakenOK'
  BY <1>1, <1>2 DEF Inv, TakenOK, Over, AnsweredMesh
<1>7. BatchIsWhole' /\ SentOK'
  BY <1>1, <1>2 DEF Inv, BatchIsWhole, SentOK
<1> QED
  BY <1>1, <1>3, <1>4, <1>5, <1>6, <1>7 DEF Inv, Made

\* Every step keeps the invariant: the holder's, the threads' and the process's.
LEMMA NextOK ==
    ASSUME Inv, [Next]_vars PROVE Inv'
<1>1. CASE Holder /\ UNCHANGED platform
  <2>1. CASE Checkout
    BY <1>1, <2>1, CheckoutOK
  <2>2. CASE GiveBack \/ Evicted
    BY <1>1, <2>2, GiveBackOK
  <2>3. CASE Cancel
    BY <1>1, <2>3, CancelOK
  <2>4. CASE \E kind \in CallKinds : StartCall(kind)
    BY <1>1, <2>4, StartCallOK
  <2>5. CASE BeginBatch
    BY <1>1, <2>5, BeginBatchOK
  <2>6. CASE Restart
    BY <1>1, <2>6, RestartOK
  <2>7. CASE Send
    BY <1>1, <2>7, SendOK
  <2>8. CASE AwaitWrite
    BY <1>1, <2>8, AwaitWriteOK
  <2>9. CASE TimeOut \/ SeeCancel
    BY <1>1, <2>9, GivesUpOK
  <2>10. CASE Receive
    BY <1>1, <2>10, ReceiveOK
  <2> QED
    BY <1>1, <2>1, <2>2, <2>3, <2>4, <2>5, <2>6, <2>7, <2>8, <2>9, <2>10 DEF Holder
<1>2. CASE Threads /\ UNCHANGED platform
  BY <1>2, WritesOK, WriteFailsOK, ReadsOK DEF Threads
<1>3. CASE Process /\ UNCHANGED platform
  BY <1>3, WorkerAnswersOK, WorkerDiesOK, WorkerOverrunsOK, ProcessEndsOK DEF Process
<1>4. CASE UNCHANGED vars
  BY <1>4, StutterOK
<1> QED
  BY <1>1, <1>2, <1>3, <1>4 DEF Next

\* The inductive invariant holds in every state of the holder, its client and the process.
LEMMA Invariance == Spec => []Inv
<1>1. Init => Inv
  BY InitOK
<1>2. Inv /\ [Next]_vars => Inv'
  BY NextOK
<1> QED
  BY <1>1, <1>2, PTL DEF Spec

\* The reply a request takes is the reply the worker made for it, on Windows at least in every
\* call that succeeds: worker_client.rs's "one request, one reply", kept by giving up a client
\* after any failure.
THEOREM OwnReply == Spec => []ReplyIsOwn
<1>1. Inv => ReplyIsOwn
  BY DEF Inv, TakenOK, ReplyIsOwn
<1> QED
  BY <1>1, Invariance, PTL

\* One process answers a whole batch of pairs (query_pairs of pair_query.rs).
THEOREM WholeBatch == Spec => []BatchIsWhole
<1>1. Inv => BatchIsWhole
  BY DEF Inv
<1> QED
  BY <1>1, Invariance, PTL

\* A worker in the pool of worker_pool.rs carries nothing of its last holder.
THEOREM CleanIdle == Spec => []IdleIsClean
<1>1. Inv => IdleIsClean
  BY DEF Inv, HolderOK, PipesOK, Sound, NoTrace, IdleIsClean, Types
<1> QED
  BY <1>1, Invariance, PTL

\* A request goes out a second time at most.  If a reply to the first was taken, then it was
\* the mesh asked for, with a file of no use, and the second goes to another process
\* (WorkerError::permits_restart and the repetitions of lib.rs).
THEOREM RepeatedRequests == Spec => RepeatedOnce
<1> DEFINE Step == \A r \in Requests : sent'[r] > sent[r] =>
                       /\ sent[r] <= 1
                       /\ \A t \in taken : t.req = r =>
                             t.reply.kind = "mesh" /\ t.reply.for = r
                             /\ t.reply.by < client.serial
<1>1. Inv /\ [Next]_vars => Step
  <2> SUFFICES ASSUME Inv, [Next]_vars, NEW r \in Requests, sent'[r] > sent[r]
               PROVE  /\ sent[r] <= 1
                      /\ \A t \in taken : t.req = r =>
                            t.reply.kind = "mesh" /\ t.reply.for = r
                            /\ t.reply.by < client.serial
    OBVIOUS
  <2>1. sent \in [Requests -> Nat]
    BY DEF Inv, Types
  <2>2. Send /\ sent' = [sent EXCEPT ![Request] = @ + 1]
    <3>1. sent' # sent
      BY <2>1
    <3>2. Send
      BY <3>1, Zenon DEF Next, vars, Holder, Threads, Process, Checkout, GiveBack, Evicted, Cancel,
                  StartCall, BeginBatch, Restart, AwaitWrite, TimeOut, SeeCancel, Receive,
                  ClientStep, Writes, WriteFails, Reads, WorkerAnswers, WorkerDies,
                  WorkerOverruns, ProcessEnds
    <3> QED
      BY <3>1, <3>2 DEF Send
  <2>3. pc = "send" /\ Request \in Requests
    BY <2>2, InCallFacts DEF Send
  <2>4. r = Request
    BY <2>1, <2>2, <2>3
  <2>5. sent[Request] <= 1
    BY <2>1, <2>3 DEF Inv, SentOK, Types
  <2>6. ASSUME NEW t \in taken, t.req = Request
        PROVE  t.reply.kind = "mesh" /\ t.reply.for = Request /\ t.reply.by < client.serial
    <3>1. t.req.call = call /\ call \in Nat
      BY <2>3, <2>6, InCallFacts DEF Inv, Types
    <3>2. ~Over(t.req.call)
      BY <2>3, <3>1 DEF Over
    <3>3. Before(Request, Request) \/ AnsweredMesh(t)
      BY <2>6, <3>2 DEF Inv, TakenOK
    <3>4. ~Before(Request, Request)
      BY <2>3, Order DEF AnyRequest
    <3> QED
      BY <2>3, <3>3, <3>4 DEF AnsweredMesh
  <2> QED
    BY <2>4, <2>5, <2>6
<1>2. []Inv /\ [][Next]_vars => [][Step]_vars
  BY <1>1, PTL
<1> QED
  BY <1>2, Invariance, PTL DEF Spec, RepeatedOnce

=============================================================================

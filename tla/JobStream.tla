----------------------------- MODULE JobStream ------------------------------
(***************************************************************************)
(* Following a durable job: the attempts that publish progress through     *)
(* Redis Pub/Sub (jobs/broker.py), the event stream of the API             *)
(* (api/services/jobs.py) and the browser that follows it and reconnects   *)
(* (followJob in src/frontend/lib/jobs.ts).  Between any two awaits of the *)
(* stream and of the browser everybody else moves.  The row of the job is  *)
(* reduced to its status, its attempt and its result; JobStore has the     *)
(* rest.  Keep-alive comments, which neither side acts on, are left out.   *)
(***************************************************************************)
EXTENDS Naturals, Sequences, Functions

CONSTANTS MaxAttempts,   \* attempts of the job (worker settings)
          MaxEvents,     \* bound: trace events of all attempts
          MaxDrained,    \* _MAX_DRAINED_PROGRESS
          MaxReconnects, \* maxReconnects of followJob
          MaxStreamFaults \* bound: outages of Redis, the network and the database

ASSUME StreamAssumption ==
    /\ {MaxAttempts, MaxReconnects, MaxStreamFaults} \subseteq Nat
    /\ {MaxEvents, MaxDrained} \subseteq Nat \ {0}

VARIABLES job,      \* the row: status, attempt_count, result_payload
          emitted,  \* emitted[a]: events of attempt a, 0 before it begins
          alive,    \* attempts whose process still executes
          redis,    \* Redis answers
          sub,      \* the subscription of the stream
          flying,   \* messages on their way to the subscription
          inbox,    \* messages that arrived and were not read
          late,     \* copies of retried events that Redis may still get to see
          server,   \* the events() generator
          owed,     \* ghost: the inbox when the row was read as terminal, none after an outage
          conn,     \* the HTTP connection
          sent,     \* the frames of this connection
          received, \* how many of them the browser has read
          browser,  \* followJob
          shown,    \* shown[a]: the latest event of attempt a on screen
          outages

jobVars     == <<job, emitted, alive>>
brokerVars  == <<redis, sub, flying, inbox, late>>
serverVars  == <<server, owed>>
wireVars    == <<conn, sent, received>>
browserVars == <<browser, shown>>
streamVars  == <<jobVars, brokerVars, serverVars, wireVars, browserVars, outages>>

Attempts == 1..MaxAttempts
JobEnds  == {"succeeded", "failed", "cancelled"}
Ended    == job.status \in JobEnds
\* A progress frame; "again" says that its publication was retried.
Event(a, n, again) == [kind |-> "progress", run |-> a, seq |-> n, again |-> again]

StreamInit ==
    /\ job = [status |-> "queued", attempt |-> 0, result |-> 0]
    /\ emitted = [a \in Attempts |-> 0]
    /\ alive = {}
    /\ redis = TRUE /\ sub = "none" /\ flying = <<>> /\ inbox = <<>> /\ late = {}
    /\ server = [at |-> "closed", seen |-> [status |-> "queued", result |-> 0], left |-> 0]
    /\ owed = <<>>
    /\ conn = "none" /\ sent = <<>> /\ received = 0
    /\ browser = [at |-> "opening", reconnects |-> 0, result |-> 0, aborted |-> FALSE,
                  status |-> "unknown", why |-> "none"]
    /\ shown = [a \in Attempts |-> 0]
    /\ outages = 0

Outage == outages < MaxStreamFaults /\ outages' = outages + 1
-----------------------------------------------------------------------------
(* The job: what the worker processes do to the row, and what they publish. *)

\* claim_next, and the trace of the new attempt.
Attempt ==
    /\ job.status = "queued" /\ job.attempt < MaxAttempts
    /\ job' = [job EXCEPT !.status = "running", !.attempt = @ + 1]
    /\ alive' = alive \cup {job.attempt + 1}
    /\ UNCHANGED <<emitted, brokerVars, serverVars, wireVars, browserVars, outages>>

\* Redis forwards a message to the subscriber, if there is one.
Forwarded(event) == IF redis /\ sub = "open" THEN Append(flying, event) ELSE flying

\* forward(): every trace event is published at once; without Redis, or without a
\* subscriber, it is lost.  If the reply fails to come, the client drops the
\* connection and sends the command once more (Retry(NoBackoff(), 1)): Redis may
\* execute both of them, one or none, and the first even after the second.
Publish(a) ==
    LET n == emitted[a] + 1 IN
    /\ a \in alive /\ SumFunctionOnSet(emitted, Attempts) < MaxEvents
    /\ emitted' = [emitted EXCEPT ![a] = n]
    /\ \/ flying' = Forwarded(Event(a, n, FALSE)) /\ UNCHANGED <<late, outages>>
       \/ /\ Outage
          /\ late' = late \cup [event : {Event(a, n, TRUE)}, copy : {1, 2}]
          /\ UNCHANGED flying
    /\ UNCHANGED <<job, alive, redis, sub, inbox, serverVars, wireVars, browserVars>>

\* Mutant: any process that still executes may record the outcome.
OutcomeUnowned(a, status) ==
    /\ a \in alive
    /\ alive' = alive \ {a}
    /\ job' = [job EXCEPT !.status = status, !.result = IF status = "succeeded" THEN a ELSE 0]
    /\ UNCHANGED <<emitted, brokerVars, serverVars, wireVars, browserVars, outages>>
\* _finish: the lease holder records the outcome after its last event; a process
\* that lost the lease is refused.
Outcome(a, status) ==
    /\ a \in alive
    /\ alive' = alive \ {a}
    /\ job' = IF job.status = "running" /\ job.attempt = a
                THEN [job EXCEPT !.status = status,
                                 !.result = IF status = "succeeded" THEN a ELSE 0]
                ELSE job
    /\ UNCHANGED <<emitted, brokerVars, serverVars, wireVars, browserVars, outages>>

\* recover_expired, while the old process may still execute.
Recover ==
    /\ job.status = "running" /\ Outage
    /\ job' = [job EXCEPT !.status = IF job.attempt < MaxAttempts THEN "queued" ELSE "failed"]
    /\ \E gone \in SUBSET {job.attempt} : alive' = alive \ gone
    /\ UNCHANGED <<emitted, brokerVars, serverVars, wireVars, browserVars>>

\* request_cancel of a queued row; a running one is cancelled by its Outcome.
CancelQueued ==
    /\ job.status = "queued"
    /\ job' = [job EXCEPT !.status = "cancelled"]
    /\ UNCHANGED <<emitted, alive, brokerVars, serverVars, wireVars, browserVars, outages>>

Work ==
    \/ Attempt \/ Recover \/ CancelQueued
    \/ \E a \in Attempts : Publish(a) \/ \E status \in JobEnds : Outcome(a, status)
-----------------------------------------------------------------------------
(* Redis Pub/Sub. *)

\* Redis executes one copy of a command whose reply was lost, soon or late; one that
\* it never gets to see stays where it is.
Land(message) ==
    /\ redis /\ late' = late \ {message}
    /\ flying' = Forwarded(message.event)
    /\ UNCHANGED <<jobVars, redis, sub, inbox, serverVars, wireVars, browserVars, outages>>

\* A message reaches the socket of the subscription.
Arrive ==
    /\ flying # <<>>
    /\ inbox' = Append(inbox, Head(flying))
    /\ flying' = Tail(flying)
    /\ UNCHANGED <<jobVars, redis, sub, late, serverVars, wireVars, browserVars, outages>>

\* Redis goes away with everything the connection held, and comes back.
RedisDown ==
    /\ redis /\ Outage
    /\ redis' = FALSE /\ flying' = <<>> /\ inbox' = <<>>
    /\ sub' = IF sub = "open" THEN "broken" ELSE sub
    /\ owed' = <<>>
    /\ UNCHANGED <<jobVars, late, server, wireVars, browserVars>>
RedisUp ==
    /\ ~redis /\ redis' = TRUE
    /\ UNCHANGED <<jobVars, sub, flying, inbox, late, serverVars, wireVars, browserVars, outages>>

\* What subscription.next does to a broken connection: redis-py subscribes again.
Resubscribed == IF sub = "broken" /\ redis THEN "open" ELSE sub
-----------------------------------------------------------------------------
(* JobService.stream: one step from each await to the next. *)

At(place) == server.at = place
Goto(place) == server' = [server EXCEPT !.at = place]
\* encode_sse_event and the write; what is written to a dead connection is lost.
Yield(frame) == sent' = IF conn = "open" THEN Append(sent, frame) ELSE sent

\* broker.subscribe: a NullSubscription when Redis does not answer.
Subscribe ==
    /\ At("subscribing")
    /\ sub' = IF redis THEN "open" ELSE "null"
    /\ Goto("checking")
    /\ UNCHANGED <<jobVars, redis, flying, inbox, late, owed, wireVars, browserVars, outages>>

\* request.is_disconnected
CheckDisconnected ==
    /\ At("checking")
    /\ Goto(IF conn = "open" THEN "reading" ELSE "closing")
    /\ UNCHANGED <<jobVars, brokerVars, owed, wireVars, browserVars, outages>>

\* Starlette cancels the generator when it notices the disconnect at an await.
CancelStream ==
    /\ server.at \in {"subscribing", "reading", "waiting", "draining", "ending"}
    /\ conn = "gone"
    /\ Goto("closing")
    /\ UNCHANGED <<jobVars, brokerVars, owed, wireVars, browserVars, outages>>

\* Mutant: cancelled is not taken for terminal.
ReadRowUncancelled ==
    /\ At("reading")
    /\ server' = [at   |-> IF job.status \in {"succeeded", "failed"} THEN "draining" ELSE "waiting",
                  seen |-> [status |-> job.status, result |-> job.result],
                  left |-> MaxDrained]
    /\ owed' = IF Ended THEN inbox ELSE owed
    /\ UNCHANGED <<jobVars, brokerVars, wireVars, browserVars, outages>>
\* self.get: the row decides whether this round is the last.
ReadRow ==
    /\ At("reading")
    /\ server' = [at   |-> IF Ended THEN "draining" ELSE "waiting",
                  seen |-> [status |-> job.status, result |-> job.result],
                  left |-> MaxDrained]
    /\ owed' = IF Ended THEN inbox ELSE owed
    /\ UNCHANGED <<jobVars, brokerVars, wireVars, browserVars, outages>>

\* self.get raises: the generator ends and the response breaks off.
ReadRowFails ==
    /\ At("reading") /\ Outage
    /\ Goto("closing")
    /\ conn' = "gone"
    /\ UNCHANGED <<jobVars, brokerVars, owed, sent, received, browserVars>>

\* Mutant: the newest message is passed on first.
AwaitProgressNewest ==
    /\ At("waiting")
    /\ Goto("checking")
    /\ sub' = Resubscribed
    /\ IF inbox # <<>>
         THEN Yield(inbox[Len(inbox)]) /\ inbox' = SubSeq(inbox, 1, Len(inbox) - 1)
         ELSE UNCHANGED <<sent, inbox>>
    /\ UNCHANGED <<jobVars, redis, flying, late, owed, conn, received, browserVars, outages>>
\* subscription.next(1.0): the oldest message, or nothing for a second.
AwaitProgress ==
    /\ At("waiting")
    /\ Goto("checking")
    /\ sub' = Resubscribed
    /\ IF inbox # <<>>
         THEN Yield(Head(inbox)) /\ inbox' = Tail(inbox)
         ELSE UNCHANGED <<sent, inbox>>
    /\ UNCHANGED <<jobVars, redis, flying, late, owed, conn, received, browserVars, outages>>

\* Mutant: the terminal frame follows the row at once.
DrainNothing ==
    /\ At("draining")
    /\ Goto("ending")
    /\ UNCHANGED <<jobVars, brokerVars, owed, wireVars, browserVars, outages>>
\* next(0) until nothing is queued or the limit is reached.
Drain ==
    /\ At("draining")
    /\ sub' = Resubscribed
    /\ IF inbox # <<>> /\ server.left > 0
         THEN /\ Yield(Head(inbox)) /\ inbox' = Tail(inbox)
              /\ server' = [server EXCEPT !.left = @ - 1]
         ELSE Goto("ending") /\ UNCHANGED <<sent, inbox>>
    /\ UNCHANGED <<jobVars, redis, flying, late, owed, conn, received, browserVars, outages>>

\* _terminal_frame of the row that was read.
TerminalKind(status) ==
    CASE status = "succeeded" -> "result" [] status = "failed" -> "error" [] OTHER -> "cancelled"
SendTerminal ==
    /\ At("ending")
    /\ Yield([kind |-> TerminalKind(server.seen.status), run |-> server.seen.result, seq |-> 0,
              again |-> FALSE])
    /\ Goto("closing")
    /\ UNCHANGED <<jobVars, brokerVars, owed, conn, received, browserVars, outages>>

\* finally: subscription.close, shielded from the cancellation; the response ends.
CloseStream ==
    /\ At("closing")
    /\ Goto("closed")
    /\ sub' = "none" /\ flying' = <<>> /\ inbox' = <<>>
    /\ conn' = IF conn = "open" THEN "ended" ELSE conn
    /\ UNCHANGED <<jobVars, redis, late, owed, sent, received, browserVars, outages>>

ServerStep ==
    \/ Subscribe \/ CheckDisconnected \/ CancelStream \/ ReadRow
    \/ AwaitProgress \/ Drain \/ SendTerminal \/ CloseStream
-----------------------------------------------------------------------------
(* followJob, getJobEvents. *)

Following(place) == browser.at = place
Throw(why) == browser' = [browser EXCEPT !.at = "thrown", !.why = why]
Leave == conn' = IF conn = "open" THEN "gone" ELSE conn  \* reader.cancel

\* fetch of the stream.  The handler of the previous connection shares nothing
\* with this one; it is over before the model begins the next.
OpenStream ==
    /\ Following("opening") /\ At("closed")
    /\ IF browser.aborted
         THEN Throw("abort") /\ UNCHANGED <<server, owed, wireVars>>
         ELSE /\ browser' = [browser EXCEPT !.at = "reading"]
              /\ Goto("subscribing")
              /\ owed' = <<>>
              /\ conn' = "open" /\ sent' = <<>> /\ received' = 0
    /\ UNCHANGED <<jobVars, brokerVars, shown, outages>>

\* The fetch rejects (TypeError, reconnectable) or answers an HTTP error.
OpenFails ==
    /\ Following("opening") /\ Outage
    /\ \/ browser' = [browser EXCEPT !.at = "asking"]
       \/ Throw("http")
    /\ UNCHANGED <<jobVars, brokerVars, serverVars, wireVars, shown>>

\* SSEParser: whole frames in the order of the bytes, however the network cuts them.
NextFrame == sent[received + 1]
ReceiveFrame ==
    /\ Following("reading") /\ received < Len(sent) /\ ~browser.aborted
    /\ received' = received + 1
    /\ LET frame == NextFrame IN
       \/ /\ frame.kind = "progress"
          /\ shown' = [shown EXCEPT ![frame.run] = IF frame.seq > @ THEN frame.seq ELSE @]
          /\ UNCHANGED <<browser, conn>>
       \/ /\ frame.kind = "result"
          /\ browser' = [browser EXCEPT !.at = "asking", !.result = frame.run]
          /\ Leave /\ UNCHANGED shown
       \/ /\ frame.kind = "cancelled"
          /\ browser' = [browser EXCEPT !.at = "asking"]
          /\ Leave /\ UNCHANGED shown
       \/ frame.kind = "error" /\ Throw("job_failed") /\ Leave /\ UNCHANGED shown
    /\ UNCHANGED <<jobVars, brokerVars, serverVars, sent, outages>>

\* The connection ended without a terminal frame: stream_disconnected or TypeError.
StreamEnded ==
    /\ Following("reading") /\ received = Len(sent) /\ conn \in {"ended", "gone"}
    /\ ~browser.aborted
    /\ browser' = [browser EXCEPT !.at = "asking"]
    /\ UNCHANGED <<jobVars, brokerVars, serverVars, wireVars, shown, outages>>

\* Mutant: the last reconnect settles for whatever the row says.
AskAndSettle ==
    /\ Following("asking")
    /\ browser' = [browser EXCEPT
           !.at = IF Ended \/ browser.result # 0 \/ browser.reconnects = MaxReconnects
                    THEN "returned" ELSE "backoff",
           !.status = job.status,
           !.result = IF @ # 0 THEN @ ELSE job.result]
    /\ UNCHANGED <<jobVars, brokerVars, serverVars, wireVars, shown, outages>>
\* client.job: the row has the last word.
Ask ==
    /\ Following("asking")
    /\ IF Ended \/ browser.result # 0
         THEN browser' = [browser EXCEPT !.at = "returned", !.status = job.status,
                                         !.result = IF @ # 0 THEN @ ELSE job.result]
         ELSE IF browser.reconnects >= MaxReconnects
           THEN Throw("stream_disconnected")
           ELSE browser' = [browser EXCEPT !.at = "backoff"]
    /\ UNCHANGED <<jobVars, brokerVars, serverVars, wireVars, shown, outages>>

\* client.job is outside the try: its failure ends the following.
AskFails ==
    /\ Following("asking") /\ Outage
    /\ Throw("network")
    /\ UNCHANGED <<jobVars, brokerVars, serverVars, wireVars, shown>>

\* wait(delayMs(reconnects), signal)
Backoff ==
    /\ Following("backoff")
    /\ IF browser.aborted
         THEN Throw("abort")
         ELSE browser' = [browser EXCEPT !.at = "opening", !.reconnects = @ + 1]
    /\ UNCHANGED <<jobVars, brokerVars, serverVars, wireVars, shown, outages>>

\* The signal reaches a read as a rejection that is not reconnectable.
Aborted ==
    /\ Following("reading") /\ browser.aborted
    /\ Throw("abort") /\ Leave
    /\ UNCHANGED <<jobVars, brokerVars, serverVars, sent, received, shown, outages>>

BrowserStep == OpenStream \/ ReceiveFrame \/ StreamEnded \/ Ask \/ Backoff \/ Aborted
-----------------------------------------------------------------------------
(* The environment. *)

\* A proxy, an API restart or the network cuts the connection; what was not read
\* may be lost.
Cut ==
    /\ conn = "open" /\ Outage
    /\ conn' = "gone"
    /\ \E n \in received..Len(sent) : sent' = SubSeq(sent, 1, n)
    /\ UNCHANGED <<jobVars, brokerVars, serverVars, received, browserVars>>

\* handlers.signal: the user leaves the page or starts something else.
Abort ==
    /\ ~browser.aborted /\ browser.at \notin {"returned", "thrown"} /\ Outage
    /\ browser' = [browser EXCEPT !.aborted = TRUE]
    /\ UNCHANGED <<jobVars, brokerVars, serverVars, wireVars, shown>>

Failure == RedisDown \/ RedisUp \/ ReadRowFails \/ OpenFails \/ AskFails \/ Cut \/ Abort

StreamNext ==
    \/ Work \/ (\E message \in late : Land(message)) \/ Arrive \/ ServerStep \/ BrowserStep \/ Failure
StreamSpec == StreamInit /\ [][StreamNext]_streamVars
-----------------------------------------------------------------------------
(* Properties. *)

\* What followJob returns, and the failure it throws, is the outcome in the row,
\* and the row never changes its mind afterwards, whichever of the terminal frame,
\* the row and a late attempt came first ("the authoritative terminal state always
\* comes from client.job").
AnswerIsOutcome ==
    /\ browser.at = "returned" =>
         /\ Ended /\ browser.status = job.status /\ browser.result = job.result
    /\ browser.why = "job_failed" => job.status = "failed"

\* The frames of a connection: the terminal frame comes last, and everything that had
\* arrived when the row was read as terminal comes before it, up to the limit and
\* unless Redis went away (run.completed is not lost to the row that commits right
\* after it).  Across reconnects an event that was published once is shown at most
\* once and is newer than all that its attempt has shown before: a subscription begins
\* where the previous one ended.  Only an event whose publication was retried
\* may be shown twice, or after later ones; nothing on the way sorts it out.
DrainedBeforeTerminal ==
    \A i \in 1..Len(sent) : sent[i].kind # "progress" =>
        /\ i = Len(sent)
        /\ \A k \in 1..Len(owed) : k <= MaxDrained => \E n \in 1..(i - 1) : sent[n] = owed[k]
ProgressInOrder ==
    \A i \in (received + 1)..Len(sent) : sent[i].kind = "progress" /\ ~sent[i].again =>
        /\ sent[i].seq > shown[sent[i].run]
        /\ \A k \in (received + 1)..(i - 1) :
              sent[k].kind = "progress" /\ sent[k].run = sent[i].run => sent[k].seq < sent[i].seq
StreamFaithful == DrainedBeforeTerminal /\ ProgressInOrder
=============================================================================

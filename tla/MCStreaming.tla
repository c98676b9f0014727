---------------------------- MODULE MCStreaming -----------------------------
(***************************************************************************)
(* The three ways progress travels, side by side: a behaviour follows one  *)
(* durable job, wakes the workers, or streams one direct operation.  They  *)
(* share nothing, so the parts are chosen in the initial state.            *)
(***************************************************************************)
EXTENDS JobStream, WorkerWakeup, ProgressChannel

CONSTANTS w1, w2, t1, t2, t3

VARIABLE part

MCIdlers == {w1, w2}
MCTasks  == {t1, t2, t3}

mcVars == <<streamVars, wakeupVars, channelVars, part>>

MCInit ==
    /\ StreamInit /\ WakeupInit /\ ChannelInit
    /\ part \in {"follow", "wakeup", "direct"}
    /\ part # "direct" => length = 1

Follow == part = "follow" /\ StreamNext  /\ UNCHANGED <<wakeupVars, channelVars, part>>
Wakeup == part = "wakeup" /\ WakeupNext  /\ UNCHANGED <<streamVars, channelVars, part>>
Direct == part = "direct" /\ ChannelNext /\ UNCHANGED <<streamVars, wakeupVars, part>>

\* A step of an operator of one of the parts, for the fairness conditions.
InFollow(A) == part = "follow" /\ A /\ UNCHANGED <<wakeupVars, channelVars, part>>
InDirect(A) == part = "direct" /\ A /\ UNCHANGED <<streamVars, wakeupVars, part>>

\* The outcome of the attempt that holds the lease.
CurrentOutcome == \E s \in JobEnds : job.attempt # 0 /\ Outcome(job.attempt, s)

\* The server, the browser, a worker and the threads of a direct stream are scheduled;
\* nothing is assumed of Redis, the network, the user or the clients, who may
\* stop reading.
MCSpec ==
    /\ MCInit /\ [][Follow \/ Wakeup \/ Direct]_mcVars
    /\ WF_mcVars(InFollow(ServerStep)) /\ WF_mcVars(InFollow(BrowserStep))
    /\ WF_mcVars(InFollow(Attempt)) /\ WF_mcVars(InFollow(CurrentOutcome))
    /\ WF_mcVars(InDirect(Trace \/ Produce)) /\ WF_mcVars(InDirect(Generate))

\* followJob settles: the job ends, the stream and the browser take their steps, and
\* a connection that is gone is noticed.
FollowEnds == part = "follow" ~> browser.at \in {"returned", "thrown"}
=============================================================================

---------------------------- MODULE WorkerWakeup ----------------------------
(***************************************************************************)
(* How idle workers learn of new jobs: a wakeup published through Redis    *)
(* after the row is committed (JobService.enqueue), received by a          *)
(* subscription that each worker keeps open between its waits              *)
(* (RedisJobBroker.wait_for_work), with polling for everything it misses.  *)
(* Rows are only new, queued or claimed here; a row that recovery queues   *)
(* again is announced to nobody and is left to polling.                    *)
(***************************************************************************)
EXTENDS Naturals

CONSTANTS Idlers,        \* worker processes
          Tasks,         \* jobs to be enqueued
          MaxCoalesced,  \* _MAX_COALESCED_WAKEUPS
          MaxOutages     \* bound: times Redis goes away or loses a reply

ASSUME WakeupAssumption == MaxCoalesced \in Nat /\ MaxOutages \in Nat

VARIABLES task,     \* task[t]: new, committed, queued (and announced) or claimed
          idler,    \* idler[w]: where the loop of worker w is
          wakeups,  \* wakeups[w]: the subscription of w and its unread messages
          drained,  \* drained[w]: wakeups coalesced in this wait
          covered,  \* ghost: w was subscribed at its last claim and ever since
          broker    \* Redis: up or down, and its failures

wakeupVars == <<task, idler, wakeups, drained, covered, broker>>

Waiting(t) == task[t] \in {"committed", "queued"}
Closed == [state |-> "closed", unread |-> 0]
Opened == [state |-> "open", unread |-> 0]
Subscribed(w) == wakeups[w].state = "open"

WakeupInit ==
    /\ task = [t \in Tasks |-> "new"]
    /\ idler = [w \in Idlers |-> "claiming"]
    /\ wakeups = [w \in Idlers |-> Closed]
    /\ drained = [w \in Idlers |-> 0]
    /\ covered = [w \in Idlers |-> FALSE]
    /\ broker = [up |-> TRUE, outages |-> 0]

\* store.create commits the row first ...
Create(t) ==
    /\ task[t] = "new"
    /\ task' = [task EXCEPT ![t] = "committed"]
    /\ UNCHANGED <<idler, wakeups, drained, covered, broker>>

\* Every open subscription gets the wakeup that is published.
Announced == [w \in Idlers |-> IF Subscribed(w)
                                 THEN [wakeups[w] EXCEPT !.unread = @ + 1] ELSE wakeups[w]]

\* ... and notify_job publishes then; an API process that dies in between, or a
\* Redis that is away, publishes nothing and no worker was promised anything.
Notify(t) ==
    /\ task[t] = "committed" /\ broker.up
    /\ task' = [task EXCEPT ![t] = "queued"]
    /\ wakeups' = Announced
    /\ UNCHANGED <<idler, drained, covered, broker>>

\* The reply of Redis was lost, and the client's one retry announces the job again,
\* perhaps after it was claimed.
NotifyAgain(t) ==
    /\ task[t] \in {"queued", "claimed"} /\ broker.up /\ broker.outages < MaxOutages
    /\ broker' = [broker EXCEPT !.outages = @ + 1]
    /\ wakeups' = Announced
    /\ UNCHANGED <<task, idler, drained, covered>>

\* run_once: claim the oldest waiting row, or find none.
ClaimTask(w) ==
    /\ idler[w] = "claiming"
    /\ covered' = [covered EXCEPT ![w] = Subscribed(w)]
    /\ \/ \E t \in Tasks : /\ Waiting(t)
                           /\ task' = [task EXCEPT ![t] = "claimed"]
                           /\ idler' = [idler EXCEPT ![w] = "working"]
       \/ /\ \A t \in Tasks : ~Waiting(t)
          /\ idler' = [idler EXCEPT ![w] = "idle"]
          /\ UNCHANGED task
    /\ UNCHANGED <<wakeups, drained, broker>>

\* The claimed job is over; the loop does not wait before it claims again.
JobOver(w) ==
    /\ idler[w] = "working"
    /\ idler' = [idler EXCEPT ![w] = "claiming"]
    /\ UNCHANGED <<task, wakeups, drained, covered, broker>>

\* Mutant: every wait subscribes anew.
SubscribeEachTime(w) ==
    /\ idler[w] = "idle" /\ broker.up
    /\ wakeups' = [wakeups EXCEPT ![w] = Opened]
    /\ idler' = [idler EXCEPT ![w] = "blocked"]
    /\ UNCHANGED <<task, drained, covered, broker>>
\* The first wait, or the first after an error, subscribes, and redis-py subscribes
\* again when it reads from a broken connection; other waits find the subscription
\* with what arrived while the worker was busy.
EnterWait(w) ==
    /\ broker.up
    /\ idler[w] = "idle" \/ (idler[w] \in {"blocked", "draining"} /\ ~Subscribed(w))
    /\ wakeups' = IF Subscribed(w) THEN wakeups ELSE [wakeups EXCEPT ![w] = Opened]
    /\ idler' = [idler EXCEPT ![w] = "blocked"]
    /\ UNCHANGED <<task, drained, covered, broker>>

\* RedisError: the subscription is closed and the rest of the slice slept through.
WaitFails(w) ==
    /\ idler[w] \in {"idle", "blocked", "draining"} /\ ~broker.up
    /\ wakeups' = [wakeups EXCEPT ![w] = Closed]
    /\ idler' = [idler EXCEPT ![w] = "idle"]
    /\ UNCHANGED <<task, drained, covered, broker>>

\* _next_message returns a wakeup.
Wake(w) ==
    /\ idler[w] = "blocked" /\ wakeups[w].unread > 0
    /\ wakeups' = [wakeups EXCEPT ![w].unread = @ - 1]
    /\ drained' = [drained EXCEPT ![w] = 0]
    /\ idler' = [idler EXCEPT ![w] = "draining"]
    /\ UNCHANGED <<task, covered, broker>>

\* The wakeups queued behind it are coalesced into one claim.
Coalesce(w) ==
    /\ idler[w] = "draining" /\ Subscribed(w)
    /\ IF wakeups[w].unread > 0 /\ drained[w] < MaxCoalesced
         THEN /\ wakeups' = [wakeups EXCEPT ![w].unread = @ - 1]
              /\ drained' = [drained EXCEPT ![w] = @ + 1]
              /\ UNCHANGED idler
         ELSE idler' = [idler EXCEPT ![w] = "claiming"] /\ UNCHANGED <<wakeups, drained>>
    /\ UNCHANGED <<task, covered, broker>>

\* The poll interval is over (worker.wait_for_work); a slice that ends before it
\* only begins the next slice.
PollDue(w) ==
    /\ idler[w] \in {"idle", "blocked"}
    /\ idler' = [idler EXCEPT ![w] = "claiming"]
    /\ UNCHANGED <<task, wakeups, drained, covered, broker>>

\* Redis goes away with every unread wakeup, and comes back.
BrokerDown ==
    /\ broker.up /\ broker.outages < MaxOutages
    /\ broker' = [up |-> FALSE, outages |-> broker.outages + 1]
    /\ wakeups' = [w \in Idlers |-> IF Subscribed(w) THEN [state |-> "broken", unread |-> 0]
                                              ELSE wakeups[w]]
    /\ covered' = [w \in Idlers |-> FALSE]
    /\ UNCHANGED <<task, idler, drained>>
BrokerUp ==
    /\ ~broker.up
    /\ broker' = [broker EXCEPT !.up = TRUE]
    /\ UNCHANGED <<task, idler, wakeups, drained, covered>>

WakeupNext ==
    \/ \E t \in Tasks : Create(t) \/ Notify(t) \/ NotifyAgain(t)
    \/ \E w \in Idlers : \/ ClaimTask(w) \/ JobOver(w) \/ EnterWait(w) \/ WaitFails(w)
                         \/ Wake(w) \/ Coalesce(w) \/ PollDue(w)
    \/ BrokerDown \/ BrokerUp

WakeupSpec == WakeupInit /\ [][WakeupNext]_wakeupVars
-----------------------------------------------------------------------------
(* Properties. *)

\* A worker that sleeps through an announced job has its wakeup in hand: one that
\* was subscribed before it found the table empty loses none, however many were
\* coalesced and whatever arrived while it was busy.  Only an outage of Redis and the
\* very first wait leave a job to the poll interval.
NoLostWakeup ==
    \A w \in Idlers, t \in Tasks :
        idler[w] \in {"idle", "blocked"} /\ covered[w] /\ task[t] = "queued"
            => wakeups[w].unread > 0
=============================================================================

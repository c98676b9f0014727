-------------------------- MODULE Streaming_proofs --------------------------
(***************************************************************************)
(* What TLAPS proves of the ways progress travels, for any numbers of      *)
(* workers, jobs, events and failures and any capacities: a notification   *)
(* of a subscribed worker is never slept through, a direct result does not *)
(* overtake the progress before it, the answer of a followed job is the    *)
(* outcome in its row, and the stream shows every event at most once, in   *)
(* order and before its terminal frame, unless its publication was retried *)
(* (which may show it again, or late).                                     *)
(***************************************************************************)
EXTENDS JobStream, WorkerWakeup, ProgressChannel, TLAPS

-----------------------------------------------------------------------------
(* WorkerWakeup. *)

WakeupTypeOK ==
    /\ task \in [Tasks -> {"new", "committed", "queued", "claimed"}]
    /\ idler \in [Idlers -> {"claiming", "working", "idle", "blocked", "draining"}]
    /\ wakeups \in [Idlers -> [state : {"closed", "open", "broken"}, unread : Nat]]
    /\ drained \in [Idlers -> Nat]
    /\ covered \in [Idlers -> BOOLEAN]
    /\ broker \in [up : BOOLEAN, outages : Nat]

\* Redis that is away has no subscriber, and a worker that was subscribed at its last
\* claim and ever since is subscribed.
Subscriptions ==
    /\ ~broker.up => \A w \in Idlers : ~Subscribed(w)
    /\ \A w \in Idlers : covered[w] => Subscribed(w)

WakeupInv == WakeupTypeOK /\ Subscriptions /\ NoLostWakeup

LEMMA WakeupInitially == WakeupInit => WakeupInv
  BY DEF WakeupInit, WakeupInv, WakeupTypeOK, Subscriptions, NoLostWakeup, Subscribed, Closed

\* The steps of the jobs and of Redis.
LEMMA WakeupOutside ==
  ASSUME WakeupInv,
         \/ \E t \in Tasks : Create(t) \/ Notify(t) \/ NotifyAgain(t)
         \/ BrokerDown \/ BrokerUp
  PROVE  WakeupInv'
  <1> USE DEF WakeupInv, WakeupTypeOK
  <1>1. CASE \E t \in Tasks : Create(t)
    BY <1>1 DEF Create, Subscriptions, NoLostWakeup, Subscribed
  <1>2. ASSUME NEW t \in Tasks, Notify(t) \/ NotifyAgain(t) PROVE WakeupInv'
    <2>1. /\ task' = [task EXCEPT ![t] = "queued"] \/ UNCHANGED task
          /\ broker.up /\ broker'.up /\ broker' \in [up : BOOLEAN, outages : Nat]
          /\ wakeups' = [w \in Idlers |-> IF Subscribed(w)
                            THEN [wakeups[w] EXCEPT !.unread = @ + 1] ELSE wakeups[w]]
          /\ UNCHANGED <<idler, drained, covered>>
      <3>1. CASE Notify(t)
        BY <3>1 DEF Notify, Announced
      <3>2. CASE NotifyAgain(t)
        BY <3>2 DEF NotifyAgain, Announced
      <3>3. QED BY <1>2, <3>1, <3>2
    <2>2. \A w \in Idlers : /\ wakeups'[w].state = wakeups[w].state
                            /\ wakeups'[w].unread \in Nat
                            /\ Subscribed(w) => wakeups'[w].unread > 0
                            /\ wakeups'[w] \in [state : {"closed", "open", "broken"}, unread : Nat]
      BY <2>1
    <2>3. WakeupTypeOK'
      BY <2>1, <2>2
    <2>4. Subscriptions'
      BY <2>1, <2>2 DEF Subscriptions, Subscribed
    <2>5. NoLostWakeup'
      BY <2>1, <2>2 DEF Subscriptions, NoLostWakeup
    <2>6. QED BY <2>3, <2>4, <2>5
  <1>3. CASE BrokerDown
    <2>1. \A w \in Idlers : wakeups'[w].state # "open" /\ covered'[w] = FALSE
      BY <1>3 DEF BrokerDown, Subscribed
    <2>2. WakeupTypeOK'
      BY <1>3 DEF BrokerDown
    <2>3. QED BY <2>1, <2>2 DEF Subscriptions, NoLostWakeup, Subscribed
  <1>4. CASE BrokerUp
    BY <1>4 DEF BrokerUp, Subscriptions, NoLostWakeup, Subscribed
  <1>5. QED BY <1>1, <1>2, <1>3, <1>4

\* The steps of one worker: it sleeps only after it found nothing to claim, and what is
\* announced from then on is in its subscription.
LEMMA WakeupOfWorker ==
  ASSUME WakeupInv, NEW w \in Idlers,
         \/ ClaimTask(w) \/ JobOver(w) \/ EnterWait(w) \/ WaitFails(w)
         \/ Wake(w) \/ Coalesce(w) \/ PollDue(w)
  PROVE  WakeupInv'
  <1> USE DEF WakeupInv, WakeupTypeOK
  <1>1. CASE ClaimTask(w)
    <2>1. covered' = [covered EXCEPT ![w] = Subscribed(w)] /\ UNCHANGED <<wakeups, drained, broker>>
      BY <1>1 DEF ClaimTask
    <2>2. Subscribed(w) \in BOOLEAN
      BY DEF Subscribed
    <2>3. Subscriptions'
      BY <2>1 DEF Subscriptions, Subscribed
    <2>4. CASE \E t \in Tasks : /\ Waiting(t)
                                /\ task' = [task EXCEPT ![t] = "claimed"]
                                /\ idler' = [idler EXCEPT ![w] = "working"]
      BY <2>1, <2>2, <2>3, <2>4 DEF NoLostWakeup
    <2>5. CASE /\ \A t \in Tasks : ~Waiting(t)
               /\ idler' = [idler EXCEPT ![w] = "idle"]
               /\ UNCHANGED task
      BY <2>1, <2>2, <2>3, <2>5 DEF NoLostWakeup, Waiting
    <2>6. QED BY <1>1, <2>4, <2>5 DEF ClaimTask
  <1>2. CASE JobOver(w)
    BY <1>2 DEF JobOver, Subscriptions, NoLostWakeup, Subscribed
  <1>3. CASE EnterWait(w)
    <2>1. /\ broker.up /\ UNCHANGED <<task, drained, covered, broker>>
          /\ idler' = [idler EXCEPT ![w] = "blocked"]
          /\ idler[w] = "idle" \/ ~Subscribed(w)
          /\ wakeups' = IF Subscribed(w) THEN wakeups ELSE [wakeups EXCEPT ![w] = Opened]
      BY <1>3 DEF EnterWait
    <2>2. CASE Subscribed(w)
      BY <2>1, <2>2 DEF Subscriptions, NoLostWakeup, Subscribed
    <2>3. CASE ~Subscribed(w)
      BY <2>1, <2>3 DEF Subscriptions, NoLostWakeup, Subscribed, Opened
    <2>4. QED BY <2>2, <2>3
  <1>4. CASE WaitFails(w)
    BY <1>4 DEF WaitFails, Subscriptions, NoLostWakeup, Subscribed, Closed
  <1>5. CASE Wake(w)
    BY <1>5 DEF Wake, Subscriptions, NoLostWakeup, Subscribed
  <1>6. CASE Coalesce(w)
    <2>1. idler[w] = "draining" /\ UNCHANGED <<task, covered, broker>>
      BY <1>6 DEF Coalesce
    <2>2. CASE /\ wakeups[w].unread > 0
               /\ wakeups' = [wakeups EXCEPT ![w].unread = @ - 1]
               /\ drained' = [drained EXCEPT ![w] = @ + 1]
               /\ UNCHANGED idler
      <3>1. WakeupTypeOK'
        BY <2>1, <2>2
      <3>2. QED BY <2>1, <2>2, <3>1 DEF Subscriptions, NoLostWakeup, Subscribed
    <2>3. CASE idler' = [idler EXCEPT ![w] = "claiming"] /\ UNCHANGED <<wakeups, drained>>
      BY <2>1, <2>3 DEF Subscriptions, NoLostWakeup, Subscribed
    <2>4. QED BY <1>6, <2>2, <2>3 DEF Coalesce
  <1>7. CASE PollDue(w)
    BY <1>7 DEF PollDue, Subscriptions, NoLostWakeup, Subscribed
  <1>8. QED BY <1>1, <1>2, <1>3, <1>4, <1>5, <1>6, <1>7

\* A worker that was subscribed when it last found the table empty, and has been since,
\* sleeps through no announced job (RedisJobBroker.wait_for_work keeps its subscription
\* between waits).
THEOREM WakeupNotLost == WakeupSpec => []NoLostWakeup
  <1>1. WakeupInv /\ [WakeupNext]_wakeupVars => WakeupInv'
    <2> SUFFICES ASSUME WakeupInv, [WakeupNext]_wakeupVars PROVE WakeupInv'
      OBVIOUS
    <2>1. CASE UNCHANGED wakeupVars
      BY <2>1 DEF wakeupVars, WakeupInv, WakeupTypeOK, Subscriptions, NoLostWakeup, Subscribed
    <2>2. QED BY <2>1, WakeupOutside, WakeupOfWorker DEF WakeupNext
  <1>2. WakeupInv => NoLostWakeup
    BY DEF WakeupInv
  <1>3. QED BY <1>1, <1>2, WakeupInitially, PTL DEF WakeupSpec
-----------------------------------------------------------------------------
(* ProgressChannel. *)

Elements(s) == {s[i] : i \in 1..Len(s)}

ChannelTypeOK ==
    /\ events \in Seq(Nat \ {0}) /\ client \in Seq(Nat)
    /\ traced \in Nat \ {0} /\ length \in Nat \ {0} /\ lost \subseteq 1..traced
    /\ done \in BOOLEAN /\ disconnected \in BOOLEAN /\ present \in BOOLEAN
    /\ stream \in {"new", "checking", "getting", "writing", "testing", "ending", "leaving",
                "closed"}

\* With the outcome there nothing more is recorded, and the end of the response has seen it.
AfterDone ==
    /\ done => producer = "over"
    /\ stream = "new" => producer = "new"
    /\ stream = "ending" => done /\ events = <<>>
    /\ stream \in {"leaving", "closed"} /\ present => done
    /\ disconnected => stream = "closed"

\* What was sent and what is queued is one ascending sequence, apart from what was dropped;
\* together they are all that was recorded, as long as the client is there.
Ascending ==
    /\ \A i, k \in 1..Len(events) : i < k => events[i] < events[k]
    /\ \A i, k \in 1..Len(client) : i < k /\ client[k] # 0 => client[i] < client[k]
    /\ \A i \in 1..Len(client), k \in 1..Len(events) : client[i] < events[k]
    /\ (Elements(events) \cup Elements(client)) \cap lost = {}
    /\ Elements(events) \cup Elements(client) \subseteq 0..traced
Complete ==
    present => (Elements(client) \ {0}) \cup Elements(events) \cup lost = 1..traced

TerminalLast ==
    \A i \in 1..Len(client) : client[i] = 0 =>
        /\ i = Len(client) /\ done /\ stream \in {"leaving", "closed"}
        /\ {client[k] : k \in 1..(i - 1)} = (1..traced) \ lost

ChannelInv == ChannelTypeOK /\ AfterDone /\ Ascending /\ Complete /\ TerminalLast

LEMMA AppendIs ==
  ASSUME NEW S, NEW s \in Seq(S), NEW x \in S
  PROVE  /\ Append(s, x) \in Seq(S) /\ Len(Append(s, x)) = Len(s) + 1 /\ Len(s) \in Nat
         /\ Append(s, x)[Len(s) + 1] = x
         /\ \A i \in 1..Len(s) : Append(s, x)[i] = s[i]
         /\ Elements(Append(s, x)) = Elements(s) \cup {x}
  <1>1. /\ Append(s, x) \in Seq(S) /\ Len(Append(s, x)) = Len(s) + 1 /\ Len(s) \in Nat
        /\ Append(s, x)[Len(s) + 1] = x
        /\ \A i \in 1..Len(s) : Append(s, x)[i] = s[i]
    OBVIOUS
  <1>2. QED BY <1>1 DEF Elements

LEMMA TailIs ==
  ASSUME NEW S, NEW s \in Seq(S), s # <<>>
  PROVE  /\ Head(s) \in S /\ Head(s) = s[1] /\ Tail(s) \in Seq(S)
         /\ Len(s) \in Nat \ {0} /\ Len(Tail(s)) = Len(s) - 1
         /\ \A i \in 1..Len(Tail(s)) : Tail(s)[i] = s[i + 1]
         /\ Elements(s) = {Head(s)} \cup Elements(Tail(s))
  <1>1. /\ Head(s) \in S /\ Head(s) = s[1] /\ Tail(s) \in Seq(S)
        /\ Len(s) \in Nat \ {0} /\ Len(Tail(s)) = Len(s) - 1
        /\ \A i \in 1..Len(Tail(s)) : Tail(s)[i] = s[i + 1]
    OBVIOUS
  <1>2. ASSUME NEW x \in Elements(s), x # Head(s) PROVE x \in Elements(Tail(s))
    <2>1. PICK i \in 1..Len(s) : x = s[i]
      BY DEF Elements
    <2>2. i - 1 \in 1..Len(Tail(s)) /\ Tail(s)[i - 1] = x
      BY <1>1, <1>2, <2>1
    <2>3. QED BY <2>2 DEF Elements
  <1>3. QED BY <1>1, <1>2 DEF Elements

LEMMA ChannelInitially == ChannelInit => ChannelInv
  <1> SUFFICES ASSUME ChannelInit PROVE ChannelInv
    OBVIOUS
  <1>1. Elements(events) = {1} /\ Elements(client) = {} /\ Len(client) = 0 /\ Len(events) = 1
    BY DEF ChannelInit, Elements
  <1>2. ChannelTypeOK
    <2>1. <<1>> \in Seq(Nat \ {0}) /\ <<>> \in Seq(Nat)
      OBVIOUS
    <2>2. length \in Nat \ {0}
      BY ChannelAssumption DEF ChannelInit
    <2>3. events \in Seq(Nat \ {0}) /\ client \in Seq(Nat)
      BY <2>1 DEF ChannelInit
    <2>4. traced \in Nat \ {0} /\ lost \subseteq 1..traced
      BY DEF ChannelInit
    <2>5. QED BY <2>2, <2>3, <2>4 DEF ChannelInit, ChannelTypeOK
  <1>3. QED BY <1>1, <1>2 DEF ChannelInit, ChannelInv, AfterDone, Ascending, Complete, TerminalLast

\* The operation records an event: it is queued, dropped, or nobody is there for it.
LEMMA ChannelTrace ==
  ASSUME ChannelInv, Trace PROVE ChannelInv'
  <1> DEFINE n == traced + 1
  <1>1. /\ producer = "running" /\ traced' = n /\ n \in Nat \ {0} /\ traced \in Nat
        /\ UNCHANGED <<length, done, outcome, disconnected, producer, stream, client, present>>
        /\ ~done /\ \A i \in 1..Len(client) : client[i] # 0
    BY DEF Trace, ChannelInv, ChannelTypeOK, AfterDone, TerminalLast
  <1>2. /\ \A k \in 1..Len(events) : events[k] \in Elements(events) /\ events[k] < n
        /\ \A i \in 1..Len(client) : client[i] \in Elements(client) /\ client[i] < n
        /\ n \notin lost \cup Elements(events) \cup Elements(client)
    <2>1. Elements(events) \cup Elements(client) \subseteq 0..traced /\ lost \subseteq 1..traced
      BY DEF ChannelInv, ChannelTypeOK, Ascending
    <2>2. /\ \A k \in 1..Len(events) : events[k] \in Elements(events)
          /\ \A i \in 1..Len(client) : client[i] \in Elements(client)
      BY DEF Elements
    <2>3. QED BY <1>1, <2>1, <2>2
  <1>3. AfterDone' /\ TerminalLast'
    BY <1>1 DEF ChannelInv, AfterDone, TerminalLast
  <1>4. CASE disconnected /\ UNCHANGED <<events, lost>>
    <2>1. ~present
      BY <1>1, <1>4 DEF ChannelInv, AfterDone
    <2>2. ChannelTypeOK'
      BY <1>1, <1>4 DEF ChannelInv, ChannelTypeOK
    <2>3. Ascending'
      <3>1. Elements(events') = Elements(events) /\ Elements(client') = Elements(client)
        BY <1>1, <1>4
      <3>2. Elements(events) \cup Elements(client) \subseteq 0..n
        BY <1>1 DEF ChannelInv, Ascending
      <3>3. QED BY <1>1, <1>4, <3>1, <3>2 DEF ChannelInv, Ascending
    <2>4. QED BY <1>1, <1>3, <2>1, <2>2, <2>3 DEF ChannelInv, Complete
  <1>5. CASE events' = Append(events, n) /\ UNCHANGED lost
    <2>1. /\ events' \in Seq(Nat \ {0}) /\ Len(events') = Len(events) + 1 /\ Len(events) \in Nat
          /\ events'[Len(events) + 1] = n
          /\ \A i \in 1..Len(events) : events'[i] = events[i]
          /\ Elements(events') = Elements(events) \cup {n}
      <3>1. events \in Seq(Nat \ {0}) /\ n \in Nat \ {0}
        BY <1>1 DEF ChannelInv, ChannelTypeOK
      <3>2. QED BY <1>5, <3>1, AppendIs
    <2>2. ChannelTypeOK'
      BY <1>1, <1>5, <2>1 DEF ChannelInv, ChannelTypeOK
    <2>3. Ascending'
      <3>0. \A k \in 1..Len(events') : \/ k \in 1..Len(events) /\ events'[k] = events[k]
                                       \/ k = Len(events) + 1 /\ events'[k] = n
        BY <2>1
      <3>1. \A i, k \in 1..Len(events') : i < k => events'[i] < events'[k]
        <4>1. \A i, k \in 1..Len(events) : i < k => events[i] < events[k]
          BY DEF ChannelInv, Ascending
        <4>2. ASSUME NEW i \in 1..Len(events'), NEW k \in 1..Len(events'), i < k
              PROVE  events'[i] < events'[k]
          <5>1. i \in 1..Len(events) /\ events'[i] = events[i]
            BY <2>1, <3>0, <4>2
          <5>2. CASE k \in 1..Len(events) /\ events'[k] = events[k]
            BY <4>1, <4>2, <5>1, <5>2
          <5>3. CASE events'[k] = n
            BY <1>2, <5>1, <5>3
          <5>4. QED BY <3>0, <5>2, <5>3
        <4>3. QED BY <4>2
      <3>2. \A i \in 1..Len(client), k \in 1..Len(events') : client[i] < events'[k]
        BY <1>2, <3>0 DEF ChannelInv, Ascending
      <3>3. Elements(events') \cup Elements(client) \subseteq 0..n
            /\ (Elements(events') \cup Elements(client)) \cap lost = {}
        BY <1>1, <1>2, <2>1 DEF ChannelInv, Ascending
      <3>4. Elements(client') = Elements(client)
        BY <1>1
      <3>5. QED BY <1>1, <1>5, <3>1, <3>2, <3>3, <3>4 DEF ChannelInv, Ascending
    <2>4. Complete'
      <3>1. 1..n = (1..traced) \cup {n}
        BY <1>1
      <3>2. QED BY <1>1, <1>5, <2>1, <3>1 DEF ChannelInv, Complete, Elements
    <2>5. QED BY <1>3, <2>2, <2>3, <2>4 DEF ChannelInv
  <1>6. CASE lost' = lost \cup {n} /\ UNCHANGED events
    <2>1. ChannelTypeOK'
      BY <1>1, <1>6 DEF ChannelInv, ChannelTypeOK
    <2>2. Ascending'
      <3>1. Elements(events') = Elements(events) /\ Elements(client') = Elements(client)
        BY <1>1, <1>6
      <3>2. Ascending
        BY DEF ChannelInv
      <3>3. /\ (Elements(events) \cup Elements(client)) \cap lost' = {}
            /\ Elements(events) \cup Elements(client) \subseteq 0..n
        BY <1>1, <1>2, <1>6, <3>2 DEF Ascending
      <3>4. QED BY <1>1, <1>6, <3>1, <3>2, <3>3 DEF Ascending
    <2>3. Complete'
      <3>1. 1..n = (1..traced) \cup {n}
        BY <1>1
      <3>2. QED BY <1>1, <1>6, <3>1 DEF ChannelInv, Complete, Elements
    <2>4. QED BY <1>3, <2>1, <2>2, <2>3 DEF ChannelInv
  <1>7. QED BY <1>4, <1>5, <1>6 DEF Trace, Receive

\* The generator hands the oldest event over.
LEMMA ChannelNextEvent ==
  ASSUME ChannelInv, NextEvent PROVE ChannelInv'
  <1>1. /\ stream = "getting"
        /\ UNCHANGED <<length, done, outcome, disconnected, lost, traced, producer, present>>
        /\ \A i \in 1..Len(client) : client[i] # 0
    BY DEF NextEvent, ChannelInv, TerminalLast
  <1>2. CASE events = <<>> /\ stream' = "testing" /\ UNCHANGED <<events, client>>
    BY <1>1, <1>2 DEF ChannelInv, ChannelTypeOK, AfterDone, Ascending, Complete, TerminalLast,
                      Elements
  <1>3. CASE /\ events # <<>> /\ events' = Tail(events) /\ stream' = "writing"
             /\ client' = IF present THEN Append(client, Head(events)) ELSE client
    <2> DEFINE e == Head(events)
    <2>1. /\ e \in Nat \ {0} /\ e = events[1] /\ events' \in Seq(Nat \ {0})
          /\ Len(events) \in Nat \ {0} /\ Len(events') = Len(events) - 1
          /\ \A i \in 1..Len(events') : events'[i] = events[i + 1]
          /\ Elements(events) = {e} \cup Elements(events')
      BY <1>3, TailIs DEF ChannelInv, ChannelTypeOK
    <2>2. \A k \in 1..Len(events') : e < events'[k]
      <3>1. 1 \in 1..Len(events) /\ \A k \in 1..Len(events') : k + 1 \in 1..Len(events) /\ 1 < k + 1
        BY <2>1
      <3>2. QED BY <2>1, <3>1 DEF ChannelInv, Ascending
    <2>3. \A i, k \in 1..Len(events') : i < k => events'[i] < events'[k]
      <3>1. ASSUME NEW i \in 1..Len(events'), NEW k \in 1..Len(events'), i < k
            PROVE  events'[i] < events'[k]
        <4>1. i + 1 \in 1..Len(events) /\ k + 1 \in 1..Len(events) /\ i + 1 < k + 1
          BY <2>1, <3>1
        <4>2. events[i + 1] < events[k + 1]
          BY <4>1 DEF ChannelInv, Ascending
        <4>3. QED BY <2>1, <4>2
      <3>2. QED BY <3>1
    <2>4. /\ client \in Seq(Nat) /\ \A i \in 1..Len(client) : client[i] < e
          /\ \A i, k \in 1..Len(client) : i < k => client[i] < client[k]
          /\ \A i \in 1..Len(client), k \in 1..Len(events') : client[i] < events'[k]
      <3>1. \A k \in 1..Len(events') : k + 1 \in 1..Len(events) /\ events'[k] = events[k + 1]
        BY <2>1
      <3>2. 1 \in 1..Len(events)
        BY <2>1
      <3>3. QED BY <1>1, <2>1, <3>1, <3>2 DEF ChannelInv, Ascending, ChannelTypeOK
    <2>5. AfterDone'
      BY <1>1, <1>3 DEF ChannelInv, AfterDone
    <2>6. CASE ~present
      <3>1. client' = client
        BY <1>3, <2>6
      <3>2. ChannelTypeOK'
        BY <1>1, <1>3, <2>1, <3>1 DEF ChannelInv, ChannelTypeOK
      <3>3. Ascending'
        BY <1>1, <2>1, <2>3, <2>4, <3>1 DEF ChannelInv, Ascending
      <3>4. TerminalLast'
        BY <1>1, <3>1 DEF TerminalLast
      <3>5. QED BY <1>1, <2>5, <2>6, <3>2, <3>3, <3>4 DEF ChannelInv, Complete
    <2>7. CASE present
      <3>1. /\ client' \in Seq(Nat) /\ Len(client') = Len(client) + 1 /\ Len(client) \in Nat
            /\ client'[Len(client) + 1] = e
            /\ \A i \in 1..Len(client) : client'[i] = client[i]
            /\ Elements(client') = Elements(client) \cup {e}
        <4>1. client \in Seq(Nat) /\ e \in Nat /\ client' = Append(client, e)
          BY <1>3, <2>1, <2>4, <2>7
        <4>2. QED BY <4>1, AppendIs
      <3>0. \A k \in 1..Len(client') : \/ k \in 1..Len(client) /\ client'[k] = client[k]
                                       \/ k = Len(client) + 1 /\ client'[k] = e
        BY <3>1
      <3>2. ChannelTypeOK'
        BY <1>1, <1>3, <2>1, <3>1 DEF ChannelInv, ChannelTypeOK
      <3>3. \A i, k \in 1..Len(client') : i < k => client'[i] < client'[k]
        <4>1. ASSUME NEW i \in 1..Len(client'), NEW k \in 1..Len(client'), i < k
              PROVE  client'[i] < client'[k]
          <5>1. i \in 1..Len(client) /\ client'[i] = client[i]
            BY <3>0, <3>1, <4>1
          <5>2. QED BY <2>4, <3>0, <4>1, <5>1
        <4>2. QED BY <4>1
      <3>4. \A i \in 1..Len(client'), k \in 1..Len(events') : client'[i] < events'[k]
        BY <2>2, <2>4, <3>0
      <3>5. Elements(events') \cup Elements(client') = Elements(events) \cup Elements(client)
        BY <2>1, <3>1
      <3>6. Ascending'
        BY <1>1, <2>3, <3>3, <3>4, <3>5 DEF ChannelInv, Ascending
      <3>7. Complete'
        BY <1>1, <2>1, <3>1 DEF ChannelInv, Complete
      <3>8. \A i \in 1..Len(client') : client'[i] # 0
        BY <1>1, <2>1, <3>0
      <3>9. QED BY <2>5, <3>2, <3>6, <3>7, <3>8 DEF ChannelInv, TerminalLast
    <2>8. QED BY <2>6, <2>7
  <1>4. QED BY <1>2, <1>3 DEF NextEvent

\* The terminal frame: by now everything recorded was sent or dropped.
LEMMA ChannelTerminal ==
  ASSUME ChannelInv, Terminal PROVE ChannelInv'
  <1>1. /\ stream = "ending" /\ stream' = "leaving" /\ done /\ events = <<>>
        /\ UNCHANGED <<length, events, done, outcome, disconnected, lost, traced, producer,
                       present>>
        /\ \A i \in 1..Len(client) : client[i] # 0
        /\ client' = IF present THEN Append(client, 0) ELSE client
        /\ client \in Seq(Nat)
    BY DEF Terminal, ChannelInv, ChannelTypeOK, AfterDone, TerminalLast
  <1>2. AfterDone'
    BY <1>1 DEF ChannelInv, AfterDone
  <1>3. CASE ~present
    BY <1>1, <1>2, <1>3 DEF ChannelInv, ChannelTypeOK, Ascending, Complete, TerminalLast, Elements
  <1>4. CASE present
    <2>1. /\ client' \in Seq(Nat) /\ Len(client') = Len(client) + 1 /\ Len(client) \in Nat
          /\ client'[Len(client) + 1] = 0
          /\ \A i \in 1..Len(client) : client'[i] = client[i]
          /\ Elements(client') = Elements(client) \cup {0}
      BY <1>1, <1>4, AppendIs
    <2>2. Elements(events) = {} /\ Len(events) = 0
      BY <1>1 DEF Elements
    <2>3. ChannelTypeOK'
      BY <1>1, <2>1 DEF ChannelInv, ChannelTypeOK
    <2>4. Ascending'
      <3>1. \A i, k \in 1..Len(client') : i < k /\ client'[k] # 0 => client'[i] < client'[k]
        <4>1. \A i, k \in 1..Len(client) : i < k /\ client[k] # 0 => client[i] < client[k]
          BY DEF ChannelInv, Ascending
        <4>2. ASSUME NEW i \in 1..Len(client'), NEW k \in 1..Len(client'), i < k, client'[k] # 0
              PROVE  client'[i] < client'[k]
          <5>1. k # Len(client) + 1
            BY <2>1, <4>2
          <5>2. i \in 1..Len(client) /\ k \in 1..Len(client)
            BY <2>1, <4>2, <5>1
          <5>3. client'[i] = client[i] /\ client'[k] = client[k]
            BY <2>1, <5>2
          <5>4. QED BY <4>1, <4>2, <5>2, <5>3
        <4>3. QED BY <4>2
      <3>2. (Elements(events) \cup Elements(client')) \cap lost = {}
            /\ Elements(events) \cup Elements(client') \subseteq 0..traced
        BY <1>1, <2>1 DEF ChannelInv, Ascending, ChannelTypeOK
      <3>3. QED BY <1>1, <2>2, <3>1, <3>2 DEF ChannelInv, Ascending
    <2>5. 0 \notin Elements(client)
      BY <1>1 DEF Elements
    <2>6. Elements(client) \cup lost = 1..traced
      BY <1>4, <2>2, <2>5 DEF ChannelInv, Complete
    <2>7. Complete'
      <3>1. Elements(events') = Elements(events)
        BY <1>1
      <3>2. QED BY <1>1, <2>1, <2>2, <2>5, <2>6, <3>1 DEF Complete
    <2>8. TerminalLast'
      <3>1. ASSUME NEW i \in 1..Len(client'), client'[i] = 0 PROVE i = Len(client')
        BY <1>1, <2>1, <3>1
      <3>2. {client'[k] : k \in 1..(Len(client') - 1)} = Elements(client)
        BY <2>1 DEF Elements
      <3>3. Elements(client) = (1..traced) \ lost
        BY <2>6 DEF ChannelInv, Ascending
      <3>4. QED BY <1>1, <3>1, <3>2, <3>3 DEF TerminalLast
    <2>9. QED BY <1>2, <2>3, <2>4, <2>7, <2>8 DEF ChannelInv
  <1>5. QED BY <1>3, <1>4

\* The other steps move nothing.
LEMMA ChannelMoves ==
  ASSUME ChannelInv,
         \/ Produce \/ Start \/ CheckClient \/ Written \/ TestDone \/ Disconnect \/ ClientLeaves
         \/ UNCHANGED channelVars
  PROVE  ChannelInv'
  <1>1. UNCHANGED <<events, client, lost, traced, length>>
    BY DEF Produce, Start, CheckClient, Written, TestDone, Disconnect, ClientLeaves, channelVars
  <1>2. Elements(events') = Elements(events) /\ Elements(client') = Elements(client)
    BY <1>1
  <1>3. /\ (present' => present) /\ (done => done')
        /\ stream \in {"leaving", "closed"} => stream' \in {"leaving", "closed"}
    <2>1. CASE Produce \/ Start \/ CheckClient \/ Written \/ TestDone \/ UNCHANGED channelVars
      BY <2>1 DEF Produce, Start, CheckClient, Written, TestDone, channelVars
    <2>2. CASE Disconnect \/ ClientLeaves
      BY <2>2 DEF Disconnect, ClientLeaves
    <2>3. QED BY <2>1, <2>2
  <1>8. ChannelTypeOK'
    <2>1. CASE Produce \/ Start \/ CheckClient \/ Written
      BY <1>1, <2>1 DEF ChannelInv, ChannelTypeOK, Produce, Start, CheckClient, Written
    <2>2. CASE TestDone \/ Disconnect \/ ClientLeaves \/ UNCHANGED channelVars
      BY <1>1, <2>2 DEF ChannelInv, ChannelTypeOK, TestDone, Disconnect, ClientLeaves, channelVars
    <2>3. QED BY <2>1, <2>2
  <1>9. AfterDone'
    <2>1. CASE Produce \/ Start \/ CheckClient \/ Written
      BY <1>1, <2>1 DEF ChannelInv, AfterDone, Produce, Start, CheckClient, Written
    <2>2. CASE TestDone \/ Disconnect \/ ClientLeaves \/ UNCHANGED channelVars
      BY <1>1, <2>2 DEF ChannelInv, AfterDone, TestDone, Disconnect, ClientLeaves, channelVars
    <2>3. QED BY <2>1, <2>2
  <1>4. Ascending'
    BY <1>1, <1>2 DEF ChannelInv, Ascending
  <1>5. Complete'
    BY <1>1, <1>2, <1>3 DEF ChannelInv, Complete
  <1>6. TerminalLast'
    BY <1>1, <1>3 DEF ChannelInv, TerminalLast
  <1>10. QED BY <1>4, <1>5, <1>6, <1>8, <1>9 DEF ChannelInv

\* A client that stays gets the result or the error after every event that was not dropped,
\* in order, whatever is put between the empty get and the test of done.
THEOREM ChannelNothingOvertaken == ChannelSpec => []ResultOvertakesNothing
  <1>1. ChannelInv /\ [ChannelNext]_channelVars => ChannelInv'
    BY ChannelTrace, ChannelNextEvent, ChannelTerminal, ChannelMoves DEF ChannelNext, Generate
  <1>2. ChannelInv => ResultOvertakesNothing
    <2> SUFFICES ASSUME ChannelInv, NEW i \in 1..Len(client)
                 PROVE  /\ client[i] = 0 =>
                             /\ i = Len(client) /\ done
                             /\ {client[k] : k \in 1..(i - 1)} = (1..traced) \ lost
                        /\ i > 1 /\ client[i] # 0 => client[i] > client[i - 1]
      BY DEF ResultOvertakesNothing
    <2>1. Len(client) \in Nat /\ \A k \in 1..Len(client) : client[k] \in Nat
      BY DEF ChannelInv, ChannelTypeOK
    <2>2. i > 1 => i - 1 \in 1..Len(client) /\ i - 1 < i
      BY <2>1
    <2>3. QED BY <2>1, <2>2 DEF ChannelInv, Ascending, TerminalLast
  <1>3. QED BY <1>1, <1>2, ChannelInitially, PTL DEF ChannelSpec
-----------------------------------------------------------------------------
(* JobStream. *)

Progress == [kind : {"progress"}, run : Nat, seq : Nat, again : BOOLEAN]
Frames   == [kind : {"progress", "result", "error", "cancelled"}, run : Nat, seq : Nat,
             again : BOOLEAN]
Statuses == {"queued", "running"} \cup JobEnds

Rows     == [status : Statuses, attempt : Nat, result : Nat]
Servers  == [at : {"closed", "subscribing", "checking", "reading", "waiting", "draining", "ending",
                   "closing"},
             seen : [status : Statuses, result : Nat], left : Nat]
Browsers == [at : {"opening", "reading", "asking", "backoff", "returned", "thrown"},
             reconnects : Nat, result : Nat, aborted : BOOLEAN,
             status : Statuses \cup {"unknown"},
             why : {"none", "abort", "http", "job_failed", "network", "stream_disconnected"}]

StreamTypeOK ==
    /\ job \in Rows
    /\ emitted \in [Attempts -> Nat]
    /\ flying \in Seq(Progress) /\ inbox \in Seq(Progress)
    /\ sent \in Seq(Frames) /\ received \in Nat
    /\ server \in Servers /\ browser \in Browsers

\* What each place along the way says of the outcome is what the row says.
ServerAgrees ==
    server.at \in {"draining", "ending"} =>
        Ended /\ server.seen.status = job.status /\ server.seen.result = job.result
Tells(frame) ==
    /\ frame.kind = "result" => job.status = "succeeded" /\ frame.run = job.result
    /\ frame.kind = "error" => job.status = "failed"
FramesAgree  == \A i \in 1..Len(sent) : Tells(sent[i])
Results == job.result # 0 => job.status = "succeeded"
BrowserAgrees == browser.result # 0 => job.status = "succeeded" /\ browser.result = job.result

StreamInv ==
    /\ StreamTypeOK /\ Results
    /\ ServerAgrees /\ FramesAgree /\ BrowserAgrees /\ AnswerIsOutcome

\* What Redis may still get to see was retried and is no newer than its attempt.
LateInv ==
    /\ emitted \in [Attempts -> Nat]
    /\ \A m \in late : /\ m.event \in Progress /\ m.event.again
                       /\ m.event.run \in Attempts /\ m.event.seq <= emitted[m.event.run]

LEMMA LateInvStep == LateInv /\ [StreamNext]_streamVars => LateInv'
  <1> SUFFICES ASSUME LateInv, [StreamNext]_streamVars PROVE LateInv'
    OBVIOUS
  <1> USE DEF jobVars, brokerVars, serverVars, wireVars, browserVars
  <1>1. CASE UNCHANGED <<emitted, late>>
    BY <1>1 DEF LateInv
  <1>2. ASSUME NEW a \in Attempts, Publish(a) PROVE LateInv'
    <2> DEFINE n == emitted[a] + 1
               copies == [event : {Event(a, n, TRUE)}, copy : {1, 2}]
    <2>1. emitted[a] \in Nat /\ n \in Nat /\ a \in Nat /\ emitted \in [Attempts -> Nat]
      BY StreamAssumption DEF LateInv, Attempts
    <2>2. emitted' = [emitted EXCEPT ![a] = n] /\ (late' = late \/ late' = late \cup copies)
      BY <1>2 DEF Publish
    <2>3. \A b \in Attempts : emitted[b] <= emitted'[b] /\ emitted[b] \in Nat
      BY <2>1, <2>2
    <2>4. emitted'[a] = n /\ emitted' \in [Attempts -> Nat]
      BY <2>1, <2>2
    <2>5. Event(a, n, TRUE) \in Progress /\ Event(a, n, TRUE).again
          /\ Event(a, n, TRUE).run = a /\ Event(a, n, TRUE).seq = n
      BY <2>1 DEF Event, Progress
    <2>6. \A m \in copies : m.event = Event(a, n, TRUE)
      OBVIOUS
    <2>7. ASSUME NEW m \in late
          PROVE  /\ m.event \in Progress /\ m.event.again
                 /\ m.event.run \in Attempts /\ m.event.seq <= emitted'[m.event.run]
      <3>1. /\ m.event \in Progress /\ m.event.again /\ m.event.seq \in Nat
            /\ m.event.run \in Attempts /\ m.event.seq <= emitted[m.event.run]
        BY DEF LateInv, Progress
      <3>2. /\ emitted[m.event.run] <= emitted'[m.event.run]
            /\ emitted[m.event.run] \in Nat /\ emitted'[m.event.run] \in Nat
        BY <2>3, <2>4, <3>1
      <3>3. QED BY <3>1, <3>2
    <2>8. ASSUME NEW m \in copies
          PROVE  /\ m.event \in Progress /\ m.event.again
                 /\ m.event.run \in Attempts /\ m.event.seq <= emitted'[m.event.run]
      <3>1. m.event = Event(a, n, TRUE) /\ m.event.run = a /\ m.event.seq = n
        BY <2>5, <2>6
      <3>2. n <= emitted'[a]
        BY <2>1, <2>4
      <3>3. QED BY <2>5, <3>1, <3>2
    <2>9. QED BY <2>2, <2>4, <2>7, <2>8 DEF LateInv
  <1>3. CASE \E message \in late : Land(message)
    BY <1>3 DEF Land, LateInv
  <1>4. CASE Work /\ ~ \E a \in Attempts : Publish(a)
    BY <1>1, <1>4 DEF Work, Attempt, Recover, CancelQueued, Outcome
  <1>5. CASE Arrive \/ Failure \/ UNCHANGED streamVars
    BY <1>1, <1>5 DEF Arrive, Failure, RedisDown, RedisUp, ReadRowFails, OpenFails, AskFails, Cut,
                      Abort, streamVars
  <1>6. CASE ServerStep
    BY <1>1, <1>6 DEF ServerStep, Subscribe, CheckDisconnected, CancelStream, ReadRow,
                      AwaitProgress, Drain, SendTerminal, CloseStream
  <1>7. CASE BrowserStep
    BY <1>1, <1>7 DEF BrowserStep, OpenStream, ReceiveFrame, StreamEnded, Ask, Backoff, Aborted
  <1>8. QED BY <1>2, <1>3, <1>4, <1>5, <1>6, <1>7 DEF StreamNext

LEMMA StreamInitially == StreamInit => StreamInv /\ LateInv
  <1> SUFFICES ASSUME StreamInit PROVE StreamInv /\ LateInv
    OBVIOUS
  <1>1. <<>> \in Seq(Progress) /\ <<>> \in Seq(Frames) /\ Len(<<>>) = 0
    OBVIOUS
  <1>2. StreamTypeOK
    BY <1>1 DEF StreamInit, StreamTypeOK, Rows, Servers, Browsers, Statuses
  <1>3. LateInv
    BY DEF StreamInit, LateInv
  <1>4. QED
    BY <1>1, <1>2, <1>3 DEF StreamInit, StreamInv, ServerAgrees, FramesAgree, BrowserAgrees, Results,
                AnswerIsOutcome

\* A row that has its outcome is left alone; until then nobody has said anything of it.
LEMMA StreamWork ==
  ASSUME StreamInv, Work PROVE StreamInv'
  <1>0. job \in Rows /\ Results /\ emitted \in [Attempts -> Nat] /\ flying \in Seq(Progress)
    BY DEF StreamInv, StreamTypeOK
  <1> DEFINE Moved == job' \in Rows /\ ~Ended /\ Results'
             Kept  == UNCHANGED <<inbox, sent, received, server, browser>>
  <1>1. /\ Kept /\ (job' = job \/ Moved)
        /\ emitted' \in [Attempts -> Nat] /\ flying' \in Seq(Progress)
    <2> USE DEF brokerVars, serverVars, wireVars, browserVars
    <2>1. CASE Attempt
      <3>1. Kept /\ UNCHANGED <<emitted, flying>>
        BY <2>1 DEF Attempt
      <3>2. /\ job.status = "queued"
            /\ job' = [job EXCEPT !.status = "running", !.attempt = @ + 1]
        BY <2>1 DEF Attempt
      <3>3. PICK n \in Nat : job' = [job EXCEPT !.status = "running", !.attempt = n]
        <4>1. job.attempt + 1 \in Nat
          BY <1>0 DEF Rows
        <4>2. QED BY <3>2, <4>1
      <3>4. Moved
        BY <1>0, <3>2, <3>3 DEF Rows, Results, Ended, JobEnds, Statuses
      <3>5. QED BY <1>0, <3>1, <3>4
    <2>2. CASE Recover \/ CancelQueued
      <3>1. Kept /\ UNCHANGED <<emitted, flying>>
        BY <2>2 DEF Recover, CancelQueued
      <3>2. /\ job.status \in {"queued", "running"}
            /\ \E s \in {"queued", "failed", "cancelled"} : job' = [job EXCEPT !.status = s]
        BY <2>2 DEF Recover, CancelQueued
      <3>3. Moved
        BY <1>0, <3>2 DEF Rows, Results, Ended, JobEnds, Statuses
      <3>4. QED BY <1>0, <3>1, <3>3
    <2>3. ASSUME NEW a \in Attempts, Publish(a)
          PROVE  /\ Kept /\ UNCHANGED job
                 /\ emitted' \in [Attempts -> Nat] /\ flying' \in Seq(Progress)
      <3>1. a \in Nat /\ emitted[a] + 1 \in Nat
        BY <1>0, StreamAssumption DEF Attempts
      <3>2. Event(a, emitted[a] + 1, FALSE) \in Progress
        BY <3>1 DEF Event, Progress
      <3>3. /\ Kept /\ UNCHANGED job
            /\ emitted' = [emitted EXCEPT ![a] = emitted[a] + 1]
            /\ flying' = flying \/ flying' = Append(flying, Event(a, emitted[a] + 1, FALSE))
        BY <2>3 DEF Publish, Forwarded
      <3>4. emitted' \in [Attempts -> Nat]
        BY <1>0, <3>1, <3>3
      <3>5. flying' \in Seq(Progress)
        <4> DEFINE e == Event(a, emitted[a] + 1, FALSE)
        <4>1. e \in Progress /\ (flying' = flying \/ flying' = Append(flying, e))
          BY <3>2, <3>3
        <4> HIDE DEF e
        <4>2. QED BY <1>0, <4>1, AppendIs
      <3>6. QED BY <3>3, <3>4, <3>5
    <2>4. ASSUME NEW a \in Attempts, NEW status \in JobEnds, Outcome(a, status)
          PROVE  Kept /\ UNCHANGED <<emitted, flying>> /\ (job' = job \/ Moved)
      <3>1. a \in Nat
        BY StreamAssumption DEF Attempts
      <3>2. Kept /\ UNCHANGED <<emitted, flying>>
        BY <2>4 DEF Outcome
      <3>3. \/ job' = job
            \/ /\ job.status = "running"
               /\ job' = [job EXCEPT !.status = status,
                                     !.result = IF status = "succeeded" THEN a ELSE 0]
        BY <2>4 DEF Outcome
      <3>4. job' = job \/ Moved
        BY <1>0, <3>1, <3>3 DEF Rows, Results, Ended, JobEnds, Statuses
      <3>5. QED BY <3>2, <3>4
    <2>5. QED BY <1>0, <2>1, <2>2, <2>3, <2>4 DEF Work
  <1>2. StreamTypeOK'
    BY <1>0, <1>1 DEF StreamInv, StreamTypeOK
  <1>3. CASE job' = job
    BY <1>1, <1>2, <1>3 DEF StreamInv, ServerAgrees, FramesAgree, Tells, BrowserAgrees, Results,
                            AnswerIsOutcome, Ended
  <1>4. CASE Moved
    <2>1. /\ server.at \notin {"draining", "ending"} /\ browser.result = 0
          /\ browser.at # "returned" /\ browser.why # "job_failed"
          /\ \A i \in 1..Len(sent) : sent[i].kind \notin {"result", "error"}
      BY <1>4 DEF StreamInv, ServerAgrees, FramesAgree, Tells, BrowserAgrees, Results,
                AnswerIsOutcome,
                  Ended, JobEnds
    <2>2. QED BY <1>1, <1>2, <1>4, <2>1 DEF StreamInv, ServerAgrees, FramesAgree, Tells,
                                            BrowserAgrees, AnswerIsOutcome
  <1>5. QED BY <1>1, <1>3, <1>4

\* Frames that say what the row says leave a connection on which every frame does.
LEMMA StreamFrame ==
  ASSUME StreamInv, NEW frame \in Frames, Tells(frame), Yield(frame), UNCHANGED job
  PROVE  sent' \in Seq(Frames) /\ FramesAgree'
  <1>1. sent \in Seq(Frames) /\ FramesAgree
    BY DEF StreamInv, StreamTypeOK
  <1>2. CASE sent' = sent
    BY <1>1, <1>2 DEF FramesAgree, Tells
  <1>3. CASE sent' = Append(sent, frame)
    <2>1. /\ sent' \in Seq(Frames)
          /\ \A i \in 1..Len(sent') : sent'[i] = frame \/ (i \in 1..Len(sent) /\ sent'[i] = sent[i])
      BY <1>1, <1>3
    <2>2. QED BY <1>1, <2>1 DEF FramesAgree, Tells
  <1>4. QED BY <1>2, <1>3 DEF Yield

\* The stream reads the row once more before it ends, and ends with what it read.
LEMMA StreamServer ==
  ASSUME StreamInv, ServerStep PROVE StreamInv'
  <1>1. \A f \in Progress : f \in Frames /\ Tells(f)
    BY DEF Progress, Frames, Tells
  <1>2. CASE Subscribe \/ CheckDisconnected \/ CancelStream \/ CloseStream
    <2>1. /\ UNCHANGED <<job, emitted, sent, received, browser>>
          /\ \E place \in {"checking", "reading", "closing", "closed"} : Goto(place)
          /\ \/ UNCHANGED <<flying, inbox>>
             \/ flying' = <<>> /\ inbox' = <<>>
      BY <1>2 DEF Subscribe, CheckDisconnected, CancelStream, CloseStream, jobVars, brokerVars,
                  wireVars, browserVars
    <2>2. server' \in Servers /\ server'.at \notin {"draining", "ending"}
      <3>1. PICK place \in {"checking", "reading", "closing", "closed"} :
                server' = [server EXCEPT !.at = place]
        BY <2>1 DEF Goto
      <3>2. server \in Servers
        BY DEF StreamInv, StreamTypeOK
      <3>3. QED BY <3>1, <3>2 DEF Servers
    <2>3. flying' \in Seq(Progress) /\ inbox' \in Seq(Progress)
      <3>1. <<>> \in Seq(Progress)
        OBVIOUS
      <3>2. QED BY <2>1, <3>1 DEF StreamInv, StreamTypeOK
    <2>4. StreamTypeOK'
      BY <2>1, <2>2, <2>3 DEF StreamInv, StreamTypeOK
    <2>5. QED BY <2>1, <2>2, <2>4 DEF StreamInv, ServerAgrees, FramesAgree, Tells, BrowserAgrees,
                Results,
                                AnswerIsOutcome, Ended
  <1>3. CASE ReadRow
    <2>1. /\ UNCHANGED <<job, emitted, flying, inbox, sent, received, browser>>
          /\ server' = [at   |-> IF Ended THEN "draining" ELSE "waiting",
                        seen |-> [status |-> job.status, result |-> job.result],
                        left |-> MaxDrained]
      BY <1>3 DEF ReadRow, jobVars, brokerVars, wireVars, browserVars
    <2>2. StreamTypeOK' /\ ServerAgrees'
      BY <2>1, StreamAssumption DEF StreamInv, StreamTypeOK, Rows, Servers, ServerAgrees, Ended
    <2>3. QED BY <2>1, <2>2 DEF StreamInv, FramesAgree, Tells, BrowserAgrees, Results,
                AnswerIsOutcome, Ended
  <1>4. CASE AwaitProgress \/ Drain
    <2>1. /\ UNCHANGED <<job, emitted, flying, received, browser>>
          /\ server' \in Servers /\ server'.seen = server.seen
          /\ server'.at \in {"draining", "ending"} => server.at = "draining"
          /\ \/ UNCHANGED <<inbox, sent>>
             \/ inbox # <<>> /\ inbox' = Tail(inbox) /\ Yield(Head(inbox))
      <3>1. server \in Servers
        BY DEF StreamInv, StreamTypeOK
      <3>2. /\ UNCHANGED <<job, emitted, flying, received, browser>>
            /\ \/ UNCHANGED <<inbox, sent>>
               \/ inbox # <<>> /\ inbox' = Tail(inbox) /\ Yield(Head(inbox))
        BY <1>4 DEF AwaitProgress, Drain, jobVars, browserVars
      <3>3. CASE AwaitProgress
        <4>1. server' = [server EXCEPT !.at = "checking"]
          BY <3>3 DEF AwaitProgress, Goto
        <4>2. QED BY <3>1, <3>2, <4>1 DEF Servers
      <3>4. CASE Drain
        <4>1. /\ server.at = "draining"
              /\ \/ server' = [server EXCEPT !.at = "ending"]
                 \/ server.left > 0 /\ server' = [server EXCEPT !.left = @ - 1]
          BY <3>4 DEF Drain, At, Goto
        <4>2. server' \in Servers /\ server'.seen = server.seen
          BY <3>1, <4>1 DEF Servers
        <4>3. QED BY <3>2, <4>1, <4>2
      <3>5. QED BY <1>4, <3>3, <3>4
    <2>2. inbox' \in Seq(Progress) /\ sent' \in Seq(Frames) /\ FramesAgree'
      <3>1. CASE UNCHANGED <<inbox, sent>>
        BY <2>1, <3>1 DEF StreamInv, StreamTypeOK, FramesAgree, Tells
      <3>2. CASE inbox # <<>> /\ inbox' = Tail(inbox) /\ Yield(Head(inbox))
        <4>1. Head(inbox) \in Progress /\ inbox' \in Seq(Progress)
          BY <3>2 DEF StreamInv, StreamTypeOK
        <4>2. QED BY <1>1, <2>1, <3>2, <4>1, StreamFrame
      <3>3. QED BY <2>1, <3>1, <3>2
    <2>3. StreamTypeOK' /\ ServerAgrees'
      BY <2>1, <2>2 DEF StreamInv, StreamTypeOK, ServerAgrees, Ended
    <2>4. QED BY <2>1, <2>2, <2>3 DEF StreamInv, BrowserAgrees, Results, AnswerIsOutcome, Ended
  <1>5. CASE SendTerminal
    <2> DEFINE frame == [kind |-> TerminalKind(server.seen.status), run |-> server.seen.result,
                         seq |-> 0, again |-> FALSE]
    <2>1. /\ UNCHANGED <<job, emitted, flying, inbox, received, browser>>
          /\ At("ending") /\ Yield(frame) /\ Goto("closing")
      BY <1>5 DEF SendTerminal, jobVars, brokerVars, browserVars
    <2>2. server.seen.status = job.status /\ server.seen.result = job.result /\ job.result \in Nat
      BY <2>1 DEF StreamInv, StreamTypeOK, Rows, ServerAgrees, At
    <2>3. frame \in Frames /\ Tells(frame)
      BY <2>2 DEF Frames, Tells, TerminalKind
    <2>4. sent' \in Seq(Frames) /\ FramesAgree'
      BY <2>1, <2>3, StreamFrame
    <2>5. StreamTypeOK' /\ ServerAgrees'
      BY <2>1, <2>4 DEF StreamInv, StreamTypeOK, Servers, ServerAgrees, Goto
    <2>6. QED BY <2>1, <2>4, <2>5 DEF StreamInv, BrowserAgrees, Results, AnswerIsOutcome, Ended
  <1>6. QED BY <1>2, <1>3, <1>4, <1>5 DEF ServerStep

\* Messages say nothing of the outcome.
LEMMA OnlyBroker ==
  ASSUME StreamInv, UNCHANGED <<job, emitted, server, sent, received, browser>>,
         flying' \in Seq(Progress), inbox' \in Seq(Progress)
  PROVE  StreamInv'
  BY DEF StreamInv, StreamTypeOK, ServerAgrees, FramesAgree, Tells, BrowserAgrees, Results,
                AnswerIsOutcome,
         Ended

\* Redis executes one copy of a command that was retried.
LEMMA StreamLand ==
  ASSUME StreamInv, LateInv, NEW message \in late, Land(message) PROVE StreamInv'
  <1>1. UNCHANGED <<job, emitted, server, sent, received, browser, inbox>>
    BY DEF Land, jobVars, serverVars, wireVars, browserVars
  <1>2. flying' = flying \/ flying' = Append(flying, message.event)
    BY DEF Land, Forwarded
  <1>3. message.event \in Progress /\ flying \in Seq(Progress) /\ inbox \in Seq(Progress)
    BY DEF LateInv, StreamInv, StreamTypeOK
  <1>4. flying' \in Seq(Progress) /\ inbox' \in Seq(Progress)
    BY <1>1, <1>2, <1>3
  <1>5. QED BY <1>1, <1>4, OnlyBroker

\* A browser that goes on, or gives up for another reason than a failed job, says nothing of
\* the outcome either.
LEMMA BrowserLeaves ==
  ASSUME StreamInv, UNCHANGED <<job, emitted, flying, inbox, server, sent, received>>,
         \/ \E why \in {"abort", "http", "network", "stream_disconnected"} : Throw(why)
         \/ \E place \in {"asking", "backoff"} : browser' = [browser EXCEPT !.at = place]
         \/ browser' = [browser EXCEPT !.at = "opening", !.reconnects = @ + 1]
  PROVE  StreamInv'
  <1>0. browser \in Browsers
    BY DEF StreamInv, StreamTypeOK
  <1>1. /\ browser' \in Browsers
        /\ browser'.at # "returned" /\ browser'.result = browser.result
        /\ browser'.why # "job_failed" \/ browser'.why = browser.why
    <2>1. CASE \E why \in {"abort", "http", "network", "stream_disconnected"} :
                  browser' = [browser EXCEPT !.at = "thrown", !.why = why]
      BY <1>0, <2>1 DEF Browsers
    <2>2. CASE \E place \in {"asking", "backoff"} : browser' = [browser EXCEPT !.at = place]
      BY <1>0, <2>2 DEF Browsers
    <2>3. CASE browser' = [browser EXCEPT !.at = "opening", !.reconnects = @ + 1]
      <3>1. PICK n \in Nat : browser' = [browser EXCEPT !.at = "opening", !.reconnects = n]
        <4>1. browser.reconnects + 1 \in Nat
          BY <1>0 DEF Browsers
        <4>2. QED BY <2>3, <4>1
      <3>2. QED BY <1>0, <3>1 DEF Browsers
    <2>4. QED BY <2>1, <2>2, <2>3 DEF Throw
  <1>2. QED BY <1>1 DEF StreamInv, StreamTypeOK, ServerAgrees, FramesAgree, Tells, BrowserAgrees,
                Results,
                  AnswerIsOutcome, Ended

\* The browser believes a terminal frame, and otherwise asks for the row.
LEMMA StreamBrowser ==
  ASSUME StreamInv, BrowserStep PROVE StreamInv'
  <1> USE DEF jobVars, brokerVars, serverVars, wireVars
  <1>1. CASE OpenStream
    <2>1. UNCHANGED <<job, emitted, flying, inbox>>
      BY <1>1 DEF OpenStream
    <2>2. CASE Throw("abort") /\ UNCHANGED <<server, sent, received>>
      <3>1. StreamTypeOK'
        BY <2>1, <2>2 DEF StreamInv, StreamTypeOK, Throw, Browsers
      <3>2. QED BY <1>1, <2>1, <2>2, <3>1 DEF StreamInv, StreamTypeOK, ServerAgrees, FramesAgree,
                      Tells, BrowserAgrees, Results, AnswerIsOutcome, Ended, Throw
    <2>3. CASE /\ browser' = [browser EXCEPT !.at = "reading"] /\ Goto("subscribing")
               /\ sent' = <<>> /\ received' = 0
      <3>0. server \in Servers /\ browser \in Browsers
        BY DEF StreamInv, StreamTypeOK
      <3>1. server' \in Servers /\ browser' \in Browsers
        BY <2>3, <3>0 DEF Servers, Browsers, Goto
      <3>4. <<>> \in Seq(Frames) /\ Len(<<>>) = 0
        OBVIOUS
      <3>5. StreamTypeOK' /\ Len(sent') = 0
        BY <2>1, <2>3, <3>1, <3>4 DEF StreamInv, StreamTypeOK
      <3>2. ServerAgrees' /\ FramesAgree'
        BY <2>3, <3>0, <3>5 DEF ServerAgrees, FramesAgree, Goto, Servers
      <3>3. QED BY <2>1, <2>3, <3>0, <3>5, <3>2 DEF StreamInv, Browsers, BrowserAgrees, Results,
                      AnswerIsOutcome, Ended
    <2>4. QED BY <1>1, <2>2, <2>3 DEF OpenStream
  <1>2. CASE ReceiveFrame
    <2> DEFINE frame == NextFrame
    <2>1. /\ UNCHANGED <<job, emitted, flying, inbox, server, sent>>
          /\ received' = received + 1 /\ received + 1 \in 1..Len(sent)
      BY <1>2 DEF ReceiveFrame, StreamInv, StreamTypeOK
    <2>2. frame \in Frames /\ Tells(frame)
      BY <2>1 DEF NextFrame, StreamInv, StreamTypeOK, FramesAgree
    <2>3. /\ browser.at = "reading"
          /\ \/ UNCHANGED browser
             \/ /\ frame.kind = "result"
                /\ browser' = [browser EXCEPT !.at = "asking", !.result = frame.run]
             \/ browser' = [browser EXCEPT !.at = "asking"]
             \/ frame.kind = "error" /\ Throw("job_failed")
      BY <1>2 DEF ReceiveFrame, Following
    <2>4. browser \in Browsers /\ frame.run \in Nat
      BY <2>2 DEF StreamInv, StreamTypeOK, Frames
    <2>5. CASE frame.kind = "result"
                 /\ browser' = [browser EXCEPT !.at = "asking", !.result = frame.run]
      <3>1. /\ browser' \in Browsers /\ browser'.result = job.result /\ job.status = "succeeded"
            /\ browser'.at = "asking" /\ browser'.why = browser.why
        BY <2>2, <2>4, <2>5 DEF Browsers, Tells
      <3>2. QED BY <2>1, <3>1 DEF StreamInv, StreamTypeOK, ServerAgrees, FramesAgree, Tells,
                      BrowserAgrees, Results, AnswerIsOutcome, Ended
    <2>6. CASE UNCHANGED browser
      BY <2>1, <2>6 DEF StreamInv, StreamTypeOK, ServerAgrees, FramesAgree, Tells, BrowserAgrees,
                        Results, AnswerIsOutcome, Ended
    <2>7. CASE browser' = [browser EXCEPT !.at = "asking"]
      <3>1. /\ browser' \in Browsers /\ browser'.result = browser.result
            /\ browser'.at = "asking" /\ browser'.why = browser.why
        BY <2>4, <2>7 DEF Browsers
      <3>2. QED BY <2>1, <3>1 DEF StreamInv, StreamTypeOK, ServerAgrees, FramesAgree, Tells,
                      BrowserAgrees, Results, AnswerIsOutcome, Ended
    <2>8. CASE frame.kind = "error" /\ Throw("job_failed")
      <3>1. /\ browser' \in Browsers /\ browser'.result = browser.result
            /\ browser'.at = "thrown" /\ job.status = "failed"
        BY <2>2, <2>4, <2>8 DEF Browsers, Throw, Tells
      <3>2. QED BY <2>1, <3>1 DEF StreamInv, StreamTypeOK, ServerAgrees, FramesAgree, Tells,
                      BrowserAgrees, Results, AnswerIsOutcome, Ended
    <2>9. QED BY <2>3, <2>5, <2>6, <2>7, <2>8
  <1>3. CASE Ask
    <2>1. UNCHANGED <<job, emitted, flying, inbox, server, sent, received>>
      BY <1>3 DEF Ask
    <2>2. CASE /\ Ended \/ browser.result # 0
               /\ browser' = [browser EXCEPT !.at = "returned", !.status = job.status,
                                             !.result = IF @ # 0 THEN @ ELSE job.result]
      <3>1. /\ Ended /\ (browser.result # 0 => browser.result = job.result)
            /\ browser.why = "job_failed" => job.status = "failed"
        BY <2>2 DEF StreamInv, BrowserAgrees, Results, AnswerIsOutcome, Ended, JobEnds
      <3>2. /\ StreamTypeOK'
            /\ browser'.result = job.result /\ browser'.status = job.status
            /\ browser'.why = browser.why
        BY <2>1, <2>2, <3>1 DEF StreamInv, StreamTypeOK, Rows, Browsers
      <3>3. browser'.result # 0 => job.status = "succeeded"
        BY <2>2, <3>1, <3>2 DEF StreamInv, BrowserAgrees, Results
      <3>4. QED BY <2>1, <3>1, <3>2, <3>3 DEF StreamInv, ServerAgrees, FramesAgree, Tells,
                      BrowserAgrees, Results, AnswerIsOutcome, Ended
    <2>3. CASE Throw("stream_disconnected") \/ browser' = [browser EXCEPT !.at = "backoff"]
      BY <2>1, <2>3, BrowserLeaves
    <2>4. QED BY <1>3, <2>2, <2>3 DEF Ask
  <1>4. CASE StreamEnded \/ Backoff \/ Aborted
    <2>1. UNCHANGED <<job, emitted, flying, inbox, server, sent, received>>
      BY <1>4 DEF StreamEnded, Backoff, Aborted
    <2>2. QED BY <1>4, <2>1, BrowserLeaves DEF StreamEnded, Backoff, Aborted
  <1>5. QED BY <1>1, <1>2, <1>3, <1>4 DEF BrowserStep

\* What breaks says nothing: frames are lost from the end of the connection.
LEMMA StreamBreaks ==
  ASSUME StreamInv, Arrive \/ Failure PROVE StreamInv'
  <1> USE DEF jobVars, brokerVars, serverVars, wireVars, browserVars
  <1>1. CASE Arrive
    <2>1. UNCHANGED <<job, emitted, server, sent, received, browser>>
      BY <1>1 DEF Arrive
    <2>2. flying' \in Seq(Progress) /\ inbox' \in Seq(Progress)
      BY <1>1 DEF Arrive, StreamInv, StreamTypeOK
    <2>3. QED BY <2>1, <2>2, OnlyBroker
  <1>2. CASE RedisDown
    <2>1. /\ UNCHANGED <<job, emitted, server, sent, received, browser>>
          /\ flying' \in Seq(Progress) /\ inbox' \in Seq(Progress)
      BY <1>2 DEF RedisDown
    <2>2. QED BY <2>1, OnlyBroker
  <1>3. CASE RedisUp
    <2>1. UNCHANGED <<job, emitted, server, sent, received, browser, flying, inbox>>
      BY <1>3 DEF RedisUp
    <2>2. QED BY <2>1, OnlyBroker DEF StreamInv, StreamTypeOK
  <1>4. CASE ReadRowFails
    <2>1. UNCHANGED <<job, emitted, sent, received, browser, flying, inbox>> /\ Goto("closing")
      BY <1>4 DEF ReadRowFails
    <2>2. StreamTypeOK' /\ ServerAgrees'
      BY <2>1 DEF StreamInv, StreamTypeOK, Servers, ServerAgrees, Goto
    <2>3. QED BY <2>1, <2>2 DEF StreamInv, FramesAgree, Tells, BrowserAgrees, Results,
                AnswerIsOutcome, Ended
  <1>5. CASE OpenFails \/ AskFails \/ Abort
    <2>1. UNCHANGED <<job, emitted, flying, inbox, server, sent, received>>
      BY <1>5 DEF OpenFails, AskFails, Abort
    <2>2. CASE OpenFails \/ AskFails
      BY <2>1, <2>2, BrowserLeaves DEF OpenFails, AskFails
    <2>3. CASE Abort
      <3>1. browser' = [browser EXCEPT !.aborted = TRUE] /\ browser.at # "returned"
        BY <2>3 DEF Abort
      <3>2. StreamTypeOK' /\ browser'.result = browser.result /\ browser'.why = browser.why
            /\ browser'.at = browser.at
        BY <2>1, <3>1 DEF StreamInv, StreamTypeOK, Browsers
      <3>3. QED BY <2>1, <3>1, <3>2 DEF StreamInv, ServerAgrees, FramesAgree, Tells,
                      BrowserAgrees, Results, AnswerIsOutcome, Ended
    <2>4. QED BY <1>5, <2>2, <2>3
  <1>6. CASE Cut
    <2>1. UNCHANGED <<job, emitted, flying, inbox, server, received, browser>>
      BY <1>6 DEF Cut
    <2>2. PICK n \in received..Len(sent) : sent' = SubSeq(sent, 1, n)
      BY <1>6 DEF Cut
    <2>3. /\ sent \in Seq(Frames) /\ n \in 0..Len(sent)
      BY <2>2 DEF StreamInv, StreamTypeOK
    <2>4. /\ sent' \in Seq(Frames) /\ Len(sent') = n
          /\ \A i \in 1..n : sent'[i] = sent[i] /\ i \in 1..Len(sent)
      BY <2>2, <2>3
    <2>5. StreamTypeOK' /\ FramesAgree'
      BY <2>1, <2>4 DEF StreamInv, StreamTypeOK, FramesAgree, Tells
    <2>6. QED BY <2>1, <2>5 DEF StreamInv, ServerAgrees, BrowserAgrees, Results, AnswerIsOutcome,
                Ended
  <1>7. QED BY <1>1, <1>2, <1>3, <1>4, <1>5, <1>6 DEF Failure

\* Every step of the job, the broker, the stream and the browser agrees with the row.
LEMMA StreamInvStep == StreamInv /\ LateInv /\ [StreamNext]_streamVars => StreamInv' /\ LateInv'
  <1>1. ASSUME StreamInv, UNCHANGED streamVars PROVE StreamInv'
    <2>1. UNCHANGED <<job, emitted, flying, inbox, server, sent, received, browser>>
      BY <1>1 DEF streamVars, jobVars, brokerVars, serverVars, wireVars, browserVars
    <2>2. QED BY <1>1, <2>1, OnlyBroker DEF StreamInv, StreamTypeOK
  <1>2. QED BY <1>1, LateInvStep, StreamWork, StreamLand, StreamServer, StreamBrowser, StreamBreaks
            DEF StreamNext

\* What followJob returns is the outcome in the row, and a failure it throws is one.
THEOREM StreamAnswerIsOutcome == StreamSpec => []AnswerIsOutcome
  <1>1. StreamInv => AnswerIsOutcome
    BY DEF StreamInv
  <1>2. QED BY <1>1, StreamInitially, StreamInvStep, PTL DEF StreamSpec

-----------------------------------------------------------------------------
(***************************************************************************)
(* The order of the progress.  What is written and not yet read, what has  *)
(* arrived and what is flying is one queue: a step appends to it, shifts   *)
(* its boundaries or drops a piece, and never reorders it.  All of it that *)
(* was published once is newer than what stands before it and than what    *)
(* the browser shows, because a subscription begins empty.                 *)
(***************************************************************************)
Later(x, y) ==
    x.kind = "progress" /\ y.kind = "progress" /\ y.run = x.run /\ ~y.again => y.seq > x.seq

Ascends(s, m) == \A i, k \in (m + 1)..Len(s) : i < k => Later(s[i], s[k])
Precedes(s, m, t) == \A i \in (m + 1)..Len(s), k \in 1..Len(t) : Later(s[i], t[k])

\* A frame that the attempt has emitted and the browser has not shown, or that may come again.
Due(frame, seen, known) ==
    frame.kind = "progress" =>
        /\ frame.run \in Attempts /\ frame.seq <= known[frame.run]
        /\ frame.again \/ seen[frame.run] < frame.seq

OrderTypeOK ==
    /\ received \in 0..Len(sent) /\ shown \in [Attempts -> Nat]
    /\ server.at \in {"closed", "subscribing"} => sub = "none" /\ flying = <<>> /\ inbox = <<>>
    /\ \A a \in Attempts : shown[a] <= emitted[a]
AllDue ==
    /\ \A i \in (received + 1)..Len(sent) : Due(sent[i], shown, emitted)
    /\ \A i \in 1..Len(inbox) : Due(inbox[i], shown, emitted)
    /\ \A i \in 1..Len(flying) : Due(flying[i], shown, emitted)
AllInOrder ==
    /\ Ascends(sent, received) /\ Ascends(inbox, 0) /\ Ascends(flying, 0)
    /\ Precedes(sent, received, inbox) /\ Precedes(sent, received, flying)
    /\ Precedes(inbox, 0, flying)

OrderInv == StreamInv /\ LateInv /\ OrderTypeOK /\ AllDue /\ AllInOrder

\* Nothing moves along the way.
LEMMA OrderStill ==
  ASSUME OrderInv, UNCHANGED <<emitted, flying, inbox, sent, received, shown>>,
         server'.at \in {"closed", "subscribing"} =>
             server.at \in {"closed", "subscribing"} /\ sub' = sub
  PROVE  OrderTypeOK' /\ AllDue' /\ AllInOrder'
  BY DEF OrderInv, OrderTypeOK, AllDue, Due, AllInOrder, Ascends, Precedes

\* A message is appended to what is flying, or lost: it is due, and later than all under way.
LEMMA OrderForwarded ==
  ASSUME OrderInv, NEW e \in Progress, Due(e, shown, emitted'),
         \A x : (x \in Frames \/ x \in Progress) /\ Due(x, shown, emitted) => Later(x, e),
         emitted' \in [Attempts -> Nat], \A b \in Attempts : emitted[b] <= emitted'[b],
         UNCHANGED <<sub, inbox, server, sent, received, shown>>,
         flying' = flying \/ (sub = "open" /\ flying' = Append(flying, e))
  PROVE  OrderTypeOK' /\ AllDue' /\ AllInOrder'
  <1>1. /\ emitted \in [Attempts -> Nat] /\ shown \in [Attempts -> Nat]
        /\ flying \in Seq(Progress) /\ inbox \in Seq(Progress) /\ sent \in Seq(Frames)
    BY DEF OrderInv, OrderTypeOK, StreamInv, StreamTypeOK
  <1>2. /\ UNCHANGED <<sub, inbox, server, sent, received, shown>>
        /\ flying' = flying \/ (sub = "open" /\ flying' = Append(flying, e))
    OBVIOUS
  <1>3. \A b \in Attempts : /\ emitted[b] <= emitted'[b]
                             /\ emitted[b] \in Nat /\ emitted'[b] \in Nat /\ shown[b] \in Nat
    BY <1>1
  <1>4. ASSUME NEW x, x \in Frames \/ x \in Progress, Due(x, shown, emitted)
        PROVE  Due(x, shown', emitted') /\ Later(x, e)
    <2>1. Due(x, shown, emitted')
      <3> SUFFICES ASSUME x.kind = "progress"
                   PROVE  /\ x.run \in Attempts /\ x.seq <= emitted'[x.run]
                          /\ x.again \/ shown[x.run] < x.seq
        BY DEF Due
      <3>1. /\ x.run \in Attempts /\ x.seq <= emitted[x.run] /\ x.seq \in Nat
            /\ x.again \/ shown[x.run] < x.seq
        BY <1>4 DEF Due, Frames, Progress
      <3>2. QED BY <1>3, <3>1
    <2>2. QED BY <1>2, <1>4, <2>1
  <1>5. OrderTypeOK'
    <2>1. \A b \in Attempts : shown[b] <= emitted'[b]
      BY <1>3 DEF OrderInv, OrderTypeOK
    <2>2. QED BY <1>1, <1>2, <2>1 DEF OrderInv, OrderTypeOK
  <1>6. e \in Progress /\ Due(e, shown', emitted')
    BY <1>2
  <1>7. /\ \A i \in (received + 1)..Len(sent) : Due(sent[i], shown', emitted') /\ Later(sent[i], e)
        /\ \A i \in 1..Len(inbox) : Due(inbox[i], shown', emitted') /\ Later(inbox[i], e)
        /\ \A i \in 1..Len(flying) : Due(flying[i], shown', emitted') /\ Later(flying[i], e)
    <2>1. /\ \A i \in (received + 1)..Len(sent) : sent[i] \in Frames /\ Due(sent[i], shown, emitted)
          /\ \A i \in 1..Len(inbox) : inbox[i] \in Progress /\ Due(inbox[i], shown, emitted)
          /\ \A i \in 1..Len(flying) : flying[i] \in Progress /\ Due(flying[i], shown, emitted)
      BY <1>1 DEF OrderInv, OrderTypeOK, AllDue
    <2>2. QED BY <1>4, <2>1
  <1>8. CASE flying' = flying
    BY <1>2, <1>5, <1>7, <1>8 DEF OrderInv, AllDue, AllInOrder, Ascends, Precedes, Due
  <1>9. CASE flying' = Append(flying, e)
    <2>1. /\ Len(flying') = Len(flying) + 1 /\ Len(flying) \in Nat
          /\ flying'[Len(flying) + 1] = e
          /\ \A i \in 1..Len(flying) : flying'[i] = flying[i]
      BY <1>1, <1>6, <1>9, AppendIs
    <2>2. \A k \in 1..Len(flying') : k \in 1..Len(flying) \/ flying'[k] = e
      BY <2>1
    <2>3. AllDue'
      <3>1. \A i \in 1..Len(flying') : Due(flying'[i], shown', emitted')
        BY <1>6, <1>7, <2>1, <2>2 DEF Due
      <3>2. QED BY <1>2, <1>7, <3>1 DEF AllDue
    <2>4. /\ Precedes(sent, received, flying') /\ Precedes(inbox, 0, flying')
      <3>1. Precedes(sent, received, flying) /\ Precedes(inbox, 0, flying)
        BY DEF OrderInv, AllInOrder
      <3>2. QED BY <1>7, <2>1, <2>2, <3>1 DEF Precedes
    <2>5. Ascends(flying', 0)
      <3>1. Ascends(flying, 0)
        BY DEF OrderInv, AllInOrder
      <3>2. \A i, k \in 1..Len(flying') : i < k => i \in 1..Len(flying)
        BY <2>1
      <3>3. QED BY <1>7, <2>1, <2>2, <3>1, <3>2 DEF Ascends
    <2>6. QED BY <1>2, <1>5, <2>3, <2>4, <2>5 DEF OrderInv, AllInOrder, Ascends, Precedes
  <1>10. QED BY <1>2, <1>8, <1>9

\* An attempt publishes: its new event is later than everything under way, or is left to
\* the retries.
LEMMA OrderPublish ==
  ASSUME OrderInv, NEW a \in Attempts, Publish(a)
  PROVE  OrderTypeOK' /\ AllDue' /\ AllInOrder'
  <1> DEFINE e == Event(a, emitted[a] + 1, FALSE)
  <1>1. /\ emitted \in [Attempts -> Nat] /\ shown \in [Attempts -> Nat]
        /\ a \in Nat /\ emitted[a] \in Nat /\ shown[a] \in Nat /\ shown[a] <= emitted[a]
    BY StreamAssumption DEF OrderInv, OrderTypeOK, StreamInv, StreamTypeOK, Attempts
  <1>2. /\ emitted' = [emitted EXCEPT ![a] = emitted[a] + 1]
        /\ UNCHANGED <<sub, inbox, server, sent, received, shown>>
        /\ flying' = flying \/ (sub = "open" /\ flying' = Append(flying, e))
    BY DEF Publish, Forwarded, serverVars, wireVars, browserVars
  <1>3. /\ emitted' \in [Attempts -> Nat] /\ emitted'[a] = emitted[a] + 1
        /\ \A b \in Attempts : emitted[b] <= emitted'[b]
    BY <1>1, <1>2
  <1>4. e \in Progress /\ Due(e, shown, emitted') /\ e.run = a /\ e.seq = emitted[a] + 1
    BY <1>1, <1>3 DEF Event, Progress, Due
  <1>5. ASSUME NEW x, x \in Frames \/ x \in Progress, Due(x, shown, emitted) PROVE Later(x, e)
    <2> SUFFICES ASSUME x.kind = "progress", x.run = a PROVE e.seq > x.seq
      BY <1>4 DEF Later
    <2>1. x.seq <= emitted[a] /\ x.seq \in Nat
      BY <1>5 DEF Due, Frames, Progress
    <2>2. e.seq = emitted[a] + 1 /\ emitted[a] \in Nat
      BY <1>1, <1>4
    <2> HIDE DEF e
    <2>3. QED BY ONLY <2>1, <2>2
  <1> HIDE DEF e
  <1>6. QED BY <1>2, <1>3, <1>4, <1>5, OrderForwarded

\* A retried event may be older than what is under way, and is not counted on.
LEMMA OrderLand ==
  ASSUME OrderInv, NEW message \in late, Land(message)
  PROVE  OrderTypeOK' /\ AllDue' /\ AllInOrder'
  <1> DEFINE e == message.event
  <1>1. e \in Progress /\ e.again /\ e.run \in Attempts /\ e.seq <= emitted[e.run]
        /\ emitted \in [Attempts -> Nat]
    BY DEF OrderInv, LateInv
  <1>2. /\ UNCHANGED <<emitted, sub, inbox, server, sent, received, shown>>
        /\ flying' = flying \/ (sub = "open" /\ flying' = Append(flying, e))
    BY DEF Land, Forwarded, jobVars, serverVars, wireVars, browserVars
  <1>3. Due(e, shown, emitted') /\ \A x : Later(x, e)
    BY <1>1, <1>2 DEF Due, Later
  <1>4. emitted' \in [Attempts -> Nat] /\ \A b \in Attempts : emitted[b] <= emitted'[b]
    BY <1>1, <1>2
  <1> HIDE DEF e
  <1>5. QED BY <1>1, <1>2, <1>3, <1>4, OrderForwarded

\* A message reaches the socket: the last of what arrived, the first of what flew.
LEMMA OrderArrive ==
  ASSUME OrderInv, Arrive
  PROVE  OrderTypeOK' /\ AllDue' /\ AllInOrder'
  <1>1. /\ flying \in Seq(Progress) /\ inbox \in Seq(Progress) /\ flying # <<>>
        /\ inbox' = Append(inbox, flying[1]) /\ flying' = Tail(flying)
        /\ UNCHANGED <<emitted, sub, server, sent, received, shown>>
    <2>1. flying \in Seq(Progress) /\ inbox \in Seq(Progress) /\ flying # <<>>
      BY DEF OrderInv, StreamInv, StreamTypeOK, Arrive
    <2>2. Head(flying) = flying[1]
      BY <2>1, TailIs
    <2>3. QED BY <2>1, <2>2 DEF Arrive, jobVars, serverVars, wireVars, browserVars
  <1>2. /\ Len(flying) \in Nat \ {0} /\ Len(flying') = Len(flying) - 1
        /\ \A i \in 1..Len(flying') : flying'[i] = flying[i + 1]
        /\ flying[1] \in Progress
    BY <1>1, TailIs
  <1>3. /\ Len(inbox') = Len(inbox) + 1 /\ Len(inbox) \in Nat
        /\ inbox'[Len(inbox) + 1] = flying[1]
        /\ \A i \in 1..Len(inbox) : inbox'[i] = inbox[i]
    BY <1>1, <1>2, AppendIs
  <1>4. OrderTypeOK'
    BY <1>1, <1>2 DEF OrderInv, OrderTypeOK
  <1>5. /\ \A k \in 1..Len(flying') : k + 1 \in 1..Len(flying) /\ 1 < k + 1
        /\ 1 \in 1..Len(flying)
        /\ \A k \in 1..Len(inbox') : k \in 1..Len(inbox) \/ (k = Len(inbox) + 1
                                                              /\ inbox'[k] = flying[1])
    BY <1>2, <1>3
  <1>6. AllDue'
    <2>1. /\ \A i \in 1..Len(inbox') : Due(inbox'[i], shown, emitted)
          /\ \A i \in 1..Len(flying') : Due(flying'[i], shown, emitted)
      BY <1>2, <1>3, <1>5 DEF OrderInv, AllDue
    <2>2. QED BY <1>1, <2>1 DEF OrderInv, AllDue, Due
  <1>7. /\ Ascends(flying, 0) /\ Ascends(inbox, 0) /\ Precedes(inbox, 0, flying)
        /\ Precedes(sent, received, inbox) /\ Precedes(sent, received, flying)
        /\ Ascends(sent, received)
    BY DEF OrderInv, AllInOrder
  <1>8. Ascends(flying', 0)
    <2>1. ASSUME NEW i \in 1..Len(flying'), NEW k \in 1..Len(flying'), i < k
          PROVE  Later(flying'[i], flying'[k])
      <3>1. i + 1 \in 1..Len(flying) /\ k + 1 \in 1..Len(flying) /\ i + 1 < k + 1
        BY <1>2, <2>1
      <3>2. Later(flying[i + 1], flying[k + 1])
        BY <1>7, <3>1 DEF Ascends
      <3>3. QED BY <1>2, <3>2
    <2>2. QED BY <2>1 DEF Ascends
  <1>9. Ascends(inbox', 0)
    <2>1. \A i, k \in 1..Len(inbox') : i < k => i \in 1..Len(inbox) /\ inbox'[i] = inbox[i]
      BY <1>3
    <2>2. QED BY <1>3, <1>5, <1>7, <2>1 DEF Ascends, Precedes
  <1>10. Precedes(inbox', 0, flying')
    <2>1. \A k \in 1..Len(flying') : Later(flying[1], flying'[k])
      BY <1>2, <1>5, <1>7 DEF Ascends
    <2>2. \A i \in 1..Len(inbox), k \in 1..Len(flying') : Later(inbox[i], flying'[k])
      BY <1>2, <1>5, <1>7 DEF Precedes
    <2>3. QED BY <1>3, <1>5, <2>1, <2>2 DEF Precedes
  <1>11. Precedes(sent, received, inbox') /\ Precedes(sent, received, flying')
    BY <1>2, <1>3, <1>5, <1>7 DEF Precedes
  <1>12. QED BY <1>1, <1>4, <1>6, <1>7, <1>8, <1>9, <1>10, <1>11 DEF AllInOrder

\* Redis goes away, or the subscription is closed: what it held is gone.
LEMMA OrderCleared ==
  ASSUME OrderInv, RedisDown \/ CloseStream
  PROVE  OrderTypeOK' /\ AllDue' /\ AllInOrder'
  <1>1. /\ flying' = <<>> /\ inbox' = <<>>
        /\ UNCHANGED <<emitted, sent, received, shown>>
        /\ sub' = "none" \/ UNCHANGED server
      BY DEF RedisDown, CloseStream, jobVars, serverVars, wireVars, browserVars
  <1>2. Len(flying') = 0 /\ Len(inbox') = 0
    BY <1>1
  <1>3. server'.at \in {"closed", "subscribing"} => sub' = "none"
    BY DEF OrderInv, OrderTypeOK, RedisDown, CloseStream, serverVars
  <1>4. OrderTypeOK'
    BY <1>1, <1>3 DEF OrderInv, OrderTypeOK
  <1>5. AllDue'
    BY <1>1, <1>2 DEF OrderInv, AllDue
  <1>6. /\ \A m \in Nat : Precedes(sent, m, inbox') /\ Precedes(sent, m, flying')
        /\ Precedes(inbox', 0, flying') /\ Ascends(inbox', 0) /\ Ascends(flying', 0)
    BY <1>2 DEF Ascends, Precedes
  <1>7. received \in Nat
    BY DEF OrderInv, StreamInv, StreamTypeOK
  <1>8. QED BY <1>1, <1>4, <1>5, <1>6, <1>7 DEF OrderInv, AllInOrder

\* A frame is written, or lost with its connection.
LEMMA OrderWritten ==
  ASSUME OrderInv, NEW frame \in Frames, Yield(frame), Due(frame, shown, emitted),
         UNCHANGED <<emitted, shown, received>>,
         \A i \in (received + 1)..Len(sent) : Later(sent[i], frame)
  PROVE  /\ received' \in 0..Len(sent')
         /\ \A i \in (received' + 1)..Len(sent') :
               \/ i \in (received + 1)..Len(sent) /\ sent'[i] = sent[i]
               \/ sent'[i] = frame
         /\ \A i \in (received' + 1)..Len(sent') : Due(sent'[i], shown', emitted')
         /\ Ascends(sent', received')
  <1>0. /\ sent \in Seq(Frames) /\ received \in 0..Len(sent)
        /\ Ascends(sent, received)
        /\ \A i \in (received + 1)..Len(sent) : Due(sent[i], shown, emitted)
    BY DEF OrderInv, OrderTypeOK, AllDue, AllInOrder, StreamInv, StreamTypeOK
  <1>1. CASE sent' = sent
    BY <1>0, <1>1
  <1>2. CASE sent' = Append(sent, frame)
    <2>1. /\ Len(sent') = Len(sent) + 1 /\ Len(sent) \in Nat
          /\ sent'[Len(sent) + 1] = frame
          /\ \A i \in 1..Len(sent) : sent'[i] = sent[i]
      BY <1>0, <1>2, AppendIs
    <2>2. \A i \in (received' + 1)..Len(sent') :
             \/ i \in (received + 1)..Len(sent) /\ sent'[i] = sent[i]
             \/ i = Len(sent) + 1 /\ sent'[i] = frame
      BY <1>0, <2>1
    <2>3. \A i, k \in (received' + 1)..Len(sent') : i < k =>
             i \in (received + 1)..Len(sent) /\ sent'[i] = sent[i]
      BY <1>0, <2>1
    <2>4. Ascends(sent', received')
      BY <1>0, <2>2, <2>3 DEF Ascends
    <2>5. \A i \in (received' + 1)..Len(sent') : Due(sent'[i], shown', emitted')
      BY <1>0, <2>2
    <2>6. QED BY <1>0, <2>1, <2>2, <2>4, <2>5
  <1>3. QED BY <1>1, <1>2 DEF Yield

\* The stream passes on the oldest message that has arrived.
LEMMA OrderTaken ==
  ASSUME OrderInv, inbox # <<>>, Yield(Head(inbox)), inbox' = Tail(inbox),
         UNCHANGED <<emitted, flying, shown, received>>
  PROVE  received' \in 0..Len(sent') /\ AllDue' /\ AllInOrder'
  <1>1. /\ Len(inbox) \in Nat \ {0} /\ Len(inbox') = Len(inbox) - 1
        /\ \A i \in 1..Len(inbox') : inbox'[i] = inbox[i + 1]
        /\ Head(inbox) = inbox[1] /\ inbox[1] \in Progress
    BY TailIs DEF OrderInv, StreamInv, StreamTypeOK
  <1>2. /\ Ascends(inbox, 0) /\ Ascends(flying, 0)
        /\ Precedes(sent, received, inbox) /\ Precedes(sent, received, flying)
        /\ Precedes(inbox, 0, flying)
        /\ \A i \in 1..Len(inbox) : Due(inbox[i], shown, emitted)
        /\ \A i \in 1..Len(flying) : Due(flying[i], shown, emitted)
    BY DEF OrderInv, AllInOrder, AllDue
  <1>3. /\ 1 \in 1..Len(inbox)
        /\ \A i \in 1..Len(inbox') : i + 1 \in 1..Len(inbox) /\ 1 < i + 1
    BY <1>1
  <1>4. /\ inbox[1] \in Frames /\ Due(inbox[1], shown, emitted)
        /\ \A i \in (received + 1)..Len(sent) : Later(sent[i], inbox[1])
    BY <1>1, <1>2, <1>3 DEF Precedes, Frames, Progress
  <1>5. /\ received' \in 0..Len(sent')
        /\ \A i \in (received' + 1)..Len(sent') :
               \/ i \in (received + 1)..Len(sent) /\ sent'[i] = sent[i]
               \/ sent'[i] = inbox[1]
        /\ \A i \in (received' + 1)..Len(sent') : Due(sent'[i], shown', emitted')
        /\ Ascends(sent', received')
    BY <1>1, <1>4, OrderWritten
  <1>6. AllDue'
    <2>1. \A i \in 1..Len(inbox') : Due(inbox'[i], shown, emitted)
      BY <1>1, <1>2, <1>3
    <2>2. QED BY <1>2, <1>5, <2>1 DEF AllDue
  <1>7. Ascends(inbox', 0)
    <2>1. ASSUME NEW i \in 1..Len(inbox'), NEW k \in 1..Len(inbox'), i < k
          PROVE  Later(inbox'[i], inbox'[k])
      <3>1. i + 1 \in 1..Len(inbox) /\ k + 1 \in 1..Len(inbox) /\ i + 1 < k + 1
        BY <1>1, <2>1
      <3>2. Later(inbox[i + 1], inbox[k + 1])
        BY <1>2, <3>1 DEF Ascends
      <3>3. QED BY <1>1, <3>2
    <2>2. QED BY <2>1 DEF Ascends
  <1>8. Precedes(sent', received', inbox')
    <2>1. \A k \in 1..Len(inbox') : Later(inbox[1], inbox'[k])
      BY <1>1, <1>2, <1>3 DEF Ascends
    <2>2. \A i \in (received + 1)..Len(sent), k \in 1..Len(inbox') : Later(sent[i], inbox'[k])
      BY <1>1, <1>2, <1>3 DEF Precedes
    <2>3. QED BY <1>5, <2>1, <2>2 DEF Precedes
  <1>9. Precedes(sent', received', flying) /\ Precedes(inbox', 0, flying)
    BY <1>1, <1>2, <1>3, <1>5 DEF Precedes
  <1>10. QED BY <1>2, <1>5, <1>6, <1>7, <1>8, <1>9 DEF AllInOrder

\* The steps of the stream.
LEMMA OrderServer ==
  ASSUME OrderInv, ServerStep
  PROVE  OrderTypeOK' /\ AllDue' /\ AllInOrder'
  <1>0. server \in Servers
    BY DEF OrderInv, StreamInv, StreamTypeOK
  <1>1. CASE Subscribe \/ CheckDisconnected \/ CancelStream \/ ReadRow
    <2>1. /\ UNCHANGED <<emitted, flying, inbox, sent, received, shown>>
          /\ server'.at \notin {"closed", "subscribing"}
      BY <1>0, <1>1 DEF Subscribe, CheckDisconnected, CancelStream, ReadRow, Goto, Servers,
                  jobVars, brokerVars, wireVars, browserVars
    <2>2. QED BY <2>1, OrderStill
  <1>2. CASE AwaitProgress \/ Drain
    <2>1. /\ UNCHANGED <<emitted, flying, shown, received>>
          /\ server'.at \notin {"closed", "subscribing"}
          /\ \/ UNCHANGED <<sent, inbox>>
             \/ inbox # <<>> /\ Yield(Head(inbox)) /\ inbox' = Tail(inbox)
      BY <1>0, <1>2 DEF AwaitProgress, Drain, At, Goto, Servers, jobVars, browserVars
    <2>2. CASE UNCHANGED <<sent, inbox>>
      BY <2>1, <2>2, OrderStill
    <2>3. CASE inbox # <<>> /\ Yield(Head(inbox)) /\ inbox' = Tail(inbox)
      <3>1. received' \in 0..Len(sent') /\ AllDue' /\ AllInOrder'
        BY <2>1, <2>3, OrderTaken
      <3>2. OrderTypeOK'
        BY <2>1, <3>1 DEF OrderInv, OrderTypeOK
      <3>3. QED BY <3>1, <3>2
    <2>4. QED BY <2>1, <2>2, <2>3
  <1>3. CASE SendTerminal
    <2> DEFINE frame == [kind |-> TerminalKind(server.seen.status), run |-> server.seen.result,
                         seq |-> 0, again |-> FALSE]
    <2>1. /\ UNCHANGED <<emitted, flying, inbox, shown, received>>
          /\ Yield(frame) /\ server'.at = "closing"
      BY <1>0, <1>3 DEF SendTerminal, Goto, Servers, jobVars, brokerVars, browserVars
    <2>2. frame \in Frames /\ frame.kind # "progress"
      BY <1>0 DEF Frames, Servers, TerminalKind
    <2>3. Due(frame, shown, emitted) /\ \A x : Later(x, frame) /\ Later(frame, x)
      BY <2>2 DEF Due, Later
    <2>4. /\ received' \in 0..Len(sent')
          /\ \A i \in (received' + 1)..Len(sent') :
                 \/ i \in (received + 1)..Len(sent) /\ sent'[i] = sent[i]
                 \/ sent'[i] = frame
          /\ \A i \in (received' + 1)..Len(sent') : Due(sent'[i], shown', emitted')
          /\ Ascends(sent', received')
      BY <2>1, <2>2, <2>3, OrderWritten
    <2>5. OrderTypeOK'
      BY <2>1, <2>4 DEF OrderInv, OrderTypeOK
    <2>6. AllDue'
      BY <2>1, <2>4 DEF OrderInv, AllDue
    <2>7. Precedes(sent', received', inbox) /\ Precedes(sent', received', flying)
      BY <2>3, <2>4 DEF OrderInv, AllInOrder, Precedes
    <2>8. QED BY <2>1, <2>4, <2>5, <2>6, <2>7 DEF OrderInv, AllInOrder
  <1>4. CASE CloseStream
    BY <1>4, OrderCleared
  <1>5. QED BY <1>1, <1>2, <1>3, <1>4 DEF ServerStep

\* The steps of the browser: it shows what is due, and later frames stay due.
LEMMA OrderBrowser ==
  ASSUME OrderInv, BrowserStep
  PROVE  OrderTypeOK' /\ AllDue' /\ AllInOrder'
  <1>1. CASE OpenStream
    <2>1. CASE UNCHANGED <<server, sent, received>>
      BY <1>1, <2>1, OrderStill DEF OpenStream, jobVars, brokerVars
    <2>2. CASE Goto("subscribing") /\ sent' = <<>> /\ received' = 0
      <3>1. /\ UNCHANGED <<emitted, flying, inbox, sub, shown>>
            /\ sub = "none" /\ flying = <<>> /\ inbox = <<>>
        BY <1>1 DEF OpenStream, At, OrderInv, OrderTypeOK, jobVars, brokerVars
      <3>2. Len(sent') = 0 /\ Len(flying) = 0 /\ Len(inbox) = 0
        BY <2>2, <3>1
      <3>3. QED BY <2>2, <3>1, <3>2
                DEF OrderInv, OrderTypeOK, AllDue, AllInOrder, Ascends, Precedes
    <2>3. QED BY <1>1, <2>1, <2>2 DEF OpenStream, wireVars
  <1>2. CASE ReceiveFrame
    <2> DEFINE frame == sent[received + 1]
    <2>1. /\ UNCHANGED <<emitted, flying, inbox, sub, server, sent>>
          /\ received' = received + 1 /\ received + 1 \in 1..Len(sent)
          /\ received \in Nat /\ Len(sent) \in Nat
          /\ \/ UNCHANGED shown
             \/ /\ frame.kind = "progress"
                /\ shown' = [shown EXCEPT ![frame.run] = IF frame.seq > @ THEN frame.seq ELSE @]
      BY <1>2 DEF ReceiveFrame, NextFrame, OrderInv, OrderTypeOK, StreamInv, StreamTypeOK,
                  jobVars, brokerVars, serverVars
    <2>2. /\ shown \in [Attempts -> Nat] /\ emitted \in [Attempts -> Nat]
          /\ sent \in Seq(Frames) /\ inbox \in Seq(Progress) /\ flying \in Seq(Progress)
          /\ frame \in Frames /\ Due(frame, shown, emitted)
          /\ \A a \in Attempts : shown[a] <= emitted[a]
      BY <2>1 DEF OrderInv, OrderTypeOK, AllDue, StreamInv, StreamTypeOK
    <2>3. /\ \A i \in (received' + 1)..Len(sent) :
                i \in (received + 1)..Len(sent) /\ i \in 1..Len(sent) /\ received + 1 < i
          /\ received + 1 \in (received + 1)..Len(sent)
      BY <2>1
    <2>4. /\ Ascends(sent, received')
          /\ Precedes(sent, received', inbox) /\ Precedes(sent, received', flying)
      BY <2>3 DEF OrderInv, AllInOrder, Ascends, Precedes
    <2>5. /\ \A i \in (received' + 1)..Len(sent) : Later(frame, sent[i]) /\ sent[i] \in Frames
                                                   /\ Due(sent[i], shown, emitted)
          /\ \A i \in 1..Len(inbox) : Later(frame, inbox[i]) /\ inbox[i] \in Frames
                                      /\ Due(inbox[i], shown, emitted)
          /\ \A i \in 1..Len(flying) : Later(frame, flying[i]) /\ flying[i] \in Frames
                                       /\ Due(flying[i], shown, emitted)
      <3>1. Progress \subseteq Frames
        BY DEF Frames, Progress
      <3>2. \A i \in (received' + 1)..Len(sent) :
               Later(frame, sent[i]) /\ sent[i] \in Frames /\ Due(sent[i], shown, emitted)
        BY <2>1, <2>2, <2>3 DEF OrderInv, AllInOrder, AllDue, Ascends
      <3>3. \A i \in 1..Len(inbox) :
               Later(frame, inbox[i]) /\ inbox[i] \in Frames /\ Due(inbox[i], shown, emitted)
        BY <2>2, <2>3, <3>1 DEF OrderInv, AllInOrder, AllDue, Precedes
      <3>4. \A i \in 1..Len(flying) :
               Later(frame, flying[i]) /\ flying[i] \in Frames /\ Due(flying[i], shown, emitted)
        BY <2>2, <2>3, <3>1 DEF OrderInv, AllInOrder, AllDue, Precedes
      <3>5. QED BY <3>2, <3>3, <3>4
    <2>6. ASSUME NEW x \in Frames, Later(frame, x), Due(x, shown, emitted)
          PROVE  Due(x, shown', emitted)
      <3>1. CASE UNCHANGED shown
        BY <2>6, <3>1
      <3>2. CASE x.again \/ x.kind # "progress"
        BY <2>6, <3>2 DEF Due
      <3>3. CASE /\ ~x.again /\ x.kind = "progress" /\ frame.kind = "progress"
                 /\ shown' = [shown EXCEPT ![frame.run] = IF frame.seq > @ THEN frame.seq ELSE @]
        <4>1. /\ x.run \in Attempts /\ x.seq <= emitted[x.run] /\ shown[x.run] < x.seq
              /\ frame.run \in Attempts /\ x.run = frame.run => x.seq > frame.seq
          BY <2>2, <2>6, <3>3 DEF Due, Later
        <4>2. shown'[x.run] < x.seq
          BY <2>2, <3>3, <4>1
        <4>3. QED BY <4>1, <4>2 DEF Due
      <3>4. QED BY <2>1, <3>1, <3>2, <3>3
    <2>7. AllDue'
      BY <2>1, <2>5, <2>6 DEF AllDue
    <2>8. OrderTypeOK'
      <3>1. shown' \in [Attempts -> Nat] /\ \A a \in Attempts : shown'[a] <= emitted[a]
        <4>1. CASE UNCHANGED shown
          BY <2>2, <4>1
        <4>2. CASE /\ frame.kind = "progress"
                   /\ shown' = [shown EXCEPT ![frame.run] = IF frame.seq > @ THEN frame.seq ELSE @]
          <5>1. /\ frame.run \in Attempts /\ frame.seq \in Nat
                /\ frame.seq <= emitted[frame.run]
            BY <2>2, <4>2 DEF Due, Frames
          <5>2. QED BY <2>2, <4>2, <5>1
        <4>3. QED BY <2>1, <4>1, <4>2
      <3>2. QED BY <2>1, <3>1 DEF OrderInv, OrderTypeOK
    <2>9. QED BY <2>1, <2>4, <2>7, <2>8 DEF OrderInv, AllInOrder
  <1>3. CASE StreamEnded \/ Ask \/ Backoff \/ Aborted
    BY <1>3, OrderStill DEF StreamEnded, Ask, Backoff, Aborted, jobVars, brokerVars, serverVars,
                            wireVars
  <1>4. QED BY <1>1, <1>2, <1>3 DEF BrowserStep

\* A cut loses the end of what was written.
LEMMA OrderCut ==
  ASSUME OrderInv, Cut
  PROVE  OrderTypeOK' /\ AllDue' /\ AllInOrder'
  <1>1. PICK n \in received..Len(sent) : sent' = SubSeq(sent, 1, n)
    BY DEF Cut
  <1>2. /\ received \in 0..Len(sent) /\ sent \in Seq(Frames) /\ n \in 0..Len(sent)
        /\ UNCHANGED <<emitted, flying, inbox, sub, server, received, shown>>
    BY <1>1 DEF Cut, OrderInv, OrderTypeOK, StreamInv, StreamTypeOK, jobVars, brokerVars,
                serverVars, browserVars
  <1>3. Len(sent') = n /\ \A i \in 1..n : sent'[i] = sent[i]
    BY <1>1, <1>2
  <1>4. \A i \in (received + 1)..Len(sent') : /\ i \in (received + 1)..Len(sent)
                                              /\ sent'[i] = sent[i]
    BY <1>1, <1>2, <1>3
  <1>5. received' \in 0..Len(sent')
    BY <1>1, <1>2, <1>3
  <1>6. QED BY <1>2, <1>4, <1>5
            DEF OrderInv, OrderTypeOK, AllDue, AllInOrder, Ascends, Precedes

LEMMA OrderInvStep == OrderInv /\ [StreamNext]_streamVars => OrderInv'
  <1> SUFFICES ASSUME OrderInv, [StreamNext]_streamVars PROVE OrderInv'
    OBVIOUS
  <1> USE DEF jobVars, brokerVars, serverVars, wireVars, browserVars
  <1>1. OrderTypeOK' /\ AllDue' /\ AllInOrder'
    <2>1. CASE Work
      <3>1. CASE Attempt \/ Recover \/ CancelQueued
                 \/ \E a \in Attempts, status \in JobEnds : Outcome(a, status)
        <4>1. UNCHANGED <<emitted, flying, inbox, sent, received, shown, server, sub>>
          BY <3>1 DEF Attempt, Recover, CancelQueued, Outcome
        <4>2. QED BY <4>1, OrderStill
      <3>2. CASE \E a \in Attempts : Publish(a)
        BY <3>2, OrderPublish
      <3>3. QED BY <2>1, <3>1, <3>2 DEF Work
    <2>2. CASE Arrive \/ \E message \in late : Land(message)
      BY <2>2, OrderArrive, OrderLand
    <2>3. CASE ServerStep
      BY <2>3, OrderServer
    <2>4. CASE BrowserStep
      BY <2>4, OrderBrowser
    <2>5. CASE RedisDown
      BY <2>5, OrderCleared
    <2>6. CASE Cut
      BY <2>6, OrderCut
    <2>7. CASE RedisUp \/ ReadRowFails \/ OpenFails \/ AskFails \/ Abort \/ UNCHANGED streamVars
      <3>1. /\ UNCHANGED <<emitted, flying, inbox, sent, received, shown, sub>>
            /\ server' = server \/ Goto("closing")
        BY <2>7 DEF RedisUp, ReadRowFails, OpenFails, AskFails, Abort, streamVars
      <3>2. server \in Servers
        BY DEF OrderInv, StreamInv, StreamTypeOK
      <3>3. server'.at \in {"closed", "subscribing"} => server' = server
        BY <3>1, <3>2 DEF Goto, Servers
      <3>4. QED BY <3>1, <3>3, OrderStill
    <2>8. QED BY <2>1, <2>2, <2>3, <2>4, <2>5, <2>6, <2>7 DEF StreamNext, Failure
  <1>2. StreamInv' /\ LateInv'
    BY StreamInvStep DEF OrderInv
  <1>3. QED BY <1>1, <1>2 DEF OrderInv

-----------------------------------------------------------------------------
(***************************************************************************)
(* The debt of the last round.  Once the row was read as terminal, what    *)
(* had arrived by then is partly written and partly still at the head of   *)
(* the inbox: the limit that is left counts how much of it is written.     *)
(***************************************************************************)
Delivered(frame, frames) == \E n \in 1..Len(frames) : frames[n] = frame
Paid == MaxDrained - server.left

LastWord ==
    \A i \in 1..Len(sent) : sent[i].kind # "progress" =>
        i = Len(sent) /\ server.at \in {"closing", "closed"}
HalfPaid ==
    server.at = "draining" /\ conn = "open" =>
        /\ server.left <= MaxDrained
        /\ \A k \in 1..Len(owed) :
              /\ k <= Paid => Delivered(owed[k], sent)
              /\ k > Paid => k - Paid <= Len(inbox) /\ inbox[k - Paid] = owed[k]
AllPaid ==
    server.at = "ending" /\ conn = "open" =>
        \A k \in 1..Len(owed) : k <= MaxDrained => Delivered(owed[k], sent)

DebtInv == owed \in Seq(Progress) /\ LastWord /\ HalfPaid /\ AllPaid /\ DrainedBeforeTerminal

\* A step that writes nothing owes nothing more, unless it reads the row.
LEMMA DebtStill ==
  ASSUME StreamInv, DebtInv, UNCHANGED <<sent, owed>>, conn' = "open" => conn = "open",
         \/ UNCHANGED <<server, inbox>>
         \/ /\ server'.at \notin {"draining", "ending"}
            /\ server.at \in {"closing", "closed"} => server'.at \in {"closing", "closed"}
  PROVE  DebtInv'
  BY DEF DebtInv, LastWord, HalfPaid, AllPaid, Paid, Delivered, DrainedBeforeTerminal

\* A frame is written behind the others, or lost with its connection.
LEMMA DebtWritten ==
  ASSUME StreamInv, NEW frame \in Frames, Yield(frame)
  PROVE  /\ sent' \in Seq(Frames)
         /\ \A x : Delivered(x, sent) => Delivered(x, sent')
         /\ conn = "open" => Delivered(frame, sent')
         /\ \A i \in 1..Len(sent') :
               \/ i \in 1..Len(sent) /\ sent'[i] = sent[i]
               \/ sent'[i] = frame /\ i = Len(sent') /\ i - 1 = Len(sent) /\ conn = "open"
                  /\ \A n \in 1..Len(sent) : sent'[n] = sent[n]
  <1>0. sent \in Seq(Frames)
    BY DEF StreamInv, StreamTypeOK
  <1>1. CASE conn = "open"
    <2>1. /\ sent' = Append(sent, frame) /\ sent' \in Seq(Frames)
          /\ Len(sent') = Len(sent) + 1 /\ Len(sent) \in Nat
          /\ sent'[Len(sent) + 1] = frame
          /\ \A i \in 1..Len(sent) : sent'[i] = sent[i]
      BY <1>0, <1>1, AppendIs DEF Yield
    <2>2. Len(sent) + 1 \in 1..Len(sent') /\ \A i \in 1..Len(sent) : i \in 1..Len(sent')
      BY <2>1
    <2>3. Delivered(frame, sent') /\ \A x : Delivered(x, sent) => Delivered(x, sent')
      BY <2>1, <2>2 DEF Delivered
    <2>4. \A i \in 1..Len(sent') :
             \/ i \in 1..Len(sent) /\ sent'[i] = sent[i]
             \/ sent'[i] = frame /\ i = Len(sent') /\ i - 1 = Len(sent)
      BY <2>1
    <2>5. QED BY <1>1, <2>1, <2>3, <2>4
  <1>2. CASE conn # "open"
    BY <1>0, <1>2 DEF Yield
  <1>3. QED BY <1>1, <1>2

\* The row is read: nothing terminal has been written, and the whole inbox is owed.
LEMMA DebtRead ==
  ASSUME StreamInv, DebtInv, ReadRow
  PROVE  DebtInv'
  <1>1. /\ server.at = "reading" /\ server'.at \in {"draining", "waiting"}
        /\ server'.left = MaxDrained /\ UNCHANGED <<inbox, sent, conn>>
        /\ server'.at = "draining" => owed' = inbox
        /\ owed' = inbox \/ owed' = owed
    BY DEF ReadRow, At, brokerVars, wireVars
  <1>2. \A i \in 1..Len(sent) : sent[i].kind = "progress"
    BY <1>1 DEF DebtInv, LastWord
  <1>3. inbox \in Seq(Progress) /\ owed' \in Seq(Progress) /\ MaxDrained \in Nat
    BY <1>1, StreamAssumption DEF StreamInv, StreamTypeOK, DebtInv
  <1>4. HalfPaid'
    <2> SUFFICES ASSUME server'.at = "draining" PROVE HalfPaid'
      BY DEF HalfPaid
    <2>1. owed' = inbox' /\ Paid' = 0
      BY <1>1, <1>3 DEF Paid
    <2>2. \A k \in 1..Len(owed') : ~(k <= 0) /\ k - 0 = k /\ k <= Len(inbox')
      BY <1>3, <2>1
    <2>3. QED BY <1>1, <1>3, <2>1, <2>2 DEF HalfPaid
  <1>5. QED BY <1>1, <1>2, <1>3, <1>4 DEF DebtInv, LastWord, AllPaid, DrainedBeforeTerminal

\* The stream passes on a message, before or after it read the row as terminal.
LEMMA DebtProgress ==
  ASSUME StreamInv, DebtInv, AwaitProgress \/ Drain
  PROVE  DebtInv'
  <1>0. /\ server \in Servers /\ inbox \in Seq(Progress) /\ owed \in Seq(Progress)
        /\ MaxDrained \in Nat /\ Progress \subseteq Frames /\ sent \in Seq(Frames)
    BY StreamAssumption DEF StreamInv, StreamTypeOK, DebtInv, Progress, Frames
  <1>1. /\ server.at \in {"waiting", "draining"} /\ UNCHANGED <<owed, conn>>
        /\ server'.at \in {"checking", "draining", "ending"}
    BY <1>0 DEF AwaitProgress, Drain, At, Goto, Servers
  <1>2. \A i \in 1..Len(sent) : sent[i].kind = "progress"
    BY <1>1 DEF DebtInv, LastWord
  <1>3. CASE inbox # <<>> /\ Yield(Head(inbox)) /\ inbox' = Tail(inbox)
             /\ \/ server' = [server EXCEPT !.at = "checking"]
                \/ server.left > 0 /\ At("draining") /\ server' = [server EXCEPT !.left = @ - 1]
    <2>1. /\ Head(inbox) \in Progress /\ Head(inbox) = inbox[1] /\ Len(inbox) \in Nat \ {0}
          /\ Len(inbox') = Len(inbox) - 1
          /\ \A i \in 1..Len(inbox') : inbox'[i] = inbox[i + 1]
      BY <1>0, <1>3, TailIs
    <2>2. /\ sent' \in Seq(Frames)
          /\ \A x : Delivered(x, sent) => Delivered(x, sent')
          /\ conn = "open" => Delivered(inbox[1], sent')
          /\ \A i \in 1..Len(sent') : sent'[i].kind = "progress"
      <3>1. Head(inbox) \in Frames /\ Head(inbox).kind = "progress"
        BY <1>0, <2>1 DEF Progress
      <3>2. QED BY <1>2, <1>3, <2>1, <3>1, DebtWritten
    <2>3. HalfPaid'
      <3> SUFFICES ASSUME server'.at = "draining", conn = "open" PROVE HalfPaid'
        BY <1>1 DEF HalfPaid
      <3>1. /\ server.at = "draining" /\ server.left > 0 /\ server.left \in Nat
            /\ server'.left = server.left - 1
        BY <1>0, <1>3 DEF Servers, At
      <3>2. /\ server.left <= MaxDrained
            /\ \A k \in 1..Len(owed) :
                  /\ k <= Paid => Delivered(owed[k], sent)
                  /\ k > Paid => k - Paid <= Len(inbox) /\ inbox[k - Paid] = owed[k]
        BY <3>1 DEF DebtInv, HalfPaid
      <3>3. Paid \in Nat /\ Paid' = Paid + 1 /\ server'.left <= MaxDrained
        BY <1>0, <3>1, <3>2 DEF Paid
      <3>4. ASSUME NEW k \in 1..Len(owed)
            PROVE  /\ k <= Paid' => Delivered(owed[k], sent')
                   /\ k > Paid' => k - Paid' <= Len(inbox') /\ inbox'[k - Paid'] = owed[k]
        <4>1. k \in Nat
          BY <1>0
        <4>2. CASE k <= Paid
          BY <2>2, <3>2, <3>3, <4>1, <4>2
        <4>3. CASE k = Paid + 1
          <5>1. k - Paid = 1 /\ k > Paid
            BY <3>3, <4>3
          <5>2. owed[k] = inbox[1]
            BY <3>2, <5>1
          <5>3. QED BY <2>2, <3>3, <4>3, <5>2
        <4>4. CASE k > Paid + 1
          <5>1. k > Paid /\ k - Paid' \in 1..Len(inbox') /\ (k - Paid') + 1 = k - Paid
            BY <2>1, <3>2, <3>3, <4>1, <4>4
          <5>2. k - Paid <= Len(inbox) /\ inbox[k - Paid] = owed[k]
            BY ONLY <3>2, <5>1, k \in 1..Len(owed)
          <5>3. k - Paid' <= Len(inbox') /\ inbox'[k - Paid'] = inbox[(k - Paid') + 1]
            BY <2>1, <5>1
          <5>4. ~(k <= Paid')
            BY ONLY <3>3, <4>1, <4>4
          <5>5. QED BY ONLY <5>1, <5>2, <5>3, <5>4
        <4>5. QED BY <3>3, <4>1, <4>2, <4>3, <4>4
      <3>5. QED BY <1>1, <3>3, <3>4 DEF HalfPaid
    <2>4. server'.at # "ending"
      BY <1>0, <1>3 DEF Servers, At
    <2>5. QED BY <1>0, <1>1, <2>2, <2>3, <2>4
              DEF DebtInv, LastWord, AllPaid, DrainedBeforeTerminal
  <1>4. CASE UNCHANGED <<sent, inbox>> /\ server' = [server EXCEPT !.at = "checking"]
    <2>1. server'.at = "checking"
      BY <1>0, <1>4 DEF Servers
    <2>2. QED BY <1>1, <1>4, <2>1, DebtStill
  <1>5. CASE /\ UNCHANGED <<sent, inbox>> /\ server' = [server EXCEPT !.at = "ending"]
             /\ inbox = <<>> \/ ~(server.left > 0)
             /\ At("draining")
    <2>1. server'.at = "ending" /\ server.at = "draining" /\ server.left \in Nat
      BY <1>0, <1>5 DEF Servers, At
    <2>2. AllPaid'
      <3> SUFFICES ASSUME conn = "open", NEW k \in 1..Len(owed), k <= MaxDrained
                   PROVE  Delivered(owed[k], sent)
        BY <1>1, <1>5 DEF AllPaid
      <3>1. /\ k > Paid => k - Paid <= Len(inbox)
            /\ k <= Paid => Delivered(owed[k], sent)
            /\ server.left <= MaxDrained
        BY <2>1 DEF DebtInv, HalfPaid
      <3>2. CASE inbox = <<>>
        <4>1. Len(inbox) = 0
          BY <3>2
        <4>2. k <= Paid
          BY <1>0, <2>1, <3>1, <4>1 DEF Paid
        <4>3. QED BY <3>1, <4>2
      <3>3. CASE ~(server.left > 0)
        BY <1>0, <2>1, <3>1, <3>3 DEF Paid
      <3>4. QED BY <1>5, <3>2, <3>3
    <2>3. QED BY <1>1, <1>2, <1>5, <2>1, <2>2
              DEF DebtInv, LastWord, HalfPaid, DrainedBeforeTerminal
  <1>6. QED BY <1>3, <1>4, <1>5 DEF AwaitProgress, Drain, Goto

\* The terminal frame follows what was owed.
LEMMA DebtTerminal ==
  ASSUME StreamInv, DebtInv, SendTerminal
  PROVE  DebtInv'
  <1> DEFINE frame == [kind |-> TerminalKind(server.seen.status), run |-> server.seen.result,
                       seq |-> 0, again |-> FALSE]
  <1>0. server \in Servers /\ owed \in Seq(Progress) /\ sent \in Seq(Frames)
    BY DEF StreamInv, StreamTypeOK, DebtInv
  <1>1. /\ server.at = "ending" /\ server'.at = "closing" /\ UNCHANGED <<owed, conn>>
        /\ Yield(frame)
    BY <1>0 DEF SendTerminal, At, Goto, Servers
  <1>2. frame \in Frames
    BY <1>0 DEF Frames, Servers, TerminalKind
  <1>3. \A i \in 1..Len(sent) : sent[i].kind = "progress"
    BY <1>1 DEF DebtInv, LastWord
  <1>4. \A i \in 1..Len(sent') :
           \/ sent'[i].kind = "progress"
           \/ i = Len(sent') /\ i - 1 = Len(sent) /\ conn = "open"
              /\ \A n \in 1..Len(sent) : sent'[n] = sent[n]
    <2> HIDE DEF frame
    <2>1. QED BY <1>1, <1>2, <1>3, DebtWritten
  <1>5. DrainedBeforeTerminal'
    <2> SUFFICES ASSUME NEW i \in 1..Len(sent'), sent'[i].kind # "progress"
                 PROVE  /\ i = Len(sent')
                        /\ \A k \in 1..Len(owed) : k <= MaxDrained =>
                              \E n \in 1..(i - 1) : sent'[n] = owed[k]
      BY <1>1 DEF DrainedBeforeTerminal
    <2>1. /\ i = Len(sent') /\ i - 1 = Len(sent) /\ conn = "open"
          /\ \A n \in 1..Len(sent) : sent'[n] = sent[n]
      BY <1>4
    <2>2. \A k \in 1..Len(owed) : k <= MaxDrained => Delivered(owed[k], sent)
      BY <1>1, <2>1 DEF DebtInv, AllPaid
    <2>3. QED BY <2>1, <2>2 DEF Delivered
  <1>6. LastWord'
    BY <1>1, <1>4 DEF LastWord
  <1>7. QED BY <1>0, <1>1, <1>5, <1>6 DEF DebtInv, HalfPaid, AllPaid

\* What arrives later stands behind what is owed.
LEMMA DebtArrive ==
  ASSUME StreamInv, DebtInv, Arrive
  PROVE  DebtInv'
  <1>1. /\ UNCHANGED <<sent, owed, server, conn>>
        /\ flying # <<>> /\ inbox' = Append(inbox, Head(flying))
        /\ inbox \in Seq(Progress) /\ flying \in Seq(Progress) /\ server \in Servers
        /\ owed \in Seq(Progress) /\ MaxDrained \in Nat
    BY StreamAssumption DEF Arrive, StreamInv, StreamTypeOK, DebtInv, serverVars, wireVars
  <1>2. /\ Len(inbox') = Len(inbox) + 1 /\ Len(inbox) \in Nat
        /\ \A i \in 1..Len(inbox) : inbox'[i] = inbox[i]
    <2>1. Head(flying) \in Progress
      BY <1>1, TailIs
    <2>2. QED BY <1>1, <2>1, AppendIs
  <1>3. HalfPaid'
    <2> SUFFICES ASSUME server.at = "draining", conn = "open" PROVE HalfPaid'
      BY <1>1 DEF HalfPaid
    <2>1. /\ server.left <= MaxDrained /\ server.left \in Nat
          /\ \A k \in 1..Len(owed) :
                /\ k <= Paid => Delivered(owed[k], sent)
                /\ k > Paid => k - Paid <= Len(inbox) /\ inbox[k - Paid] = owed[k]
      BY <1>1 DEF DebtInv, HalfPaid, Servers
    <2>2. Paid \in Nat /\ Paid' = Paid
      BY <1>1, <2>1 DEF Paid
    <2>3. ASSUME NEW k \in 1..Len(owed), k > Paid
          PROVE  k - Paid <= Len(inbox') /\ inbox'[k - Paid] = owed[k]
      <3>1. k - Paid \in 1..Len(inbox)
        BY <1>1, <1>2, <2>1, <2>2, <2>3
      <3>2. QED BY <1>2, <2>1, <2>3, <3>1
    <2>4. QED BY <1>1, <2>1, <2>2, <2>3 DEF HalfPaid
  <1>4. QED BY <1>1, <1>3 DEF DebtInv, LastWord, AllPaid, DrainedBeforeTerminal

\* An outage and a new connection cancel the debt.
LEMMA DebtCancelled ==
  ASSUME StreamInv, DebtInv, RedisDown \/ OpenStream
  PROVE  DebtInv'
  <1>0. server \in Servers /\ owed \in Seq(Progress)
    BY DEF StreamInv, StreamTypeOK, DebtInv
  <1>1. CASE owed' = <<>> /\ UNCHANGED <<sent, server, conn>>
    <2>1. Len(owed') = 0 /\ owed' \in Seq(Progress)
      BY <1>1
    <2>2. \A k \in 1..Len(owed') : FALSE
      BY <2>1
    <2>3. QED BY <1>1, <2>1, <2>2
              DEF DebtInv, LastWord, HalfPaid, AllPaid, DrainedBeforeTerminal
  <1>2. CASE owed' = <<>> /\ sent' = <<>> /\ Goto("subscribing")
    <2>1. /\ Len(owed') = 0 /\ owed' \in Seq(Progress) /\ Len(sent') = 0
          /\ server'.at = "subscribing"
      BY <1>0, <1>2 DEF Goto, Servers
    <2>2. \A k \in 1..Len(sent') : FALSE
      BY <2>1
    <2>3. QED BY <2>1, <2>2 DEF DebtInv, LastWord, HalfPaid, AllPaid, DrainedBeforeTerminal
  <1>3. CASE UNCHANGED <<server, owed, wireVars, inbox>>
    BY <1>3, DebtStill DEF wireVars
  <1>4. QED BY <1>1, <1>2, <1>3 DEF RedisDown, OpenStream, wireVars, brokerVars

\* A cut that spares the terminal frame spares all the others.
LEMMA DebtCut ==
  ASSUME OrderInv, DebtInv, Cut
  PROVE  DebtInv'
  <1>1. PICK n \in received..Len(sent) : sent' = SubSeq(sent, 1, n)
    BY DEF Cut
  <1>2. /\ received \in 0..Len(sent) /\ sent \in Seq(Frames) /\ n \in 0..Len(sent)
        /\ UNCHANGED <<owed, server>> /\ conn' # "open"
    BY <1>1 DEF Cut, OrderInv, OrderTypeOK, StreamInv, StreamTypeOK, serverVars
  <1>3. Len(sent') = n /\ \A i \in 1..n : sent'[i] = sent[i] /\ i \in 1..Len(sent)
    BY <1>1, <1>2
  <1>4. ASSUME NEW i \in 1..n, sent[i].kind # "progress"
        PROVE  i = Len(sent) /\ n = Len(sent)
    BY <1>2, <1>3, <1>4 DEF DebtInv, LastWord
  <1>5. LastWord'
    BY <1>2, <1>3, <1>4 DEF DebtInv, LastWord
  <1>6. DrainedBeforeTerminal'
    <2> SUFFICES ASSUME NEW i \in 1..n, sent[i].kind # "progress"
                 PROVE  /\ i = n
                        /\ \A k \in 1..Len(owed) : k <= MaxDrained =>
                              \E m \in 1..(i - 1) : sent'[m] = owed[k]
      BY <1>2, <1>3 DEF DrainedBeforeTerminal
    <2>1. i = Len(sent) /\ n = Len(sent) /\ Len(sent) \in Nat
      BY <1>2, <1>4
    <2>2. \A k \in 1..Len(owed) : k <= MaxDrained => \E m \in 1..(i - 1) : sent[m] = owed[k]
      BY <1>3 DEF DebtInv, DrainedBeforeTerminal
    <2>3. \A m \in 1..(i - 1) : sent'[m] = sent[m]
      BY <1>3, <2>1
    <2>4. QED BY <2>1, <2>2, <2>3
  <1>7. QED BY <1>2, <1>5, <1>6 DEF DebtInv, HalfPaid, AllPaid

LEMMA DebtInvStep == OrderInv /\ DebtInv /\ [StreamNext]_streamVars => DebtInv'
  <1> SUFFICES ASSUME OrderInv, DebtInv, [StreamNext]_streamVars PROVE DebtInv'
    OBVIOUS
  <1> USE DEF jobVars, brokerVars, serverVars, wireVars, browserVars
  <1>0. StreamInv /\ server \in Servers
    BY DEF OrderInv, StreamInv, StreamTypeOK
  <1>1. CASE \/ Work \/ RedisUp \/ AskFails \/ OpenFails \/ Abort \/ UNCHANGED streamVars
             \/ \E message \in late : Land(message)
    <2>1. UNCHANGED <<sent, owed, conn, server, inbox>>
      BY <1>1 DEF Work, Attempt, Recover, CancelQueued, Publish, Outcome, Land, RedisUp, AskFails,
                  OpenFails, Abort, streamVars
    <2>2. QED BY <1>0, <2>1, DebtStill
  <1>2. CASE Subscribe \/ CheckDisconnected \/ CancelStream \/ ReadRowFails \/ CloseStream
    <2>1. /\ UNCHANGED <<sent, owed>>
          /\ conn' = "open" => conn = "open"
          /\ server'.at \notin {"draining", "ending"}
          /\ server.at \in {"closing", "closed"} => server'.at \in {"closing", "closed"}
      <3>1. UNCHANGED <<sent, owed>> /\ (conn' = "open" => conn = "open")
        BY <1>2 DEF Subscribe, CheckDisconnected, CancelStream, ReadRowFails, CloseStream
      <3>2. \/ server.at \notin {"closing", "closed"}
               /\ \E place \in {"checking", "reading", "closing"} : Goto(place)
            \/ Goto("closed")
        BY <1>2 DEF Subscribe, CheckDisconnected, CancelStream, ReadRowFails, CloseStream, At
      <3>3. \/ server.at \notin {"closing", "closed"}
               /\ server'.at \in {"checking", "reading", "closing"}
            \/ server'.at = "closed"
        BY <1>0, <3>2 DEF Goto, Servers
      <3>4. QED BY <3>1, <3>3
    <2>2. QED BY <1>0, <2>1, DebtStill
  <1>3. CASE ReceiveFrame \/ StreamEnded \/ Ask \/ Backoff \/ Aborted
    <2>1. /\ UNCHANGED <<sent, owed, server, inbox>>
          /\ conn' = conn \/ Leave
      BY <1>3 DEF ReceiveFrame, StreamEnded, Ask, Backoff, Aborted
    <2>2. conn' = "open" => conn = "open"
      BY <2>1 DEF Leave
    <2>3. QED BY <1>0, <2>1, <2>2, DebtStill
  <1>4. QED BY <1>0, <1>1, <1>2, <1>3, DebtRead, DebtProgress, DebtTerminal, DebtArrive,
               DebtCancelled, DebtCut DEF StreamNext, ServerStep, BrowserStep, Failure

LEMMA FramesInitially == StreamInit => OrderInv /\ DebtInv
  <1> SUFFICES ASSUME StreamInit PROVE OrderInv /\ DebtInv
    OBVIOUS
  <1>1. <<>> \in Seq(Progress) /\ Len(<<>>) = 0
    OBVIOUS
  <1>2. OrderTypeOK /\ AllDue /\ AllInOrder
    BY <1>1 DEF StreamInit, OrderTypeOK, AllDue, AllInOrder, Ascends, Precedes
  <1>3. DebtInv
    BY <1>1 DEF StreamInit, DebtInv, LastWord, HalfPaid, AllPaid, DrainedBeforeTerminal
  <1>4. QED BY <1>2, <1>3, StreamInitially DEF OrderInv

\* The stream shows an event that was published once at most once and after the events its
\* attempt has shown before, and its terminal frame comes last, behind everything that had
\* arrived when the row was read as terminal (JobService.stream, RedisJobBroker).
THEOREM StreamIsFaithful == StreamSpec => []StreamFaithful
  <1>1. OrderInv /\ DebtInv => StreamFaithful
    <2> SUFFICES ASSUME OrderInv, DebtInv PROVE ProgressInOrder
      BY DEF DebtInv, StreamFaithful
    <2>1. received \in Nat /\ sent \in Seq(Frames) /\ shown \in [Attempts -> Nat]
      BY DEF OrderInv, OrderTypeOK, StreamInv, StreamTypeOK
    <2> SUFFICES ASSUME NEW i \in (received + 1)..Len(sent),
                        sent[i].kind = "progress", ~sent[i].again
                 PROVE  /\ sent[i].seq > shown[sent[i].run]
                        /\ \A k \in (received + 1)..(i - 1) :
                              sent[k].kind = "progress" /\ sent[k].run = sent[i].run
                                  => sent[k].seq < sent[i].seq
      BY DEF ProgressInOrder
    <2>2. /\ Due(sent[i], shown, emitted) /\ sent[i] \in Frames
          /\ \A k \in (received + 1)..(i - 1) :
                k \in (received + 1)..Len(sent) /\ k < i /\ sent[k] \in Frames
      BY <2>1 DEF OrderInv, AllDue
    <2>3. sent[i].seq > shown[sent[i].run]
      BY <2>1, <2>2 DEF Due, Frames
    <2>4. \A k \in (received + 1)..(i - 1) : Later(sent[k], sent[i])
      BY <2>2 DEF OrderInv, AllInOrder, Ascends
    <2>5. ASSUME NEW k \in (received + 1)..(i - 1),
                 sent[k].kind = "progress", sent[k].run = sent[i].run
          PROVE  sent[k].seq < sent[i].seq
      <3>1. sent[i].seq > sent[k].seq /\ sent[i].seq \in Nat /\ sent[k].seq \in Nat
        BY <2>2, <2>4, <2>5 DEF Later, Frames
      <3>2. QED BY <3>1
    <2>6. QED BY <2>3, <2>5
  <1>2. QED BY <1>1, FramesInitially, OrderInvStep, DebtInvStep, PTL DEF StreamSpec
=============================================================================

-------------------------- MODULE ProgressChannel ---------------------------
(***************************************************************************)
(* Direct streaming (api/services/streaming.py): a thread runs the         *)
(* operation and its trace listener puts progress into a bounded channel;  *)
(* the response generator empties the channel, then sends the result or    *)
(* the error.  The client may read slowly or leave; the operation goes on. *)
(***************************************************************************)
EXTENDS Naturals, Sequences

CONSTANTS Capacity,   \* _CHANNEL_CAPACITY
          MaxTraced   \* bound: trace events of the operation

ASSUME ChannelAssumption == {Capacity, MaxTraced} \subseteq Nat \ {0}

VARIABLES events,       \* the Queue of the channel, as sequence numbers
          done,         \* _done
          outcome,      \* _result or _error
          disconnected, \* _disconnected
          lost,         \* the sequence numbers counted by `dropped`
          length,       \* events the trace of the operation will have
          traced,       \* events it has recorded
          producer,     \* the thread: not started, running, over
          stream,       \* the generator: where it is
          client,       \* what the client was sent
          present       \* the client is there

channelVars == <<events, done, outcome, disconnected, lost, length, traced, producer, stream,
                 client, present>>

\* _response: run.started was recorded before the channel existed and is forwarded once.
ChannelInit ==
    /\ events = <<1>> /\ length \in 1..MaxTraced /\ traced = 1
    /\ done = FALSE /\ outcome = "none" /\ disconnected = FALSE /\ lost = {}
    /\ producer = "new" /\ stream = "new"
    /\ client = <<>> /\ present = TRUE

\* _ProgressChannel.receive: never blocks the operation.
Receive(n) ==
    IF disconnected THEN UNCHANGED <<events, lost>>
    ELSE IF Len(events) < Capacity
      THEN events' = Append(events, n) /\ UNCHANGED lost
      ELSE lost' = lost \cup {n} /\ UNCHANGED events

\* Mutant: a full channel makes the operation wait for the client.
TraceBlocking ==
    /\ producer = "running" /\ traced < length
    /\ Len(events) < Capacity \/ disconnected
    /\ traced' = traced + 1
    /\ Receive(traced + 1)
    /\ UNCHANGED <<length, done, outcome, disconnected, producer, stream, client, present>>
\* The operation records an event and the listener forwards it.
Trace ==
    /\ producer = "running" /\ traced < length
    /\ traced' = traced + 1
    /\ Receive(traced + 1)
    /\ UNCHANGED <<length, done, outcome, disconnected, producer, stream, client, present>>

\* complete or fail: the operation returned or raised.
Produce ==
    /\ producer = "running" /\ traced = length
    /\ producer' = "over"
    /\ done' = TRUE
    /\ outcome' \in {"result", "error"}
    /\ UNCHANGED <<length, events, disconnected, lost, traced, stream, client, present>>
-----------------------------------------------------------------------------
(* stream(): one step from each await to the next. *)

Start ==
    /\ stream = "new"
    /\ producer' = "running" /\ stream' = "checking"
    /\ UNCHANGED <<length, events, done, outcome, disconnected, lost, traced, client, present>>

CheckClient ==
    /\ stream = "checking"
    /\ stream' = IF present THEN "getting" ELSE "leaving"
    /\ UNCHANGED <<length, events, done, outcome, disconnected, lost, traced, producer, client,
                   present>>

\* next_event: an event, or nothing within a tenth of a second.  A frame is handed to the
\* transport, which may take it only when the client reads.
NextEvent ==
    /\ stream = "getting"
    /\ IF events # <<>>
         THEN /\ client' = IF present THEN Append(client, Head(events)) ELSE client
              /\ events' = Tail(events)
              /\ stream' = "writing"
         ELSE stream' = "testing" /\ UNCHANGED <<events, client>>
    /\ UNCHANGED <<length, done, outcome, disconnected, lost, traced, producer, present>>

\* The transport has taken the frame; without a client it takes everything.
Written ==
    /\ stream = "writing"
    /\ stream' = "checking"
    /\ UNCHANGED <<length, events, done, outcome, disconnected, lost, traced, producer, client,
                   present>>

\* Mutant: done does not look at what is queued.
TestDoneOnly ==
    /\ stream = "testing"
    /\ stream' = IF done THEN "ending" ELSE "checking"
    /\ UNCHANGED <<length, events, done, outcome, disconnected, lost, traced, producer, client,
                   present>>
\* channel.done: finished and empty.
TestDone ==
    /\ stream = "testing"
    /\ stream' = IF done /\ events = <<>> THEN "ending" ELSE "checking"
    /\ UNCHANGED <<length, events, done, outcome, disconnected, lost, traced, producer, client,
                   present>>

\* The terminal frame: 0 stands for it in what the client was sent.
Terminal ==
    /\ stream = "ending"
    /\ client' = IF present THEN Append(client, 0) ELSE client
    /\ stream' = "leaving"
    /\ UNCHANGED <<length, events, done, outcome, disconnected, lost, traced, producer, present>>

\* finally: the channel stops receiving; the producer is not cancelled.
Disconnect ==
    /\ stream = "leaving"
    /\ disconnected' = TRUE /\ stream' = "closed"
    /\ UNCHANGED <<length, events, done, outcome, lost, traced, producer, client, present>>

\* The client leaves; the generator may be cancelled at any await.
ClientLeaves ==
    /\ present /\ stream \notin {"new", "closed"}
    /\ present' = FALSE
    /\ stream' \in {stream, "leaving"}
    /\ UNCHANGED <<length, events, done, outcome, disconnected, lost, traced, producer, client>>

Generate == Start \/ CheckClient \/ NextEvent \/ TestDone \/ Terminal \/ Disconnect
ChannelNext == Trace \/ Produce \/ Generate \/ Written \/ ClientLeaves
ChannelSpec == ChannelInit /\ [][ChannelNext]_channelVars
-----------------------------------------------------------------------------
(* Properties. *)

\* A client that stays gets its terminal frame after every event that found room,
\* in order, and each gap in the sequence is one of the dropped events: neither a
\* full channel nor an event put between the empty get and the test of done costs
\* anything else.
ResultOvertakesNothing ==
    \A i \in 1..Len(client) :
        /\ client[i] = 0 =>
             /\ i = Len(client) /\ done
             /\ {client[k] : k \in 1..(i - 1)} = (1..traced) \ lost
        /\ i > 1 /\ client[i] # 0 => client[i] > client[i - 1]

\* The operation ends whatever the client does, even one that never reads again
\* ("progress loss never blocks a domain operation"), and the response ends after it
\* or after the client, if no frame is stuck in the transport for ever.
OperationEnds == stream # "new" ~> producer = "over"
ResponseEnds  == []<>(stream # "writing") => (stream # "new" ~> stream = "closed")
DirectStreamEnds == OperationEnds /\ ResponseEnds
=============================================================================

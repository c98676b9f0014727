------------------------------ MODULE TraceRun ------------------------------
(***************************************************************************)
(* The trace of one run (observability/recorder.py, instrumentation.py):   *)
(* an operation under ExecutionService.tracing calls tools and the model,  *)
(* and everything it does emits events into a timeline that is stored once *)
(* the run is over (observability/persistence.py).  Telemetry may fail at  *)
(* any point without the operation noticing; the operation may fail or be  *)
(* cancelled at any point.                                                 *)
(***************************************************************************)
EXTENDS Naturals, SequencesExt

CONSTANTS MaxOperations,  \* bound: tool and model calls of the run
          MaxTelemetryFaults \* bound: failures of the clock, recorder, listener and sink

ASSUME TraceAssumption == {MaxOperations, MaxTelemetryFaults} \subseteq Nat

VARIABLES stack,     \* the frames of the run: tracing, run, tool, verification, model
          raising,   \* the exception on its way up, or none
          began,     \* operations begun; ghost: what the operation really did ...
          models,    \* ... logical requests to the model
          tools,     \* ... requests to the registry
          mutations, \* ... files created or changed
          started,   \* start_run succeeded
          events,    \* TraceContext.events
          finished,  \* _finished
          final,     \* ghost: the domain status of the first finish, and the event it emitted
          stored,    \* the stored trace: its row and its event rows, or none
          faults

traceVars == <<stack, raising, began, models, tools, mutations, started, events, finished,
               final, stored, faults>>
ghosts == <<began, models, tools, mutations>>

None == "none"
NoFinal == [status |-> None, event |-> None]
NotStored == [status |-> None, events |-> <<>>, models |-> 0, tools |-> 0, mutations |-> 0, errors |-> 0]

Fault == faults < MaxTelemetryFaults /\ faults' = faults + 1

\* emit for a list of events: none without a run or after its end, and one may be lost to
\* a clock that fails; what the recorder or a listener refuses is in the timeline all the same.
Emit(list) ==
    IF ~started \/ finished THEN UNCHANGED <<events, faults>>
    ELSE \/ events' = events \o list /\ UNCHANGED faults
         \/ \E k \in 1..Len(list) : Fault /\ events' = events \o RemoveAt(list, k)

Tag(frame, what) == [category |-> frame, what |-> what]

\* TraceContext(): start_run, then run.started; a recorder that fails leaves no trace.
TraceInit ==
    /\ stack = <<"tracing">> /\ raising = None
    /\ began = 0 /\ models = 0 /\ tools = 0 /\ mutations = 0
    /\ started \in BOOLEAN
    /\ events = (IF started THEN <<Tag("run", "started")>> ELSE <<>>)
    /\ finished = FALSE /\ final = NoFinal /\ stored = NotStored
    /\ faults = IF started THEN 0 ELSE 1
    /\ faults <= MaxTelemetryFaults

Top == stack[Len(stack)]
Inside(frame) == stack # <<>> /\ Top = frame /\ raising = None
Push(frame) == stack' = Append(stack, frame)
Pop == stack' = SubSeq(stack, 1, Len(stack) - 1)
-----------------------------------------------------------------------------
(* finish *)

Terminal(status) == CASE status = "completed" -> Tag("run", "completed")
                      [] status = "cancelled" -> Tag("job", "cancelled")
                      [] OTHER -> Tag("run", "failed")
RunStatus(status) == CASE status = "completed" -> "completed" [] status = "cancelled" -> "cancelled"
                       [] OTHER -> "failed"

Count(list, tags) == Cardinality({i \in 1..Len(list) : list[i] \in tags})

\* The summary of finish, and the two inserts of persist_run_trace in one transaction.
Summary(list, status) ==
    [status |-> RunStatus(status), events |-> list,
     models |-> Count(list, {Tag("model", "started")}),
     tools |-> Count(list, {Tag("tool", "started")}),
     mutations |-> Count(list, {Tag("file", "mutated")}),
     errors |-> Count(list, {Tag("model", "failed"), Tag("tool", "failed")})]

\* Mutant: a later finish replaces the first.
FinishAgain(status) ==
    IF ~started THEN UNCHANGED <<events, finished, final, stored, faults>>
    ELSE /\ events' = Append(events, Terminal(status))
         /\ finished' = TRUE /\ final' = IF final = NoFinal
              THEN [status |-> status, event |-> Terminal(status)] ELSE final
         /\ stored' = Summary(events', status)
         /\ UNCHANGED faults
\* The first finish counts; the terminal event may be lost, and so may the stored trace.
Finish(status) ==
    IF ~started \/ finished THEN UNCHANGED <<events, finished, final, stored, faults>>
    ELSE /\ Emit(<<Terminal(status)>>)
         /\ finished' = TRUE
         /\ final' = [status |-> status, event |-> Terminal(status)]
         /\ stored' = Summary(events', status)
\* A sink or database that fails: the transaction leaves nothing.
FinishUnstored(status) ==
    /\ started /\ ~finished /\ Fault
    /\ events' = Append(events, Terminal(status))
    /\ finished' = TRUE
    /\ final' = [status |-> status, event |-> Terminal(status)]
    /\ UNCHANGED stored
-----------------------------------------------------------------------------
(* The operation. *)

\* traced_run with the trace of its caller: it owns no lifecycle.
EnterRun ==
    /\ Inside("tracing") /\ ~finished /\ began = 0
    /\ Push("run")
    /\ UNCHANGED <<raising, ghosts, started, events, finished, final, stored, faults>>
LeaveRun ==
    /\ Inside("run")
    /\ Pop
    /\ UNCHANGED <<raising, ghosts, started, events, finished, final, stored, faults>>

\* registry.execute begins a request; run_tests and run_ruff are verifications as well.
BeginTool(verification) ==
    /\ Inside("run") /\ began < MaxOperations
    /\ Push(IF verification THEN "verification" ELSE "tool")
    /\ Emit(IF verification THEN <<Tag("tool", "started"), Tag("verification", "started")>>
            ELSE <<Tag("tool", "started")>>)
    /\ began' = began + 1 /\ tools' = tools + 1
    /\ UNCHANGED <<raising, models, mutations, started, finished, final, stored>>

\* A result: tool.completed, and file.mutated for a tool that changed one.
ToolReturns(mutating) ==
    /\ Inside("tool") \/ Inside("verification")
    /\ Pop
    /\ mutating => Top = "tool"
    /\ Emit(<<Tag("tool", "completed")>> \o
            (IF Top = "verification" THEN <<Tag("verification", "completed")>> ELSE <<>>) \o
            (IF mutating THEN <<Tag("file", "mutated")>> ELSE <<>>))
    /\ mutations' = IF mutating THEN mutations + 1 ELSE mutations
    /\ UNCHANGED <<raising, began, models, tools, started, finished, final, stored>>

\* traced_model and generate_structured: one logical request, traced once, whatever is
\* retried inside.
CallModel ==
    /\ Inside("run") \/ Inside("tracing")
    /\ began < MaxOperations /\ ~finished
    /\ Push("model")
    /\ Emit(<<Tag("model", "started")>>)
    /\ began' = began + 1 /\ models' = models + 1
    /\ UNCHANGED <<raising, tools, mutations, started, finished, final, stored>>
ModelReturns ==
    /\ Inside("model")
    /\ Pop
    /\ Emit(<<Tag("model", "completed")>>)
    /\ UNCHANGED <<raising, ghosts, started, finished, final, stored>>

\* Something raises: a failure, or a checkpoint that finds the job cancelled.
Raise(exception) ==
    /\ stack # <<>> /\ raising = None
    /\ exception = "cancelled" => Top \in {"run", "tracing"} /\ ~finished
    /\ raising' = exception
    /\ UNCHANGED <<stack, ghosts, started, events, finished, final, stored, faults>>

\* The exception leaves a frame, or the agent observes the failure of a tool and goes on.
Unwind ==
    /\ raising # None /\ Len(stack) > 1
    /\ Pop
    /\ CASE Top = "run"          -> UNCHANGED <<events, faults>>
         [] Top = "verification" -> Emit(<<Tag("tool", "failed"), Tag("verification", "failed")>>)
         [] OTHER                -> Emit(<<Tag(Top, "failed")>>)
    /\ raising' \in {raising} \cup (IF Top \in {"tool", "verification"} THEN {None} ELSE {})
    /\ UNCHANGED <<ghosts, started, finished, final, stored>>

\* The services finish the run with its domain status before they build the response ...
ReportStatus(status) ==
    /\ Inside("tracing") /\ ~finished
    /\ Finish(status) \/ FinishUnstored(status)
    /\ UNCHANGED <<stack, raising, ghosts, started>>

\* ... and tracing finishes it in any case.
LeaveTracing ==
    /\ Len(stack) = 1
    /\ Pop /\ raising' = None
    /\ LET status == CASE raising = None -> "completed" [] raising = "cancelled" -> "cancelled"
                       [] OTHER -> "error"
       IN Finish(status) \/ FinishUnstored(status)
    /\ UNCHANGED <<ghosts, started>>

DomainStatuses == {"completed", "max_iterations_reached"}

TraceNext ==
    \/ EnterRun \/ LeaveRun \/ CallModel \/ ModelReturns \/ Unwind \/ LeaveTracing
    \/ \E status \in DomainStatuses : ReportStatus(status)
    \/ \E flag \in BOOLEAN : BeginTool(flag) \/ ToolReturns(flag)
    \/ \E exception \in {"error", "cancelled"} : Raise(exception)
TraceSpec == TraceInit /\ [][TraceNext]_traceVars
-----------------------------------------------------------------------------
(* Properties. *)

Opens(e)  == e.what = "started"
Closes(e, o) == e.category = o.category /\ e.what \in {"completed", "failed", "cancelled"}

\* A stored trace tells what the run did: its status is the one the operation reported
\* first, its last event says so, every operation in it was closed by its own end before
\* the run was, and the counts are those of the requests really made; of all that only what
\* a telemetry fault swallowed is missing.
StoredTraceIsTheRun ==
    stored # NotStored =>
        /\ finished /\ stored.status = RunStatus(final.status)
        /\ stored.events = events
        /\ stored.models <= models /\ stored.tools <= tools /\ stored.mutations <= mutations
        /\ faults = 0 =>
             /\ Last(events) = final.event
             /\ stored.models = models /\ stored.tools = tools /\ stored.mutations = mutations
             /\ \A i \in 2..Len(events) : Opens(events[i]) =>
                  \E k \in (i + 1)..Len(events) :
                      /\ Closes(events[k], events[i])
                      /\ \A m \in (i + 1)..(k - 1) : events[m].category # events[i].category
=============================================================================

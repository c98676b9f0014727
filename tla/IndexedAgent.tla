---------------------------- MODULE IndexedAgent ----------------------------
(***************************************************************************)
(* The read-only agent with indexed navigation: the shared loop            *)
(* (agent/loop.py), the grounding policy that refuses an answer until a    *)
(* hint of the index has been confirmed in the working tree                *)
(* (agent/indexed.py), and the evidence extracted from the finished run    *)
(* (agent/evidence.py).  The model may do anything; the tree may change    *)
(* between two calls, since a read-only run excludes nobody.               *)
(***************************************************************************)
EXTENDS WorkspaceTools

CONSTANTS Hits,            \* Hits[q]: the paths the index returns for query q
          Words,           \* what a search may look for
          Trees,           \* the working trees of the model
          MaxIterations,   \* AgentConfig.max_iterations
          MaxTreeChanges,  \* bound: changes of the tree during the run
          EvidenceLimit    \* DEFAULT_MAX_OBSERVED_LOCATIONS

\* A tree has a list of lines for each path, and a query a list of paths.
ASSUME AgentAssumption ==
    /\ {MaxIterations, EvidenceLimit} \subseteq Nat \ {0}
    /\ \A q \in DOMAIN Hits : Hits[q] \in Seq(Paths)
    /\ \A t \in Trees, p \in Paths : t[p].lines \in Seq(SUBSET [word : Words, declares : BOOLEAN])

VARIABLES tree,       \* the working tree
          changes,    \* how often it changed
          agent,      \* where the loop is: deciding, calling, or its final status
          iteration,
          call,       \* the tool call of this iteration
          executions, \* tool_call_counts
          steps,      \* the observations so far; feedback is a step without one
          pending     \* pending_paths of the grounding policy

agentVars == <<tree, changes, agent, iteration, call, executions, steps, pending>>

MAX_IDENTICAL_TOOL_EXECUTIONS == 2

NoCall == [tool |-> "none", arg |-> 0, from |-> 0, to |-> 0]
Calls == [tool : {"indexed_code_search"}, arg : DOMAIN Hits, from : {0}, to : {0}] \cup
         [tool : {"read_file"}, arg : Paths, from : {0, 2}, to : {0}] \cup
         [tool : {"search_code", "find_symbol"}, arg : Words, from : {0}, to : {0}]

Feedback == Failed("none", 0, "feedback")

AgentInit ==
    /\ tree \in Trees /\ changes = 0
    /\ agent = "deciding" /\ iteration = 1 /\ call = NoCall
    /\ executions = [c \in Calls |-> 0]
    /\ steps = <<>>
    /\ pending = {}

\* registry.execute
Execute(c) ==
    CASE c.tool = "indexed_code_search" -> IndexedCodeSearch(Hits[c.arg])
      [] c.tool = "read_file"   -> ReadFile(tree, c.arg, c.from, c.to)
      [] c.tool = "search_code" -> SearchCode(tree, c.arg, MaxSearchResults)
      [] c.tool = "find_symbol" -> FindSymbol(tree, c.arg, MaxSearchResults)
-----------------------------------------------------------------------------
(* _IndexedGroundingPolicy. *)

PathsOf(o) == {o.locations[i].path : i \in 1..Len(o.locations)}

\* Mutant: every failed read resolves the hint.
ObserveAnyFailure(o) ==
    CASE ~o.ok /\ o.tool = "read_file" -> pending \ {o.path}
      [] o.ok /\ o.tool = "indexed_code_search" /\ PathsOf(o) # {} -> PathsOf(o)
      [] o.ok /\ o.tool = "read_file" /\ o.path \in pending -> {}
      [] OTHER -> pending
\* The latest non-empty search is pending; reading one of its paths resolves all of
\* it, and a path that read_file found missing is no longer required.
Observe(o) ==
    CASE ~o.ok /\ o.tool = "read_file" /\ o.error = "missing" -> pending \ {o.path}
      [] o.ok /\ o.tool = "indexed_code_search" /\ PathsOf(o) # {} -> PathsOf(o)
      [] o.ok /\ o.tool = "read_file" /\ o.path \in pending -> {}
      [] OTHER -> pending
-----------------------------------------------------------------------------
(* _run_agent. *)

NextIteration ==
    /\ agent' = IF iteration = MaxIterations THEN "max_iterations_reached" ELSE "deciding"
    /\ iteration' = IF iteration = MaxIterations THEN iteration ELSE iteration + 1

\* The model answers: completed, unless the policy sends it back (handle_final).
FinalAnswer ==
    /\ agent = "deciding"
    /\ IF pending = {}
         THEN agent' = "completed" /\ UNCHANGED <<iteration, steps>>
         ELSE NextIteration /\ steps' = Append(steps, Feedback)
    /\ UNCHANGED <<tree, changes, call, executions, pending>>

\* The model calls a tool; a third identical call is observed as a failure instead.
CallTool(c) ==
    /\ agent = "deciding"
    /\ IF executions[c] >= MAX_IDENTICAL_TOOL_EXECUTIONS
         THEN /\ steps' = Append(steps, Failed(c.tool, c.arg, "repeated"))
              /\ NextIteration
              /\ UNCHANGED <<call, executions>>
         ELSE /\ executions' = [executions EXCEPT ![c] = @ + 1]
              /\ agent' = "calling" /\ call' = c
              /\ UNCHANGED <<iteration, steps>>
    /\ UNCHANGED <<tree, changes, pending>>

\* The tool runs, and the policy observes what it returned.
RunTool ==
    /\ agent = "calling"
    /\ LET o == Execute(call) IN steps' = Append(steps, o) /\ pending' = Observe(o)
    /\ call' = NoCall
    /\ NextIteration
    /\ UNCHANGED <<tree, changes, executions>>

\* A decision that cannot be generated, or a checkpoint that finds the job cancelled.
Stop(status) ==
    /\ agent \in {"deciding", "calling"}
    /\ status = "error" => agent = "deciding"
    /\ agent' = status
    /\ UNCHANGED <<tree, changes, iteration, call, executions, steps, pending>>

\* Somebody edits, creates or deletes a file meanwhile.
TreeChanges ==
    /\ agent \in {"deciding", "calling"} /\ changes < MaxTreeChanges
    /\ tree' \in Trees \ {tree} /\ changes' = changes + 1
    /\ UNCHANGED <<agent, iteration, call, executions, steps, pending>>

AgentNext ==
    \/ FinalAnswer \/ RunTool \/ TreeChanges
    \/ \E c \in Calls : CallTool(c)
    \/ \E status \in {"error", "cancelled"} : Stop(status)
AgentSpec == AgentInit /\ [][AgentNext]_agentVars
-----------------------------------------------------------------------------
(* extract_observed_source_evidence. *)

\* The citable locations of a step: the index is never evidence, and an empty file has
\* no line to cite.
Observed(o) ==
    IF o.ok /\ o.tool \in {"read_file", "search_code", "find_symbol"}
      THEN Within(o.locations, {l \in ToSet(o.locations) : l.from > 0})
      ELSE <<>>

\* One more location: the first observation of a location keeps its place, and one
\* that finds no room marks the evidence as truncated.
\* Mutant: the limit is looked at before the duplicate.
CollectLimitFirst(evidence, l) ==
    IF Len(evidence.locations) >= EvidenceLimit THEN [evidence EXCEPT !.truncated = TRUE]
    ELSE IF l \in ToSet(evidence.locations) THEN evidence
    ELSE [evidence EXCEPT !.locations = Append(@, l)]
Collect(evidence, l) ==
    IF l \in ToSet(evidence.locations) THEN evidence
    ELSE IF Len(evidence.locations) >= EvidenceLimit THEN [evidence EXCEPT !.truncated = TRUE]
    ELSE [evidence EXCEPT !.locations = Append(@, l)]

Evidence ==
    FoldLeft(Collect, [locations |-> <<>>, truncated |-> FALSE],
             FlattenSeq([i \in 1..Len(steps) |-> Observed(steps[i])]))
-----------------------------------------------------------------------------
(* Properties. *)

\* An answer rests on the tree and not on the index: after the last search that
\* returned hints, one of them was read, or each was looked up and found gone, however
\* searches, failed reads, repeated calls and changes of the tree are interleaved.
GroundedAnswer ==
    agent = "completed" =>
        \A s \in 1..Len(steps) :
            \/ steps[s].tool # "indexed_code_search" \/ PathsOf(steps[s]) = {}
            \/ \E t \in (s + 1)..Len(steps) :
                  \/ steps[t].tool = "indexed_code_search" /\ PathsOf(steps[t]) # {}
                  \/ /\ steps[t].tool = "read_file" /\ steps[t].ok
                     /\ steps[t].path \in PathsOf(steps[s])
            \/ \A p \in PathsOf(steps[s]) : \E t \in (s + 1)..Len(steps) :
                  steps[t].tool = "read_file" /\ steps[t].path = p /\ steps[t].error = "missing"

\* The evidence is the first EvidenceLimit distinct locations that files of the tree
\* showed, in the order in which they first appeared, and "truncated" is said exactly
\* when there are more; what only the index said is never among them.
EvidenceIsObserved ==
    agent = "completed" =>
        LET trail    == FlattenSeq([i \in 1..Len(steps) |-> Observed(steps[i])])
            distinct == ToSet(trail)
            First(l) == CHOOSE i \in 1..Len(trail) : /\ trail[i] = l
                                                     /\ \A k \in 1..(i - 1) : trail[k] # l
            Rank(l)  == Cardinality({m \in distinct : First(m) <= First(l)})
        IN /\ ToSet(Evidence.locations) = {l \in distinct : Rank(l) <= EvidenceLimit}
           /\ \A i \in 1..Len(Evidence.locations) : Rank(Evidence.locations[i]) = i
           /\ Evidence.truncated <=> Cardinality(distinct) > EvidenceLimit
=============================================================================

------------------------------ MODULE MCAgents ------------------------------
(***************************************************************************)
(* An indexed agent and what its calls rest on, side by side: a behaviour  *)
(* is one run of the agent, one program run by a tool, one call of the     *)
(* model provider, or one traced run.  They share nothing, so the part is  *)
(* chosen in the initial state and the others keep one initial value.      *)
(***************************************************************************)
EXTENDS IndexedAgent, SubprocessTools, ProviderCalls, TraceRun

VARIABLE part

mcVars == <<agentVars, subprocessVars, providerVars, traceVars, part>>

\* A word that the second line of a file declares; the index knows files that trees lack.
Uses(declared) == {[word |-> "w", declares |-> declared]}
MCWords == {"w"}
MCHits  == [q1 |-> <<1, 2>>, q2 |-> <<>>, q3 |-> <<3>>]
FullTree == <<Text(<<Uses(FALSE), Uses(TRUE)>>), Text(<<>>), Unreadable>>
MCTrees == { FullTree,
             <<Absent, Text(<<Uses(FALSE)>>), Text(<<{}, Uses(TRUE)>>)>>,
             <<Absent, Absent, Text(<<Uses(FALSE)>>)>> }

\* Texts that fill a batch, that overflow it, that fit nowhere, and an empty one.
MCInputs == {<<>>, <<1, 0>>, <<2, 2, 1>>, <<2, 1, 1>>, <<4, 1, 1>>, <<1, 1, 1>>}
MCDimensions == {"d1", "d2"}

MCInit ==
    /\ AgentInit /\ SubprocessInit /\ ProviderInit /\ TraceInit
    /\ part \in {"agent", "program", "provider", "trace"}
    /\ part # "agent" => tree = FullTree
    /\ part # "program" => kind = "git"
    /\ part # "provider" => operation = "text"
    /\ part # "trace" => started

Agent    == part = "agent" /\ AgentNext /\ UNCHANGED <<subprocessVars, providerVars, traceVars, part>>
Program  == part = "program" /\ SubprocessNext /\ UNCHANGED <<agentVars, providerVars, traceVars, part>>
Provider == part = "provider" /\ ProviderNext /\ UNCHANGED <<agentVars, subprocessVars, traceVars, part>>
Traced   == part = "trace" /\ TraceNext /\ UNCHANGED <<agentVars, subprocessVars, providerVars, part>>

InProgram(A) == part = "program" /\ A /\ UNCHANGED <<agentVars, providerVars, traceVars, part>>

\* The tool's thread and the clock go on; the program may hang for ever.
MCSpec == /\ MCInit /\ [][Agent \/ Program \/ Provider \/ Traced]_mcVars
          /\ WF_mcVars(InProgram(ToolStep)) /\ WF_mcVars(InProgram(TimerStep))

\* A program that hangs for ever does not hang the tool.
SubprocessEnds == part = "program" ~> tool \in {"done", "error"}
=============================================================================

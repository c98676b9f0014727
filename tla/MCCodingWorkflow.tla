------------------------- MODULE MCCodingWorkflow --------------------------
(* An instance of CodingWorkflow: a tracked path, a new one, and one that Git    *)
(* ignores by its name.  Git hides temporary files beside the first two.         *)
EXTENDS CodingWorkflow

CONSTANTS old, new, hidden

MCPaths   == {old, new, hidden}
MCTracked == {old}
MCIgnored == {hidden}
MCShown   == {hidden}
=============================================================================

-------------------------- MODULE SubprocessTools ---------------------------
(***************************************************************************)
(* The two ways a tool runs a program: the verifiers, which spool their    *)
(* output and wait in slices (tools/verification.py), and Git, whose       *)
(* output is read from a pipe under a timer thread (tools/git.py).  The    *)
(* child, the processes it leaves behind, the clock and the tool move      *)
(* independently of each other.                                            *)
(***************************************************************************)
EXTENDS Naturals

CONSTANTS MaxSpool,  \* _MAX_SPOOLED_OUTPUT_BYTES
          MaxChars,  \* max_chars of the Git command
          MaxOutput  \* bound: what the child writes before it blocks or ends

ASSUME SubprocessAssumption == {MaxSpool, MaxChars, MaxOutput} \subseteq Nat \ {0}

VARIABLES kind,     \* "verifier" or "git"
          tool,     \* where the tool is; "done" or "error" at the end
          child,    \* none, running, exited, killed
          code,     \* what the child exits with
          orphans,  \* where other processes that it started are alive: "group", "apart"
          output,   \* what the child has written
          late,     \* the deadline is over, or the timer has fired
          timer,    \* the thread of the Git timer: armed, set, over
          refused,  \* the system refused to kill the group (OSError)
          result

subprocessVars == <<kind, tool, child, code, orphans, output, late, timer, refused, result>>
childVars == <<child, code, orphans, output>>

NoResult == [exit |-> "none", timedOut |-> FALSE, overflow |-> FALSE, passed |-> FALSE,
             chars |-> 0, truncated |-> FALSE]

SubprocessInit ==
    /\ kind \in {"verifier", "git"}
    /\ tool = "starting" /\ child = "none" /\ code = "none" /\ orphans = {} /\ output = 0
    /\ late = FALSE /\ timer = "none" /\ refused = FALSE
    /\ result = NoResult

\* Popen
StartChild ==
    /\ tool = "starting"
    /\ \/ tool' = "error" /\ UNCHANGED <<child, timer>>
       \/ /\ child' = "running"
          /\ tool' = IF kind = "git" THEN "reading" ELSE "waiting"
          /\ timer' = IF kind = "git" THEN "armed" ELSE timer
    /\ UNCHANGED <<kind, code, orphans, output, late, refused, result>>
-----------------------------------------------------------------------------
(* The child. *)

\* It writes, or what it started does, until it blocks on a full pipe; when the tool has
\* returned, its spool is closed.
Write ==
    /\ child = "running" \/ orphans # {}
    /\ output < MaxOutput /\ tool \notin {"done", "error"}
    /\ output' = output + 1
    /\ UNCHANGED <<kind, tool, child, code, orphans, late, timer, refused, result>>

\* A test starts a process of its own, in the process group of the verifier or, within the
\* same session, in another one.
Spawn ==
    /\ child = "running" /\ kind = "verifier"
    /\ \E where \in {"group", "apart"} : orphans' = orphans \cup {where}
    /\ UNCHANGED <<kind, tool, child, code, output, late, timer, refused, result>>

\* It ends, or hangs for ever; what it started may go on, or end as well.
Exit ==
    /\ child = "running"
    /\ child' = "exited" /\ code' \in {"zero", "other"}
    /\ UNCHANGED <<kind, tool, orphans, output, late, timer, refused, result>>
OrphanEnds ==
    /\ \E where \in orphans : orphans' = orphans \ {where}
    /\ UNCHANGED <<kind, tool, child, code, output, late, timer, refused, result>>

\* The clock passes started + timeout_seconds.
DeadlinePasses ==
    /\ kind = "verifier" /\ tool \in {"waiting", "polled"} /\ ~late
    /\ late' = TRUE
    /\ UNCHANGED <<kind, tool, childVars, timer, refused, result>>
-----------------------------------------------------------------------------
(* _run_fixed_verifier. *)

Stopped == child \in {"exited", "killed"}

\* _wait_bounded: the deadline first, then the exit of the child, then the spool.
WaitBounded ==
    /\ kind = "verifier" /\ tool = "waiting"
    /\ \/ late /\ result' = [result EXCEPT !.timedOut = TRUE] /\ tool' = "terminating"
       \/ ~late /\ Stopped /\ result' = [result EXCEPT !.exit = code] /\ tool' = "terminating"
       \/ ~late /\ ~Stopped /\ tool' = "polled" /\ UNCHANGED result
    /\ UNCHANGED <<kind, childVars, late, timer, refused>>
PollSpool ==
    /\ tool = "polled"
    /\ IF output > MaxSpool
         THEN result' = [result EXCEPT !.overflow = TRUE] /\ tool' = "terminating"
         ELSE tool' = "waiting" /\ UNCHANGED result
    /\ UNCHANGED <<kind, childVars, late, timer, refused>>

Killed == IF child = "running" THEN "killed" ELSE child

\* Mutant: only the child itself is killed, and only if it still runs.
TerminateChildOnly ==
    /\ tool = "terminating"
    /\ child' = Killed
    /\ tool' = "collecting"
    /\ UNCHANGED <<kind, code, orphans, output, late, timer, refused, result>>
\* _terminate_process_tree kills the process group and not, as its docstring has it, the
\* session: what has a group of its own survives, and a system that refuses leaves all but
\* the child.
TerminateTree ==
    /\ tool = "terminating"
    /\ child' = Killed
    /\ refused' \in BOOLEAN
    /\ orphans' = IF refused' THEN orphans ELSE orphans \ {"group"}
    /\ tool' = "collecting"
    /\ UNCHANGED <<kind, code, output, late, timer, result>>

\* process.wait and the bounded output.
CollectOutput ==
    /\ tool = "collecting"
    /\ result' = [result EXCEPT !.passed = result.exit = "zero" /\ ~result.timedOut
                                            /\ ~result.overflow,
                                !.chars = IF output > MaxChars THEN MaxChars ELSE output,
                                !.truncated = output > MaxChars \/ result.overflow]
    /\ tool' = "done"
    /\ UNCHANGED <<kind, childVars, late, timer, refused>>
-----------------------------------------------------------------------------
(* _run_bounded_git. *)

\* expire, in its thread: first the flag, then the kill.
\* Mutant: a timer that only sets the flag.
ExpireFlagOnly ==
    /\ timer = "armed"
    /\ late' = TRUE /\ timer' = "over"
    /\ UNCHANGED <<kind, tool, childVars, refused, result>>
Expire ==
    /\ timer = "armed"
    /\ late' = TRUE /\ timer' = "set"
    /\ UNCHANGED <<kind, tool, childVars, refused, result>>
ExpireKill ==
    /\ timer = "set"
    /\ timer' = "over" /\ child' = Killed
    /\ UNCHANGED <<kind, tool, code, orphans, output, late, refused, result>>

\* Mutant: the bound is read exactly, so that nothing is left to tell a longer output.
ReadExactly ==
    /\ tool = "reading"
    /\ output >= MaxChars \/ Stopped
    /\ result' = [result EXCEPT !.chars = IF output > MaxChars THEN MaxChars ELSE output]
    /\ tool' = "reaping"
    /\ UNCHANGED <<kind, childVars, late, timer, refused>>
\* stdout.read(max_chars + 1) returns with that much, or at the end of the pipe; a
\* child that wrote too much is killed.
ReadPipe ==
    /\ tool = "reading"
    /\ output > MaxChars \/ Stopped
    /\ result' = [result EXCEPT !.truncated = output > MaxChars,
                                !.chars = IF output > MaxChars THEN MaxChars ELSE output]
    /\ child' = IF output > MaxChars THEN Killed ELSE child
    /\ tool' = "reaping"
    /\ UNCHANGED <<kind, code, orphans, output, late, timer, refused>>

\* process.wait, then the checks; the timer is cancelled on every way out.
Reap ==
    /\ tool = "reaping" /\ Stopped
    /\ tool' = IF late \/ (~result.truncated /\ (child = "killed" \/ code # "zero"))
                 THEN "error" ELSE "done"
    /\ timer' = IF timer = "armed" THEN "cancelled" ELSE timer
    /\ UNCHANGED <<kind, childVars, late, refused, result>>

ToolStep == \/ StartChild \/ WaitBounded \/ PollSpool \/ TerminateTree \/ CollectOutput
            \/ ReadPipe \/ Reap
TimerStep == Expire \/ ExpireKill \/ DeadlinePasses
SubprocessNext == ToolStep \/ TimerStep \/ Write \/ Spawn \/ Exit \/ OrphanEnds
SubprocessSpec == SubprocessInit /\ [][SubprocessNext]_subprocessVars
-----------------------------------------------------------------------------
(* Properties. *)

\* A verification passes only if the verifier itself ended with zero in time, output
\* that is not called truncated is all that was written until the tool returned, for Git
\* by a command that succeeded, and nothing of the verifier's group is left then unless the
\* system refused, whatever the child, the clock and the spool did at the same moment.
SubprocessHonest ==
    /\ tool = "done" =>
         /\ result.passed => child = "exited" /\ code = "zero"
         /\ ~result.truncated => result.chars = output
         /\ kind = "git" /\ ~result.truncated => child = "exited" /\ code = "zero"
    /\ tool \in {"done", "error"} => child # "running" /\ ("group" \in orphans => refused)
=============================================================================

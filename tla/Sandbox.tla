--------------------------------- MODULE Sandbox ---------------------------------
(***************************************************************************)
(* Running code: Sandbox.run_python of src/backend/app/sandbox/runner.py,  *)
(* called by its endpoint or through ToolGateway.call of                   *)
(* src/backend/app/tools/gateway.py, beside the owner's kill switch.  The  *)
(* parent polls the child, the deadline and the switch in turn, and reads  *)
(* the pipes of the child only when the loop is over.                      *)
(***************************************************************************)
CONSTANT Calls   \* the threads of the server that run code

VARIABLES
    killSwitch, \* controls["kill_switch"]
    loop,       \* where each thread is
    child,      \* the state of the process it has started
    overdue,    \* the deadline of that process has passed
    stray,      \* the process has started one in a session of its own
    reason,     \* kill_reason
    verdict,    \* how its run is reported
    auditRow    \* the call has a row in tool_audit that is not finished

runVars == <<child, overdue, stray, reason, verdict, auditRow>>
sandboxVars == <<killSwitch, loop, runVars>>

LoopLabels == {"poll", "deadline", "switch"}
SandboxLabels == {"idle", "enter", "insert", "spawn", "reap", "report"} \cup LoopLabels
ChildStates == {"none", "running", "blocked", "ended", "killed", "orphan"}

\* The call is over, and what it knew is gone.
Over(t) ==
    /\ child' = [child EXCEPT ![t] = "none"]
    /\ overdue' = [overdue EXCEPT ![t] = FALSE]
    /\ stray' = [stray EXCEPT ![t] = FALSE]
    /\ reason' = [reason EXCEPT ![t] = "none"]
    /\ verdict' = [verdict EXCEPT ![t] = "none"]
    /\ auditRow' = [auditRow EXCEPT ![t] = FALSE]

Alive(t) == child[t] \in {"running", "blocked"}

SandboxInit ==
    /\ killSwitch \in BOOLEAN
    /\ loop = [t \in Calls |-> "idle"]
    /\ child = [t \in Calls |-> "none"]
    /\ overdue = [t \in Calls |-> FALSE]
    /\ stray = [t \in Calls |-> FALSE]
    /\ reason = [t \in Calls |-> "none"]
    /\ verdict = [t \in Calls |-> "none"]
    /\ auditRow = [t \in Calls |-> FALSE]

Advance(t, from, to) == loop[t] = from /\ loop' = [loop EXCEPT ![t] = to]

-----------------------------------------------------------------------------
(* The owner, the child and the clock.                                     *)

KillSwitch ==
    /\ killSwitch' = ~killSwitch
    /\ UNCHANGED <<loop, runVars>>

\* The program ends, or writes more than a pipe holds and waits for a reader, or
\* starts a process that leaves the group (setsid) and keeps the pipes open.
ChildStep(t) ==
    /\ child[t] = "running"
    /\ \/ child' = [child EXCEPT ![t] = "ended"] /\ UNCHANGED stray
       \/ child' = [child EXCEPT ![t] = "blocked"] /\ UNCHANGED stray
       \/ stray' = [stray EXCEPT ![t] = TRUE] /\ UNCHANGED child
    /\ UNCHANGED <<killSwitch, loop, overdue, reason, verdict, auditRow>>

DeadlinePasses(t) ==
    /\ loop[t] \in LoopLabels
    /\ overdue' = [overdue EXCEPT ![t] = TRUE]
    /\ UNCHANGED <<killSwitch, loop, child, stray, reason, verdict, auditRow>>

-----------------------------------------------------------------------------
(* ToolGateway.call.                                                       *)

CallTool(t) ==
    /\ ~killSwitch
    /\ Advance(t, "idle", "enter")
    /\ UNCHANGED <<killSwitch, runVars>>

\* allowed() reads the switch again, and the control of the tool.
AllowTool(t) ==
    /\ \/ ~killSwitch /\ Advance(t, "enter", "insert")
       \/ Advance(t, "enter", "idle")
    /\ UNCHANGED <<killSwitch, runVars>>

InsertAudit(t) ==
    /\ Advance(t, "insert", "spawn")
    /\ auditRow' = [auditRow EXCEPT ![t] = TRUE]
    /\ UNCHANGED <<killSwitch, child, overdue, stray, reason, verdict>>

\* The endpoint of the sandbox has no row, and does not ask for the switch.
RunDirectly(t) ==
    /\ Advance(t, "idle", "spawn")
    /\ UNCHANGED <<killSwitch, runVars>>

\* run_python returns what happened to the child as a result, not as an error: the
\* row says ok.
ReportRun(t) ==
    /\ Advance(t, "report", "idle")
    /\ Over(t)
    /\ UNCHANGED killSwitch

\* The row cannot be inserted, or the work directory written, or the result logged:
\* the handler raises, the row says it failed, and the exception goes on.
RunRaises(t) ==
    /\ \E from \in {"insert", "spawn", "report"} : Advance(t, from, "idle")
    /\ Over(t)
    /\ UNCHANGED killSwitch

-----------------------------------------------------------------------------
(* Sandbox.run_python.                                                     *)

Spawn(t) ==
    /\ Advance(t, "spawn", "poll")
    /\ child' = [child EXCEPT ![t] = "running"]
    /\ UNCHANGED <<killSwitch, overdue, stray, reason, verdict, auditRow>>

\* Popen raises: there is no child to kill.
SpawnFails(t) ==
    /\ Advance(t, "spawn", "report")
    /\ child' = [child EXCEPT ![t] = "none"]
    /\ verdict' = [verdict EXCEPT ![t] = "error"]
    /\ UNCHANGED <<killSwitch, overdue, stray, reason, auditRow>>

Poll(t) ==
    /\ Advance(t, "poll", IF Alive(t) THEN "deadline" ELSE "reap")
    /\ UNCHANGED <<killSwitch, runVars>>

\* killpg: a child that has ended by itself in the meantime is not hurt.
KillGroup(t, why) ==
    /\ child' = [child EXCEPT ![t] = IF Alive(t) THEN "killed" ELSE @]
    /\ reason' = [reason EXCEPT ![t] = why]
    /\ UNCHANGED <<overdue, stray, verdict, auditRow>>

\* Variant of Deadline: the clock is that of the program's own computing.
DeadlineRunning(t) ==
    /\ \/ /\ overdue[t] /\ child[t] = "running"
          /\ Advance(t, "deadline", "reap") /\ KillGroup(t, "timeout")
       \/ /\ ~(overdue[t] /\ child[t] = "running")
          /\ Advance(t, "deadline", "switch") /\ UNCHANGED runVars
    /\ UNCHANGED killSwitch

Deadline(t) ==
    /\ \/ overdue[t] /\ Advance(t, "deadline", "reap") /\ KillGroup(t, "timeout")
       \/ ~overdue[t] /\ Advance(t, "deadline", "switch") /\ UNCHANGED runVars
    /\ UNCHANGED killSwitch

\* Variant of Switch: the switch is looked at before the first poll only.
SwitchOnce(t) ==
    /\ Advance(t, "switch", "poll")
    /\ UNCHANGED <<killSwitch, runVars>>

Switch(t) ==
    /\ \/ killSwitch /\ Advance(t, "switch", "reap") /\ KillGroup(t, "kill switch")
       \/ ~killSwitch /\ Advance(t, "switch", "poll") /\ UNCHANGED runVars
    /\ UNCHANGED killSwitch

\* Variant of Communicate: only a run that is late counts as killed.
CommunicateLate(t) ==
    /\ Advance(t, "reap", "report")
    /\ \/ /\ ~stray[t] /\ ~Alive(t)
          /\ verdict' = [verdict EXCEPT ![t] = IF overdue[t] THEN "timed_out" ELSE "own"]
          /\ UNCHANGED child
       \/ /\ stray[t] \/ Alive(t)
          /\ verdict' = [verdict EXCEPT ![t] = "error"]
          /\ child' = [child EXCEPT ![t] = IF Alive(t) THEN "killed" ELSE @]
    /\ UNCHANGED <<killSwitch, overdue, stray, reason, auditRow>>

\* communicate(timeout=2): the child is dead and the pipes reach their end, unless
\* a stray process keeps them open. It then raises, the child is killed once more,
\* and what kill_reason said is lost.
Communicate(t) ==
    /\ Advance(t, "reap", "report")
    /\ \/ /\ ~stray[t] /\ ~Alive(t)
          /\ verdict' = [verdict EXCEPT ![t] = IF reason[t] = "none" THEN "own" ELSE "timed_out"]
          /\ UNCHANGED child
       \/ /\ stray[t] \/ Alive(t)
          /\ verdict' = [verdict EXCEPT ![t] = "error"]
          /\ child' = [child EXCEPT ![t] = IF Alive(t) THEN "killed" ELSE @]
    /\ UNCHANGED <<killSwitch, overdue, stray, reason, auditRow>>

\* The server dies: nobody watches its children any more, nor completes the row.
SandboxCrash ==
    /\ loop' = [t \in Calls |-> "idle"]
    /\ child' = [t \in Calls |-> IF Alive(t) THEN "orphan" ELSE "none"]
    /\ overdue' = [t \in Calls |-> FALSE]
    /\ stray' = [t \in Calls |-> FALSE]
    /\ reason' = [t \in Calls |-> "none"]
    /\ verdict' = [t \in Calls |-> "none"]
    /\ auditRow' = [t \in Calls |-> FALSE]
    /\ UNCHANGED killSwitch

-----------------------------------------------------------------------------
SandboxStep(t) ==
    \/ AllowTool(t) \/ InsertAudit(t) \/ ReportRun(t) \/ RunRaises(t)
    \/ Spawn(t) \/ SpawnFails(t) \/ Poll(t) \/ Deadline(t) \/ Switch(t) \/ Communicate(t)

SandboxNext ==
    \/ KillSwitch \/ SandboxCrash
    \/ \E t \in Calls :
        ChildStep(t) \/ DeadlinePasses(t) \/ CallTool(t) \/ RunDirectly(t) \/ SandboxStep(t)

SandboxSpec == SandboxInit /\ [][SandboxNext]_sandboxVars

\* The thread of a call is scheduled again and again. Nothing is assumed of the
\* program, nor of its deadline, which may be far away.
SandboxFairness == \A t \in Calls : WF_sandboxVars(SandboxStep(t))

FairSandboxSpec == SandboxSpec /\ SandboxFairness

-----------------------------------------------------------------------------
SandboxTypeOK ==
    /\ killSwitch \in BOOLEAN
    /\ loop \in [Calls -> SandboxLabels]
    /\ child \in [Calls -> ChildStates]
    /\ overdue \in [Calls -> BOOLEAN]
    /\ stray \in [Calls -> BOOLEAN]
    /\ reason \in [Calls -> {"none", "timeout", "kill switch"}]
    /\ verdict \in [Calls -> {"none", "own", "timed_out", "error"}]
    /\ auditRow \in [Calls -> BOOLEAN]

\* While a server lives, a run that the owner's kill switch finds alive is killed, if
\* the switch stays on: whatever the program waits for, wherever the loop is, and
\* however far away its deadline.
KillEndsChildren ==
    \A t \in Calls : killSwitch /\ Alive(t) ~> ~killSwitch \/ ~Alive(t)

\* A run whose deadline has passed returns, also when the program waits for a
\* reader of its pipe while the parent waits for the program.
OverdueRunsReturn == \A t \in Calls : overdue[t] ~> loop[t] = "idle"

\* When run_python returns, its child is dead; it reports the outcome as the
\* program's own only if the program came to its end by itself, and as a kill
\* whenever the loop has killed it, a stray process aside.
ReturnMeansOver ==
    \A t \in Calls : loop[t] = "report" =>
        /\ ~Alive(t)
        /\ verdict[t] = "own" => child[t] = "ended"
        /\ reason[t] # "none" /\ ~stray[t] => verdict[t] = "timed_out"
=============================================================================

------------------------------ MODULE Controls ------------------------------
(***************************************************************************)
(* The owner's controls and the endpoints that write them: set_controls,   *)
(* kill_switch, emergency_stop and emergency_resume of                     *)
(* src/backend/app/api/routes.py, validate_control_changes of              *)
(* security/policy.py, set_control of database.py.                         *)
(*                                                                         *)
(* A control is one row; each write of one is a statement of its own. Of   *)
(* the controls only those are kept that decide whether training runs.     *)
(***************************************************************************)
EXTENDS FiniteSets, Functions

CONSTANTS
    Threads,    \* the threads that serve requests
    Bodies      \* what set_controls may be called with

Work == {"training_enabled", "autonomous_cycles"}

\* A key that set_control does not know but validate_control_changes lets pass.
Unknown == "unknown"

VARIABLES
    kill,       \* controls["kill_switch"]
    on,         \* the other controls
    pc,         \* the statement each thread runs next, "idle" outside a call
    todo,       \* what a set_controls call still has to write
    stopped,    \* history: an emergency stop has disabled training, and the kill
                \* switch has been on ever since
    overtaken   \* history: the kill switch went on while a set_controls call that
                \* enables something was between its validation and its writes

controlVars == <<kill, on, todo, stopped, overtaken>>

NoWrites == [k \in {} |-> FALSE]

\* The values of a request.
Requests == UNION {[S -> BOOLEAN] : S \in SUBSET (Work \cup {Unknown})}

ASSUME BodiesAssumption == Bodies \subseteq Requests

EnablesWork(f) == \E k \in DOMAIN f \cap Work : f[k]

Goto(t, label) == pc' = [pc EXCEPT ![t] = label]

-----------------------------------------------------------------------------
(* kill_switch, written by three endpoints                                 *)

KillOn ==
    /\ kill' = TRUE
    /\ overtaken' = (overtaken \/ \E u \in Threads : EnablesWork(todo[u]))
    /\ UNCHANGED stopped

KillOff ==
    /\ kill' = FALSE
    /\ overtaken' = FALSE
    /\ stopped' = FALSE

KillSwitch(t) ==
    /\ pc[t] = "idle"
    /\ KillOn \/ KillOff
    /\ UNCHANGED <<on, pc, todo>>

Resume(t) ==
    /\ pc[t] = "idle"
    /\ KillOff
    /\ UNCHANGED <<on, pc, todo>>

-----------------------------------------------------------------------------
(* set_controls                                                            *)

\* Variant of SetControls: the request is not validated.
SetControlsUnchecked(t) ==
    /\ pc[t] = "idle"
    /\ \E f \in Bodies \ {NoWrites} : todo' = [todo EXCEPT ![t] = f]
    /\ Goto(t, "set")
    /\ UNCHANGED <<kill, on, stopped, overtaken>>

\* validate_control_changes reads the controls once. A refused request returns.
SetControls(t) ==
    /\ pc[t] = "idle"
    /\ \E f \in Bodies \ {NoWrites} :
        /\ ~ (kill /\ EnablesWork(f))
        /\ todo' = [todo EXCEPT ![t] = f]
    /\ Goto(t, "set")
    /\ UNCHANGED <<kill, on, stopped, overtaken>>

\* One set_control of the loop over the request, which has any order.
WriteControl(t) ==
    /\ pc[t] = "set"
    /\ \E k \in DOMAIN todo[t] \cap Work :
        /\ on' = [on EXCEPT ![k] = todo[t][k]]
        /\ todo' = [todo EXCEPT ![t] = Restrict(@, DOMAIN @ \ {k})]
        /\ Goto(t, IF DOMAIN todo[t] = {k} THEN "idle" ELSE "set")
    /\ UNCHANGED <<kill, stopped, overtaken>>

\* set_control raises KeyError: the endpoint answers 400, what was written stays.
WriteUnknown(t) ==
    /\ pc[t] = "set"
    /\ Unknown \in DOMAIN todo[t]
    /\ todo' = [todo EXCEPT ![t] = NoWrites]
    /\ Goto(t, "idle")
    /\ UNCHANGED <<kill, on, stopped, overtaken>>

-----------------------------------------------------------------------------
(* emergency_stop, as far as it writes controls                            *)

EmergencyStop(t) ==
    /\ pc[t] = "idle"
    /\ KillOn
    /\ Goto(t, "stop_training")
    /\ UNCHANGED <<on, todo>>

StopTraining(t) ==
    /\ pc[t] = "stop_training"
    /\ on' = [on EXCEPT !["training_enabled"] = FALSE]
    /\ stopped' = kill
    /\ Goto(t, "stop_auto")
    /\ UNCHANGED <<kill, todo, overtaken>>

StopAuto(t) ==
    /\ pc[t] = "stop_auto"
    /\ on' = [on EXCEPT !["autonomous_cycles"] = FALSE]
    /\ Goto(t, "halt")
    /\ UNCHANGED <<kill, todo, stopped, overtaken>>

-----------------------------------------------------------------------------
ControlsBegin(t) == KillSwitch(t) \/ Resume(t) \/ SetControls(t) \/ EmergencyStop(t)

ControlsStep(t) == WriteControl(t) \/ WriteUnknown(t) \/ StopTraining(t) \/ StopAuto(t)

\* Both are enabled by default (DEFAULT_CONTROLS).
ControlsInit ==
    /\ kill = FALSE
    /\ on = [k \in Work |-> TRUE]
    /\ pc = [t \in Threads |-> "idle"]
    /\ todo = [t \in Threads |-> NoWrites]
    /\ stopped = FALSE
    /\ overtaken = FALSE
=============================================================================

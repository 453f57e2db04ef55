------------------------------- MODULE Runtime -------------------------------
(***************************************************************************)
(* What the controls are for: the training cycles, run by the orchestrator's *)
(* background loop or by a request (src/backend/app/orchestrator/core.py   *)
(* and the training endpoints of api/routes.py) or begun by a chat that    *)
(* finds no model, against the emergency stop.                             *)
(*                                                                         *)
(* The loop is a thread of its own that start_background creates; the      *)
(* orchestrator remembers the last one it created and one stop flag.       *)
(***************************************************************************)
EXTENDS Controls, Naturals

CONSTANT MaxLoops   \* bound: how many loops are ever started

ASSUME MaxLoopsAssumption == MaxLoops \in Nat

Loops == 1 .. MaxLoops
NoLoop == 0

VARIABLES
    stop,       \* Orchestrator._stop is set
    thread,     \* Orchestrator._thread
    loop,       \* what each loop does next; "new" before Thread.start
    raced,      \* history: a start found no live loop while another start was
                \* on its way
    current     \* the registry shows a current model

loopVars == <<stop, thread, loop, raced, current>>
vars == <<controlVars, pc, loopVars>>

Starting == {"clear", "assign", "start"}
Labels == {"idle", "set", "stop_training", "stop_auto", "halt", "gate", "train",
           "seed", "check"} \cup Starting

Alive(l) == loop[l] \in {"test", "read", "gate", "train", "sleep"}
LoopStates == {"none", "new", "test", "read", "gate", "train", "sleep", "ended"}

LoopGoto(l, label) == loop' = [loop EXCEPT ![l] = label]

-----------------------------------------------------------------------------
(* run_forever, the body of a loop                                         *)

\* Variant of LoopTest: the flag only counts while training is enabled.
LoopTestLate(l) ==
    /\ loop[l] = "test"
    /\ LoopGoto(l, IF stop /\ on["training_enabled"] THEN "ended" ELSE "read")
    /\ UNCHANGED <<stop, thread, raced, current>>

LoopTest(l) ==
    /\ loop[l] = "test"
    /\ LoopGoto(l, IF stop THEN "ended" ELSE "read")
    /\ UNCHANGED <<stop, thread, raced, current>>

LoopRead(l) ==
    /\ loop[l] = "read"
    /\ LoopGoto(l, IF \A k \in Work : on[k] THEN "gate" ELSE "sleep")
    /\ UNCHANGED <<stop, thread, raced, current>>

\* run_cycle reads the controls again.
LoopGate(l) ==
    /\ loop[l] = "gate"
    /\ LoopGoto(l, IF on["training_enabled"] THEN "train" ELSE "sleep")
    /\ UNCHANGED <<stop, thread, raced, current>>

\* Variant of LoopTrained: a cycle is repeated until its candidate is adopted.
LoopRetry(l) ==
    /\ loop[l] = "train"
    /\ LoopGoto(l, "train")
    /\ UNCHANGED <<stop, thread, raced, current>>

\* run_cycle returns, or raises: nothing catches that in the loop's thread.
LoopTrained(l) ==
    /\ loop[l] = "train"
    /\ \/ LoopGoto(l, "sleep")
       \/ LoopGoto(l, "ended")
    /\ UNCHANGED <<stop, thread, raced, current>>

LoopSlept(l) ==
    /\ loop[l] = "sleep"
    /\ LoopGoto(l, "test")
    /\ UNCHANGED <<stop, thread, raced, current>>

LoopStep(l) == LoopTest(l) \/ LoopRead(l) \/ LoopGate(l) \/ LoopTrained(l) \/ LoopSlept(l)

-----------------------------------------------------------------------------
(* A cycle run by a request                                                *)

RunCycle(t) ==
    /\ pc[t] = "idle"
    /\ Goto(t, "gate")
    /\ UNCHANGED loopVars

Gate(t) ==
    /\ pc[t] = "gate"
    /\ Goto(t, IF on["training_enabled"] THEN "train" ELSE "idle")
    /\ UNCHANGED loopVars

Trained(t) ==
    /\ pc[t] = "train"
    /\ Goto(t, "idle")
    /\ UNCHANGED loopVars

-----------------------------------------------------------------------------
(* The cycle a chat begins when the registry shows no current model: it    *)
(* trains and adopts the seed, and asks no control.                        *)

\* The registry has no current model before the first seed, and between the
\* commits of a swap (ModelRegistry).
Registry ==
    /\ current' = ~current
    /\ UNCHANGED <<stop, thread, loop, raced>>

\* The controls chat reads serve its memory only: whatever happens between its
\* look at the registry and the cycle's row, the cycle begins.
Chat(t) ==
    /\ pc[t] = "idle"
    /\ ~current
    /\ Goto(t, "seed")
    /\ UNCHANGED loopVars

\* The seed is adopted, or something raised.
SeedTrained(t) ==
    /\ pc[t] = "seed"
    /\ Goto(t, "idle")
    /\ current' \in {current, TRUE}
    /\ UNCHANGED <<stop, thread, loop, raced>>

-----------------------------------------------------------------------------
(* start_training, with start_background                                   *)

\* Bound: a start only begins while there is a loop left for it.
RoomForLoop ==
    Cardinality({t \in Threads : pc[t] \in {"check", "clear", "assign"}})
        < Cardinality({l \in Loops : loop[l] = "none"})

StartTraining(t) ==
    /\ pc[t] = "idle" /\ RoomForLoop
    /\ on["training_enabled"]
    /\ Goto(t, "check")
    /\ UNCHANGED loopVars

\* Variant of CheckAlive: it is the stop flag that tells whether a loop runs.
CheckStop(t) ==
    /\ pc[t] = "check"
    /\ IF thread # NoLoop /\ ~stop
       THEN Goto(t, "idle") /\ UNCHANGED raced
       ELSE /\ Goto(t, "clear")
            /\ raced' = (raced \/ \E u \in Threads : pc[u] \in Starting)
    /\ UNCHANGED <<stop, thread, loop, current>>

CheckAlive(t) ==
    /\ pc[t] = "check"
    /\ IF thread # NoLoop /\ Alive(thread)
       THEN Goto(t, "idle") /\ UNCHANGED raced
       ELSE /\ Goto(t, "clear")
            /\ raced' = (raced \/ \E u \in Threads : pc[u] \in Starting)
    /\ UNCHANGED <<stop, thread, loop, current>>

ClearStop(t) ==
    /\ pc[t] = "clear"
    /\ stop' = FALSE
    /\ Goto(t, "assign")
    /\ UNCHANGED <<thread, loop, raced, current>>

AssignThread(t) ==
    /\ pc[t] = "assign"
    /\ \E l \in Loops :
        /\ loop[l] = "none"
        /\ \A k \in Loops : loop[k] = "none" => l <= k
        /\ thread' = l
        /\ LoopGoto(l, "new")
    /\ Goto(t, "start")
    /\ UNCHANGED <<stop, raced, current>>

\* self._thread.start(): whatever thread is there by now. It raises when that one
\* was started before.
StartThread(t) ==
    /\ pc[t] = "start"
    /\ IF loop[thread] = "new" THEN LoopGoto(thread, "test") ELSE UNCHANGED loop
    /\ Goto(t, "idle")
    /\ UNCHANGED <<stop, thread, raced, current>>

-----------------------------------------------------------------------------
(* stop_background and emergency_halt: set the flag, and wait for the loop *)
(* for a second at most, which changes nothing.                            *)

StopBackground(t) ==
    /\ pc[t] = "idle"
    /\ stop' = TRUE
    /\ UNCHANGED <<pc, thread, loop, raced, current>>

EmergencyHalt(t) ==
    /\ pc[t] = "halt"
    /\ stop' = TRUE
    /\ Goto(t, "idle")
    /\ UNCHANGED <<thread, loop, raced, current>>

-----------------------------------------------------------------------------
\* The process dies and starts again: the controls stay, no loop is started.
Crash ==
    /\ pc' = [t \in Threads |-> "idle"]
    /\ todo' = [t \in Threads |-> NoWrites]
    /\ stop' = FALSE
    /\ thread' = NoLoop
    /\ loop' = [l \in Loops |-> IF loop[l] = "none" THEN "none" ELSE "ended"]
    /\ raced' = FALSE
    /\ UNCHANGED <<kill, on, stopped, overtaken, current>>

Init ==
    /\ ControlsInit
    /\ stop = FALSE
    /\ thread = NoLoop
    /\ loop = [l \in Loops |-> "none"]
    /\ raced = FALSE
    /\ current \in BOOLEAN

TrainingBegin(t) == RunCycle(t) \/ Chat(t) \/ StartTraining(t) \/ StopBackground(t)

TrainingStep(t) ==
    \/ Gate(t) \/ Trained(t)
    \/ SeedTrained(t)
    \/ CheckAlive(t) \/ ClearStop(t) \/ AssignThread(t) \/ StartThread(t)
    \/ EmergencyHalt(t)

\* What a thread does by itself once its call has begun.
Continue(t) ==
    \/ ControlsStep(t) /\ UNCHANGED loopVars
    \/ TrainingStep(t) /\ UNCHANGED controlVars

Begin(t) ==
    \/ ControlsBegin(t) /\ UNCHANGED loopVars
    \/ TrainingBegin(t) /\ UNCHANGED controlVars

Loop(l) == LoopStep(l) /\ UNCHANGED <<controlVars, pc>>

Next ==
    \/ \E t \in Threads : Begin(t) \/ Continue(t)
    \/ \E l \in Loops : Loop(l)
    \/ Registry /\ UNCHANGED <<controlVars, pc>>
    \/ Crash

\* Threads are scheduled, cycles and sleeps end; no call ever has to come.
Fairness ==
    /\ \A t \in Threads : WF_vars(Continue(t))
    /\ \A l \in Loops : WF_vars(Loop(l))

Spec == Init /\ [][Next]_vars
FairSpec == Spec /\ Fairness

-----------------------------------------------------------------------------
(* Properties.                                                             *)

TypeOK ==
    /\ kill \in BOOLEAN
    /\ on \in [Work -> BOOLEAN]
    /\ pc \in [Threads -> Labels]
    /\ todo \in [Threads -> Requests]
    /\ stopped \in BOOLEAN
    /\ overtaken \in BOOLEAN
    /\ stop \in BOOLEAN
    /\ thread \in Loops \cup {NoLoop}
    /\ loop \in [Loops -> LoopStates]
    /\ raced \in BOOLEAN
    /\ current \in BOOLEAN

\* Cycles begin in run_cycle, or as the seed of a chat.
RunCycleBegins ==
    \/ \E t \in Threads : Gate(t) /\ pc'[t] = "train"
    \/ \E l \in Loops : LoopGate(l) /\ loop'[l] = "train"

CycleBegins == RunCycleBegins \/ \E t \in Threads : Chat(t)

\* Once an emergency stop has disabled training, and as long as the kill switch
\* stays on, no cycle begins, neither in the loop nor by a request, whoever read
\* the controls before; unless the stop overtook a request to enable training.
\* The one cycle that still can is the seed of a chat that found no current
\* model (Orchestrator.chat asks no control).
OnlySeedsAfterStop ==
    [][CycleBegins => ~stopped \/ overtaken \/ \E t \in Threads : Chat(t)]_vars

\* There are never two loops, however start, stop and halt interleave, except
\* after two starts that ran at the same time (start_background takes no lock).
OneLoop == ~raced => \A l, k \in Loops : Alive(l) /\ Alive(k) => l = k

\* Cycles of run_cycle.
Training ==
    \/ \E t \in Threads : pc[t] = "train"
    \/ \E l \in Loops : loop[l] = "train"

\* The cycles of run_cycle that were running when training was disabled end, and
\* then there are none (a chat's seeds aside): the stop, which waits for nothing,
\* is effective in the end.
WorkDrains == stopped ~> (~stopped \/ overtaken \/ ~Training)

\* A stop that no start takes back ends every loop, also one that stop_background
\* and emergency_halt did not wait for, or that _thread no longer names.
LoopsEnd == stop ~> (~stop \/ \A l \in Loops : ~Alive(l))

\* SECURITY.md:9 "Kill switch blocks new work".
KillBlocksWork == [][RunCycleBegins => ~kill]_vars
=============================================================================

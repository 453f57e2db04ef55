--------------------------- MODULE Runtime_proofs ---------------------------
(***************************************************************************)
(* What the emergency stop and the orchestrator's thread guarantee for any *)
(* number of request threads and loops and any request bodies:             *)
(*   TypeCorrect           the type invariant                              *)
(*   StopHolds             no gated cycle begins after a stop              *)
(*   OneLoopOnly           two loops only come from two starts at once     *)
(***************************************************************************)
EXTENDS Runtime, TLAPS

-----------------------------------------------------------------------------
(* Types.                                                                  *)

LEMMA NoWritesType == NoWrites \in Requests /\ ~EnablesWork(NoWrites)
<1>1. NoWrites \in [{} -> BOOLEAN] /\ DOMAIN NoWrites = {}
  BY DEF NoWrites
<1> QED BY <1>1 DEF Requests, EnablesWork

LEMMA RequestDomain ==
    ASSUME NEW f \in Requests
    PROVE  /\ DOMAIN f \subseteq Work \cup {Unknown}
           /\ \A k \in DOMAIN f : f[k] \in BOOLEAN
BY DEF Requests

\* A call that has written one control still has a request to write.
LEMMA RestrictType ==
    ASSUME NEW f \in Requests, NEW S \in SUBSET (DOMAIN f)
    PROVE  /\ Restrict(f, S) \in Requests
           /\ DOMAIN Restrict(f, S) = S
           /\ \A k \in S : Restrict(f, S)[k] = f[k]
<1>1. PICK D \in SUBSET (Work \cup {Unknown}) : f \in [D -> BOOLEAN]
  BY DEF Requests
<1>2. Restrict(f, S) \in [S -> BOOLEAN]
  BY <1>1 DEF Restrict
<1>3. S \in SUBSET (Work \cup {Unknown})
  BY <1>1
<1> QED BY <1>2, <1>3 DEF Requests, Restrict

ControlTypes ==
    /\ kill \in BOOLEAN
    /\ on \in [Work -> BOOLEAN]
    /\ todo \in [Threads -> Requests]
    /\ stopped \in BOOLEAN
    /\ overtaken \in BOOLEAN

LoopTypes ==
    /\ stop \in BOOLEAN
    /\ thread \in Loops \cup {NoLoop}
    /\ loop \in [Loops -> LoopStates]
    /\ raced \in BOOLEAN
    /\ current \in BOOLEAN

PcType == pc \in [Threads -> Labels]

LEMMA TypeParts == TypeOK <=> ControlTypes /\ LoopTypes /\ PcType
BY DEF TypeOK, ControlTypes, LoopTypes, PcType

LEMMA GotoType ==
    ASSUME PcType, NEW t \in Threads, NEW label \in Labels, Goto(t, label)
    PROVE  PcType'
BY DEF PcType, Goto

LEMMA LabelsUsed ==
    /\ {"idle", "set", "stop_training", "stop_auto", "halt", "gate", "train", "seed",
        "check", "clear", "assign", "start"} \subseteq Labels
    /\ {"new", "test", "read", "gate", "train", "sleep", "ended"} \subseteq LoopStates
BY DEF Labels, Starting, LoopStates

LEMMA ControlsTyped ==
    ASSUME TypeOK, NEW t \in Threads, ControlsBegin(t) \/ ControlsStep(t)
    PROVE  ControlTypes' /\ PcType'
<1>1. ControlTypes /\ PcType
  BY TypeParts
<1>2. /\ "training_enabled" \in Work /\ "autonomous_cycles" \in Work
  BY DEF Work
<1>3. CASE KillSwitch(t) \/ Resume(t)
  BY <1>1, <1>3 DEF KillSwitch, Resume, KillOn, KillOff, ControlTypes, PcType
<1>4. CASE SetControls(t)
  BY <1>1, <1>4, GotoType, LabelsUsed, BodiesAssumption DEF SetControls, ControlTypes
<1>5. CASE EmergencyStop(t)
  BY <1>1, <1>5, GotoType, LabelsUsed DEF EmergencyStop, KillOn, ControlTypes
<1>6. CASE WriteControl(t)
  <2>1. PICK k \in DOMAIN todo[t] \cap Work :
          /\ on' = [on EXCEPT ![k] = todo[t][k]]
          /\ todo' = [todo EXCEPT ![t] = Restrict(todo[t], DOMAIN todo[t] \ {k})]
          /\ \E label \in {"idle", "set"} : Goto(t, label)
    BY <1>1, <1>6 DEF WriteControl, ControlTypes
  <2>2. Restrict(todo[t], DOMAIN todo[t] \ {k}) \in Requests /\ todo[t][k] \in BOOLEAN
    BY <1>1, RestrictType, RequestDomain DEF ControlTypes
  <2>3. PcType'
    BY <1>1, <2>1, GotoType, LabelsUsed
  <2> QED BY <1>1, <1>6, <2>1, <2>2, <2>3 DEF WriteControl, ControlTypes
<1>7. CASE WriteUnknown(t)
  BY <1>1, <1>7, GotoType, LabelsUsed, NoWritesType DEF WriteUnknown, ControlTypes
<1>8. CASE StopTraining(t)
  BY <1>1, <1>2, <1>8, GotoType, LabelsUsed DEF StopTraining, ControlTypes
<1>9. CASE StopAuto(t)
  BY <1>1, <1>2, <1>9, GotoType, LabelsUsed DEF StopAuto, ControlTypes
<1> QED BY <1>3, <1>4, <1>5, <1>6, <1>7, <1>8, <1>9
        DEF ControlsBegin, ControlsStep

LEMMA TrainingTyped ==
    ASSUME TypeOK, NEW t \in Threads, TrainingBegin(t) \/ TrainingStep(t)
    PROVE  LoopTypes' /\ PcType'
<1>1. LoopTypes /\ PcType
  BY TypeParts
<1>2. CASE RunCycle(t) \/ Gate(t) \/ Trained(t) \/ Chat(t) \/ StartTraining(t)
  <2>1. \E label \in {"gate", "train", "seed", "idle", "check"} : Goto(t, label)
    BY <1>2 DEF RunCycle, Gate, Trained, Chat, StartTraining
  <2> QED BY <1>1, <1>2, <2>1, GotoType, LabelsUsed
          DEF RunCycle, Gate, Trained, Chat, StartTraining, loopVars, LoopTypes
<1>3. CASE CheckAlive(t)
  <2>1. (Goto(t, "idle") /\ raced' = raced) \/ (Goto(t, "clear") /\ raced' \in BOOLEAN)
    BY <1>1, <1>3 DEF CheckAlive, LoopTypes
  <2> QED BY <1>1, <1>3, <2>1, GotoType, LabelsUsed DEF CheckAlive, LoopTypes
<1>4. CASE ClearStop(t)
  BY <1>1, <1>4, GotoType, LabelsUsed DEF ClearStop, LoopTypes
<1>5. CASE AssignThread(t)
  BY <1>1, <1>5, GotoType, LabelsUsed DEF AssignThread, LoopGoto, LoopTypes
<1>6. CASE StartThread(t)
  <2>1. loop' = loop \/ loop' = [loop EXCEPT ![thread] = "test"]
    BY <1>6 DEF StartThread, LoopGoto
  <2> QED BY <1>1, <1>6, <2>1, GotoType, LabelsUsed DEF StartThread, LoopTypes
<1>7. CASE StopBackground(t)
  BY <1>1, <1>7 DEF StopBackground, LoopTypes, PcType
<1>8. CASE EmergencyHalt(t)
  BY <1>1, <1>8, GotoType, LabelsUsed DEF EmergencyHalt, LoopTypes
<1>9. CASE SeedTrained(t)
  BY <1>1, <1>9, GotoType, LabelsUsed DEF SeedTrained, LoopTypes
<1> QED BY <1>2, <1>3, <1>4, <1>5, <1>6, <1>7, <1>8, <1>9 DEF TrainingBegin, TrainingStep

LEMMA LoopTyped ==
    ASSUME LoopTypes, NEW l \in Loops, LoopStep(l)
    PROVE  LoopTypes'
<1>1. \E label \in LoopStates : LoopGoto(l, label)
  BY LabelsUsed DEF LoopStep, LoopTest, LoopRead, LoopGate, LoopTrained, LoopSlept
<1>2. UNCHANGED <<stop, thread, raced, current>>
  BY DEF LoopStep, LoopTest, LoopRead, LoopGate, LoopTrained, LoopSlept
<1> QED BY <1>1, <1>2 DEF LoopGoto, LoopTypes

LEMMA InitTyped == Init => TypeOK
BY NoWritesType, LabelsUsed DEF Init, ControlsInit, TypeOK, LoopStates

LEMMA NextTyped == TypeOK /\ [Next]_vars => TypeOK'
<1> SUFFICES ASSUME TypeOK, [Next]_vars PROVE TypeOK'
  OBVIOUS
<1>1. ControlTypes /\ LoopTypes /\ PcType
  BY TypeParts
<1>2. ASSUME NEW t \in Threads, Begin(t) \/ Continue(t) PROVE TypeOK'
  <2>1. CASE (ControlsBegin(t) \/ ControlsStep(t)) /\ UNCHANGED loopVars
    BY <1>1, <2>1, ControlsTyped, TypeParts DEF loopVars, LoopTypes, TypeOK, ControlTypes, PcType
  <2>2. CASE (TrainingBegin(t) \/ TrainingStep(t)) /\ UNCHANGED controlVars
    BY <1>1, <2>2, TrainingTyped DEF controlVars, LoopTypes, TypeOK, ControlTypes, PcType
  <2> QED BY <1>2, <2>1, <2>2 DEF Begin, Continue
<1>3. ASSUME NEW l \in Loops, Loop(l) PROVE TypeOK'
  BY <1>1, <1>3, LoopTyped DEF Loop, controlVars, LoopTypes, TypeOK, ControlTypes, PcType
<1>4. CASE Crash
  BY <1>1, <1>4, NoWritesType, LabelsUsed DEF Crash, LoopTypes, TypeOK, ControlTypes, PcType, LoopStates
<1>5. CASE Registry /\ UNCHANGED <<controlVars, pc>>
  BY <1>5 DEF Registry, controlVars, TypeOK
<1>6. CASE UNCHANGED vars
  BY <1>6 DEF vars, controlVars, loopVars, TypeOK
<1> QED BY <1>2, <1>3, <1>4, <1>5, <1>6 DEF Next

\* Type correctness: every variable keeps its type, the calls' labels included.
THEOREM TypeCorrect == Spec => []TypeOK
<1> QED BY InitTyped, NextTyped, PTL DEF Spec

-----------------------------------------------------------------------------
(* The emergency stop.                                                     *)

\* A validated request that enables something and meets the kill switch is one
\* that was overtaken by it. Without such a request, training stays disabled.
StopInv ==
    /\ stopped => kill
    /\ kill /\ ~overtaken => \A u \in Threads : ~EnablesWork(todo[u])
    /\ stopped /\ ~overtaken => ~on["training_enabled"]

\* A call that has written a control enables nothing it did not enable before.
LEMMA FewerWrites ==
    ASSUME NEW f \in Requests, NEW S \in SUBSET (DOMAIN f), ~EnablesWork(f)
    PROVE  ~EnablesWork(Restrict(f, S))
BY RestrictType DEF EnablesWork

LEMMA KillKeepsStop ==
    ASSUME TypeOK, StopInv, KillOn \/ KillOff, UNCHANGED <<on, todo>>
    PROVE  StopInv'
<1>1. CASE KillOff
  BY <1>1 DEF StopInv, KillOff
<1>2. CASE KillOn
  <2>1. kill' = TRUE /\ stopped' = stopped
    BY <1>2 DEF KillOn
  <2>2. ASSUME ~overtaken'
        PROVE  ~overtaken /\ \A u \in Threads : ~EnablesWork(todo[u])
    BY <1>2, <2>2 DEF KillOn
  <2>3. stopped /\ ~overtaken => ~on["training_enabled"]
    BY DEF StopInv
  <2>4. \A u \in Threads : todo'[u] = todo[u]
    OBVIOUS
  <2>5. ~overtaken' => \A u \in Threads : ~EnablesWork(todo'[u])
    BY <2>2, <2>4
  <2> QED BY <2>1, <2>2, <2>3, <2>5 DEF StopInv
<1> QED BY <1>1, <1>2

LEMMA ControlsKeepStop ==
    ASSUME TypeOK, StopInv, NEW t \in Threads, ControlsBegin(t) \/ ControlsStep(t)
    PROVE  StopInv'
<1>1. ControlTypes
  BY TypeParts
<1>2. CASE KillSwitch(t) \/ Resume(t) \/ EmergencyStop(t)
  BY <1>2, KillKeepsStop DEF KillSwitch, Resume, EmergencyStop
<1>3. CASE SetControls(t)
  <2>1. PICK f \in Bodies : ~ (kill /\ EnablesWork(f)) /\ todo' = [todo EXCEPT ![t] = f]
    BY <1>3 DEF SetControls
  <2>2. \A u \in Threads : todo'[u] = IF u = t THEN f ELSE todo[u]
    BY <1>1, <2>1 DEF ControlTypes
  <2> QED BY <1>3, <2>1, <2>2 DEF SetControls, StopInv
<1>4. CASE WriteControl(t)
  <2>1. PICK k \in DOMAIN todo[t] \cap Work :
          /\ on' = [on EXCEPT ![k] = todo[t][k]]
          /\ todo' = [todo EXCEPT ![t] = Restrict(todo[t], DOMAIN todo[t] \ {k})]
    BY <1>1, <1>4 DEF WriteControl, ControlTypes
  <2>2. UNCHANGED <<kill, stopped, overtaken>>
    BY <1>4 DEF WriteControl
  <2>3. ASSUME kill, ~overtaken
        PROVE  \A u \in Threads : ~EnablesWork(todo'[u])
    <3>1. ~EnablesWork(Restrict(todo[t], DOMAIN todo[t] \ {k}))
      BY <1>1, <2>3, FewerWrites DEF ControlTypes, StopInv
    <3>2. \A u \in Threads : u # t => todo'[u] = todo[u]
      BY <1>1, <2>1 DEF ControlTypes
    <3>3. todo'[t] = Restrict(todo[t], DOMAIN todo[t] \ {k})
      BY <1>1, <2>1 DEF ControlTypes
    <3> QED BY <2>3, <3>1, <3>2, <3>3 DEF StopInv
  <2>4. ASSUME stopped, ~overtaken PROVE ~on'["training_enabled"]
    <3>1. ~todo[t][k]
      BY <2>4 DEF StopInv, EnablesWork
    <3> QED BY <1>1, <2>1, <2>4, <3>1 DEF StopInv, ControlTypes
  <2> QED BY <2>2, <2>3, <2>4 DEF StopInv
<1>5. CASE WriteUnknown(t)
  <2>1. \A u \in Threads : todo'[u] = IF u = t THEN NoWrites ELSE todo[u]
    BY <1>1, <1>5 DEF WriteUnknown, ControlTypes
  <2> QED BY <1>5, <2>1, NoWritesType DEF WriteUnknown, StopInv
<1>6. CASE StopTraining(t)
  <2>1. on'["training_enabled"] = FALSE
    BY <1>1, <1>6 DEF StopTraining, ControlTypes, Work
  <2> QED BY <1>6, <2>1 DEF StopTraining, StopInv
<1>7. CASE StopAuto(t)
  <2>1. on'["training_enabled"] = on["training_enabled"]
    BY <1>1, <1>7 DEF StopAuto, ControlTypes, Work
  <2> QED BY <1>7, <2>1 DEF StopAuto, StopInv
<1> QED BY <1>2, <1>3, <1>4, <1>5, <1>6, <1>7 DEF ControlsBegin, ControlsStep

LEMMA NextKeepsStop == TypeOK /\ StopInv /\ [Next]_vars => StopInv'
<1> SUFFICES ASSUME TypeOK, StopInv, [Next]_vars PROVE StopInv'
  OBVIOUS
<1>1. CASE \E t \in Threads : ControlsBegin(t) \/ ControlsStep(t)
  BY <1>1, ControlsKeepStop
<1>2. CASE UNCHANGED controlVars
  BY <1>2 DEF controlVars, StopInv
<1>3. CASE Crash
  <2>1. \A u \in Threads : todo'[u] = NoWrites
    BY <1>3 DEF Crash
  <2> QED BY <1>3, <2>1, NoWritesType DEF Crash, StopInv
<1> QED BY <1>1, <1>2, <1>3 DEF Next, Begin, Continue, Loop, vars

LEMMA GatesObey ==
    StopInv /\ CycleBegins => ~stopped \/ overtaken \/ \E t \in Threads : Chat(t)
<1> SUFFICES ASSUME StopInv, RunCycleBegins PROVE on["training_enabled"]
  BY DEF StopInv, CycleBegins
<1>1. ASSUME NEW t \in Threads, Gate(t), pc'[t] = "train", ~on["training_enabled"]
      PROVE  FALSE
  <2>1. pc' = [pc EXCEPT ![t] = "idle"] /\ pc[t] = "gate"
    BY <1>1 DEF Gate, Goto
  <2> QED BY <1>1, <2>1
<1>2. ASSUME NEW l \in Loops, LoopGate(l), loop'[l] = "train", ~on["training_enabled"]
      PROVE  FALSE
  <2>1. loop' = [loop EXCEPT ![l] = "sleep"] /\ loop[l] = "gate"
    BY <1>2 DEF LoopGate, LoopGoto
  <2> QED BY <1>2, <2>1
<1> QED BY <1>1, <1>2 DEF RunCycleBegins

\* No training cycle begins once an emergency stop has disabled training, until
\* the kill switch is cleared, unless the stop overtook a request to enable it;
\* only the seed of a chat that finds no model is begun all the same.
THEOREM StopHolds == Spec => OnlySeedsAfterStop
<1>1. Init => StopInv
  BY DEF Init, ControlsInit, StopInv
<1>2. StopInv => [CycleBegins => ~stopped \/ overtaken \/ \E t \in Threads : Chat(t)]_vars
  BY GatesObey
<1> QED BY <1>1, <1>2, InitTyped, NextTyped, NextKeepsStop, PTL DEF Spec, OnlySeedsAfterStop

-----------------------------------------------------------------------------
(* The orchestrator's thread.                                              *)

\* As long as no two starts ran at once: only one start is on its way, while it
\* is no loop lives, and a loop that lives is the one the orchestrator remembers.
LoopInv ==
    ~raced =>
        /\ \A t, u \in Threads : pc[t] \in Starting /\ pc[u] \in Starting => t = u
        /\ \A t \in Threads : pc[t] \in Starting => \A l \in Loops : ~Alive(l)
        /\ \A l \in Loops : Alive(l) => l = thread

\* A step that brings no thread into a start and no loop to life.
LEMMA QuietKeepsLoop ==
    ASSUME LoopInv, raced' = raced, thread' = thread,
           \A t \in Threads : pc'[t] \in Starting => pc[t] \in Starting,
           \A l \in Loops : Alive(l)' => Alive(l)
    PROVE  LoopInv'
BY DEF LoopInv

LEMMA ControlsStayOut ==
    ASSUME TypeOK, NEW t \in Threads, ControlsBegin(t) \/ ControlsStep(t)
    PROVE  \A u \in Threads : pc'[u] \in Starting => pc[u] \in Starting
<1>1. \/ \E label \in {"idle", "set", "stop_training", "stop_auto", "halt"} : Goto(t, label)
      \/ pc' = pc
  BY DEF ControlsBegin, ControlsStep, KillSwitch, Resume, SetControls, EmergencyStop,
         WriteControl, WriteUnknown, StopTraining, StopAuto
<1> QED BY <1>1 DEF TypeOK, Goto, Starting

LEMMA LoopsOnlyEnd ==
    ASSUME TypeOK, NEW l \in Loops, LoopStep(l)
    PROVE  \A k \in Loops : Alive(k)' => Alive(k)
<1>1. Alive(l)
  BY DEF LoopStep, LoopTest, LoopRead, LoopGate, LoopTrained, LoopSlept, Alive
<1>2. \E label \in LoopStates : LoopGoto(l, label)
  BY LabelsUsed DEF LoopStep, LoopTest, LoopRead, LoopGate, LoopTrained, LoopSlept
<1>3. \A k \in Loops : k # l => loop'[k] = loop[k]
  BY <1>2 DEF TypeOK, LoopGoto
<1> QED BY <1>1, <1>3 DEF Alive

LEMMA TrainingKeepsLoop ==
    ASSUME TypeOK, LoopInv, NEW t \in Threads, TrainingBegin(t) \/ TrainingStep(t)
    PROVE  LoopInv'
<1>1. /\ pc \in [Threads -> Labels] /\ loop \in [Loops -> LoopStates]
      /\ raced \in BOOLEAN
  BY DEF TypeOK
<1>2. CASE RunCycle(t) \/ Gate(t) \/ Trained(t) \/ Chat(t) \/ SeedTrained(t)
           \/ StartTraining(t) \/ StopBackground(t) \/ EmergencyHalt(t)
  <2>1. UNCHANGED <<thread, loop, raced>>
    BY <1>2 DEF RunCycle, Gate, Trained, Chat, SeedTrained, StartTraining, StopBackground,
               EmergencyHalt, loopVars
  <2>2. (\E label \in {"gate", "train", "seed", "idle", "check"} : Goto(t, label)) \/ pc' = pc
    BY <1>2 DEF RunCycle, Gate, Trained, Chat, SeedTrained, StartTraining, StopBackground,
               EmergencyHalt
  <2>3. \A u \in Threads : pc'[u] \in Starting => pc[u] \in Starting
    BY <1>1, <2>2 DEF Goto, Starting
  <2> QED BY <2>1, <2>3, QuietKeepsLoop DEF Alive
<1>3. CASE CheckAlive(t)
  <2>1. UNCHANGED <<stop, thread, loop>>
    BY <1>3 DEF CheckAlive
  <2>2. CASE thread # NoLoop /\ Alive(thread)
    <3>1. Goto(t, "idle") /\ raced' = raced
      BY <1>3, <2>2 DEF CheckAlive
    <3>2. \A u \in Threads : pc'[u] \in Starting => pc[u] \in Starting
      BY <1>1, <3>1 DEF Goto, Starting
    <3> QED BY <2>1, <3>1, <3>2, QuietKeepsLoop DEF Alive
  <2>3. CASE ~(thread # NoLoop /\ Alive(thread))
    <3> SUFFICES ASSUME ~raced' PROVE LoopInv'
      BY DEF LoopInv
    <3>1. Goto(t, "clear") /\ ~raced /\ \A u \in Threads : pc[u] \notin Starting
      BY <1>1, <1>3, <2>3 DEF CheckAlive
    <3>2. \A u \in Threads : pc'[u] \in Starting => u = t
      BY <1>1, <3>1 DEF Goto
    <3>3. \A l \in Loops : ~Alive(l)
      <4>1. \A l \in Loops : Alive(l) => l = thread
        BY <3>1 DEF LoopInv
      <4>2. \A l \in Loops : l # NoLoop
        BY DEF Loops, NoLoop
      <4> QED BY <2>3, <4>1, <4>2
    <3>4. \A l \in Loops : ~Alive(l)'
      BY <2>1, <3>3 DEF Alive
    <3> QED BY <3>2, <3>4 DEF LoopInv
  <2> QED BY <2>2, <2>3
<1>4. CASE ClearStop(t)
  <2>1. \A u \in Threads : pc'[u] \in Starting => pc[u] \in Starting
    BY <1>1, <1>4 DEF ClearStop, Goto, Starting
  <2> QED BY <1>4, <2>1, QuietKeepsLoop DEF ClearStop, Alive
<1>5. CASE AssignThread(t)
  <2>1. \A u \in Threads : pc'[u] \in Starting => pc[u] \in Starting
    BY <1>1, <1>5 DEF AssignThread, Goto, Starting
  <2>2. pc[t] \in Starting /\ raced' = raced
    BY <1>5 DEF AssignThread, Starting
  <2>3. PICK l \in Loops : loop' = [loop EXCEPT ![l] = "new"]
    BY <1>5 DEF AssignThread, LoopGoto
  <2>4. \A k \in Loops : Alive(k)' => Alive(k)
    BY <1>1, <2>3 DEF Alive
  <2> QED BY <2>1, <2>2, <2>4 DEF LoopInv
<1>6. CASE StartThread(t)
  <2>1. pc[t] \in Starting /\ raced' = raced /\ thread' = thread
    BY <1>6 DEF StartThread, Starting
  <2>2. \A u \in Threads : pc'[u] \in Starting => pc[u] \in Starting /\ u # t
    BY <1>1, <1>6 DEF StartThread, Goto, Starting
  <2>3. loop' = loop \/ loop' = [loop EXCEPT ![thread] = "test"]
    BY <1>6 DEF StartThread, LoopGoto
  <2>4. \A k \in Loops : k # thread => loop'[k] = loop[k]
    BY <1>1, <2>3
  <2>5. \A k \in Loops : Alive(k)' => Alive(k) \/ k = thread
    BY <2>4 DEF Alive
  <2> QED BY <2>1, <2>2, <2>5 DEF LoopInv
<1> QED BY <1>2, <1>3, <1>4, <1>5, <1>6 DEF TrainingBegin, TrainingStep

LEMMA NextKeepsLoop == TypeOK /\ LoopInv /\ [Next]_vars => LoopInv'
<1> SUFFICES ASSUME TypeOK, LoopInv, [Next]_vars PROVE LoopInv'
  OBVIOUS
<1>1. ASSUME NEW t \in Threads, ControlsBegin(t) \/ ControlsStep(t), UNCHANGED loopVars
      PROVE  LoopInv'
  BY <1>1, ControlsStayOut, QuietKeepsLoop DEF loopVars, Alive
<1>2. ASSUME NEW t \in Threads, TrainingBegin(t) \/ TrainingStep(t) PROVE LoopInv'
  BY <1>2, TrainingKeepsLoop
<1>3. ASSUME NEW l \in Loops, Loop(l) PROVE LoopInv'
  <2>1. UNCHANGED <<pc, thread, raced>>
    BY <1>3 DEF Loop, LoopStep, LoopTest, LoopRead, LoopGate, LoopTrained, LoopSlept
  <2> QED BY <1>3, <2>1, LoopsOnlyEnd, QuietKeepsLoop DEF Loop
<1>4. CASE Crash
  <2>1. (\A t \in Threads : pc'[t] \notin Starting) /\ (\A l \in Loops : ~Alive(l)')
    BY <1>4 DEF Crash, Starting, Alive
  <2> QED BY <2>1 DEF LoopInv
<1>5. CASE Registry /\ UNCHANGED <<controlVars, pc>>
  BY <1>5, QuietKeepsLoop DEF Registry, Alive
<1>6. CASE UNCHANGED vars
  BY <1>6, QuietKeepsLoop DEF vars, loopVars, Alive
<1> QED BY <1>1, <1>2, <1>3, <1>4, <1>5, <1>6 DEF Next, Begin, Continue

\* Two loops only ever live after two starts that ran at the same time, whatever
\* stops, halts, exceptions and crashes come between.
THEOREM OneLoopOnly == Spec => []OneLoop
<1>1. Init => LoopInv
  BY DEF Init, ControlsInit, LoopInv, Starting, Alive
<1>2. LoopInv => OneLoop
  BY DEF LoopInv, OneLoop
<1> QED BY <1>1, <1>2, InitTyped, NextTyped, NextKeepsLoop, PTL DEF Spec
=============================================================================

--------------------------- MODULE Sessions_proofs ---------------------------
(***************************************************************************)
(* What the sessions guarantee for any number of threads, devices and      *)
(* logins and any limits:                                                  *)
(*   TypeCorrect           the type invariant                              *)
(*   RevocationIsFinal     a revoked session stays revoked                 *)
(*   NobodyComesLate       requests of ended sessions are refused          *)
(*   EveryEndHasAReason    a session only ends for one of four reasons     *)
(*   TheCapHolds           the limit per device, once its logins are done  *)
(***************************************************************************)
EXTENDS Sessions, FiniteSetTheorems, WellFoundedInduction, TLAPS

(***************************************************************************)
(* Which session a thread is at, and what is known of its row.             *)
(***************************************************************************)
Placed ==
    /\ \A i \in Ids : i > stamped => row[i] = "none"
    /\ \A t \in Threads :
        /\ mine[t] <= stamped
        /\ pc[t] = "insert" => row[mine[t]] = "none"
        /\ pc[t] \in {"trim", "revoke"} => row[mine[t]] # "none"
        /\ doomed[t] # {} => pc[t] = "revoke"
        /\ \A i \in doomed[t] : row[i] # "none" /\ device[i] = device[mine[t]]
        /\ \A u \in Threads : t # u /\ mine[t] = mine[u] => mine[t] = NoSession

Base == TypeOK /\ Placed

\* Rows are only ever ended.
Ending ==
    /\ row' \in [Ids -> {"none", "live", "revoked"}]
    /\ \A i \in Ids : row'[i] = row[i] \/ (row[i] = "live" /\ row'[i] = "revoked")

LEMMA RowType == Base => row \in [Ids -> {"none", "live", "revoked"}]
BY DEF Base, TypeOK

LEMMA CleanupEnds == Base /\ Cleanup => Ending
BY RowType DEF Cleanup, Ending

LEMMA RevokeEnds ==
    ASSUME Base, NEW i \in Ids, row[i] # "none", row' = [row EXCEPT ![i] = "revoked"]
    PROVE  Ending
<1>1. row[i] = "live" \/ row[i] = "revoked"
  BY RowType
<1> QED BY <1>1, RowType DEF Ending

\* Every step but an INSERT leaves the rows alone or ends some.
LEMMA RowSteps ==
    ASSUME Base, [Next]_vars, \A t \in Threads : ~ Insert(t)
    PROVE  Ending
<1>1. CASE row' = row
  BY <1>1, RowType DEF Ending
<1>2. CASE Cleanup
  BY <1>2, CleanupEnds
<1>3. ASSUME NEW i \in Ids, Revoke(i) PROVE Ending
  BY <1>3, RevokeEnds DEF Revoke, Base, TypeOK
<1>4. ASSUME NEW d \in Devices, RevokeDevice(d) PROVE Ending
  BY <1>4, RowType DEF RevokeDevice, Live, Ending
<1>5. ASSUME NEW t \in Threads, TrimRevoke(t) PROVE Ending
  <2>1. PICK i \in doomed[t] : row' = [row EXCEPT ![i] = "revoked"]
    BY <1>5 DEF TrimRevoke
  <2> QED BY <2>1, RevokeEnds DEF Base, Placed, TypeOK
<1>6. CASE VerifyRevoke
  BY <1>6, RevokeEnds DEF VerifyRevoke, Base, TypeOK
<1>7. CASE VerifyRead \/ VerifyDecide \/ VerifyTouch \/ Tick \/ Crash \/ UNCHANGED vars
  BY <1>1, <1>7 DEF VerifyRead, VerifyDecide, VerifyTouch, Tick, Crash, vars, rowVars
<1>8. CASE \E t \in Threads : Stamp(t) \/ Trim(t)
  BY <1>1, <1>8 DEF Stamp, Trim, rowVars
<1> QED BY <1>2, <1>3, <1>4, <1>5, <1>6, <1>7, <1>8
        DEF Next, Get, VerifyStep, VerifyBegin, CreateStep, Create

\* Steps that end rows and move neither logins nor verify.
LEMMA EndingKeepsBase ==
    ASSUME Base, Ending, UNCHANGED <<device, created, seen, clock, callVars, v, cut>>
    PROVE  Base'
BY DEF Base, Ending, callVars, TypeOK, Placed

LEMMA VerifyKeepsBase ==
    ASSUME Base, Ending, UNCHANGED <<device, created, clock, callVars, cut>>,
           seen' \in [Ids -> Nat], v' \in Verifies, v'.step # "idle" => v'.id \in issued
    PROVE  Base'
BY DEF Base, Ending, callVars, TypeOK, Placed

LEMMA NoVerifyType == NoVerify \in Verifies /\ NoVerify.step = "idle"
BY DEF NoVerify, Verifies

LEMMA VerifyBase == Base /\ VerifyStep => Base'
<1> SUFFICES ASSUME Base, VerifyStep PROVE Base'
  OBVIOUS
<1>1. v \in Verifies /\ seen \in [Ids -> Nat] /\ issued \subseteq Ids /\ clock \in Nat
  BY DEF Base, TypeOK
<1>2. Ending
  <2>1. CASE VerifyBegin
    BY <2>1, CleanupEnds DEF VerifyBegin
  <2>2. CASE VerifyRevoke
    BY <2>2, RevokeEnds DEF VerifyRevoke, Base, TypeOK
  <2>3. CASE row' = row
    BY <2>3, RowType DEF Ending
  <2> QED BY <2>1, <2>2, <2>3 DEF VerifyStep, VerifyRead, VerifyDecide, VerifyTouch, rowVars
<1>3. CASE VerifyBegin
  <2>1. PICK i \in issued :
          v' = [NoVerify EXCEPT !.step = "read", !.id = i,
                                !.late = row[i] = "revoked" \/ Overdue(i)]
    BY <1>3 DEF VerifyBegin
  <2>2. v' \in Verifies /\ v'.id = i
    BY <1>1, <2>1 DEF NoVerify, Verifies
  <2> QED BY <1>1, <1>2, <1>3, <2>2, VerifyKeepsBase DEF VerifyBegin, Cleanup
<1>4. CASE VerifyRead
  <2>1. v' = NoVerify \/ v' = [v EXCEPT !.step = "decide", !.seen = seen[v.id]]
    BY <1>4 DEF VerifyRead
  <2>2. v.id \in issued /\ seen[v.id] \in Nat
    BY <1>1, <1>4 DEF VerifyRead, Base, TypeOK
  <2>3. v' \in Verifies /\ (v'.step # "idle" => v'.id \in issued)
    BY <1>1, <2>1, <2>2, NoVerifyType DEF Verifies
  <2> QED BY <1>1, <1>2, <1>4, <2>3, VerifyKeepsBase DEF VerifyRead, rowVars
<1>5. CASE VerifyDecide
  <2>1. \E s \in {"revoke", "touch"} : v' = [v EXCEPT !.step = s, !.now = clock]
    BY <1>5 DEF VerifyDecide
  <2>2. v.id \in issued
    BY <1>5 DEF VerifyDecide, Base, TypeOK
  <2>3. v' \in Verifies /\ v'.id \in issued
    BY <1>1, <2>1, <2>2 DEF Verifies
  <2> QED BY <1>1, <1>2, <1>5, <2>3, VerifyKeepsBase DEF VerifyDecide, rowVars
<1>6. CASE VerifyTouch
  <2>1. seen' \in [Ids -> Nat]
    BY <1>1, <1>6 DEF VerifyTouch, Verifies
  <2> QED BY <1>2, <1>6, <2>1, NoVerifyType, VerifyKeepsBase DEF VerifyTouch
<1>7. CASE VerifyRevoke
  BY <1>1, <1>2, <1>7, NoVerifyType, VerifyKeepsBase DEF VerifyRevoke
<1> QED BY <1>3, <1>4, <1>5, <1>6, <1>7 DEF VerifyStep

\* create is at another session than every other thread, and its own is there
\* from the INSERT on.
LEMMA StampBase == \A t \in Threads : Base /\ Stamp(t) => Base'
<1> SUFFICES ASSUME NEW t \in Threads, Base, Stamp(t) PROVE Base'
  OBVIOUS
<1>1. PICK n \in Ids : n = stamped + 1
  BY LimitsAssumption DEF Base, TypeOK, Stamp, Ids
<1>2. /\ row[n] = "none" /\ n \notin issued
      /\ row' = row /\ stamped' = n /\ n \in 0 .. MaxSessions /\ n # NoSession
      /\ UNCHANGED <<clock, issued, doomed, v, cut>>
  BY <1>1 DEF Base, TypeOK, Placed, Stamp, Ids, NoSession
<1>3. /\ device' \in [Ids -> Devices \cup {NoDevice}]
      /\ created' \in [Ids -> Nat] /\ seen' \in [Ids -> Nat]
      /\ \A i \in Ids : i # n => device'[i] = device[i]
  BY <1>1 DEF Base, TypeOK, Stamp
<1>4. /\ pc' \in [Threads -> {"idle", "stamp", "insert", "trim", "revoke"}]
      /\ mine' \in [Threads -> Ids \cup {NoSession}]
      /\ pc[t] = "stamp" /\ pc'[t] = "insert" /\ mine'[t] = n
      /\ \A u \in Threads \ {t} : pc'[u] = pc[u] /\ mine'[u] = mine[u]
  BY <1>1 DEF Base, TypeOK, Stamp, Goto
<1>5. TypeOK'
  BY <1>2, <1>3, <1>4 DEF Base, TypeOK
<1>6. \A u \in Threads : mine[u] <= stamped /\ mine[u] # n
  BY <1>1 DEF Base, TypeOK, Placed, Ids, NoSession
<1>7. doomed[t] = {}
  BY <1>4 DEF Base, Placed
<1>8. \A u \in Threads \ {t} : \A i \in doomed[u] :
          row[i] # "none" /\ device'[i] = device'[mine[u]]
  <2> SUFFICES ASSUME NEW u \in Threads \ {t}, NEW i \in doomed[u]
               PROVE  row[i] # "none" /\ device'[i] = device'[mine[u]]
    OBVIOUS
  <2>1. row[i] # "none" /\ device[i] = device[mine[u]] /\ pc[u] = "revoke"
    BY DEF Base, Placed
  <2>2. i \in Ids /\ mine[u] \in Ids /\ i # n /\ mine[u] # n
    BY <1>2, <1>6, <2>1 DEF Base, TypeOK
  <2> QED BY <1>3, <2>1, <2>2
<1>9. /\ \A i \in Ids : i > stamped' => row'[i] = "none"
      /\ \A u \in Threads : mine'[u] <= stamped'
  BY <1>1, <1>2, <1>4, <1>6 DEF Base, TypeOK, Placed, Ids, NoSession
<1>10. \A u \in Threads :
        /\ pc'[u] = "insert" => row'[mine'[u]] = "none"
        /\ pc'[u] \in {"trim", "revoke"} => row'[mine'[u]] # "none"
        /\ doomed'[u] # {} => pc'[u] = "revoke"
  BY <1>2, <1>4, <1>7 DEF Base, Placed
<1>11. \A u \in Threads : \A i \in doomed'[u] : row'[i] # "none" /\ device'[i] = device'[mine'[u]]
  BY <1>2, <1>4, <1>7, <1>8
<1>12. \A u, w \in Threads : u # w /\ mine'[u] = mine'[w] => mine'[u] = NoSession
  BY <1>4, <1>6 DEF Base, Placed
<1> QED BY <1>5, <1>9, <1>10, <1>11, <1>12 DEF Base, Placed

\* t's session stays the same and t does not go back to its INSERT, or t is done.
LEMMA ThreadKeepsBase ==
    ASSUME Base, Ending, NEW t \in Threads, pc[t] \in {"trim", "revoke"},
           UNCHANGED <<device, created, seen, clock, stamped, v>>,
           doomed' \in [Threads -> SUBSET Ids],
           \A u \in Threads \ {t} : doomed'[u] = doomed[u],
           \A i \in doomed'[t] : row[i] # "none" /\ device[i] = device[mine[t]],
           cut' \subseteq cut,
           \/ doomed'[t] = {} /\ Issue(t)
           \/ pc' = [pc EXCEPT ![t] = "revoke"] /\ UNCHANGED <<issued, mine>>
    PROVE  Base'
<1>1. /\ row' \in [Ids -> {"none", "live", "revoked"}]
      /\ \A i \in Ids : row'[i] = "none" <=> row[i] = "none"
  BY DEF Ending
<1>2. CASE doomed'[t] = {} /\ Issue(t)
  <2>1. /\ mine[t] \in Ids /\ row[mine[t]] # "none"
        /\ issued' = issued \cup {mine[t]}
        /\ pc' = [pc EXCEPT ![t] = "idle"] /\ mine' = [mine EXCEPT ![t] = NoSession]
    BY <1>2 DEF Issue, Goto, Base, TypeOK, Placed
  <2>2. TypeOK'
    BY <1>1, <2>1 DEF Base, TypeOK
  <2>3. Placed'
    BY <1>1, <1>2, <2>1 DEF Base, TypeOK, Placed, NoSession
  <2> QED BY <2>2, <2>3 DEF Base
<1>3. CASE pc' = [pc EXCEPT ![t] = "revoke"] /\ UNCHANGED <<issued, mine>>
  <2>1. TypeOK'
    BY <1>1, <1>3 DEF Base, TypeOK
  <2>2. Placed'
    BY <1>1, <1>3 DEF Base, TypeOK, Placed
  <2> QED BY <2>1, <2>2 DEF Base
<1> QED BY <1>2, <1>3

LEMMA LoginBase == \A t \in Threads : Base /\ CreateStep(t) => Base'
<1> SUFFICES ASSUME NEW t \in Threads, Base, CreateStep(t) PROVE Base'
  OBVIOUS
<1>1. CASE Create(t)
  <2>1. Ending
    BY <1>1, CleanupEnds DEF Create
  <2>2. /\ pc[t] = "idle" /\ pc' = [pc EXCEPT ![t] = "stamp"]
        /\ UNCHANGED <<device, created, seen, clock, stamped, issued, mine, doomed, v, cut>>
    BY <1>1 DEF Create, Cleanup, Goto
  <2>3. TypeOK'
    BY <2>1, <2>2 DEF Base, TypeOK, Ending
  <2>4. Placed'
    BY <2>1, <2>2 DEF Base, TypeOK, Placed, Ending
  <2> QED BY <2>3, <2>4 DEF Base
<1>2. CASE Stamp(t)
  BY <1>2, StampBase
<1>3. CASE Insert(t)
  <2>1. /\ pc[t] = "insert" /\ mine[t] \in Ids /\ doomed[t] = {}
        /\ pc' = [pc EXCEPT ![t] = "trim"] /\ row' = [row EXCEPT ![mine[t]] = "live"]
        /\ UNCHANGED <<device, created, seen, clock, stamped, issued, mine, doomed, v, cut>>
    BY <1>3 DEF Insert, Goto, Base, TypeOK, Placed
  <2>2. \A u \in Threads : u # t /\ mine[u] # NoSession => mine[u] # mine[t]
    BY DEF Base, Placed
  <2>3. TypeOK'
    BY <2>1 DEF Base, TypeOK
  <2>4. mine[t] <= stamped
    BY DEF Base, Placed
  <2>5. \A i \in Ids : i # mine[t] => row'[i] = row[i]
    BY <2>1 DEF Base, TypeOK
  <2>6. row'[mine[t]] = "live"
    BY <2>1 DEF Base, TypeOK
  <2>7. \A i \in Ids : i > stamped => row'[i] = "none"
    BY <2>4, <2>5 DEF Base, TypeOK, Placed, Ids
  <2>8. \A u \in Threads :
          /\ pc'[u] = "insert" => row'[mine[u]] = "none"
          /\ pc'[u] \in {"trim", "revoke"} => row'[mine[u]] # "none"
          /\ doomed[u] # {} => pc'[u] = "revoke"
    BY <2>1, <2>2, <2>5, <2>6 DEF Base, TypeOK, Placed
  <2>9. \A u \in Threads : \A i \in doomed[u] : row'[i] # "none"
    BY <2>5, <2>6 DEF Base, TypeOK, Placed
  <2> QED BY <2>1, <2>3, <2>7, <2>8, <2>9 DEF Base, Placed
<1>4. CASE Trim(t)
  <2>1. PICK over \in SUBSET Ids :
          /\ \A i \in over : row[i] = "live" /\ device[i] = device[mine[t]]
          /\ doomed' = [doomed EXCEPT ![t] = over]
          /\ cut' \subseteq cut
          /\ \/ over = {} /\ Issue(t)
             \/ over # {} /\ Goto(t, "revoke") /\ UNCHANGED <<issued, mine>>
    <3> DEFINE d == device[mine[t]]
               found == IF d = NoDevice THEN {} ELSE Beyond(d)
    <3>1. found \in SUBSET Ids /\ \A i \in found : row[i] = "live" /\ device[i] = d
      BY DEF Beyond, Live
    <3>2. /\ doomed' = [doomed EXCEPT ![t] = found]
          /\ cut' \subseteq cut
          /\ \/ found = {} /\ Issue(t)
             \/ found # {} /\ Goto(t, "revoke") /\ UNCHANGED <<issued, mine>>
      BY <1>4 DEF Trim
    <3> HIDE DEF found
    <3> QED BY <3>1, <3>2
  <2>2. /\ row' = row /\ pc[t] = "trim"
        /\ UNCHANGED <<device, created, seen, clock, stamped, v>>
    BY <1>4 DEF Trim, rowVars
  <2>3. Ending
    BY <2>2, RowType DEF Ending
  <2>4. /\ doomed' \in [Threads -> SUBSET Ids] /\ doomed'[t] = over
        /\ \A u \in Threads \ {t} : doomed'[u] = doomed[u]
    BY <2>1 DEF Base, TypeOK
  <2> QED BY <2>1, <2>2, <2>3, <2>4, ThreadKeepsBase DEF Goto
<1>5. CASE TrimRevoke(t)
  <2>1. PICK i \in doomed[t] :
          /\ row' = [row EXCEPT ![i] = "revoked"]
          /\ doomed' = [doomed EXCEPT ![t] = @ \ {i}]
          /\ IF doomed[t] = {i} THEN Issue(t) ELSE UNCHANGED <<pc, issued, mine>>
    BY <1>5 DEF TrimRevoke
  <2>2. /\ pc[t] = "revoke"
        /\ UNCHANGED <<device, created, seen, clock, stamped, v, cut>>
    BY <1>5 DEF TrimRevoke
  <2>3. Ending
    BY <2>1, RevokeEnds DEF Base, TypeOK, Placed
  <2>4. /\ doomed' \in [Threads -> SUBSET Ids] /\ doomed'[t] = doomed[t] \ {i}
        /\ \A u \in Threads \ {t} : doomed'[u] = doomed[u]
    BY <2>1 DEF Base, TypeOK
  <2>5. \A j \in doomed'[t] : row[j] # "none" /\ device[j] = device[mine[t]]
    BY <2>4 DEF Base, Placed
  <2>6. UNCHANGED pc => pc' = [pc EXCEPT ![t] = "revoke"]
    BY <2>2 DEF Base, TypeOK
  <2>7. doomed[t] = {i} => doomed'[t] = {}
    BY <2>4
  <2> QED BY <2>1, <2>2, <2>3, <2>4, <2>5, <2>6, <2>7, ThreadKeepsBase
<1> QED BY <1>1, <1>2, <1>3, <1>4, <1>5 DEF CreateStep

LEMMA CrashBase == Base /\ Crash => Base'
<1> SUFFICES ASSUME Base, Crash PROVE Base'
  OBVIOUS
<1>1. cut' \subseteq Devices \cup {NoDevice}
  <2>1. \A t \in {u \in Threads : pc[u] \in {"trim", "revoke"}} :
            device[mine[t]] \in Devices \cup {NoDevice}
    BY DEF Base, TypeOK
  <2> QED BY <2>1 DEF Crash, Base, TypeOK
<1>2. /\ \A t \in Threads : pc'[t] = "idle" /\ mine'[t] = NoSession /\ doomed'[t] = {}
      /\ row' = row /\ device' = device /\ stamped' = stamped
  BY DEF Crash, rowVars
<1>3. TypeOK'
  <2>1. /\ pc' = [t \in Threads |-> "idle"] /\ mine' = [t \in Threads |-> NoSession]
        /\ doomed' = [t \in Threads |-> {}] /\ v' = NoVerify
        /\ UNCHANGED <<row, device, created, seen, clock, stamped, issued>>
    BY DEF Crash, rowVars
  <2> QED BY <1>1, <2>1, NoVerifyType DEF Base, TypeOK
<1>4. Placed'
  BY <1>2 DEF Base, TypeOK, Placed, NoSession
<1> QED BY <1>3, <1>4 DEF Base

LEMMA BaseStart == Init => Base
<1> SUFFICES ASSUME Init PROVE Base
  OBVIOUS
<1>1. TypeOK
  BY NoVerifyType, LimitsAssumption DEF Init, TypeOK
<1>2. Placed
  BY DEF Init, Placed, NoSession
<1> QED BY <1>1, <1>2 DEF Base

LEMMA BaseStep == Base /\ [Next]_vars => Base'
<1> SUFFICES ASSUME Base, [Next]_vars PROVE Base'
  OBVIOUS
<1>1. CASE Get
  <2>1. Ending /\ UNCHANGED <<device, created, seen, clock, callVars, v, cut>>
    BY <1>1, CleanupEnds DEF Get, Cleanup
  <2> QED BY <2>1, EndingKeepsBase
<1>2. CASE VerifyStep
  BY <1>2, VerifyBase
<1>3. CASE Tick
  BY <1>3 DEF Tick, rowVars, callVars, Base, TypeOK, Placed
<1>4. CASE Crash
  BY <1>4, CrashBase
<1>5. ASSUME NEW t \in Threads, CreateStep(t) PROVE Base'
  BY <1>5, LoginBase
<1>6. CASE (\E i \in Ids : Revoke(i)) \/ (\E d \in Devices : RevokeDevice(d))
  <2>1. UNCHANGED <<device, created, seen, clock, callVars, v, cut>>
    BY <1>6 DEF Revoke, RevokeDevice
  <2>2. Ending
    <3>1. ASSUME NEW i \in Ids, Revoke(i) PROVE Ending
      BY <3>1, RevokeEnds DEF Revoke, Base, TypeOK
    <3>2. ASSUME NEW d \in Devices, RevokeDevice(d) PROVE Ending
      BY <3>2, RowType DEF RevokeDevice, Live, Ending
    <3> QED BY <1>6, <3>1, <3>2
  <2> QED BY <2>1, <2>2, EndingKeepsBase
<1>7. CASE UNCHANGED vars
  BY <1>7 DEF vars, rowVars, callVars, Base, TypeOK, Placed
<1> QED BY <1>1, <1>2, <1>3, <1>4, <1>5, <1>6, <1>7 DEF Next

\* Types, and that a token handed out always has its row.
THEOREM TypeCorrect == Spec => []TypeOK
<1>1. Base => TypeOK
  BY DEF Base
<1> QED BY <1>1, BaseStart, BaseStep, PTL DEF Spec

(***************************************************************************)
(* A revoked session stays revoked.                                        *)
(***************************************************************************)
LEMMA RevokedStep ==
    ASSUME Base, [Next]_vars, NEW i \in Ids, row[i] = "revoked"
    PROVE  row'[i] = "revoked"
<1>1. ASSUME NEW t \in Threads, Insert(t) PROVE row'[i] = "revoked"
  <2>1. row' = [row EXCEPT ![mine[t]] = "live"] /\ row[mine[t]] = "none"
    BY <1>1 DEF Insert, Base, Placed
  <2> QED BY <2>1, RowType
<1>2. CASE \A t \in Threads : ~ Insert(t)
  BY <1>2, RowSteps DEF Ending
<1> QED BY <1>1, <1>2

\* No interleaving of verify, logins, logouts and cleanups revives a session.
THEOREM RevocationIsFinal == Spec => RevokedStays
<1>1. Base /\ [Next]_vars => [\A i \in Ids : row[i] = "revoked" => row'[i] = "revoked"]_vars
  BY RevokedStep
<1> QED BY <1>1, BaseStart, BaseStep, PTL DEF Spec, RevokedStays

(***************************************************************************)
(* The one verify that runs. If its session was over when the request came *)
(* then cleanup has revoked it, and it is read after that.                 *)
(***************************************************************************)
LateRevoked ==
    /\ v.step = "read" /\ v.late => row[v.id] = "revoked"
    /\ v.step \in {"decide", "touch"} => ~ v.late

LEMMA LateStep == Base /\ LateRevoked /\ [Next]_vars => LateRevoked'
<1> SUFFICES ASSUME Base, LateRevoked, [Next]_vars PROVE LateRevoked'
  OBVIOUS
<1>1. v \in Verifies /\ issued \subseteq Ids /\ (v.step # "idle" => v.id \in issued)
  BY DEF Base, TypeOK
<1>2. CASE v' = v
  <2>1. v.step = "read" => v.id \in Ids
    BY <1>1
  <2>2. v.step = "read" /\ v.late => row'[v.id] = "revoked"
    BY <2>1, RevokedStep DEF LateRevoked
  <2> QED BY <1>2, <2>2 DEF LateRevoked
<1>3. CASE VerifyBegin
  <2>1. PICK i \in issued :
          v' = [NoVerify EXCEPT !.step = "read", !.id = i,
                                !.late = row[i] = "revoked" \/ Overdue(i)]
    BY <1>3 DEF VerifyBegin
  <2>2. v'.step = "read" /\ v'.id = i /\ v'.late = (row[i] = "revoked" \/ Overdue(i))
    BY <2>1 DEF NoVerify
  <2>3. i \in Ids /\ row[i] # "none"
    BY DEF Base, TypeOK
  <2>4. row[i] = "revoked" \/ Overdue(i) => row'[i] = "revoked"
    BY <1>3, <2>3, RowType DEF VerifyBegin, Cleanup
  <2> QED BY <2>2, <2>4 DEF LateRevoked
<1>4. CASE VerifyRead
  <2>1. CASE row[v.id] = "revoked"
    BY <1>4, <2>1, NoVerifyType DEF VerifyRead, LateRevoked
  <2>2. CASE row[v.id] # "revoked"
    <3>1. v' = [v EXCEPT !.step = "decide", !.seen = seen[v.id]] /\ ~ v.late
      BY <1>4, <2>2 DEF VerifyRead, LateRevoked
    <3> QED BY <1>1, <3>1 DEF LateRevoked, Verifies
  <2> QED BY <2>1, <2>2
<1>5. CASE VerifyDecide
  <2>1. \E s \in {"revoke", "touch"} : v' = [v EXCEPT !.step = s, !.now = clock]
    BY <1>5 DEF VerifyDecide
  <2> QED BY <1>1, <1>5, <2>1 DEF VerifyDecide, LateRevoked, Verifies
<1>6. CASE v' = NoVerify
  BY <1>6, NoVerifyType DEF LateRevoked
<1> QED BY <1>2, <1>3, <1>4, <1>5, <1>6
        DEF Next, VerifyStep, VerifyTouch, VerifyRevoke, Get, Tick, Crash, CreateStep, Create,
            Stamp, Insert, Trim, TrimRevoke, Revoke, RevokeDevice, vars

\* A request whose session was over before it came is refused.
THEOREM NobodyComesLate == Spec => []NoLateEntry
<1>1. Init => LateRevoked
  BY NoVerifyType DEF Init, LateRevoked
<1>2. LateRevoked => NoLateEntry
  BY DEF LateRevoked, NoLateEntry
<1> QED BY <1>1, <1>2, LateStep, BaseStart, BaseStep, PTL DEF Spec

(***************************************************************************)
(* Why a session ends. A trim only dooms sessions that have as many newer  *)
(* ones as the device may have, and newer logins do not go away. A verify  *)
(* that has decided to revoke has seen a time at which the session was     *)
(* overdue, and nobody else moves last_seen_at.                            *)
(***************************************************************************)
LEMMA SubsetOfIds ==
    ASSUME NEW S, NEW T, S \subseteq T, T \subseteq Ids
    PROVE  Cardinality(S) \in Nat /\ Cardinality(T) \in Nat /\ Cardinality(S) <= Cardinality(T)
<1>1. IsFiniteSet(Ids)
  BY FS_Interval, LimitsAssumption DEF Ids
<1>2. IsFiniteSet(T)
  BY <1>1, FS_Subset
<1>3. IsFiniteSet(S) /\ Cardinality(S) <= Cardinality(T)
  BY <1>2, FS_Subset
<1> QED BY <1>2, <1>3, FS_CardinalityType

Crowded == \A t \in Threads : \A i \in doomed[t] : Cardinality(Newer(i)) >= MaxPerDevice

RevokeDue ==
    /\ v.step = "decide" => v.seen = seen[v.id]
    /\ v.step = "revoke" => Overdue(v.id)

\* What no step changes of a row that is there.
LEMMA RowsKeep ==
    ASSUME Base, [Next]_vars, NEW i \in Ids, row[i] # "none"
    PROVE  /\ row'[i] # "none"
           /\ device'[i] = device[i] /\ created'[i] = created[i]
           /\ VerifyTouch \/ seen'[i] = seen[i]
<1>1. row'[i] # "none"
  <2>1. ASSUME NEW t \in Threads, Insert(t) PROVE row'[i] # "none"
    BY <2>1, RowType DEF Insert
  <2>2. CASE \A t \in Threads : ~ Insert(t)
    BY <2>2, RowSteps DEF Ending
  <2> QED BY <2>1, <2>2
<1>2. ASSUME NEW t \in Threads, Stamp(t)
      PROVE  device'[i] = device[i] /\ created'[i] = created[i] /\ seen'[i] = seen[i]
  <2>1. stamped \in Nat /\ i # stamped + 1
    BY DEF Base, TypeOK, Placed, Ids
  <2> QED BY <1>2, <2>1 DEF Stamp, Base, TypeOK
<1>3. CASE \A t \in Threads : ~ Stamp(t)
  <2>1. /\ UNCHANGED <<device, created>>
        /\ VerifyTouch \/ UNCHANGED seen
    BY <1>3 DEF Next, VerifyStep, VerifyBegin, VerifyRead, VerifyDecide, VerifyRevoke, VerifyTouch,
           Cleanup, Get, Tick, Crash, CreateStep, Create, Insert, Trim, TrimRevoke, Revoke,
           RevokeDevice, vars, rowVars
  <2> QED BY <1>1, <2>1
<1> QED BY <1>1, <1>2, <1>3

LEMMA NewerGrows ==
    ASSUME Base, [Next]_vars, NEW i \in Ids, row[i] # "none",
           Cardinality(Newer(i)) >= MaxPerDevice
    PROVE  Cardinality(Newer(i)') >= MaxPerDevice
<1>1. Newer(i) \subseteq Newer(i)'
  BY RowsKeep DEF Newer
<1>2. Newer(i)' \subseteq Ids
  BY DEF Newer
<1> QED BY <1>1, <1>2, SubsetOfIds, LimitsAssumption

LEMMA CrowdedStep == Base /\ Crowded /\ [Next]_vars => Crowded'
<1> SUFFICES ASSUME Base, Crowded, [Next]_vars, NEW u \in Threads, NEW i \in doomed'[u]
             PROVE  Cardinality(Newer(i)') >= MaxPerDevice
  BY DEF Crowded
<1>1. CASE i \in doomed[u]
  <2>1. i \in Ids /\ row[i] # "none" /\ Cardinality(Newer(i)) >= MaxPerDevice
    BY <1>1 DEF Base, TypeOK, Placed, Crowded
  <2> QED BY <2>1, NewerGrows
<1>2. CASE i \notin doomed[u]
  <2>1. PICK t \in Threads : Trim(t)
    <3> SUFFICES ASSUME \A t \in Threads : ~ Trim(t) PROVE doomed'[u] \subseteq doomed[u]
      BY <1>2
    <3>1. ASSUME NEW t \in Threads, TrimRevoke(t) PROVE doomed'[u] \subseteq doomed[u]
      BY <3>1 DEF TrimRevoke, Base, TypeOK
    <3>2. CASE Crash
      BY <3>2 DEF Crash
    <3>3. CASE doomed' = doomed
      BY <3>3
    <3> QED BY <3>1, <3>2, <3>3
            DEF Next, VerifyStep, VerifyBegin, VerifyRead, VerifyDecide, VerifyTouch,
                VerifyRevoke, Get, Tick, CreateStep, Create, Stamp, Insert, Revoke, RevokeDevice,
                vars, callVars
  <2>2. i \in Beyond(device[mine[t]])
    BY <1>2, <2>1 DEF Trim, Base, TypeOK
  <2>3. /\ i \in Ids /\ row[i] = "live"
        /\ Cardinality({j \in Live(device[i]) : j > i}) >= MaxPerDevice
    BY <2>2 DEF Beyond, Live
  <2>4. Newer(i) \subseteq Ids /\ {j \in Live(device[i]) : j > i} \subseteq Newer(i)
    BY DEF Newer, Live
  <2>5. Cardinality(Newer(i)) >= MaxPerDevice
    BY <2>3, <2>4, SubsetOfIds, LimitsAssumption
  <2> QED BY <2>3, <2>5, NewerGrows
<1> QED BY <1>1, <1>2

LEMMA RevokeDueStep == Base /\ RevokeDue /\ [Next]_vars => RevokeDue'
<1> SUFFICES ASSUME Base, RevokeDue, [Next]_vars PROVE RevokeDue'
  OBVIOUS
<1>1. /\ v \in Verifies /\ clock \in Nat /\ seen \in [Ids -> Nat] /\ created \in [Ids -> Nat]
      /\ v.step # "idle" => v.id \in Ids /\ row[v.id] # "none"
  BY DEF Base, TypeOK
<1>2. CASE v' = v /\ ~ VerifyTouch
  <2>1. v.step # "idle" => seen'[v.id] = seen[v.id] /\ created'[v.id] = created[v.id]
    BY <1>1, <1>2, RowsKeep
  <2>2. clock' \in Nat /\ clock' >= clock
    <3>1. clock' = clock \/ clock' = clock + 1
      BY DEF Next, VerifyStep, VerifyBegin, VerifyRead, VerifyDecide, VerifyRevoke, VerifyTouch,
             Get, Tick, Crash, CreateStep, Create, Stamp, Insert, Trim, TrimRevoke, Revoke,
             RevokeDevice, vars
    <3> QED BY <1>1, <3>1
  <2>3. v.step = "revoke" => Overdue(v.id)'
    <3> SUFFICES ASSUME v.step = "revoke"
                 PROVE  created'[v.id] + Ttl <= clock' \/ seen'[v.id] + IdleTimeout <= clock'
      BY <1>2 DEF Overdue
    <3>1. Overdue(v.id) /\ v.id \in Ids
      BY <1>1 DEF RevokeDue
    <3> QED BY <1>1, <2>1, <2>2, <3>1, TimesAssumption DEF Overdue
  <2> QED BY <1>2, <2>1, <2>3 DEF RevokeDue
<1>3. CASE VerifyBegin
  <2>1. v'.step = "read"
    BY <1>3 DEF VerifyBegin, NoVerify
  <2> QED BY <2>1 DEF RevokeDue
<1>4. CASE VerifyRead
  <2>1. CASE row[v.id] = "revoked"
    BY <1>4, <2>1, NoVerifyType DEF VerifyRead, RevokeDue
  <2>2. CASE row[v.id] # "revoked"
    <3>1. v' = [v EXCEPT !.step = "decide", !.seen = seen[v.id]] /\ seen' = seen
      BY <1>4, <2>2 DEF VerifyRead, rowVars
    <3> QED BY <1>1, <3>1 DEF RevokeDue, Verifies
  <2> QED BY <2>1, <2>2
<1>5. CASE VerifyDecide
  <2> DEFINE due == created[v.id] + Ttl <= clock \/ v.seen + IdleTimeout <= clock
  <2>1. /\ v' = [v EXCEPT !.step = IF due THEN "revoke" ELSE "touch", !.now = clock]
        /\ v.step = "decide" /\ UNCHANGED <<created, seen, clock>>
    BY <1>5 DEF VerifyDecide, rowVars
  <2>2. v'.id = v.id /\ (v'.step = "revoke" => due) /\ v'.step \in {"revoke", "touch"}
    BY <1>1, <2>1 DEF Verifies
  <2>3. due => Overdue(v.id)
    BY <2>1 DEF RevokeDue, Overdue
  <2>4. Overdue(v.id) => Overdue(v.id)'
    BY <2>1, <2>2 DEF Overdue
  <2> QED BY <2>2, <2>3, <2>4 DEF RevokeDue, Overdue
<1>6. CASE v' = NoVerify
  BY <1>6, NoVerifyType DEF RevokeDue
<1> QED BY <1>2, <1>3, <1>4, <1>5, <1>6
        DEF Next, VerifyStep, VerifyTouch, VerifyRevoke, Get, Tick, Crash, CreateStep, Create,
            Stamp, Insert, Trim, TrimRevoke, Revoke, RevokeDevice, vars

Ends(i) == row[i] = "live" /\ row'[i] = "revoked"

Reason(i) ==
    \/ Revoke(i)
    \/ RevokeDevice(device[i])
    \/ Overdue(i)
    \/ Cardinality(Newer(i)) >= MaxPerDevice

LEMMA EndHasReason ==
    ASSUME Base, Crowded, RevokeDue, [Next]_vars, NEW i \in Ids, Ends(i)
    PROVE  Reason(i)
<1>1. row[i] = "live" /\ row'[i] = "revoked" /\ row' # row
  BY DEF Ends
<1>2. CASE Cleanup
  BY <1>1, <1>2 DEF Cleanup, Reason
<1>3. ASSUME NEW j \in Ids, Revoke(j) PROVE Reason(i)
  BY <1>1, <1>3, RowType DEF Revoke, Reason
<1>4. ASSUME NEW d \in Devices, RevokeDevice(d) PROVE Reason(i)
  <2>1. device[i] = d
    BY <1>1, <1>4 DEF RevokeDevice, Live
  <2> QED BY <1>4, <2>1 DEF Reason
<1>5. ASSUME NEW t \in Threads, TrimRevoke(t) PROVE Reason(i)
  <2>1. i \in doomed[t]
    BY <1>1, <1>5, RowType DEF TrimRevoke
  <2> QED BY <2>1 DEF Crowded, Reason
<1>6. CASE VerifyRevoke
  <2>1. i = v.id
    BY <1>1, <1>6, RowType DEF VerifyRevoke
  <2> QED BY <1>6, <2>1 DEF VerifyRevoke, RevokeDue, Reason
<1>7. ASSUME NEW t \in Threads, Insert(t) PROVE FALSE
  BY <1>1, <1>7, RowType DEF Insert
<1> QED BY <1>1, <1>2, <1>3, <1>4, <1>5, <1>6, <1>7
        DEF Next, Get, VerifyStep, VerifyBegin, VerifyRead, VerifyDecide, VerifyTouch, Tick, Crash,
            CreateStep, Create, Stamp, Trim, vars, rowVars

\* A session ends by logout, with its device, by time, or for as many newer
\* logins on the device as the limit says.
THEOREM EveryEndHasAReason == Spec => EndsForAReason
<1>1. Init => Crowded /\ RevokeDue
  BY NoVerifyType DEF Init, Crowded, RevokeDue
<1>2. Base /\ Crowded /\ RevokeDue /\ [Next]_vars => [\A i \in Ids : Ends(i) => Reason(i)]_vars
  BY EndHasReason
<1> QED BY <1>1, <1>2, BaseStart, BaseStep, CrowdedStep, RevokeDueStep, PTL
        DEF Spec, EndsForAReason, Ends, Reason

(***************************************************************************)
(* The cap. While logins race a device may have any number of live         *)
(* sessions; what stays below the limit are those that no thread is about  *)
(* to look at or to revoke. The trim of a thread makes it so for whatever  *)
(* it reads, and every later session is still to be looked at.             *)
(***************************************************************************)
Settled(d) ==
    {i \in Live(d) : \A t \in Threads : i \notin doomed[t] /\ ~ (pc[t] = "trim" /\ mine[t] = i)}

CapInv == \A d \in Devices : d \notin cut => Cardinality(Settled(d)) <= MaxPerDevice

\* Of any set of sessions, at most MaxPerDevice have fewer than that above them.
LEMMA NewestFew ==
    ASSUME NEW L, L \subseteq Ids
    PROVE  Cardinality({i \in L : ~ (Cardinality({j \in L : j > i}) >= MaxPerDevice)})
               <= MaxPerDevice
<1> DEFINE Above(i) == {j \in L : j > i}
           K == {i \in L : ~ (Cardinality(Above(i)) >= MaxPerDevice)}
<1>1. K \subseteq L /\ \A i \in K : ~ (Cardinality(Above(i)) >= MaxPerDevice)
  OBVIOUS
<1> SUFFICES Cardinality(K) <= MaxPerDevice
  OBVIOUS
<1> HIDE DEF K
<1>2. CASE K = {}
  BY <1>2, FS_EmptySet, LimitsAssumption
<1>3. CASE K # {}
  <2>0. K \subseteq Nat
    BY <1>1 DEF Ids
  <2>1. PICK m \in K : \A y \in K : ~ (<<y, m>> \in OpToRel(<, Nat))
    BY <2>0, <1>3, NatLessThanWellFounded, WFMin
  <2>2. \A y \in K : ~ (y < m)
    BY <2>0, <2>1 DEF OpToRel
  <2>3. K \ {m} \subseteq Above(m)
    BY <1>1, <2>2 DEF Ids
  <2>4. Above(m) \subseteq Ids /\ ~ (Cardinality(Above(m)) >= MaxPerDevice)
    BY <1>1
  <2> HIDE DEF Above
  <2>5. /\ Cardinality(K \ {m}) <= Cardinality(Above(m))
        /\ Cardinality(K \ {m}) \in Nat /\ Cardinality(Above(m)) \in Nat
    BY <2>3, <2>4, SubsetOfIds
  <2>6. IsFiniteSet(K)
    <3>1. IsFiniteSet(Ids) /\ K \subseteq Ids
      BY <1>1, FS_Interval, LimitsAssumption DEF Ids
    <3> QED BY <3>1, FS_Subset
  <2>7. Cardinality(K \ {m}) = Cardinality(K) - 1 /\ Cardinality(K) \in Nat
    BY <2>1, <2>6, FS_RemoveElement, FS_CardinalityType
  <2> QED BY <2>4, <2>5, <2>7, LimitsAssumption
<1> QED BY <1>2, <1>3

\* The read of a trim settles its device, whatever was the matter before.
LEMMA TrimSettles ==
    ASSUME Base, NEW t \in Threads, Trim(t), NEW d \in Devices, device[mine[t]] = d
    PROVE  Cardinality(Settled(d)') <= MaxPerDevice
<1> DEFINE K == {i \in Live(d) : ~ (Cardinality({j \in Live(d) : j > i}) >= MaxPerDevice)}
<1>1. doomed'[t] = Beyond(d) /\ row' = row /\ device' = device
  BY DevicesAssumption DEF Trim, Base, TypeOK, rowVars
<1>2. Live(d)' = Live(d) /\ Live(d) \subseteq Ids
  BY <1>1 DEF Live
<1>3. Settled(d)' \subseteq K
  BY <1>1, <1>2 DEF Settled, Beyond
<1>4. Cardinality(K) <= MaxPerDevice
  BY <1>2, NewestFew
<1> HIDE DEF K
<1>5. K \subseteq Ids
  BY <1>2 DEF K
<1> QED BY <1>3, <1>4, <1>5, SubsetOfIds, LimitsAssumption

\* No other step adds to the settled sessions of a device, unless it is a crash
\* that leaves the device cut.
LEMMA SettledShrinks ==
    ASSUME Base, [Next]_vars, NEW d \in Devices, d \notin cut',
           \A t \in Threads : ~ (Trim(t) /\ device[mine[t]] = d)
    PROVE  Settled(d)' \subseteq Settled(d)
<1> SUFFICES ASSUME NEW i \in Settled(d)' PROVE i \in Settled(d)
  OBVIOUS
<1>1. /\ i \in Ids /\ row'[i] = "live" /\ device'[i] = d
      /\ \A t \in Threads : i \notin doomed'[t] /\ ~ (pc'[t] = "trim" /\ mine'[t] = i)
  BY DEF Settled, Live
<1>2. row[i] = "live"
  <2>1. ASSUME NEW t \in Threads, Insert(t) PROVE row[i] = "live"
    <3>1. pc'[t] = "trim" /\ mine'[t] = mine[t] /\ row' = [row EXCEPT ![mine[t]] = "live"]
      BY <2>1 DEF Insert, Goto, Base, TypeOK
    <3> QED BY <1>1, <3>1, RowType
  <2>2. CASE \A t \in Threads : ~ Insert(t)
    BY <1>1, <2>2, RowSteps DEF Ending
  <2> QED BY <2>1, <2>2
<1>3. device[i] = d
  BY <1>1, <1>2, RowsKeep
<1>4. ASSUME NEW t \in Threads, i \in doomed[t] PROVE FALSE
  <2>1. pc[t] = "revoke" /\ device[mine[t]] = d
    BY <1>3, <1>4 DEF Base, Placed
  <2>2. CASE Crash
    BY <2>1, <2>2 DEF Crash
  <2>3. ASSUME NEW u \in Threads, TrimRevoke(u) PROVE FALSE
    <3>1. PICK j \in doomed[u] : row' = [row EXCEPT ![j] = "revoked"]
                                /\ doomed' = [doomed EXCEPT ![u] = @ \ {j}]
      BY <2>3 DEF TrimRevoke
    <3>2. i # j
      BY <1>1, <3>1, RowType
    <3> QED BY <1>1, <1>4, <3>1, <3>2 DEF Base, TypeOK
  <2>4. ASSUME NEW u \in Threads, Trim(u) PROVE FALSE
    <3>1. t # u
      BY <2>1, <2>4 DEF Trim
    <3> QED BY <1>1, <1>4, <2>4, <3>1 DEF Trim, Base, TypeOK
  <2>5. CASE doomed' = doomed
    BY <1>1, <1>4, <2>5
  <2> QED BY <2>2, <2>3, <2>4, <2>5
          DEF Next, VerifyStep, VerifyBegin, VerifyRead, VerifyDecide, VerifyTouch, VerifyRevoke,
              Get, Tick, CreateStep, Create, Stamp, Insert, Revoke, RevokeDevice, vars, callVars
<1>5. ASSUME NEW t \in Threads, pc[t] = "trim", mine[t] = i PROVE FALSE
  <2>1. CASE Crash
    BY <1>3, <1>5, <2>1 DEF Crash
  <2>2. ASSUME NEW u \in Threads, CreateStep(u) PROVE FALSE
    <3>1. CASE u = t
      BY <1>3, <1>5, <2>2, <3>1 DEF CreateStep, Create, Stamp, Insert, Trim, TrimRevoke
    <3>2. CASE u # t
      <4>1. pc'[t] = pc[t] /\ mine'[t] = mine[t]
        BY <2>2, <3>2 DEF CreateStep, Create, Stamp, Insert, Trim, TrimRevoke, Goto, Issue, Base,
                          TypeOK
      <4> QED BY <1>1, <1>5, <4>1
    <3> QED BY <3>1, <3>2
  <2>3. CASE UNCHANGED <<pc, mine>>
    BY <1>1, <1>5, <2>3
  <2> QED BY <2>1, <2>2, <2>3
          DEF Next, VerifyStep, VerifyBegin, VerifyRead, VerifyDecide, VerifyTouch, VerifyRevoke,
              Get, Tick, Revoke, RevokeDevice, vars, callVars
<1> QED BY <1>1, <1>2, <1>3, <1>4, <1>5 DEF Settled, Live

LEMMA CapStep == Base /\ CapInv /\ [Next]_vars => CapInv'
<1> SUFFICES ASSUME Base, CapInv, [Next]_vars, NEW d \in Devices, d \notin cut'
             PROVE  Cardinality(Settled(d)') <= MaxPerDevice
  BY DEF CapInv
<1>1. CASE \E t \in Threads : Trim(t) /\ device[mine[t]] = d
  BY <1>1, TrimSettles
<1>2. CASE \A t \in Threads : ~ (Trim(t) /\ device[mine[t]] = d)
  <2>1. Settled(d)' \subseteq Settled(d) /\ Settled(d) \subseteq Ids
    BY <1>2, SettledShrinks DEF Settled, Live
  <2>2. d \notin cut
    BY <1>2 DEF Next, VerifyStep, VerifyBegin, VerifyRead, VerifyDecide, VerifyTouch,
           VerifyRevoke, Get, Tick, Crash, CreateStep, Create, Stamp, Insert, Trim, TrimRevoke,
           Revoke, RevokeDevice, vars
  <2>3. Cardinality(Settled(d)) <= MaxPerDevice
    BY <2>2 DEF CapInv
  <2> QED BY <2>1, <2>3, SubsetOfIds, LimitsAssumption
<1> QED BY <1>1, <1>2

\* Whatever logins race, once none of a device's is on its way, and no crash has
\* cut one, the device has at most MaxPerDevice live sessions.
THEOREM TheCapHolds == Spec => []CapHolds
<1>1. Init => CapInv
  <2> SUFFICES ASSUME Init, NEW d \in Devices PROVE Cardinality(Settled(d)) <= MaxPerDevice
    BY DEF CapInv
  <2>1. Settled(d) = {}
    BY DEF Init, Settled, Live
  <2> QED BY <2>1, FS_EmptySet, LimitsAssumption
<1>2. Base /\ CapInv => CapHolds
  <2> SUFFICES ASSUME Base, CapInv, NEW d \in Devices, d \notin cut,
                      \A t \in Threads : ~ Trimming(t, d)
               PROVE  Cardinality(Live(d)) <= MaxPerDevice
    BY DEF CapHolds
  <2>1. Live(d) \subseteq Settled(d) /\ Settled(d) \subseteq Ids
    BY DEF Base, Placed, Trimming, Settled, Live
  <2>2. Cardinality(Settled(d)) <= MaxPerDevice
    BY DEF CapInv
  <2> QED BY <2>1, <2>2, SubsetOfIds, LimitsAssumption
<1> QED BY <1>1, <1>2, BaseStart, BaseStep, CapStep, PTL DEF Spec
=============================================================================

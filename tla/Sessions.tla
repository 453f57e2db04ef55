------------------------------ MODULE Sessions ------------------------------
(***************************************************************************)
(* Owner sessions, src/backend/app/security/sessions.py. Logins, logouts   *)
(* and device revocations run in the thread pool, one database statement   *)
(* at a time. verify runs inside require_owner, which is `async def` and   *)
(* never awaits: on the event loop, so never two of it at once, but in     *)
(* between the statements of everything else.                              *)
(*                                                                         *)
(* Sessions are numbered in the order of created_at, which is taken before *)
(* the row is inserted; a number stands for the token too. The controls    *)
(* session_ttl_s, session_idle_timeout_s and max_sessions_per_device are   *)
(* constants here.                                                         *)
(***************************************************************************)
EXTENDS Integers, FiniteSets

CONSTANTS
    Threads,        \* the thread pool
    Devices,        \* device_id of a login
    NoDevice,       \* device_id = None
    MaxPerDevice,   \* max_sessions_per_device
    Ttl,            \* session_ttl_s
    IdleTimeout,    \* session_idle_timeout_s
    MaxSessions,    \* bound: how many logins there are
    MaxTime         \* bound: how long time passes

ASSUME DevicesAssumption == NoDevice \notin Devices
ASSUME LimitsAssumption == MaxPerDevice \in Nat \ {0} /\ MaxSessions \in Nat /\ MaxTime \in Nat
ASSUME TimesAssumption == Ttl \in Nat \ {0} /\ IdleTimeout \in Nat \ {0}

Ids == 1 .. MaxSessions
NoSession == 0

VARIABLES
    row,        \* sessions.revoked: "live" or "revoked", "none" before the INSERT
    device,     \* sessions.device_id
    created,    \* sessions.created_at, Ttl before expires_at
    seen,       \* sessions.last_seen_at
    clock,      \* time.time()
    stamped,    \* how many logins have taken their created_at
    issued,     \* the tokens that create has returned
    pc,         \* where each thread is in create
    mine,       \* the session that a thread creates
    doomed,     \* what _trim_device_sessions still has to revoke
    v,          \* the one verify that runs: its step and its locals
    cut         \* history: devices whose trim a crash has cut off

rowVars == <<row, device, created, seen>>
callVars == <<stamped, issued, pc, mine, doomed>>
vars == <<rowVars, clock, callVars, v, cut>>

\* `late`: the session was over before the request came.
NoVerify == [step |-> "idle", id |-> NoSession, seen |-> 0, now |-> 0, late |-> FALSE]
Verifies == [step : {"idle", "read", "decide", "touch", "revoke"},
             id : Ids \cup {NoSession}, seen : Nat, now : Nat, late : BOOLEAN]

Live(d) == {i \in Ids : row[i] = "live" /\ device[i] = d}

-----------------------------------------------------------------------------
(* cleanup_expired_sessions                                                *)

Overdue(i) == created[i] + Ttl <= clock \/ seen[i] + IdleTimeout <= clock

Cleanup ==
    /\ row' = [i \in Ids |-> IF row[i] = "live" /\ Overdue(i) THEN "revoked" ELSE row[i]]
    /\ UNCHANGED <<device, created, seen>>

\* get() does nothing else that lasts.
Get == Cleanup /\ UNCHANGED <<clock, callVars, v, cut>>

-----------------------------------------------------------------------------
(* create                                                                  *)

Goto(t, label) == pc' = [pc EXCEPT ![t] = label]

\* create returns the token of t's session.
Issue(t) ==
    /\ Goto(t, "idle")
    /\ issued' = issued \cup {mine[t]}
    /\ mine' = [mine EXCEPT ![t] = NoSession]

Create(t) ==
    /\ pc[t] = "idle"
    /\ Cleanup
    /\ Goto(t, "stamp")
    /\ UNCHANGED <<clock, stamped, issued, mine, doomed, v, cut>>

Stamp(t) ==
    /\ pc[t] = "stamp"
    /\ stamped < MaxSessions
    /\ stamped' = stamped + 1
    /\ mine' = [mine EXCEPT ![t] = stamped + 1]
    /\ \E d \in Devices \cup {NoDevice} : device' = [device EXCEPT ![stamped + 1] = d]
    /\ created' = [created EXCEPT ![stamped + 1] = clock]
    /\ seen' = [seen EXCEPT ![stamped + 1] = clock]
    /\ Goto(t, "insert")
    /\ UNCHANGED <<row, clock, issued, doomed, v, cut>>

Insert(t) ==
    /\ pc[t] = "insert"
    /\ row' = [row EXCEPT ![mine[t]] = "live"]
    /\ Goto(t, "trim")
    /\ UNCHANGED <<device, created, seen, clock, stamped, issued, mine, doomed, v, cut>>

\* Variant of Beyond: one session more than the limit is left.
BeyondOffByOne(d) ==
    {i \in Live(d) : Cardinality({j \in Live(d) : j > i}) > MaxPerDevice}

\* rows[max_sessions:] of the device's live rows, newest first.
Beyond(d) == {i \in Live(d) : Cardinality({j \in Live(d) : j > i}) >= MaxPerDevice}

\* Variant of Trim: the rows are read oldest first.
TrimNewest(t) ==
    /\ pc[t] = "trim"
    /\ LET d == device[mine[t]]
           over == IF d = NoDevice THEN {}
                   ELSE {i \in Live(d) : Cardinality({j \in Live(d) : j < i}) >= MaxPerDevice}
       IN  /\ doomed' = [doomed EXCEPT ![t] = over]
           /\ cut' = cut \ {d}
           /\ IF over = {} THEN Issue(t) ELSE Goto(t, "revoke") /\ UNCHANGED <<issued, mine>>
    /\ UNCHANGED <<rowVars, clock, stamped, v>>

\* The SELECT of _trim_device_sessions, which is skipped for a login without device.
Trim(t) ==
    /\ pc[t] = "trim"
    /\ LET d == device[mine[t]]
           over == IF d = NoDevice THEN {} ELSE Beyond(d)
       IN  /\ doomed' = [doomed EXCEPT ![t] = over]
           /\ cut' = cut \ {d}
           /\ IF over = {} THEN Issue(t) ELSE Goto(t, "revoke") /\ UNCHANGED <<issued, mine>>
    /\ UNCHANGED <<rowVars, clock, stamped, v>>

\* One UPDATE of its loop, newest row first.
TrimRevoke(t) ==
    /\ pc[t] = "revoke"
    /\ \E i \in doomed[t] :
        /\ \A j \in doomed[t] : j <= i
        /\ row' = [row EXCEPT ![i] = "revoked"]
        /\ doomed' = [doomed EXCEPT ![t] = @ \ {i}]
        /\ IF doomed[t] = {i} THEN Issue(t) ELSE UNCHANGED <<pc, issued, mine>>
    /\ UNCHANGED <<device, created, seen, clock, stamped, v, cut>>

CreateStep(t) == Create(t) \/ Stamp(t) \/ Insert(t) \/ Trim(t) \/ TrimRevoke(t)

-----------------------------------------------------------------------------
(* revoke and revoke_device                                                *)

Revoke(i) ==
    /\ i \in issued
    /\ row' = [row EXCEPT ![i] = "revoked"]
    /\ UNCHANGED <<device, created, seen, clock, callVars, v, cut>>

RevokeDevice(d) ==
    /\ row' = [i \in Ids |-> IF i \in Live(d) THEN "revoked" ELSE row[i]]
    /\ UNCHANGED <<device, created, seen, clock, callVars, v, cut>>

-----------------------------------------------------------------------------
(* verify                                                                  *)

VerifyBegin ==
    /\ v.step = "idle"
    /\ \E i \in issued :
        v' = [NoVerify EXCEPT !.step = "read", !.id = i,
                              !.late = row[i] = "revoked" \/ Overdue(i)]
    /\ Cleanup
    /\ UNCHANGED <<clock, callVars, cut>>

\* Variant of VerifyRead: the row's revoked flag is not looked at.
VerifyReadAny ==
    /\ v.step = "read"
    /\ v' = [v EXCEPT !.step = "decide", !.seen = seen[v.id]]
    /\ UNCHANGED <<rowVars, clock, callVars, cut>>

\* The SELECT. A revoked session is refused.
VerifyRead ==
    /\ v.step = "read"
    /\ v' = IF row[v.id] = "revoked" THEN NoVerify
            ELSE [v EXCEPT !.step = "decide", !.seen = seen[v.id]]
    /\ UNCHANGED <<rowVars, clock, callVars, cut>>

\* Only now is the time taken, and compared with the row as it was read.
VerifyDecide ==
    /\ v.step = "decide"
    /\ v' = [v EXCEPT
                !.step = IF \/ created[v.id] + Ttl <= clock
                            \/ v.seen + IdleTimeout <= clock
                         THEN "revoke" ELSE "touch",
                !.now = clock]
    /\ UNCHANGED <<rowVars, clock, callVars, cut>>

\* verify returns True.
VerifyTouch ==
    /\ v.step = "touch"
    /\ seen' = [seen EXCEPT ![v.id] = v.now]
    /\ v' = NoVerify
    /\ UNCHANGED <<row, device, created, clock, callVars, cut>>

VerifyRevoke ==
    /\ v.step = "revoke"
    /\ row' = [row EXCEPT ![v.id] = "revoked"]
    /\ v' = NoVerify
    /\ UNCHANGED <<device, created, seen, clock, callVars, cut>>

VerifyStep == VerifyBegin \/ VerifyRead \/ VerifyDecide \/ VerifyTouch \/ VerifyRevoke

-----------------------------------------------------------------------------
Tick ==
    /\ clock < MaxTime
    /\ clock' = clock + 1
    /\ UNCHANGED <<rowVars, callVars, v, cut>>

\* The process dies and starts again.
Crash ==
    /\ cut' = cut \cup {device[mine[t]] : t \in {u \in Threads : pc[u] \in {"trim", "revoke"}}}
    /\ pc' = [t \in Threads |-> "idle"]
    /\ mine' = [t \in Threads |-> NoSession]
    /\ doomed' = [t \in Threads |-> {}]
    /\ v' = NoVerify
    /\ UNCHANGED <<rowVars, clock, stamped, issued>>

Init ==
    /\ row = [i \in Ids |-> "none"]
    /\ device = [i \in Ids |-> NoDevice]
    /\ created = [i \in Ids |-> 0]
    /\ seen = [i \in Ids |-> 0]
    /\ clock = 0
    /\ stamped = 0
    /\ issued = {}
    /\ pc = [t \in Threads |-> "idle"]
    /\ mine = [t \in Threads |-> NoSession]
    /\ doomed = [t \in Threads |-> {}]
    /\ v = NoVerify
    /\ cut = {}

Next ==
    \/ Get \/ VerifyStep \/ Tick \/ Crash
    \/ \E t \in Threads : CreateStep(t)
    \/ \E i \in Ids : Revoke(i)
    \/ \E d \in Devices : RevokeDevice(d)

Spec == Init /\ [][Next]_vars

-----------------------------------------------------------------------------
(* Properties.                                                             *)

TypeOK ==
    /\ row \in [Ids -> {"none", "live", "revoked"}]
    /\ device \in [Ids -> Devices \cup {NoDevice}]
    /\ created \in [Ids -> Nat]
    /\ seen \in [Ids -> Nat]
    /\ clock \in Nat
    /\ stamped \in 0 .. MaxSessions
    /\ issued \subseteq {i \in Ids : row[i] # "none"}
    /\ pc \in [Threads -> {"idle", "stamp", "insert", "trim", "revoke"}]
    /\ mine \in [Threads -> Ids \cup {NoSession}]
    /\ \A t \in Threads : pc[t] \in {"insert", "trim", "revoke"} <=> mine[t] # NoSession
    /\ doomed \in [Threads -> SUBSET Ids]
    /\ v \in Verifies
    /\ v.step # "idle" => v.id \in issued
    /\ cut \subseteq Devices \cup {NoDevice}

\* t has inserted a session for d and create has not returned yet.
Trimming(t, d) == pc[t] \in {"trim", "revoke"} /\ device[mine[t]] = d

\* SECURITY_REVIEW.md:7 "per-device session caps are enforced": whatever logins
\* race, once none of a device's is on its way it has no more live sessions than
\* the limit. A crash between the INSERT and the trim can leave more, until the
\* next login on that device.
CapHolds ==
    \A d \in Devices :
        d \notin cut /\ (\A t \in Threads : ~ Trimming(t, d)) =>
            Cardinality(Live(d)) <= MaxPerDevice

\* Logins of i's device that are newer than i and have their row.
Newer(i) == {j \in Ids : j > i /\ row[j] # "none" /\ device[j] = device[i]}

\* The owner's own sessions only end for a reason: logout, revocation of the
\* device, time, or as many newer logins on the device as it may have. A login
\* never throws out a newer one, however the two interleave.
EndsForAReason ==
    [][\A i \in Ids : row[i] = "live" /\ row'[i] = "revoked" =>
            \/ Revoke(i)
            \/ RevokeDevice(device[i])
            \/ Overdue(i)
            \/ Cardinality(Newer(i)) >= MaxPerDevice]_vars

\* A revoked session stays revoked, although verify writes to rows it read
\* some statements ago.
RevokedStays ==
    [][\A i \in Ids : row[i] = "revoked" => row'[i] = "revoked"]_vars

\* A request that comes when its session has been revoked, has expired or has
\* been idle for too long is not let in.
NoLateEntry == v.step = "touch" => ~ v.late
=============================================================================

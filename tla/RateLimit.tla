------------------------------- MODULE RateLimit -------------------------------
(***************************************************************************)
(* The login rate limit: FixedWindowRateLimiter of                         *)
(* src/backend/app/security/rate_limit.py and the login endpoint of        *)
(* src/backend/app/api/routes.py, its one caller.                          *)
(*                                                                         *)
(* The limiter keeps a queue of times for each client address; this is the *)
(* queue of one address.  `allowed` and `record` each hold the lock, but   *)
(* read the clock before they take it, and the token is tested between     *)
(* them, so that the server's threads may be anywhere in between.          *)
(***************************************************************************)
EXTENDS Integers, Sequences, FiniteSets

CONSTANTS
    Callers,      \* the threads of the server
    Limit,        \* limit: 5 for the login
    Window,       \* window_s: 300 for the login
    MaxTime,      \* bound on the clock
    MaxAttempts   \* bound on the attempts

ASSUME LimitAssumption == Limit \in Nat \ {0} /\ Window \in Nat \ {0}
ASSUME CallersAssumption == IsFiniteSet(Callers)

VARIABLES
    hits,      \* _hits[key], each time with the attempt that left it
    time,      \* time.time()
    login,     \* where each thread is in the endpoint
    seenAt,    \* the time as `allowed` or `record` has read it
    attempt,   \* the number of the attempt each thread serves
    attempts,  \* how many attempts there have been
    wrong      \* history: the attempts of the last window whose token was found
               \* wrong, since the process started or a right token was given

limiterVars == <<hits, time, login, seenAt, attempt, attempts, wrong>>

LoginLabels == {"idle", "allowed", "token", "stamp", "record", "clear"}
Hit == [at : Nat, of : Nat]

\* _prune: the queue loses what is outside the window, from its left end only.
Prune(q, now) ==
    LET kept == {i \in 1..Len(q) : q[i].at > now - Window}
        first == IF kept = {} THEN Len(q) + 1
                 ELSE CHOOSE i \in kept : \A j \in kept : i <= j
    IN  SubSeq(q, first, Len(q))

LimiterInit ==
    /\ hits = << >> /\ time = 0 /\ attempts = 0 /\ wrong = {}
    /\ login = [t \in Callers |-> "idle"]
    /\ seenAt = [t \in Callers |-> 0]
    /\ attempt = [t \in Callers |-> 0]

At(t, from, to) == login[t] = from /\ login' = [login EXCEPT ![t] = to]

\* The endpoint answers: what the request knew is gone.
Done(t) ==
    /\ seenAt' = [seenAt EXCEPT ![t] = 0]
    /\ attempt' = [attempt EXCEPT ![t] = 0]

\* A request arrives, and allowed() reads the time.
BeginLogin(t) ==
    /\ attempts < MaxAttempts
    /\ At(t, "idle", "allowed")
    /\ attempts' = attempts + 1
    /\ attempt' = [attempt EXCEPT ![t] = attempts + 1]
    /\ seenAt' = [seenAt EXCEPT ![t] = time]
    /\ UNCHANGED <<hits, time, wrong>>

\* Variant of Allowed: the limit itself is let through.
AllowedOneMore(t) ==
    /\ hits' = Prune(hits, seenAt[t])
    /\ \/ Len(hits') <= Limit /\ At(t, "allowed", "token") /\ UNCHANGED <<seenAt, attempt>>
       \/ ~(Len(hits') <= Limit) /\ At(t, "allowed", "idle") /\ Done(t)
    /\ UNCHANGED <<time, attempts, wrong>>

\* The rest of allowed(), under the lock; a refused attempt leaves no hit.
Allowed(t) ==
    /\ hits' = Prune(hits, seenAt[t])
    /\ \/ Len(hits') < Limit /\ At(t, "allowed", "token") /\ UNCHANGED <<seenAt, attempt>>
       \/ ~(Len(hits') < Limit) /\ At(t, "allowed", "idle") /\ Done(t)
    /\ UNCHANGED <<time, attempts, wrong>>

\* verify_owner_token.
WrongToken(t) ==
    /\ At(t, "token", "stamp")
    /\ wrong' = wrong \cup {[at |-> time, of |-> attempt[t]]}
    /\ UNCHANGED <<hits, time, seenAt, attempt, attempts>>

RightToken(t) ==
    /\ At(t, "token", "clear")
    /\ UNCHANGED <<hits, time, seenAt, attempt, attempts, wrong>>

\* record() reads the time ...
Stamp(t) ==
    /\ At(t, "stamp", "record")
    /\ seenAt' = [seenAt EXCEPT ![t] = time]
    /\ UNCHANGED <<hits, time, attempt, attempts, wrong>>

\* ... and appends, under the lock. Another thread may have appended a later time.
Record(t) ==
    /\ At(t, "record", "idle")
    /\ hits' = Append(Prune(hits, seenAt[t]), [at |-> seenAt[t], of |-> attempt[t]])
    /\ Done(t)
    /\ UNCHANGED <<time, attempts, wrong>>

\* clear(key): the right token forgives what was wrong before.
ClearHits(t) ==
    /\ At(t, "clear", "idle")
    /\ hits' = << >> /\ wrong' = {}
    /\ Done(t)
    /\ UNCHANGED <<time, attempts>>

ClockTick ==
    /\ time < MaxTime
    /\ time' = time + 1
    /\ wrong' = {w \in wrong : w.at > time' - Window}
    /\ UNCHANGED <<hits, login, seenAt, attempt, attempts>>

\* The limiter lives in memory: a restart forgets it.
LimiterRestart ==
    /\ hits' = << >> /\ wrong' = {}
    /\ login' = [t \in Callers |-> "idle"]
    /\ seenAt' = [t \in Callers |-> 0]
    /\ attempt' = [t \in Callers |-> 0]
    /\ UNCHANGED <<time, attempts>>

LoginStep(t) ==
    \/ BeginLogin(t) \/ Allowed(t) \/ WrongToken(t) \/ RightToken(t)
    \/ Stamp(t) \/ Record(t) \/ ClearHits(t)

LimiterNext == ClockTick \/ LimiterRestart \/ \E t \in Callers : LoginStep(t)

LimiterSpec == LimiterInit /\ [][LimiterNext]_limiterVars

-----------------------------------------------------------------------------
LimiterTypeOK ==
    /\ hits \in Seq(Hit)
    /\ time \in Nat /\ attempts \in Nat
    /\ login \in [Callers -> LoginLabels]
    /\ seenAt \in [Callers -> Nat]
    /\ attempt \in [Callers -> Nat]
    /\ wrong \in SUBSET Hit

\* However the requests overlap, within any window the owner's token can be
\* guessed wrong at most `limit` times, and once more for every other thread the
\* server has: those have passed allowed() before the last hit was recorded.
AttemptsBounded == Cardinality(wrong) <= Limit - 1 + Cardinality(Callers)
=============================================================================

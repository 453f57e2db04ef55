-------------------------------- MODULE OwnerApp --------------------------------
(***************************************************************************)
(* The owner decides on an approval in the Android app: decide of          *)
(* viewmodel/ViewModels.kt, and what its two requests meet in the server,  *)
(* decide and execute_if_approved of src/backend/app/approval/system.py.   *)
(* This is one approval.  Each tap on its card starts a coroutine of its   *)
(* own, and nothing disables the card.  A request may never be served, and *)
(* the app may stop waiting for one that the server still serves.          *)
(***************************************************************************)
CONSTANT Taps   \* the coroutines that may run at once

VARIABLES
    status,    \* approvals.status
    applied,   \* history: the change has been applied
    listed,    \* the app shows the card
    request,   \* where the request of each tap is
    decision,  \* the button of each tap
    waiting,   \* the coroutine of the tap still waits for the answer
    trouble    \* history: a request or an answer was lost, or the change could
               \* not be applied

appVars == <<status, applied, listed, request, decision, waiting, trouble>>

Decisions == {"approved", "rejected", "more_tests"}
InServer == {"decide", "update", "execute"}
Answers == {"decided", "executed", "refused"}

AppInit ==
    /\ status = "pending" /\ applied = FALSE /\ listed = FALSE /\ trouble = FALSE
    /\ request = [c \in Taps |-> "none"]
    /\ decision = [c \in Taps |-> "none"]
    /\ waiting = [c \in Taps |-> FALSE]

Pass(c, from, to) == request[c] = from /\ request' = [request EXCEPT ![c] = to]

\* The coroutine ends, or nobody waits for the answer.
Finish(c) ==
    /\ request' = [request EXCEPT ![c] = "none"]
    /\ decision' = [decision EXCEPT ![c] = "none"]
    /\ waiting' = [waiting EXCEPT ![c] = FALSE]

-----------------------------------------------------------------------------
(* The app.                                                                *)

\* loadApprovals asks for the pending ones; the list may be old when it is shown.
LoadApprovals ==
    /\ listed' = (status = "pending")
    /\ UNCHANGED <<status, applied, request, decision, waiting, trouble>>

Tap(c) ==
    /\ listed
    /\ Pass(c, "none", "decide")
    /\ \E d \in Decisions : decision' = [decision EXCEPT ![c] = d]
    /\ waiting' = [waiting EXCEPT ![c] = TRUE]
    /\ UNCHANGED <<status, applied, listed, trouble>>

\* Variant of Executes: an approval that has left the list is taken for done.
ExecutesListed(c) == waiting[c] /\ decision[c] = "approved" /\ listed

\* After the answer to decide the coroutine executes an approval.
Executes(c) == waiting[c] /\ decision[c] = "approved"

SendExecute(c) ==
    /\ Executes(c)
    /\ Pass(c, "decided", "execute")
    /\ UNCHANGED <<status, applied, listed, decision, waiting, trouble>>

\* Every other answer ends the coroutine.
TapEnds(c) ==
    /\ request[c] \in Answers /\ (request[c] = "decided" => ~Executes(c))
    /\ Finish(c)
    /\ UNCHANGED <<status, applied, listed, trouble>>

\* A timeout, or the connection breaks.
StopWaiting(c) ==
    /\ waiting[c]
    /\ waiting' = [waiting EXCEPT ![c] = FALSE]
    /\ trouble' = TRUE
    /\ UNCHANGED <<status, applied, listed, request, decision>>

\* The app ends, or its view model is cleared.
AppEnds ==
    /\ listed' = FALSE
    /\ waiting' = [c \in Taps |-> FALSE]
    /\ trouble' = (trouble \/ \E c \in Taps : waiting[c])
    /\ UNCHANGED <<status, applied, request, decision>>

-----------------------------------------------------------------------------
(* The server.                                                             *)

\* The request does not arrive, or the server ends while it serves it.
RequestLost(c) ==
    /\ request[c] \in InServer
    /\ Finish(c)
    /\ trouble' = TRUE
    /\ UNCHANGED <<status, applied, listed>>

\* decide reads the status in one statement ...
ReadStatus(c) ==
    /\ Pass(c, "decide", IF status = "pending" THEN "update" ELSE "refused")
    /\ UNCHANGED <<status, applied, listed, decision, waiting, trouble>>

\* ... and writes it in another, whatever it is by then.
WriteStatus(c) ==
    /\ Pass(c, "update", "decided")
    /\ status' = decision[c]
    /\ UNCHANGED <<applied, listed, decision, waiting, trouble>>

\* execute_if_approved: what applying does is in Promotion and CodeChange. An
\* approval that is applied is applied again.
Execute(c) ==
    /\ status = "approved"
    /\ Pass(c, "execute", "executed")
    /\ \/ applied' = TRUE /\ UNCHANGED trouble
       \/ trouble' = TRUE /\ UNCHANGED applied
    /\ UNCHANGED <<status, listed, decision, waiting>>

NotApproved(c) ==
    /\ status # "approved"
    /\ Pass(c, "execute", "refused")
    /\ UNCHANGED <<status, applied, listed, decision, waiting, trouble>>

-----------------------------------------------------------------------------
TapStep(c) ==
    \/ Tap(c) \/ SendExecute(c) \/ TapEnds(c) \/ StopWaiting(c) \/ RequestLost(c)
    \/ ReadStatus(c) \/ WriteStatus(c) \/ Execute(c) \/ NotApproved(c)

AppNext == LoadApprovals \/ AppEnds \/ \E c \in Taps : TapStep(c)

AppSpec == AppInit /\ [][AppNext]_appVars

-----------------------------------------------------------------------------
AppTypeOK ==
    /\ status \in Decisions \cup {"pending"}
    /\ {applied, listed, trouble} \subseteq BOOLEAN
    /\ request \in [Taps -> InServer \cup Answers \cup {"none"}]
    /\ decision \in [Taps -> Decisions \cup {"none"}]
    /\ waiting \in [Taps -> BOOLEAN]

\* An approval the owner has given in the app, in two requests, is applied once no
\* tap is in progress, whatever other buttons were tapped beside it and in whatever
\* order the server served them, unless a request or an answer was lost or the
\* change could not be applied.
ApprovedIsApplied ==
    (\A c \in Taps : request[c] = "none") /\ status = "approved" /\ ~trouble => applied
=============================================================================

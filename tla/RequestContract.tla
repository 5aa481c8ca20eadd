-------------------------- MODULE RequestContract --------------------------
(***************************************************************************)
(* What the library promises to an application that sends a request and    *)
(* asks for an answer within a time: af_ipc_send returns -1 and nothing     *)
(* more happens, or it returns 0 and the response callback is called        *)
(* exactly once, with the answer or with a timeout, unless the connection   *)
(* is closed first, which ends every outstanding request in silence.        *)
(***************************************************************************)
CONSTANT Requests

VARIABLES
    open,   \* the connection is up
    state   \* how far each request has come

vars == <<open, state>>

States == {"unused", "sending", "failed", "waiting",
           "answered", "expired", "dropped"}

TypeOK ==
    /\ open \in BOOLEAN
    /\ state \in [Requests -> States]

Init ==
    /\ open = TRUE
    /\ state = [r \in Requests |-> "unused"]

Move(r, from, to) ==
    /\ open /\ state[r] = from
    /\ state' = [state EXCEPT ![r] = to]
    /\ UNCHANGED open

Begin(r) == Move(r, "unused", "sending")
Reject(r) == Move(r, "unused", "failed")
Fail(r) == Move(r, "sending", "failed")
Accept(r) == Move(r, "sending", "waiting")
Answer(r) == Move(r, "waiting", "answered")
Expire(r) == Move(r, "waiting", "expired")

Close ==
    /\ open /\ \A r \in Requests : state[r] # "sending"
    /\ open' = FALSE
    /\ state' = [r \in Requests |->
                    IF state[r] = "waiting" THEN "dropped" ELSE state[r]]

Next ==
    \/ \E r \in Requests :
          \/ Begin(r) \/ Reject(r) \/ Fail(r)
          \/ Accept(r) \/ Answer(r) \/ Expire(r)
    \/ Close

Spec == Init /\ [][Next]_vars

(* A send returns, and an accepted request is answered or expires *)
Fairness == \A r \in Requests :
    /\ WF_vars(Fail(r) \/ Accept(r))
    /\ WF_vars(Answer(r) \/ Expire(r))

FairSpec == Spec /\ Fairness

=============================================================================

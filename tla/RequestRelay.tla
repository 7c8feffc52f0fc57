---------------------------- MODULE RequestRelay ----------------------------
(***************************************************************************)
(* What the tunnel promises about one request, with no connection, mutex   *)
(* or goroutine in sight: it is accepted at most once, acts on the robot   *)
(* at most once and only while its handler runs, is answered at most once  *)
(* and only with the outcome its handler produced, and is never resumed    *)
(* after the process ended.  Nothing promises that it is answered.         *)
(***************************************************************************)
EXTENDS Naturals

CONSTANT Requests

VARIABLES
    up,       \* the process runs
    call,     \* call[r]: "new", "handling", "handled", "answered" or "dropped"
    acts,     \* acts[r]: how often r acted on the robot
    outcome,  \* outcome[r]: "none", "returned", "badPath" or "panicked"
    answer    \* answer[r]: the outcome the caller learnt, or "none"

rvars == <<up, call, acts, outcome, answer>>

Init ==
    /\ up = TRUE
    /\ call = [r \in Requests |-> "new"]
    /\ acts = [r \in Requests |-> 0]
    /\ outcome = [r \in Requests |-> "none"]
    /\ answer = [r \in Requests |-> "none"]

Move(r, from, to) == up /\ call[r] = from /\ call' = [call EXCEPT ![r] = to]

Accept(r) ==
    /\ Move(r, "new", "handling")
    /\ UNCHANGED <<up, acts, outcome, answer>>

Act(r) ==
    /\ up /\ call[r] = "handling" /\ acts[r] = 0
    /\ acts' = [acts EXCEPT ![r] = 1]
    /\ UNCHANGED <<up, call, outcome, answer>>

\* A request rejected for its path has not acted.
Handle(r, o) ==
    /\ Move(r, "handling", "handled")
    /\ o = "badPath" => acts[r] = 0
    /\ outcome' = [outcome EXCEPT ![r] = o]
    /\ UNCHANGED <<up, acts, answer>>

Deliver(r) ==
    /\ Move(r, "handled", "answered")
    /\ answer' = [answer EXCEPT ![r] = outcome[r]]
    /\ UNCHANGED <<up, acts, outcome>>

Drop(r) ==
    /\ Move(r, "handled", "dropped")
    /\ UNCHANGED <<up, acts, outcome, answer>>

\* The process ends, and every request it was handling with it.
Exit ==
    /\ up /\ up' = FALSE
    /\ call' = [r \in Requests |->
                  IF call[r] \in {"handling", "handled"} THEN "dropped" ELSE call[r]]
    /\ UNCHANGED <<acts, outcome, answer>>

Restart == ~up /\ up' = TRUE /\ UNCHANGED <<call, acts, outcome, answer>>

Next ==
    \/ \E r \in Requests :
          \/ Accept(r) \/ Act(r) \/ Deliver(r) \/ Drop(r)
          \/ \E o \in {"returned", "badPath", "panicked"} : Handle(r, o)
    \/ Exit \/ Restart

RelaySpec == Init /\ [][Next]_rvars
=============================================================================

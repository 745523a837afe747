------------------------- MODULE TransferCompletions -------------------------
(***************************************************************************)
(* What the two-process example promises, without processes, handles or   *)
(* notifications: the engine completes the transfers one after another,   *)
(* the side that waits for them observes each completion in order and    *)
(* never one that has not happened, and the run is reported a success     *)
(* only once every transfer has been observed.                            *)
(***************************************************************************)
EXTENDS Naturals

CONSTANT NUM_XFERS  \* transfers the run is made of

VARIABLES
  completed,  \* transfers the engine has completed
  observed,   \* completions the waiting side has seen
  verdict     \* "none" until the run is reported, then "success"/"failure"

vars == << completed, observed, verdict >>

Init ==
  /\ completed = 0
  /\ observed = 0
  /\ verdict = "none"

\* the next transfer completes
Complete ==
  /\ completed < NUM_XFERS
  /\ completed' = completed + 1
  /\ UNCHANGED << observed, verdict >>

\* the waiting side sees the next completion, which has happened
Observe ==
  /\ observed < completed
  /\ observed' = observed + 1
  /\ UNCHANGED << completed, verdict >>

\* the run is reported once; success only after every completion was seen
Report(ok) ==
  /\ verdict = "none"
  /\ ok => observed = NUM_XFERS
  /\ verdict' = IF ok THEN "success" ELSE "failure"
  /\ UNCHANGED << completed, observed >>

Next == Complete \/ Observe \/ \E ok \in BOOLEAN : Report(ok)

Spec == Init /\ [][Next]_vars

=============================================================================

------------------------------ MODULE Rendezvous ------------------------------
(***************************************************************************)
(* The metadata rendezvous both examples rely on, without a server,       *)
(* connections or requests: each of two parties publishes its own name,   *)
(* then looks the other up.  A lookup finds the peer exactly when the     *)
(* peer has published; a miss is retried or given up, and a party may be  *)
(* killed at any point.  Because every party publishes before it looks,   *)
(* the two parties can never both miss each other.                        *)
(***************************************************************************)
Parties == {"snd", "rcv"}
Peer(p) == IF p = "snd" THEN "rcv" ELSE "snd"

VARIABLES
  published,  \* parties whose name is on the server
  lookup      \* lookup[p]: "idle", "missing", "found", "gave_up", "killed"

vars == << published, lookup >>

Outcomes == {"idle", "missing", "found", "gave_up", "killed"}

TypeOK ==
  /\ published \subseteq Parties
  /\ lookup \in [Parties -> Outcomes]

Init ==
  /\ published = {}
  /\ lookup = [p \in Parties |-> "idle"]

\* p's name is put on the server (a request already sent is still served
\* after p is killed, and publishing twice changes nothing)
Publish(p) ==
  /\ published' = published \cup {p}
  /\ UNCHANGED lookup

\* p, having published, asks for the peer's name: found iff it is there
Lookup(p) ==
  /\ p \in published
  /\ lookup[p] = "idle"
  /\ lookup' = [lookup EXCEPT ![p] =
                  IF Peer(p) \in published THEN "found" ELSE "missing"]
  /\ UNCHANGED published

\* after a miss, p asks again ...
Retry(p) ==
  /\ lookup[p] = "missing"
  /\ lookup' = [lookup EXCEPT ![p] = "idle"]
  /\ UNCHANGED published

\* ... or gives up
GiveUp(p) ==
  /\ lookup[p] = "missing"
  /\ lookup' = [lookup EXCEPT ![p] = "gave_up"]
  /\ UNCHANGED published

\* the parties in S are killed at once
Kill(S) ==
  /\ S # {}
  /\ lookup' = [p \in Parties |-> IF p \in S THEN "killed" ELSE lookup[p]]
  /\ UNCHANGED published

Next ==
  \/ \E p \in Parties :
       Publish(p) \/ Lookup(p) \/ Retry(p) \/ GiveUp(p)
  \/ \E S \in SUBSET Parties : Kill(S)

Spec == Init /\ [][Next]_vars

(* The two parties never both miss each other: whenever one of them has   *)
(* found the peer's name missing (and may give up), the other has not.   *)
AtMostOneMisses ==
  \A p \in Parties :
    lookup[p] \in {"missing", "gave_up"} =>
      lookup[Peer(p)] \notin {"missing", "gave_up"}

=============================================================================

--------------------------- MODULE RendezvousProofs ---------------------------
(***************************************************************************)
(* Why a rendezvous can fail on one side only: a party that has looked    *)
(* has published, so when one side misses the other, that other side has  *)
(* not published yet and will find the first when it looks.               *)
(***************************************************************************)
EXTENDS Rendezvous, TLAPS

(* The inductive invariant: AtMostOneMisses, and every party that has     *)
(* looked (and not been killed) has published.                             *)
RInv ==
  /\ TypeOK
  /\ \A p \in Parties :
       lookup[p] \in {"missing", "found", "gave_up"} => p \in published
  /\ AtMostOneMisses

LEMMA RInvInit == Init => RInv
BY DEF Init, RInv, TypeOK, AtMostOneMisses, Outcomes

LEMMA RInvStep == RInv /\ [Next]_vars => RInv'
<1> SUFFICES ASSUME RInv, [Next]_vars PROVE RInv'
  OBVIOUS
<1> USE DEF RInv, TypeOK, AtMostOneMisses, Outcomes, Parties, Peer
<1>1. ASSUME NEW p \in Parties, Publish(p) PROVE RInv'
  BY <1>1 DEF Publish
<1>2. ASSUME NEW p \in Parties, Lookup(p) PROVE RInv'
  <2>1. /\ p \in published /\ lookup[p] = "idle"
        /\ lookup' = [lookup EXCEPT ![p] =
                        IF Peer(p) \in published THEN "found" ELSE "missing"]
        /\ UNCHANGED published
    BY <1>2 DEF Lookup
  <2>2. CASE Peer(p) \in published
    BY <2>1, <2>2
  <2>3. CASE Peer(p) \notin published
    <3>1. lookup[Peer(p)] \notin {"missing", "found", "gave_up"}
      BY <2>3
    <3>2. QED
      BY <2>1, <2>3, <3>1
  <2>4. QED
    BY <2>2, <2>3
<1>3. ASSUME NEW p \in Parties, Retry(p) \/ GiveUp(p) PROVE RInv'
  BY <1>3 DEF Retry, GiveUp
<1>4. ASSUME NEW S \in SUBSET Parties, Kill(S) PROVE RInv'
  BY <1>4 DEF Kill
<1>5. CASE UNCHANGED vars
  BY <1>5 DEF vars
<1>6. QED
  BY <1>1, <1>2, <1>3, <1>4, <1>5 DEF Next

(* Whatever the interleaving of publications, lookups, retries, timeouts  *)
(* and kills, the two parties never both find the other missing.         *)
THEOREM NeverBothMiss == Spec => []AtMostOneMisses
<1>1. RInv => AtMostOneMisses
  BY DEF RInv
<1>2. QED
  BY <1>1, RInvInit, RInvStep, PTL DEF Spec

=============================================================================

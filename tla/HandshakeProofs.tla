--------------------------- MODULE HandshakeProofs ---------------------------
(***************************************************************************)
(* Proofs about Handshake: the etcd-mode start-up keeps its types for all *)
(* values of READY_EVERY and DRAINS, and the DESCS notification is never  *)
(* drained by the sender without being taken, whatever READY messages are *)
(* lost or duplicated and whatever timeouts fire.                         *)
(***************************************************************************)
EXTENDS Handshake, TLAPS

(* The counters of the sender's loop stay in range: the arithmetic of     *)
(* SndLoopHead and SndDrain, stated over constants.                       *)
LEMMA ModStep ==
  ASSUME NEW n \in Nat \ {0}, NEW x \in 0 .. n - 1
  PROVE  (x + 1) % n \in 0 .. n - 1
OBVIOUS

LEMMA DrainStep ==
  ASSUME NEW d \in Nat \ {0}, NEW x \in 1 .. d
  PROVE  (x + 1) % (d + 1) \in 0 .. d
OBVIOUS

(* Updating one entry of a Boolean-valued function (published, loaded)    *)
(* keeps it Boolean-valued.                                                *)
LEMMA BoolFunExcept ==
  ASSUME NEW S, NEW f \in [S -> BOOLEAN], NEW x, NEW b \in BOOLEAN
  PROVE  [f EXCEPT ![x] = b] \in [S -> BOOLEAN]
BY Zenon

LEMMA BoolFunConst ==
  ASSUME NEW S, NEW b \in BOOLEAN
  PROVE  [y \in S |-> b] \in [S -> BOOLEAN]
BY Zenon

(* The inductive invariant: the type invariant and the property itself.   *)
(* The property is inductive because the only step that empties the       *)
(* sender's queue, SndDrain, leaves the DESCS loop whenever DESCS is in    *)
(* the queue, and, DESCS not being lossy, nothing else removes it from    *)
(* flight without putting it in the queue.                                *)
IInv == TypeOK /\ DescsNotDrainedUnread

LEMMA IInvInit == Init => IInv
<1> SUFFICES ASSUME Init PROVE IInv
  OBVIOUS
<1>1. published \in [Peers -> BOOLEAN] /\ loaded \in [Peers -> BOOLEAN]
  BY BoolFunConst DEF Init
<1>2. net \in [Peers -> SUBSET Msgs] /\ inbox \in [Peers -> SUBSET Msgs]
  BY DEF Init
<1>3. ready_count \in 0 .. READY_EVERY - 1 /\ sdrain \in 0 .. DRAINS
  BY ReadyEveryAssumption, DrainsAssumption DEF Init
<1>4. QED
  BY <1>1, <1>2, <1>3 DEF Init, IInv, TypeOK, DescsNotDrainedUnread

LEMMA TypeStep == TypeOK /\ [Next]_vars => TypeOK'
<1> SUFFICES ASSUME TypeOK, [Next]_vars PROVE TypeOK'
  OBVIOUS
<1> USE ReadyEveryAssumption, DrainsAssumption, LossyAssumption,
        FlagsAssumption DEF TypeOK, Peers, Msgs,
        Exited
<1>1. CASE SndPublish \/ RcvPublish
  <2>1. /\ \E p \in Peers : published' = [published EXCEPT ![p] = TRUE]
        /\ \/ sph = "publish" /\ sph' = "resolve" /\ rph' = rph
           \/ rph = "publish" /\ rph' = "resolve" /\ sph' = sph
        /\ UNCHANGED << loaded, ready_count, sdrain, net, inbox, descs_sent,
                        mph, success >>
    BY <1>1 DEF SndPublish, RcvPublish
  <2>2. published' \in [Peers -> BOOLEAN]
    BY <2>1, BoolFunExcept
  <2>3. QED
    BY <2>1, <2>2
<1>2. ASSUME NEW p \in Peers, MetadataArrives(p) PROVE TypeOK'
  <2>1. /\ loaded' = [loaded EXCEPT ![p] = TRUE]
        /\ UNCHANGED << sph, rph, published, ready_count, sdrain, net, inbox,
                        descs_sent, mph, success >>
    BY <1>2 DEF MetadataArrives
  <2>2. loaded' \in [Peers -> BOOLEAN]
    BY <2>1, BoolFunExcept
  <2>3. QED
    BY <2>1, <2>2
<1>3. CASE SndResolve \/ RcvResolve
  BY <1>3 DEF SndResolve, RcvResolve
<1>4. CASE SndLoopHead
  <2>1. ready_count' = (ready_count + 1) % READY_EVERY
    BY <1>4 DEF SndLoopHead
  <2>2. ready_count' \in 0 .. READY_EVERY - 1
    BY <2>1, ModStep
  <2>3. QED
    BY <1>4, <2>2 DEF SndLoopHead
<1>5. CASE SndDrain
  <2>1. CASE "DESCS" \in inbox["snd"]
    BY <1>5, <2>1 DEF SndDrain
  <2>2. CASE "DESCS" \notin inbox["snd"]
    <3>1. sdrain' = (sdrain + 1) % (DRAINS + 1) /\ sdrain \in 1 .. DRAINS
      BY <1>5, <2>2 DEF SndDrain
    <3>2. sdrain' \in 0 .. DRAINS
      BY <3>1, DrainStep
    <3>3. QED
      BY <1>5, <2>2, <3>2 DEF SndDrain
  <2>3. QED
    BY <2>1, <2>2
<1>6. CASE RcvReadyLoop
  <2>1. /\ rph = "ready_loop"
        /\ inbox' = [inbox EXCEPT !["rcv"] = {}]
        /\ UNCHANGED << sph, published, loaded, ready_count, sdrain, mph,
                        success >>
    BY <1>6 DEF RcvReadyLoop
  <2>2. inbox' \in [Peers -> SUBSET Msgs] /\ inbox'["snd"] = inbox["snd"]
    BY <2>1
  <2>3. CASE "READY" \in inbox["rcv"]
    <3>1. /\ net' = [net EXCEPT !["snd"] = @ \cup {"READY", "DESCS"}]
          /\ descs_sent' = TRUE /\ rph' = "stream"
      BY <1>6, <2>3 DEF RcvReadyLoop
    <3>2. QED
      BY <2>1, <2>2, <3>1
  <2>4. CASE "READY" \notin inbox["rcv"]
    <3>1. /\ net' = [net EXCEPT !["snd"] = @ \cup {"READY"}]
          /\ UNCHANGED << descs_sent, rph >>
      BY <1>6, <2>4 DEF RcvReadyLoop
    <3>2. QED
      BY <2>1, <2>2, <3>1
  <2>5. QED
    BY <2>3, <2>4
<1>7. CASE PipelineRun
  BY <1>7 DEF PipelineRun
<1>8. ASSUME NEW p \in Peers, NEW m \in Msgs, Deliver(p, m) PROVE TypeOK'
  <2>1. /\ m \in net[p]
        /\ inbox' = [inbox EXCEPT ![p] = @ \cup {m}]
        /\ UNCHANGED << sph, rph, published, loaded, ready_count, sdrain,
                        descs_sent, mph, success >>
    BY <1>8 DEF Deliver
  <2>2. inbox' \in [Peers -> SUBSET Msgs] /\ inbox["snd"] \subseteq inbox'["snd"]
        /\ (p = "snd" => m \in inbox'["snd"])
    BY <2>1
  <2>3. CASE net' = [net EXCEPT ![p] = @ \ {m}]
    <3>1. net' \in [Peers -> SUBSET Msgs]
          /\ net["snd"] \subseteq net'["snd"] \cup {m} /\ (p # "snd" => net'["snd"] = net["snd"])
      BY <2>3
    <3>2. QED
      BY <2>1, <2>2, <3>1
  <2>4. CASE UNCHANGED net
    BY <2>1, <2>2, <2>4
  <2>5. QED
    BY <1>8, <2>3, <2>4 DEF Deliver
<1>9. ASSUME NEW p \in Peers, NEW m \in Msgs, Lose(p, m) PROVE TypeOK'
  BY <1>9 DEF Lose
<1>10. CASE RunTestJoin
  BY <1>10 DEF RunTestJoin
<1>11. CASE Finished \/ UNCHANGED vars
  <2>1. UNCHANGED << sph, rph, published, loaded, ready_count, sdrain, net,
                    inbox, descs_sent, mph, success >>
    BY <1>11 DEF Finished, vars
  <2>2. QED
    BY <2>1
<1>12. QED
  BY <1>1, <1>2, <1>3, <1>4, <1>5, <1>6, <1>7, <1>8, <1>9, <1>10, <1>11
  DEF Next

(* The property's own step: every action that could take DESCS out of    *)
(* flight or out of the sender's queue either puts it in the queue, or   *)
(* moves the sender out of its DESCS loop.                               *)
LEMMA IInvStep ==
  ASSUME "DESCS" \notin LossyMsgs
  PROVE  IInv /\ [Next]_vars => IInv'
<1> SUFFICES ASSUME IInv, [Next]_vars PROVE DescsNotDrainedUnread'
  BY TypeStep DEF IInv
<1> USE DEF IInv, TypeOK, DescsNotDrainedUnread, Peers, Msgs, Exited
<1>1. CASE SndPublish \/ RcvPublish \/ SndResolve \/ RcvResolve
  BY <1>1 DEF SndPublish, RcvPublish, SndResolve, RcvResolve
<1>2. ASSUME NEW p \in Peers, MetadataArrives(p) PROVE DescsNotDrainedUnread'
  BY <1>2 DEF MetadataArrives
<1>3. CASE SndLoopHead
  BY <1>3 DEF SndLoopHead
<1>4. CASE SndDrain
  BY <1>4 DEF SndDrain
<1>5. CASE RcvReadyLoop
  <2>1. inbox'["snd"] = inbox["snd"] /\ sph' = sph
    BY <1>5 DEF RcvReadyLoop
  <2>2. CASE "READY" \in inbox["rcv"]
    <3>1. "DESCS" \in net'["snd"]
      BY <1>5, <2>2 DEF RcvReadyLoop
    <3>2. QED
      BY <2>1, <3>1
  <2>3. CASE "READY" \notin inbox["rcv"]
    <3>1. net'["snd"] = net["snd"] \cup {"READY"} /\ descs_sent' = descs_sent
      BY <1>5, <2>3 DEF RcvReadyLoop
    <3>2. QED
      BY <2>1, <3>1
  <2>4. QED
    BY <2>2, <2>3
<1>6. CASE PipelineRun \/ RunTestJoin
  BY <1>6 DEF PipelineRun, RunTestJoin
<1>7. ASSUME NEW p \in Peers, NEW m \in Msgs, Deliver(p, m)
      PROVE  DescsNotDrainedUnread'
  <2>1. /\ m \in net[p]
        /\ inbox' = [inbox EXCEPT ![p] = @ \cup {m}]
        /\ UNCHANGED << sph, descs_sent >>
    BY <1>7 DEF Deliver
  <2>2. inbox["snd"] \subseteq inbox'["snd"] /\ (p = "snd" => m \in inbox'["snd"])
    BY <2>1
  <2>3. CASE net' = [net EXCEPT ![p] = @ \ {m}]
    <3>1. net["snd"] \subseteq net'["snd"] \cup {m}
          /\ (p # "snd" => net'["snd"] = net["snd"])
      BY <2>3
    <3>2. QED
      BY <2>1, <2>2, <3>1
  <2>4. CASE UNCHANGED net
    BY <2>1, <2>2, <2>4
  <2>5. QED
    BY <1>7, <2>3, <2>4 DEF Deliver
<1>8. ASSUME NEW p \in Peers, NEW m \in Msgs, Lose(p, m)
      PROVE  DescsNotDrainedUnread'
  BY <1>8 DEF Lose
<1>9. CASE Finished \/ UNCHANGED vars
  BY <1>9 DEF Finished, vars
<1>10. QED
  BY <1>1, <1>2, <1>3, <1>4, <1>5, <1>6, <1>7, <1>8, <1>9 DEF Next

(* The etcd-mode start-up keeps its types for every READY_EVERY and DRAINS *)
(* (the ready_count % 5 counter and the sender's drain index stay in       *)
(* range), whatever the substrate loses.                                  *)
THEOREM TypeCorrect == Spec => []TypeOK
<1>1. Init => TypeOK
  BY IInvInit DEF IInv
<1>2. QED
  BY <1>1, TypeStep, PTL DEF Spec

(* The DESCS notification the receiver sends once is never thrown away by *)
(* one of the sender's get_new_notifs() drains without being seen, for    *)
(* every READY interval and number of drains per iteration, with READY    *)
(* lost or duplicated and with metadata and join timeouts: the sender's   *)
(* three-drain loop scans every message it drains.  DESCS itself must not *)
(* be lost (hs_lossy_descs shows what happens when it is).                *)
THEOREM DescsNeverDrainedUnread ==
  ASSUME "DESCS" \notin LossyMsgs
  PROVE  Spec => []DescsNotDrainedUnread
<1>1. IInv => DescsNotDrainedUnread
  BY DEF IInv
<1>2. QED
  BY <1>1, IInvInit, IInvStep, PTL DEF Spec

=============================================================================

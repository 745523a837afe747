---------------------------- MODULE TwoProcProofs ----------------------------
(***************************************************************************)
(* Proofs about TwoProc: a reported success always means both transfers   *)
(* were completed, whatever metadata timeouts and transfer failures       *)
(* happen.                                                                 *)
(***************************************************************************)
EXTENDS TwoProc, TLAPS

(* The inductive invariant.  Each clause ties the state of one transfer   *)
(* to the initiator's place in its sequence of steps, or to a            *)
(* notification or a target step that only a completed transfer allows.  *)
IInv ==
  /\ TypeOK
  /\ iph \in {"resolve", "get_descs", "xfer1"} =>
       xfer[1] = "NONE" /\ xfer[2] = "NONE"
  /\ iph \in {"wait1", "xfer2"} => xfer[2] = "NONE"
  /\ iph \in {"xfer2", "wait2", "returned"} => xfer[1] = "DONE"
  /\ xfer[2] # "NONE" => xfer[1] = "DONE"
  /\ xfer[2] = "PROC" => iph = "wait2"
  /\ xfer[2] = "DONE" => iph \in {"wait2", "returned"}
  /\ \A i \in Xfers : Tag(i) \in notif_net \cup notifs => xfer[i] = "DONE"
  /\ tph = "returned" => xfer[2] = "DONE"
  /\ success => tph = "returned" /\ iph = "returned"

LEMMA IInvInit == Init => IInv
BY DEF Init, IInv, TypeOK, Xfers, Tags

(* A membership test is a Boolean, which is what the initiator's single *)
(* GET of the descriptors records.                                       *)
LEMMA MembershipIsBoolean ==
  ASSUME NEW S, NEW x PROVE (x \in S) \in BOOLEAN
OBVIOUS

LEMMA IInvStep == IInv /\ [Next]_vars => IInv'
<1> SUFFICES ASSUME IInv, [Next]_vars PROVE IInv'
  OBVIOUS
<1> USE FlagsAssumption DEF IInv, TypeOK, Xfers, Tags, Tag, Exited, Ended
<1>1. CASE TgtPublishMeta \/ TgtPublishDescs
  <2>1. /\ tph \in {"pub_meta", "pub_descs"}
        /\ tph' \in {"pub_descs", "wait1"}
        /\ kv' \subseteq kv \cup {"target_meta", "target_descs"}
        /\ UNCHANGED << notifs, iph, remote_name, descs, xfer, notif_net,
                        mph, success >>
    BY <1>1 DEF TgtPublishMeta, TgtPublishDescs, InitVars
  <2>2. QED
    BY <2>1
<1>2. ASSUME NEW tag \in Tags, NEW from, NEW to,
             from \in {"wait1", "wait2"},
             to \in {"wait2", "returned"},
             to = "returned" => tag = "UUID2",
             CheckRemoteXferDone(tag, from, to),
             UNCHANGED << kv, iph, remote_name, descs, xfer, notif_net, mph,
                          success >>
      PROVE  IInv'
  <2>1. tag \in notifs /\ notifs' = notifs \ {tag} /\ tph' = to
    BY <1>2 DEF CheckRemoteXferDone
  <2>2. tag = "UUID2" => xfer[2] = "DONE"
    BY <2>1
  <2>3. notifs' \subseteq notifs /\ tph' \in {"wait2", "returned"}
    BY <1>2, <2>1
  <2>4. tph' = "returned" => xfer'[2] = "DONE"
    BY <1>2, <2>1, <2>2
  <2>5. ~success /\ ~success'
    BY <1>2 DEF CheckRemoteXferDone
  <2>6. \A i \in Xfers : Tag(i) \in notif_net' \cup notifs' => xfer'[i] = "DONE"
    BY <1>2, <2>3
  <2>7. QED
    BY <1>2, <2>3, <2>4, <2>5, <2>6
<1>3. CASE TgtWait1 \/ TgtWait2
  BY <1>2, <1>3 DEF TgtWait1, TgtWait2, InitVars
<1>4. CASE InitResolve \/ InitGetDescs
  <2>1. /\ iph \in {"resolve", "get_descs"}
        /\ iph' \in {"get_descs", "xfer1", "aborted"}
        /\ UNCHANGED << kv, tph, notifs, xfer, notif_net, mph, success >>
    BY <1>4 DEF InitResolve, InitGetDescs, TgtVars
  <2>2. CASE InitResolve
    <3>1. remote_name' \in {TRUE, remote_name} /\ descs' = descs
      BY <2>2 DEF InitResolve
    <3>2. QED
      BY <2>1, <3>1
  <2>3. CASE InitGetDescs
    <3>1. descs' = ("target_descs" \in kv) /\ remote_name' = remote_name
      BY <2>3 DEF InitGetDescs
    <3>2. descs' \in BOOLEAN
      BY <3>1, MembershipIsBoolean
    <3>3. QED
      BY <2>1, <3>1, <3>2
  <2>4. QED
    BY <1>4, <2>2, <2>3
<1>5. ASSUME NEW i \in Xfers, NEW wait,
             iph \in {"xfer1", "xfer2"},
             i = 1 <=> iph = "xfer1",
             wait = IF i = 1 THEN "wait1" ELSE "wait2",
             Post(i, wait),
             UNCHANGED << kv, tph, notifs, notif_net, mph, success >>,
             remote_name' \in BOOLEAN, descs' \in BOOLEAN
      PROVE  IInv'
  <2>1. \/ iph' = "aborted" /\ UNCHANGED xfer
        \/ iph' = "aborted" /\ xfer' = [xfer EXCEPT ![i] = "ERR"]
        \/ iph' = wait /\ xfer' = [xfer EXCEPT ![i] = "PROC"]
    BY <1>5 DEF Post
  <2>2. QED
    BY <1>5, <2>1
<1>6. CASE InitXfer1
  <2>1. CASE ~descs /\ iph' = "crashed" /\ UNCHANGED xfer
    BY <1>6, <2>1 DEF InitXfer1, TgtVars
  <2>2. CASE descs /\ Post(1, "wait1")
    BY <1>5, <1>6, <2>2 DEF InitXfer1, TgtVars
  <2>3. QED
    BY <1>6, <2>1, <2>2 DEF InitXfer1
<1>7. CASE InitXfer2
  BY <1>5, <1>7 DEF InitXfer2, TgtVars
<1>8. ASSUME NEW i \in Xfers, NEW from, NEW to,
             from = IF i = 1 THEN "wait1" ELSE "wait2",
             to = IF i = 1 THEN "xfer2" ELSE "returned",
             CheckXferState(i, from, to),
             UNCHANGED << kv, tph, notifs, remote_name, descs, xfer,
                          notif_net, mph, success >>
      PROVE  IInv'
  <2>1. iph = from /\ xfer[i] # "PROC"
        /\ iph' = IF xfer[i] = "DONE" THEN to ELSE "aborted"
    BY <1>8 DEF CheckXferState
  <2>2. QED
    BY <1>8, <2>1
<1>9. CASE InitWait1 \/ InitWait2
  BY <1>8, <1>9 DEF InitWait1, InitWait2, TgtVars
<1>10. ASSUME NEW i \in Xfers, XferDone(i) PROVE IInv'
  <2>1. /\ xfer[i] = "PROC"
        /\ xfer' = [xfer EXCEPT ![i] = "DONE"]
        /\ notif_net' = notif_net \cup {Tag(i)}
        /\ UNCHANGED << kv, tph, notifs, iph, remote_name, descs, mph,
                        success >>
    BY <1>10 DEF XferDone, TgtVars, InitVars
  <2>2. QED
    BY <2>1
<1>11. ASSUME NEW i \in Xfers, XferFail(i) PROVE IInv'
  <2>1. /\ xfer[i] = "PROC"
        /\ xfer' = [xfer EXCEPT ![i] = "ERR"]
        /\ UNCHANGED << kv, tph, notifs, iph, remote_name, descs, notif_net,
                        mph, success >>
    BY <1>11 DEF XferFail, TgtVars, InitVars
  <2>2. QED
    BY <2>1
<1>12. ASSUME NEW t \in Tags, NotifArrives(t) PROVE IInv'
  <2>1. /\ t \in notif_net
        /\ notif_net' \subseteq notif_net
        /\ notifs' = notifs \cup {t}
        /\ UNCHANGED << kv, tph, iph, remote_name, descs, xfer, mph,
                        success >>
    BY <1>12 DEF NotifArrives, InitVars
  <2>2. QED
    BY <2>1
<1>13. CASE MainJoinTarget
  <2>1. /\ mph' = "join_init"
        /\ UNCHANGED << kv, tph, notifs, iph, remote_name, descs, xfer,
                        notif_net, success >>
    BY <1>13 DEF MainJoinTarget, TgtVars, InitVars
  <2>2. QED
    BY <2>1
<1>14. CASE MainJoinInit
  <2>1. /\ mph' = "reported"
        /\ success' = (Exited(tph) /\ Exited(iph))
        /\ UNCHANGED << kv, tph, notifs, iph, remote_name, descs, xfer,
                        notif_net >>
    BY <1>14 DEF MainJoinInit, TgtVars, InitVars
  <2>2. QED
    BY <2>1
<1>15. CASE Finished \/ UNCHANGED vars
  <2>1. UNCHANGED << kv, tph, notifs, iph, remote_name, descs, xfer,
                    notif_net, mph, success >>
    BY <1>15 DEF Finished, vars
  <2>2. QED
    BY <2>1
<1>16. QED
  BY <1>1, <1>3, <1>4, <1>6, <1>7, <1>9, <1>10, <1>11, <1>12, <1>13,
     <1>14, <1>15 DEF Next

(* Type correctness of the two-process example. *)
THEOREM TypeCorrect == Spec => []TypeOK
BY IInvInit, IInvStep, PTL DEF Spec, IInv

(* For every setting of the fault flags, main reports success only after  *)
(* the engine completed both transfers and both processes returned        *)
(* normally: the target's two notification waits stand between any early  *)
(* return of the initiator and a successful report.                       *)
THEOREM SuccessOnlyAfterTransfers == Spec => []SuccessMeansTransferred
<1>1. IInv => SuccessMeansTransferred
  BY DEF IInv, SuccessMeansTransferred, Xfers
<1>2. QED
  BY <1>1, IInvInit, IInvStep, PTL DEF Spec

-----------------------------------------------------------------------------
(***************************************************************************)
(* The example implements TransferCompletions.  Completed counts the      *)
(* prefix of DONE transfers, so it is a count only because transfer 2 is  *)
(* never posted before transfer 1 is DONE (IInv); the target's waits are  *)
(* Observe steps because a UUID in its cache means that transfer is DONE  *)
(* (IInv); main's report is Report(success).  Every other step leaves the *)
(* three mapped values alone.                                              *)
(***************************************************************************)

(* Completed depends only on which transfers are DONE. *)
LEMMA CompletedFrame ==
  ASSUME xfer'[1] = "DONE" <=> xfer[1] = "DONE",
         xfer'[2] = "DONE" <=> xfer[2] = "DONE"
  PROVE  Completed' = Completed
BY DEF Completed

LEMMA RefineInit == Init => Completions!Init
BY DEF Init, Completions!Init, Completed, Observed, Verdict, Xfers

LEMMA RefineStep ==
  IInv /\ [Next]_vars => [Completions!Next]_Completions!vars
<1> SUFFICES ASSUME IInv, [Next]_vars
             PROVE  [Completions!Next]_Completions!vars
  OBVIOUS
<1> USE DEF IInv, TypeOK, Xfers
<1> DEFINE Stutter == UNCHANGED << Completed, Observed, Verdict >>
<1>0. Stutter => [Completions!Next]_Completions!vars
  BY DEF Completions!vars
<1>1. CASE TgtPublishMeta \/ TgtPublishDescs
  <2>1. /\ tph \in {"pub_meta", "pub_descs"}
        /\ tph' \in {"pub_descs", "wait1"}
        /\ UNCHANGED << xfer, mph, success >>
    BY <1>1 DEF TgtPublishMeta, TgtPublishDescs, InitVars
  <2>2. Stutter
    BY <2>1 DEF Completed, Observed, Verdict
  <2>3. QED
    BY <1>0, <2>2
<1>2. CASE TgtWait1
  <2>1. /\ tph = "wait1" /\ tph' = "wait2" /\ "UUID1" \in notifs
        /\ UNCHANGED << xfer, mph, success >>
    BY <1>2 DEF TgtWait1, CheckRemoteXferDone
  <2>2. xfer[1] = "DONE"
    BY <2>1 DEF Tag
  <2>3. Completed \in {1, 2} /\ Observed = 0 /\ Observed' = 1
    BY <2>1, <2>2 DEF Completed, Observed
  <2>4. Completed' = Completed /\ Verdict' = Verdict
    BY <2>1 DEF Completed, Verdict
  <2>5. Completions!Observe
    BY <2>3, <2>4 DEF Completions!Observe
  <2>6. QED
    BY <2>5 DEF Completions!Next
<1>3. CASE TgtWait2
  <2>1. /\ tph = "wait2" /\ tph' = "returned" /\ "UUID2" \in notifs
        /\ UNCHANGED << xfer, mph, success >>
    BY <1>3 DEF TgtWait2, CheckRemoteXferDone
  <2>2. xfer[2] = "DONE"
    BY <2>1 DEF Tag
  <2>3. Completed = 2 /\ Observed = 1 /\ Observed' = 2
    BY <2>1, <2>2 DEF Completed, Observed
  <2>4. Completed' = Completed /\ Verdict' = Verdict
    BY <2>1 DEF Completed, Verdict
  <2>5. Completions!Observe
    BY <2>3, <2>4 DEF Completions!Observe
  <2>6. QED
    BY <2>5 DEF Completions!Next
<1>4. CASE InitResolve \/ InitGetDescs \/ InitWait1 \/ InitWait2
  <2>1. UNCHANGED << tph, xfer, mph, success >>
    BY <1>4 DEF InitResolve, InitGetDescs, InitWait1, InitWait2,
                CheckXferState, TgtVars
  <2>2. Stutter
    BY <2>1 DEF Completed, Observed, Verdict
  <2>3. QED
    BY <1>0, <2>2
<1>5. CASE InitXfer1 \/ InitXfer2
  <2>1. UNCHANGED << tph, mph, success >>
    BY <1>5 DEF InitXfer1, InitXfer2, TgtVars
  <2>2. PICK i \in Xfers :
          /\ xfer[i] = "NONE"
          /\ \/ UNCHANGED xfer
             \/ xfer' = [xfer EXCEPT ![i] = "ERR"]
             \/ xfer' = [xfer EXCEPT ![i] = "PROC"]
    <3>1. CASE InitXfer1
      <4>1. xfer[1] = "NONE"
        BY <3>1 DEF InitXfer1
      <4>2. QED
        BY <3>1, <4>1 DEF InitXfer1, Post
    <3>2. CASE InitXfer2
      <4>1. xfer[2] = "NONE"
        BY <3>2 DEF InitXfer2
      <4>2. QED
        BY <3>2, <4>1 DEF InitXfer2, Post
    <3>3. QED
      BY <1>5, <3>1, <3>2
  <2>3. /\ xfer'[1] = "DONE" <=> xfer[1] = "DONE"
        /\ xfer'[2] = "DONE" <=> xfer[2] = "DONE"
    BY <2>2
  <2>4. Stutter
    BY <2>1, <2>3, CompletedFrame DEF Observed, Verdict
  <2>5. QED
    BY <1>0, <2>4
<1>6. ASSUME NEW i \in Xfers, XferDone(i)
      PROVE  [Completions!Next]_Completions!vars
  <2>1. /\ xfer[i] = "PROC"
        /\ xfer' = [xfer EXCEPT ![i] = "DONE"]
        /\ UNCHANGED << tph, mph, success >>
    BY <1>6 DEF XferDone, TgtVars, InitVars
  <2>2. Completed' = Completed + 1 /\ Completed < 2
    <3>1. CASE i = 1
      <4>1. xfer[2] = "NONE"
        BY <2>1, <3>1
      <4>2. QED
        BY <2>1, <3>1, <4>1 DEF Completed
    <3>2. CASE i = 2
      <4>1. xfer[1] = "DONE"
        BY <2>1, <3>2
      <4>2. QED
        BY <2>1, <3>2, <4>1 DEF Completed
    <3>3. QED
      BY <3>1, <3>2
  <2>3. UNCHANGED << Observed, Verdict >>
    BY <2>1 DEF Observed, Verdict
  <2>4. Completions!Complete
    BY <2>2, <2>3 DEF Completions!Complete
  <2>5. QED
    BY <2>4 DEF Completions!Next
<1>7. ASSUME NEW i \in Xfers, XferFail(i)
      PROVE  [Completions!Next]_Completions!vars
  <2>1. /\ xfer[i] = "PROC"
        /\ xfer' = [xfer EXCEPT ![i] = "ERR"]
        /\ UNCHANGED << tph, mph, success >>
    BY <1>7 DEF XferFail, TgtVars, InitVars
  <2>2. /\ xfer'[1] = "DONE" <=> xfer[1] = "DONE"
        /\ xfer'[2] = "DONE" <=> xfer[2] = "DONE"
    BY <2>1
  <2>3. Stutter
    BY <2>1, <2>2, CompletedFrame DEF Observed, Verdict
  <2>4. QED
    BY <1>0, <2>3
<1>8. CASE \E t \in Tags : NotifArrives(t)
  <2>1. UNCHANGED << tph, xfer, mph, success >>
    BY <1>8 DEF NotifArrives
  <2>2. Stutter
    BY <2>1 DEF Completed, Observed, Verdict
  <2>3. QED
    BY <1>0, <2>2
<1>9. CASE MainJoinTarget
  <2>1. mph = "join_target" /\ mph' = "join_init"
        /\ UNCHANGED << tph, xfer >>
    BY <1>9 DEF MainJoinTarget, TgtVars
  <2>2. Stutter
    BY <2>1 DEF Completed, Observed, Verdict
  <2>3. QED
    BY <1>0, <2>2
<1>10. CASE MainJoinInit
  <2>1. /\ mph = "join_init" /\ mph' = "reported"
        /\ success' = (Exited(tph) /\ Exited(iph))
        /\ UNCHANGED << tph, xfer >>
    BY <1>10 DEF MainJoinInit, TgtVars
  <2>2. success' => tph = "returned"
    BY <2>1 DEF Exited
  <2>3. /\ Verdict = "none"
        /\ success' => Observed = 2
        /\ Verdict' = IF success' THEN "success" ELSE "failure"
        /\ UNCHANGED << Completed, Observed >>
    BY <2>1, <2>2 DEF Verdict, Observed, Completed
  <2>4. success' \in BOOLEAN
    BY <2>1
  <2>5. Completions!Report(success')
    BY <2>3 DEF Completions!Report
  <2>6. QED
    BY <2>4, <2>5 DEF Completions!Next
<1>11. CASE Finished \/ UNCHANGED vars
  <2>1. UNCHANGED << tph, xfer, mph, success >>
    BY <1>11 DEF Finished, vars
  <2>2. Stutter
    BY <2>1 DEF Completed, Observed, Verdict
  <2>3. QED
    BY <1>0, <2>2
<1>12. QED
  BY <1>1, <1>2, <1>3, <1>4, <1>5, <1>6, <1>7, <1>8, <1>9, <1>10, <1>11
  DEF Next

(* For every setting of the fault flags, the two-process example          *)
(* implements TransferCompletions: the engine completes transfer 2 only   *)
(* after transfer 1, the target's check_remote_xfer_done loops end only   *)
(* for completed transfers and in order, and main reports success only    *)
(* after the target has seen both completions.                            *)
THEOREM Refinement == Spec => ImplementsTransferCompletions
<1>1. []IInv /\ [][Next]_vars => [][Completions!Next]_Completions!vars
  BY RefineStep, PTL
<1>2. QED
  BY <1>1, RefineInit, IInvInit, IInvStep, PTL
  DEF Spec, ImplementsTransferCompletions, Completions!Spec

=============================================================================

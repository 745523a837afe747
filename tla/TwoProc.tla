------------------------------- MODULE TwoProc -------------------------------
(***************************************************************************)
(* examples/python/2proc/nixl_api_2proc.py in TCP mode: the target         *)
(* publishes its metadata and its transfer descriptors on the key/value    *)
(* server and then waits for the initiator's two transfers to be reported  *)
(* done; the initiator polls for the target's metadata, reads the          *)
(* descriptors with one GET, runs a READ (UUID1) and then a WRITE (UUID2), *)
(* polling each until DONE or ERR; the main process joins the target, then *)
(* the initiator, and reports from their exit codes.                       *)
(*                                                                         *)
(* Server requests are atomic (MetadataHandler holds _lock); TcpExchange   *)
(* models them as separate request and reply steps.  The transfer engine   *)
(* and the notification path are modelled at their interface: a transfer   *)
(* in flight completes with DONE, sending its UUID notification to the     *)
(* target, or with ERR.                                                    *)
(***************************************************************************)
EXTENDS Naturals

CONSTANTS
  MetadataCanTimeOut,  \* may retrieve_agent_metadata's 10 s poll give up?
  XferCanFail          \* may the engine refuse or fail a transfer?

ASSUME FlagsAssumption ==
  MetadataCanTimeOut \in BOOLEAN /\ XferCanFail \in BOOLEAN

Xfers == {1, 2}
Tag(i) == IF i = 1 THEN "UUID1" ELSE "UUID2"
Tags == {"UUID1", "UUID2"}

VARIABLES
  kv,           \* keys held by the TCP server
  tph,          \* target phase
  iph,          \* initiator phase
  remote_name,  \* initiator: remote_name is not None
  descs,        \* initiator: target_xfer_descs is not None
  xfer,         \* engine: state of xfer_handle_1 and xfer_handle_2
  notif_net,    \* UUID notifications sent to the target, not yet arrived
  notifs,       \* target agent's cache of arrived, unconsumed notifications
  mph,          \* main: "join_target", "join_init" or "reported"
  success       \* main: both exit codes are 0

vars == << kv, tph, iph, remote_name, descs, xfer, notif_net, notifs, mph,
           success >>

TgtVars == << tph, notifs >>
InitVars == << iph, remote_name, descs >>

\* the process function has returned: exit code 0
Exited(ph) == ph \in {"returned", "aborted"}

\* the process is no longer alive: returned, or died of an exception
Ended(ph) == ph \in {"returned", "aborted", "crashed"}

TypeOK ==
  /\ kv \subseteq {"target_meta", "target_descs"}
  /\ tph \in {"pub_meta", "pub_descs", "wait1", "wait2", "returned"}
  /\ iph \in {"resolve", "get_descs", "xfer1", "wait1", "xfer2", "wait2",
              "returned", "aborted", "crashed"}
  /\ remote_name \in BOOLEAN
  /\ descs \in BOOLEAN
  /\ xfer \in [Xfers -> {"NONE", "PROC", "DONE", "ERR"}]
  /\ notif_net \subseteq Tags
  /\ notifs \subseteq Tags
  /\ mph \in {"join_target", "join_init", "reported"}
  /\ success \in BOOLEAN

\* lines 331-340: the server's store is cleared, then both processes start
Init ==
  /\ kv = {}
  /\ tph = "pub_meta"
  /\ iph = "resolve"
  /\ remote_name = FALSE
  /\ descs = FALSE
  /\ xfer = [i \in Xfers |-> "NONE"]
  /\ notif_net = {}
  /\ notifs = {}
  /\ mph = "join_target"
  /\ success = FALSE

-----------------------------------------------------------------------------
(* Target, lines 117-118: publish_agent_metadata, then publish_descriptors, *)
(* each one SET on the server.                                             *)
TgtPublishMeta ==
  /\ tph = "pub_meta"
  /\ kv' = kv \cup {"target_meta"}
  /\ tph' = "pub_descs"
  /\ UNCHANGED << notifs, InitVars, xfer, notif_net, mph, success >>

TgtPublishDescs ==
  /\ tph = "pub_descs"
  /\ kv' = kv \cup {"target_descs"}
  /\ tph' = "wait1"
  /\ UNCHANGED << notifs, InitVars, xfer, notif_net, mph, success >>

(* Seeded fault, used as a mutant: the wait drains the whole cache, as    *)
(* get_new_notifs() does, instead of taking out the one message.          *)
CheckRemoteXferDoneDrainAll(tag, from, to) ==
  /\ tph = from
  /\ tag \in notifs
  /\ notifs' = {}
  /\ tph' = to

(* check_remote_xfer_done("initiator", tag): true, and the message taken   *)
(* out of the agent's cache, once a notification carrying tag has arrived; *)
(* the loop around it spins with no timeout.                               *)
CheckRemoteXferDone(tag, from, to) ==
  /\ tph = from
  /\ tag \in notifs
  /\ notifs' = notifs \ {tag}
  /\ tph' = to

\* Seeded fault, used as a mutant: the second wait is left out.
TgtWait1SkipsSecond ==
  /\ CheckRemoteXferDone("UUID1", "wait1", "returned")
  /\ UNCHANGED << kv, InitVars, xfer, notif_net, mph, success >>

\* lines 125-127: wait for transfer 1
TgtWait1 ==
  /\ CheckRemoteXferDone("UUID1", "wait1", "wait2")
  /\ UNCHANGED << kv, InitVars, xfer, notif_net, mph, success >>

\* lines 130-137: wait for transfer 2, deregister, free and return
TgtWait2 ==
  /\ CheckRemoteXferDone("UUID2", "wait2", "returned")
  /\ UNCHANGED << kv, InitVars, xfer, notif_net, mph, success >>

-----------------------------------------------------------------------------
(* Initiator, lines 203-209.  retrieve_agent_metadata polls GET every      *)
(* 100 ms until the key is there (remote_name) or 10 s have passed (None); *)
(* retrieve_descriptors is one GET; `if not remote_name: return`.          *)
InitResolve ==
  /\ iph = "resolve"
  /\ \/ "target_meta" \in kv /\ remote_name' = TRUE
     \/ MetadataCanTimeOut /\ "target_meta" \notin kv
        /\ UNCHANGED remote_name
  /\ iph' = "get_descs"
  /\ UNCHANGED << kv, TgtVars, descs, xfer, notif_net, mph, success >>

InitGetDescs ==
  /\ iph = "get_descs"
  /\ descs' = ("target_descs" \in kv)
  /\ iph' = IF remote_name THEN "xfer1" ELSE "aborted"
  /\ UNCHANGED << kv, TgtVars, remote_name, xfer, notif_net, mph, success >>

(* Posting transfer i: creating the handle may fail (`if not handle:       *)
(* return`), transfer() may answer "ERR" (return), else it is in flight.   *)
Post(i, wait) ==
  \/ XferCanFail /\ iph' = "aborted" /\ UNCHANGED xfer
  \/ XferCanFail /\ iph' = "aborted" /\ xfer' = [xfer EXCEPT ![i] = "ERR"]
  \/ iph' = wait /\ xfer' = [xfer EXCEPT ![i] = "PROC"]

(* Lines 213-224: initialize_xfer("READ", ..., target_xfer_descs, ...)     *)
(* raises when the descriptors are None, and the process dies (exit 1).    *)
InitXfer1 ==
  /\ iph = "xfer1"
  /\ \/ ~descs /\ iph' = "crashed" /\ UNCHANGED xfer
     \/ descs /\ Post(1, "wait1")
  /\ UNCHANGED << kv, TgtVars, remote_name, descs, notif_net, mph, success >>

(* Seeded fault, used as a mutant: the poll loop only looks for "ERR" and  *)
(* goes on while the transfer is still "PROC".                            *)
CheckXferStateErrOnly(i, from, to) ==
  /\ iph = from
  /\ iph' = IF xfer[i] = "ERR" THEN "aborted" ELSE to

(* Lines 227-236 and 263-272: check_xfer_state until "DONE" (go on) or     *)
(* "ERR" (return); "PROC" spins.                                           *)
CheckXferState(i, from, to) ==
  /\ iph = from
  /\ xfer[i] # "PROC"
  /\ iph' = IF xfer[i] = "DONE" THEN to ELSE "aborted"

InitWait1 ==
  /\ CheckXferState(1, "wait1", "xfer2")
  /\ UNCHANGED << kv, TgtVars, remote_name, descs, xfer, notif_net, mph,
                  success >>

\* lines 240-260: prep_xfer_dlist twice, make_prepped_xfer("WRITE"), transfer
InitXfer2 ==
  /\ iph = "xfer2"
  /\ Post(2, "wait2")
  /\ UNCHANGED << kv, TgtVars, remote_name, descs, notif_net, mph, success >>

\* lines 263-283: wait for transfer 2, release everything and return
InitWait2 ==
  /\ CheckXferState(2, "wait2", "returned")
  /\ UNCHANGED << kv, TgtVars, remote_name, descs, xfer, notif_net, mph,
                  success >>

-----------------------------------------------------------------------------
(* Engine: a transfer in flight completes, and its notification is sent    *)
(* to the target; or it fails, and no notification is sent.  A sent       *)
(* notification arrives in the target agent's cache later, possibly more   *)
(* than once (the substrate is at-least-once).                             *)
XferDone(i) ==
  /\ xfer[i] = "PROC"
  /\ xfer' = [xfer EXCEPT ![i] = "DONE"]
  /\ notif_net' = notif_net \cup {Tag(i)}
  /\ UNCHANGED << kv, TgtVars, InitVars, mph, success >>

XferFail(i) ==
  /\ XferCanFail
  /\ xfer[i] = "PROC"
  /\ xfer' = [xfer EXCEPT ![i] = "ERR"]
  /\ UNCHANGED << kv, TgtVars, InitVars, notif_net, mph, success >>

NotifArrives(t) ==
  /\ t \in notif_net
  /\ \/ notif_net' = notif_net \ {t}
     \/ UNCHANGED notif_net
  /\ notifs' = notifs \cup {t}
  /\ UNCHANGED << kv, tph, InitVars, xfer, mph, success >>

-----------------------------------------------------------------------------
(* Main, lines 343-349: target_proc.join(), then initiator_proc.join(),    *)
(* both without a timeout; then the exit codes are compared with 0.        *)
MainJoinTarget ==
  /\ mph = "join_target"
  /\ Ended(tph)
  /\ mph' = "join_init"
  /\ UNCHANGED << kv, TgtVars, InitVars, xfer, notif_net, success >>

MainJoinInit ==
  /\ mph = "join_init"
  /\ Ended(iph)
  /\ mph' = "reported"
  /\ success' = (Exited(tph) /\ Exited(iph))
  /\ UNCHANGED << kv, TgtVars, InitVars, xfer, notif_net >>

\* The main process has reported and exits: nothing else happens.
Finished ==
  /\ mph = "reported"
  /\ UNCHANGED vars

Next ==
  \/ TgtPublishMeta \/ TgtPublishDescs \/ TgtWait1 \/ TgtWait2
  \/ InitResolve \/ InitGetDescs \/ InitXfer1 \/ InitWait1
  \/ InitXfer2 \/ InitWait2
  \/ \E i \in Xfers : XferDone(i) \/ XferFail(i)
  \/ \E t \in Tags : NotifArrives(t)
  \/ MainJoinTarget \/ MainJoinInit
  \/ Finished

(* Both processes busy-poll, so each keeps taking the steps it can take;   *)
(* the engine resolves every posted transfer and the notification of a     *)
(* completed one reaches the target; main's join returns once the process  *)
(* has ended.  Failures and timeouts are possible but never forced.        *)
Fairness ==
  /\ WF_vars(TgtPublishMeta) /\ WF_vars(TgtPublishDescs)
  /\ WF_vars(TgtWait1) /\ WF_vars(TgtWait2)
  /\ WF_vars(InitResolve) /\ WF_vars(InitGetDescs) /\ WF_vars(InitXfer1)
  /\ WF_vars(InitWait1) /\ WF_vars(InitXfer2) /\ WF_vars(InitWait2)
  /\ \A i \in Xfers : WF_vars(XferDone(i) \/ XferFail(i))
  /\ \A t \in Tags : WF_vars(NotifArrives(t))
  /\ WF_vars(MainJoinTarget) /\ WF_vars(MainJoinInit)

Spec == Init /\ [][Next]_vars

FairSpec == Spec /\ Fairness

-----------------------------------------------------------------------------
(* The main process prints "Both processes succeeded" only when both       *)
(* transfers were completed by the engine and the target saw both          *)
(* completion notifications: an initiator that gives up early (a refused   *)
(* or failed transfer returns with exit code 0) never makes a run look     *)
(* successful.                                                             *)
SuccessMeansTransferred ==
  success =>
    /\ \A i \in Xfers : xfer[i] = "DONE"
    /\ tph = "returned"
    /\ iph = "returned"

(* Once the initiator has returned after both transfers, the target sees   *)
(* both notifications and main reports success: no notification is        *)
(* consumed by the wrong wait.                                             *)
InitiatorDoneLeadsToSuccess ==
  iph = "returned" ~> (mph = "reported" /\ success)

(* The example always ends with a report (spec 7: failures are surfaced,  *)
(* never silently swallowed): main's joins return and it prints success   *)
(* or "Process error".                                                    *)
ExampleTerminates ==
  <>(mph = "reported")

-----------------------------------------------------------------------------
(***************************************************************************)
(* Refinement of TransferCompletions.  The engine's completions are the   *)
(* prefix of transfers that are DONE; the target's observations are its   *)
(* progress through its two check_remote_xfer_done loops; the verdict is  *)
(* main's report.                                                          *)
(***************************************************************************)
Completed == IF xfer[2] = "DONE" THEN 2 ELSE IF xfer[1] = "DONE" THEN 1 ELSE 0

Observed == IF tph = "returned" THEN 2 ELSE IF tph = "wait2" THEN 1 ELSE 0

Verdict == IF mph # "reported" THEN "none"
           ELSE IF success THEN "success" ELSE "failure"

Completions == INSTANCE TransferCompletions
                 WITH NUM_XFERS <- 2, completed <- Completed,
                      observed <- Observed, verdict <- Verdict

(* The example implements TransferCompletions: transfer 2 completes only  *)
(* after transfer 1, the target leaves each wait only for a transfer the  *)
(* engine has completed, in order, and main reports success only after    *)
(* the target has seen both; failures and timeouts are stutters.          *)
ImplementsTransferCompletions == Completions!Spec

=============================================================================

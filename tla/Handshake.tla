------------------------------ MODULE Handshake ------------------------------
(***************************************************************************)
(* The etcd-mode start-up of examples/python/send_recv/                    *)
(* nixl_sender_receiver.py (the same code is in 2proc/nixl_api_2proc.py    *)
(* with target for receiver and initiator for sender): each process        *)
(* publishes its agent metadata, waits (with a timeout) until the peer's   *)
(* metadata is loaded, then the READY / DESCS exchange over notifications  *)
(* runs, and run_test joins both processes and reports success from their  *)
(* exit codes.  The streaming pipeline itself is RingPipeline; here it is  *)
(* one joint step that both connected processes take.                     *)
(***************************************************************************)
EXTENDS Naturals

CONSTANTS
  READY_EVERY,         \* the sender sends READY when ready_count % 5 == 0
  DRAINS,              \* get_new_notifs() calls per sender iteration (3)
  LossyMsgs,           \* notifications the substrate may drop
  MetadataCanTimeOut,  \* may retrieve_agent_metadata give up (10 s)?
  JoinCanTimeOut       \* may join(timeout=15) return before a process exits?

Peers == {"snd", "rcv"}
Msgs == {"READY", "DESCS"}

ASSUME ReadyEveryAssumption == READY_EVERY \in Nat \ {0}
ASSUME DrainsAssumption == DRAINS \in Nat \ {0}
ASSUME LossyAssumption == LossyMsgs \subseteq Msgs
ASSUME FlagsAssumption ==
  MetadataCanTimeOut \in BOOLEAN /\ JoinCanTimeOut \in BOOLEAN

VARIABLES
  sph,          \* sender phase
  rph,          \* receiver phase
  published,    \* published[p]: p's metadata is in etcd
  loaded,       \* loaded[p]: check_remote_metadata(peer) is true at p
  ready_count,  \* sender: ready_count % READY_EVERY
  sdrain,       \* sender: 0 at the loop head, i = the i-th drain next
  net,          \* net[p]: notifications in flight to p
  inbox,        \* inbox[p]: notifications arrived at p, not yet drained
  descs_sent,   \* receiver has sent "DESCS:..."
  mph,          \* run_test: "running" or "joined"
  success       \* run_test's success flag

vars == << sph, rph, published, loaded, ready_count, sdrain, net, inbox,
           descs_sent, mph, success >>

Peer(p) == IF p = "snd" THEN "rcv" ELSE "snd"

\* a process has returned from its function: exit code 0
Exited(ph) == ph \in {"returned", "aborted"}

TypeOK ==
  /\ sph \in {"publish", "resolve", "descs_loop", "stream", "returned",
              "aborted", "killed"}
  /\ rph \in {"publish", "resolve", "ready_loop", "stream", "returned",
              "aborted", "killed"}
  /\ published \in [Peers -> BOOLEAN]
  /\ loaded \in [Peers -> BOOLEAN]
  /\ ready_count \in 0 .. READY_EVERY - 1
  /\ sdrain \in 0 .. DRAINS
  /\ net \in [Peers -> SUBSET Msgs]
  /\ inbox \in [Peers -> SUBSET Msgs]
  /\ descs_sent \in BOOLEAN
  /\ mph \in {"running", "joined"}
  /\ success \in BOOLEAN

Init ==
  /\ sph = "publish"
  /\ rph = "publish"
  /\ published = [p \in Peers |-> FALSE]
  /\ loaded = [p \in Peers |-> FALSE]
  /\ ready_count = 0
  /\ sdrain = 0
  /\ net = [p \in Peers |-> {}]
  /\ inbox = [p \in Peers |-> {}]
  /\ descs_sent = FALSE
  /\ mph = "running"
  /\ success = FALSE

\* Seeded faults, used as mutants.
SndLoopHeadSaturating ==
  /\ sph = "descs_loop"
  /\ sdrain = 0
  /\ net' = IF ready_count = 0 THEN [net EXCEPT !["rcv"] = @ \cup {"READY"}]
                               ELSE net
  /\ ready_count' = IF ready_count + 1 < READY_EVERY THEN ready_count + 1
                                                   ELSE ready_count
  /\ sdrain' = 1
  /\ UNCHANGED << sph, rph, published, loaded, inbox, descs_sent, mph,
                  success >>

SndDrainLastUnchecked ==
  /\ sph = "descs_loop"
  /\ sdrain \in 1 .. DRAINS
  /\ inbox' = [inbox EXCEPT !["snd"] = {}]
  /\ IF "DESCS" \in inbox["snd"] /\ sdrain < DRAINS
       THEN sph' = "stream" /\ sdrain' = 0
       ELSE sph' = sph /\ sdrain' = (sdrain + 1) % (DRAINS + 1)
  /\ UNCHANGED << rph, published, loaded, ready_count, net, descs_sent, mph,
                  success >>

SndDrainNoWrap ==
  /\ sph = "descs_loop"
  /\ sdrain \in 1 .. DRAINS
  /\ inbox' = [inbox EXCEPT !["snd"] = {}]
  /\ IF "DESCS" \in inbox["snd"]
       THEN sph' = "stream" /\ sdrain' = 0
       ELSE sph' = sph /\ sdrain' = sdrain + 1
  /\ UNCHANGED << rph, published, loaded, ready_count, net, descs_sent, mph,
                  success >>

-----------------------------------------------------------------------------
(* Metadata resolution, both processes.  publish_agent_metadata puts the   *)
(* metadata in etcd; retrieve_agent_metadata issues fetch_remote_metadata  *)
(* and polls check_remote_metadata until it holds or 10 s pass, in which   *)
(* case the process logs an error and returns (exit code 0).               *)
\* etcd delivers the peer's metadata to p's agent
MetadataArrives(p) ==
  /\ published[Peer(p)]
  /\ ~loaded[p]
  /\ loaded' = [loaded EXCEPT ![p] = TRUE]
  /\ UNCHANGED << sph, rph, published, ready_count, sdrain, net, inbox,
                  descs_sent, mph, success >>

SndPublish ==
  /\ sph = "publish"
  /\ published' = [published EXCEPT !["snd"] = TRUE]
  /\ sph' = "resolve"
  /\ UNCHANGED << rph, loaded, ready_count, sdrain, net, inbox, descs_sent,
                  mph, success >>

RcvPublish ==
  /\ rph = "publish"
  /\ published' = [published EXCEPT !["rcv"] = TRUE]
  /\ rph' = "resolve"
  /\ UNCHANGED << sph, loaded, ready_count, sdrain, net, inbox, descs_sent,
                  mph, success >>

SndResolve ==
  /\ sph = "resolve"
  /\ \/ loaded["snd"] /\ sph' = "descs_loop"
     \/ MetadataCanTimeOut /\ ~loaded["snd"] /\ sph' = "aborted"
  /\ UNCHANGED << rph, published, loaded, ready_count, sdrain, net, inbox,
                  descs_sent, mph, success >>

RcvResolve ==
  /\ rph = "resolve"
  /\ \/ loaded["rcv"] /\ rph' = "ready_loop"
     \/ MetadataCanTimeOut /\ ~loaded["rcv"] /\ rph' = "aborted"
  /\ UNCHANGED << sph, published, loaded, ready_count, sdrain, net, inbox,
                  descs_sent, mph, success >>

-----------------------------------------------------------------------------
(* Sender: while receiver_buffers_descs is None: send READY when           *)
(* ready_count % 5 == 0, ready_count += 1, then up to three                *)
(* get_new_notifs() calls, each scanning every drained message for         *)
(* "DESCS:", then a 10 ms sleep.  There is no timeout.                     *)
SndLoopHead ==
  /\ sph = "descs_loop"
  /\ sdrain = 0
  /\ net' = IF ready_count = 0 THEN [net EXCEPT !["rcv"] = @ \cup {"READY"}]
                               ELSE net
  /\ ready_count' = (ready_count + 1) % READY_EVERY
  /\ sdrain' = 1
  /\ UNCHANGED << sph, rph, published, loaded, inbox, descs_sent, mph,
                  success >>

SndDrain ==
  /\ sph = "descs_loop"
  /\ sdrain \in 1 .. DRAINS
  /\ inbox' = [inbox EXCEPT !["snd"] = {}]
  /\ IF "DESCS" \in inbox["snd"]
       THEN sph' = "stream" /\ sdrain' = 0
       ELSE sph' = sph /\ sdrain' = (sdrain + 1) % (DRAINS + 1)
  /\ UNCHANGED << rph, published, loaded, ready_count, net, descs_sent, mph,
                  success >>

(* Receiver: while not got_ready: send READY, get_new_notifs(); once a     *)
(* READY from the sender is among them, send "DESCS:" once and go on.      *)
RcvReadyLoop ==
  /\ rph = "ready_loop"
  /\ inbox' = [inbox EXCEPT !["rcv"] = {}]
  /\ IF "READY" \in inbox["rcv"]
       THEN /\ net' = [net EXCEPT !["snd"] = @ \cup {"READY", "DESCS"}]
            /\ descs_sent' = TRUE
            /\ rph' = "stream"
       ELSE /\ net' = [net EXCEPT !["snd"] = @ \cup {"READY"}]
            /\ UNCHANGED << descs_sent, rph >>
  /\ UNCHANGED << sph, published, loaded, ready_count, sdrain, mph, success >>

\* Both main loops run to completion (RingPipeline) and both return.
PipelineRun ==
  /\ sph = "stream"
  /\ rph = "stream"
  /\ sph' = "returned"
  /\ rph' = "returned"
  /\ UNCHANGED << published, loaded, ready_count, sdrain, net, inbox,
                  descs_sent, mph, success >>

-----------------------------------------------------------------------------
(* Notification substrate: at-least-once (a delivered message may stay in  *)
(* flight and arrive again), unordered, and lossy for LossyMsgs.           *)
Deliver(p, m) ==
  /\ m \in net[p]
  /\ inbox' = [inbox EXCEPT ![p] = @ \cup {m}]
  /\ \/ net' = [net EXCEPT ![p] = @ \ {m}]
     \/ UNCHANGED net
  /\ UNCHANGED << sph, rph, published, loaded, ready_count, sdrain,
                  descs_sent, mph, success >>

Lose(p, m) ==
  /\ m \in LossyMsgs
  /\ m \in net[p]
  /\ net' = [net EXCEPT ![p] = @ \ {m}]
  /\ UNCHANGED << sph, rph, published, loaded, ready_count, sdrain, inbox,
                  descs_sent, mph, success >>

-----------------------------------------------------------------------------
(* run_test: join(timeout=15) on both processes, success = both exit codes *)
(* are 0, and a process still alive is terminated.                         *)
RunTestJoin ==
  /\ mph = "running"
  /\ (Exited(sph) /\ Exited(rph)) \/ JoinCanTimeOut
  /\ mph' = "joined"
  /\ success' = (Exited(sph) /\ Exited(rph))
  /\ sph' = IF Exited(sph) THEN sph ELSE "killed"
  /\ rph' = IF Exited(rph) THEN rph ELSE "killed"
  /\ UNCHANGED << published, loaded, ready_count, sdrain, net, inbox,
                  descs_sent >>

\* run_test has returned: nothing else happens.
Finished ==
  /\ mph = "joined"
  /\ UNCHANGED vars

Next ==
  \/ SndPublish \/ RcvPublish
  \/ \E p \in Peers : MetadataArrives(p)
  \/ SndResolve \/ RcvResolve
  \/ SndLoopHead \/ SndDrain \/ RcvReadyLoop \/ PipelineRun
  \/ \E p \in Peers, m \in Msgs : Deliver(p, m) \/ Lose(p, m)
  \/ RunTestJoin
  \/ Finished

(* Every process keeps polling, etcd eventually serves published metadata, *)
(* and a notification that is sent again and again is eventually           *)
(* delivered (strong fairness: a lossy but not hostile substrate).          *)
Fairness ==
  /\ WF_vars(SndPublish) /\ WF_vars(RcvPublish)
  /\ WF_vars(SndResolve) /\ WF_vars(RcvResolve)
  /\ \A p \in Peers : WF_vars(MetadataArrives(p))
  /\ WF_vars(SndLoopHead) /\ WF_vars(SndDrain) /\ WF_vars(RcvReadyLoop)
  /\ WF_vars(PipelineRun)
  /\ \A p \in Peers, m \in Msgs : SF_vars(Deliver(p, m))
  /\ WF_vars(RunTestJoin)

Spec == Init /\ [][Next]_vars

FairSpec == Spec /\ Fairness

-----------------------------------------------------------------------------
(* The DESCS notification is never thrown away unread (spec 4.2, "the peer *)
(* is parked waiting for it"): once the receiver has sent it and until the *)
(* sender leaves its DESCS loop, it is in flight or waiting in the         *)
(* sender's queue, so no get_new_notifs() of the sender drains it without  *)
(* taking it.                                                              *)
DescsNotDrainedUnread ==
  descs_sent /\ sph \in {"publish", "resolve", "descs_loop"} =>
    "DESCS" \in net["snd"] \cup inbox["snd"]

(* A run in which no metadata retrieval and no join times out ends with    *)
(* run_test reporting success (spec 4.2: the handshake tolerates loss and  *)
(* delay of notifications).                                                *)
SuccessReported == <>success

(* Once both processes are past metadata resolution and in their READY    *)
(* loops, run_test ends up reporting success, whatever READY messages are *)
(* lost or duplicated and even where metadata retrieval may time out      *)
(* (spec 4.2: whoever needs the data retries until satisfied, whoever has *)
(* it sends once it sees proof of liveness).                              *)
ExchangeStarted == sph = "descs_loop" /\ rph = "ready_loop"

HandshakeCompletes == ExchangeStarted ~> success

(* run_test reports success only when both processes ran their main loops  *)
(* to the end (a failed start-up is fatal, spec 7).                        *)
SuccessMeansStreamed ==
  success => sph = "returned" /\ rph = "returned"

=============================================================================

---------------------------- MODULE RingPipeline ----------------------------
(***************************************************************************)
(* The streaming ring pipeline of examples/python/send_recv/               *)
(* nixl_sender_receiver.py: sender_process' main loop and final drain,     *)
(* receiver_process' main loop, the transfer engine that completes the     *)
(* pre-built per-slot WRITE handles, and the notification substrate that   *)
(* carries the receiver's "P:<count>" progress messages to the sender.     *)
(*                                                                         *)
(* Data is abstracted to the 8-byte sequence header of every slot: the     *)
(* payload bytes are not modelled.  A transfer copies the sender's header  *)
(* of its slot into the receiver's header of the same slot when it lands.  *)
(***************************************************************************)
EXTENDS Integers

CONSTANTS
  NUM_BUFFERS,              \* ring size N
  NUM_TRANSFERS,            \* transfers T of one run
  BACKPRESSURE_THRESHOLD,   \* K: the sender waits when K ahead of progress
  PROGRESS_UPDATE_INTERVAL, \* P: receiver reports every P-th transfer
  Sentinel,                 \* header 0xFFFFFFFFFFFFFFFF: "no transfer here"
  Garbage,                  \* contents of freshly malloc'ed sender memory
  XferCanFail,              \* may the engine report "ERR" for a transfer?
  NotifCanBeLost            \* may the substrate drop a notification?

ASSUME NumBuffersAssumption == NUM_BUFFERS \in Nat \ {0}
ASSUME NumTransfersAssumption == NUM_TRANSFERS \in Nat
ASSUME ThresholdAssumption == BACKPRESSURE_THRESHOLD \in Int
ASSUME IntervalAssumption == PROGRESS_UPDATE_INTERVAL \in Nat \ {0}
ASSUME SentinelAssumption == Sentinel \notin Nat
ASSUME GarbageAssumption == Garbage \notin Nat
ASSUME FlagsAssumption == XferCanFail \in BOOLEAN /\ NotifCanBeLost \in BOOLEAN

VARIABLES
  transfers_sent,       \* sender: transfers issued so far
  receiver_progress,    \* sender: largest P:<count> it has read
  spc,                  \* sender: program counter
  send_hdr,             \* sender memory: header word of each slot
  xfer,                 \* engine: state of buffer_xfer_handles[slot]
  net,                  \* progress values sent and not yet arrived
  mailbox,              \* largest progress value arrived, not drained
  recv_hdr,             \* receiver memory: header word of each slot
  transfers_received,   \* receiver: transfers accepted so far
  sequence_mismatches,  \* receiver: counted header mismatches
  rpc                   \* receiver: program counter

vars == << transfers_sent, receiver_progress, spc, send_hdr, xfer,
           net, mailbox, recv_hdr, transfers_received, sequence_mismatches,
           rpc >>

Slots == 0 .. NUM_BUFFERS - 1
SeqNums == 0 .. NUM_TRANSFERS - 1
Counts == 0 .. NUM_TRANSFERS
XferStates == {"NONE", "PROC", "DONE", "ERR"}
SenderPCs == {"loop", "wait_slot", "write_header", "transfer",
              "drain_inflight", "done"}

\* buffer_idx of the sender's and of the receiver's current iteration
SendSlot == transfers_sent % NUM_BUFFERS
RecvSlot == transfers_received % NUM_BUFFERS

\* the variables each process alone writes
SenderVars == << transfers_sent, receiver_progress, spc, send_hdr >>
ReceiverVars == << transfers_received, sequence_mismatches, rpc >>
RecvSide == << recv_hdr, ReceiverVars >>

TypeOK ==
  /\ transfers_sent \in Counts
  /\ receiver_progress \in Counts
  /\ spc \in SenderPCs
  /\ send_hdr \in [Slots -> SeqNums \cup {Garbage}]
  /\ xfer \in [Slots -> XferStates]
  /\ net \subseteq Counts
  /\ mailbox \in Counts
  /\ recv_hdr \in [Slots -> SeqNums \cup {Sentinel}]
  /\ transfers_received \in Counts
  /\ sequence_mismatches \in Nat
  /\ rpc \in {"poll", "done"}

(* Lines 104-107 and 324-325: all receiver headers start at the sentinel, *)
(* no handle has been used, both counters are 0.                          *)
Init ==
  /\ transfers_sent = 0
  /\ receiver_progress = 0
  /\ spc = "loop"
  /\ send_hdr = [s \in Slots |-> Garbage]
  /\ xfer = [s \in Slots |-> "NONE"]
  /\ net = {}
  /\ mailbox = 0
  /\ recv_hdr = [s \in Slots |-> Sentinel]
  /\ transfers_received = 0
  /\ sequence_mismatches = 0
  /\ rpc = "poll"

-----------------------------------------------------------------------------
(***************************************************************************)
(* Seeded faults: plausible slips in the code below, each of which one of  *)
(* the properties must catch.                                              *)
(***************************************************************************)

\* the for-loop keeps the last count instead of the largest
TakeProgressLast(progress, msg) == msg

\* the loop bound tested with <= (one transfer too many)
SndNoBackpressureOffByOne ==
  /\ spc = "loop"
  /\ transfers_sent <= NUM_TRANSFERS
  /\ transfers_sent - receiver_progress < BACKPRESSURE_THRESHOLD
  /\ spc' = "wait_slot"
  /\ UNCHANGED << RecvSide, transfers_sent, receiver_progress, send_hdr, xfer,
                  net, mailbox >>

\* the backpressure gate tested with <= instead of <
SndNoBackpressureLax ==
  /\ spc = "loop"
  /\ transfers_sent < NUM_TRANSFERS
  /\ transfers_sent - receiver_progress <= BACKPRESSURE_THRESHOLD
  /\ spc' = "wait_slot"
  /\ UNCHANGED << RecvSide, transfers_sent, receiver_progress, send_hdr, xfer,
                  net, mailbox >>

\* notifications looked up under the wrong peer name: nothing is taken
SndBackpressurePollWrongPeer ==
  /\ spc = "loop"
  /\ transfers_sent < NUM_TRANSFERS
  /\ transfers_sent - receiver_progress >= BACKPRESSURE_THRESHOLD
  /\ mailbox' = 0
  /\ UNCHANGED << RecvSide, transfers_sent, receiver_progress, spc, send_hdr,
                  xfer, net >>

\* the receiver forgets to reset the header to the sentinel
RcvAcceptNoReset ==
  /\ rpc = "poll"
  /\ transfers_received < NUM_TRANSFERS
  /\ recv_hdr[RecvSlot] = transfers_received
  /\ transfers_received' = transfers_received + 1
  /\ IF (transfers_received + 1) % PROGRESS_UPDATE_INTERVAL = 0
       THEN net' = net \cup {transfers_received + 1}
       ELSE UNCHANGED net
  /\ UNCHANGED << SenderVars, xfer, mailbox, recv_hdr, sequence_mismatches,
                  rpc >>

-----------------------------------------------------------------------------
(* Sender.  get_new_notifs() hands over every notification that has       *)
(* arrived, and the for-loop over them keeps the largest count above      *)
(* receiver_progress; the mailbox holds the largest count arrived, so a   *)
(* drain is one comparison.                                                *)
TakeProgress(progress, msg) == IF msg > progress THEN msg ELSE progress

Drain ==
  /\ receiver_progress' = TakeProgress(receiver_progress, mailbox)
  /\ mailbox' = 0

\* while transfers_sent < NUM_TRANSFERS: exits the loop
SndLoopExit ==
  /\ spc = "loop"
  /\ transfers_sent >= NUM_TRANSFERS
  /\ spc' = "drain_inflight"
  /\ UNCHANGED << RecvSide, transfers_sent, receiver_progress, send_hdr, xfer,
                  net, mailbox >>

\* ahead_count < BACKPRESSURE_THRESHOLD: go on to the slot
SndNoBackpressure ==
  /\ spc = "loop"
  /\ transfers_sent < NUM_TRANSFERS
  /\ transfers_sent - receiver_progress < BACKPRESSURE_THRESHOLD
  /\ spc' = "wait_slot"
  /\ UNCHANGED << RecvSide, transfers_sent, receiver_progress, send_hdr, xfer,
                  net, mailbox >>

(* ahead_count >= BACKPRESSURE_THRESHOLD: one round of the inner while    *)
(* loop drains the notifications; ahead_count is then recomputed at the   *)
(* loop head.                                                             *)
SndBackpressurePoll ==
  /\ spc = "loop"
  /\ transfers_sent < NUM_TRANSFERS
  /\ transfers_sent - receiver_progress >= BACKPRESSURE_THRESHOLD
  /\ Drain
  /\ UNCHANGED << RecvSide, transfers_sent, spc, send_hdr, xfer, net >>

\* while check_xfer_state(handle) == "PROC": pass (exception: never used)
SndSlotFree ==
  /\ spc = "wait_slot"
  /\ xfer[SendSlot] # "PROC"
  /\ spc' = "write_header"
  /\ UNCHANGED << RecvSide, transfers_sent, receiver_progress, send_hdr, xfer,
                  net, mailbox >>

\* write_uint64(buffer_offset, transfers_sent)
SndWriteHeader ==
  /\ spc = "write_header"
  /\ send_hdr' = [send_hdr EXCEPT ![SendSlot] = transfers_sent]
  /\ spc' = "transfer"
  /\ UNCHANGED << RecvSide, transfers_sent, receiver_progress, xfer, net,
                  mailbox >>

(* state = transfer(handle) is accepted; transfers_sent += 1; every P-th  *)
(* transfer the notifications are drained opportunistically.              *)
SndTransfer ==
  /\ spc = "transfer"
  /\ xfer' = [xfer EXCEPT ![SendSlot] = "PROC"]
  /\ transfers_sent' = transfers_sent + 1
  /\ IF (transfers_sent + 1) % PROGRESS_UPDATE_INTERVAL = 0
       THEN Drain
       ELSE UNCHANGED << receiver_progress, mailbox >>
  /\ spc' = "loop"
  /\ UNCHANGED << RecvSide, send_hdr, net >>

\* transfer(handle) returns "ERR": break out of the loop
SndTransferErr ==
  /\ XferCanFail
  /\ spc = "transfer"
  /\ xfer' = [xfer EXCEPT ![SendSlot] = "ERR"]
  /\ spc' = "drain_inflight"
  /\ UNCHANGED << RecvSide, transfers_sent, receiver_progress, send_hdr, net,
                  mailbox >>

\* lines 413-418: wait until no handle is "PROC", then release everything
SndDrainInflight ==
  /\ spc = "drain_inflight"
  /\ \A s \in Slots : xfer[s] # "PROC"
  /\ spc' = "done"
  /\ UNCHANGED << RecvSide, transfers_sent, receiver_progress, send_hdr, xfer,
                  net, mailbox >>

Sender ==
  \/ SndLoopExit \/ SndNoBackpressure \/ SndBackpressurePoll
  \/ SndSlotFree \/ SndWriteHeader
  \/ SndTransfer \/ SndTransferErr \/ SndDrainInflight


-----------------------------------------------------------------------------
(* Transfer engine: a WRITE in flight lands the sender's header of the     *)
(* slot in the receiver's slot and reports "DONE"; a failed one reports    *)
(* "ERR" and may or may not have written the slot.                         *)
XferDone(s) ==
  /\ xfer[s] = "PROC"
  /\ xfer' = [xfer EXCEPT ![s] = "DONE"]
  /\ recv_hdr' = [recv_hdr EXCEPT ![s] = send_hdr[s]]
  /\ UNCHANGED << SenderVars, net, mailbox, ReceiverVars >>

XferFail(s) ==
  /\ XferCanFail
  /\ xfer[s] = "PROC"
  /\ xfer' = [xfer EXCEPT ![s] = "ERR"]
  /\ \/ recv_hdr' = [recv_hdr EXCEPT ![s] = send_hdr[s]]
     \/ UNCHANGED recv_hdr
  /\ UNCHANGED << SenderVars, net, mailbox, ReceiverVars >>

(* Notification substrate: a message arrives in the sender's mailbox,     *)
(* possibly more than once (at-least-once) and in any order; when loss is  *)
(* allowed it may also vanish.                                             *)
Deliver(m) ==
  /\ m \in net
  /\ mailbox' = TakeProgress(mailbox, m)
  /\ \/ net' = net \ {m}
     \/ UNCHANGED net
  /\ UNCHANGED << SenderVars, xfer, recv_hdr, ReceiverVars >>

Lose(m) ==
  /\ NotifCanBeLost
  /\ m \in net
  /\ net' = net \ {m}
  /\ UNCHANGED << SenderVars, xfer, mailbox, recv_hdr, ReceiverVars >>

-----------------------------------------------------------------------------
(* Receiver, lines 164-201.  The poll loop only leaves when the header     *)
(* equals transfers_received, so the mismatch test after it compares a     *)
(* value with itself; the header is reset, the count advanced, and every   *)
(* P-th transfer a "P:<count>" notification is sent.                       *)
RcvAccept ==
  /\ rpc = "poll"
  /\ transfers_received < NUM_TRANSFERS
  /\ recv_hdr[RecvSlot] = transfers_received
  /\ sequence_mismatches' =
       IF recv_hdr[RecvSlot] # transfers_received
         THEN sequence_mismatches + 1 ELSE sequence_mismatches
  /\ recv_hdr' = [recv_hdr EXCEPT ![RecvSlot] = Sentinel]
  /\ transfers_received' = transfers_received + 1
  /\ IF (transfers_received + 1) % PROGRESS_UPDATE_INTERVAL = 0
       THEN net' = net \cup {transfers_received + 1}
       ELSE UNCHANGED net
  /\ UNCHANGED << SenderVars, xfer, mailbox, rpc >>

\* loop exit, sleep and deregister_memory
RcvFinish ==
  /\ rpc = "poll"
  /\ transfers_received >= NUM_TRANSFERS
  /\ rpc' = "done"
  /\ UNCHANGED << SenderVars, xfer, net, mailbox, recv_hdr,
                  transfers_received, sequence_mismatches >>

Receiver == RcvAccept \/ RcvFinish

-----------------------------------------------------------------------------
\* Both processes have returned.
Terminated ==
  /\ spc = "done"
  /\ rpc = "done"
  /\ UNCHANGED vars

Next ==
  \/ Sender
  \/ \E s \in Slots : XferDone(s) \/ XferFail(s)
  \/ \E m \in Counts : Deliver(m) \/ Lose(m)
  \/ Receiver
  \/ Terminated

(* Both processes busy-poll, so each keeps taking its enabled steps; the   *)
(* engine completes every posted WRITE and the substrate delivers every    *)
(* notification it has not dropped.                                        *)
Fairness ==
  /\ WF_vars(Sender)
  /\ WF_vars(Receiver)
  /\ \A s \in Slots : WF_vars(XferDone(s))
  /\ \A m \in Counts : WF_vars(Deliver(m))

Spec == Init /\ [][Next]_vars

FairSpec == Spec /\ Fairness

-----------------------------------------------------------------------------
(***************************************************************************)
(* Properties.                                                             *)
(***************************************************************************)

(* No buffer overrun (spec 4.3, 8): whatever header the receiver finds in  *)
(* a slot is a transfer it has not drained yet, of that slot, and less     *)
(* than one ring ahead of the transfer it waits for.  It rests on the      *)
(* sender's backpressure gate, which reads progress that travelled through *)
(* the notification substrate, on the wait for the slot's previous handle  *)
(* and on the header being written before the WRITE is posted.            *)
NoBufferOverrun ==
  \A s \in Slots :
    recv_hdr[s] # Sentinel =>
      /\ recv_hdr[s] \in Nat
      /\ transfers_received <= recv_hdr[s]
      /\ recv_hdr[s] < transfers_received + NUM_BUFFERS
      /\ recv_hdr[s] % NUM_BUFFERS = s

(* Monotonic progress (spec 8): the receiver progress the sender acts on   *)
(* never decreases, even when "P:" notifications arrive duplicated and out *)
(* of order.                                                               *)
ProgressMonotonic ==
  [][receiver_progress' >= receiver_progress]_vars

(* Every transfer gets through (spec 8, "a full run must transfer exactly  *)
(* T buffers"): both main loops run to completion and return.              *)
AllTransfersDelivered ==
  <>(spc = "done" /\ rpc = "done")

(* Overrun detection (spec 8): when the slot the receiver polls holds a    *)
(* later sequence number than the one it waits for, the receiver counts a  *)
(* mismatch.                                                               *)
OverrunInPolledSlot ==
  /\ rpc = "poll"
  /\ recv_hdr[RecvSlot] \in Nat
  /\ recv_hdr[RecvSlot] > transfers_received

OverrunIsCounted ==
  [](OverrunInPolledSlot => <>(sequence_mismatches > 0))

(* Transfer faults (spec 7): a handle whose transfer the engine reported   *)
(* as "ERR" is never posted again; the pipeline stops instead.             *)
FailedTransferNotReposted ==
  [][\A s \in Slots : xfer[s] = "ERR" => xfer'[s] # "PROC"]_vars


-----------------------------------------------------------------------------
(***************************************************************************)
(* Refinement.  RingStream is what the ring promises the consumer; the     *)
(* transfers in the ring are the sequence numbers the receiver can find in *)
(* its slot headers, and the transfers taken are the receiver's count.    *)
(***************************************************************************)
RingContents == {recv_hdr[s] : s \in Slots} \ {Sentinel}

Stream == INSTANCE RingStream WITH landed <- RingContents,
                                   taken <- transfers_received

(* The pipeline implements RingStream: a WRITE only lands a transfer that  *)
(* is new and less than a ring ahead of the receiver, no landed transfer   *)
(* is overwritten or lost before the receiver takes it, and the receiver   *)
(* takes exactly the transfer it waits for.  This relates the sender's     *)
(* gate, the engine's writes and the receiver's resets over whole runs.    *)
ImplementsRingStream == Stream!Spec

=============================================================================

------------------------- MODULE RingPipelineProofs -------------------------
(***************************************************************************)
(* Proofs about RingPipeline: the type invariant, and the absence of       *)
(* buffer overruns for every ring size, transfer count and interval as     *)
(* long as the backpressure threshold does not exceed the ring size.      *)
(***************************************************************************)
EXTENDS RingPipeline, TLAPS

(* The type invariant with the facts that keep it inductive: a slot whose  *)
(* WRITE is in flight, or the slot about to be posted, holds a written     *)
(* header, and the sender only enters an iteration while transfers remain. *)
TypeInv ==
  /\ TypeOK
  /\ spc \in {"wait_slot", "write_header", "transfer"} =>
       transfers_sent < NUM_TRANSFERS
  /\ spc = "transfer" => send_hdr[SendSlot] \in SeqNums
  /\ \A s \in Slots : xfer[s] = "PROC" => send_hdr[s] \in SeqNums

(* The inductive invariant behind NoBufferOverrun.  The sender's view of   *)
(* progress, and every count in transit, is a lower bound of the           *)
(* receiver's count; the sender is at most K ahead of its view; a slot     *)
(* with a WRITE in flight carries an undrained sequence number of that     *)
(* slot and has been reset by the receiver; a header the receiver can see  *)
(* is an undrained sequence number of that slot.                           *)
Undrained(v, s) ==
  /\ v \in Nat
  /\ v % NUM_BUFFERS = s
  /\ transfers_received <= v
  /\ v < transfers_sent

IInv ==
  /\ TypeInv
  /\ receiver_progress <= transfers_received
  /\ mailbox <= transfers_received
  /\ \A m \in net : m <= transfers_received
  /\ transfers_received <= transfers_sent
  /\ transfers_sent = 0 \/
       transfers_sent - receiver_progress <= BACKPRESSURE_THRESHOLD
  /\ spc \in {"wait_slot", "write_header", "transfer"} =>
       transfers_sent - receiver_progress < BACKPRESSURE_THRESHOLD
  /\ spc \in {"write_header", "transfer"} => xfer[SendSlot] # "PROC"
  /\ spc = "transfer" => send_hdr[SendSlot] = transfers_sent
  /\ \A s \in Slots : xfer[s] = "PROC" =>
       /\ Undrained(send_hdr[s], s)
       /\ recv_hdr[s] = Sentinel
  /\ \A s \in Slots : recv_hdr[s] # Sentinel => Undrained(recv_hdr[s], s)

(* One more send against a progress that never moves back keeps the      *)
(* sender within the threshold it checked before sending.                 *)
LEMMA StepAheadBound ==
  ASSUME NEW sent \in Nat, NEW prog \in Nat, NEW prog2 \in Nat,
         NEW k \in Int, sent - prog < k, prog <= prog2
  PROVE  (sent + 1) - prog2 <= k
  BY SMT

-----------------------------------------------------------------------------
(* Arithmetic: two sequence numbers of the same slot are at least a ring  *)
(* apart.                                                                  *)
LEMMA SameSlotRingApart ==
  ASSUME NEW a \in Nat, NEW b \in Nat,
         a % NUM_BUFFERS = b % NUM_BUFFERS, a < b
  PROVE  a + NUM_BUFFERS <= b
<1> DEFINE N == NUM_BUFFERS
           qa == a \div N
           qb == b \div N
<1>1. N \in Nat \ {0}
  BY NumBuffersAssumption
<1>2. qa \in Nat /\ qb \in Nat
  BY <1>1
<1>3. a = qa * N + (a % N) /\ b = qb * N + (b % N)
  BY <1>1
<1>4. qa * N < qb * N
  BY <1>1, <1>2, <1>3
<1>5. qa + 1 <= qb
  BY <1>1, <1>2, <1>4
<1>6. (qa + 1) * N <= qb * N
  BY <1>1, <1>2, <1>5, Z3
<1>7. QED
  BY <1>1, <1>2, <1>3, <1>6

-----------------------------------------------------------------------------
(* TypeInv holds initially and is preserved by every step. *)
LEMMA TypeInvInit == Init => TypeInv
  BY NumBuffersAssumption, NumTransfersAssumption
  DEF Init, TypeInv, TypeOK, Counts, XferStates, SenderPCs, Slots

LEMMA TypeInvStep == TypeInv /\ [Next]_vars => TypeInv'
<1> SUFFICES ASSUME TypeInv, [Next]_vars PROVE TypeInv'
  OBVIOUS
<1> USE NumBuffersAssumption, NumTransfersAssumption, IntervalAssumption
<1> USE DEF TypeInv, TypeOK, Counts, SeqNums, XferStates, SenderPCs,
            SendSlot
<1>0. SendSlot \in Slots /\ RecvSlot \in Slots
  BY DEF RecvSlot, Slots
<1>1. CASE SndLoopExit
  BY <1>1 DEF SndLoopExit, RecvSide, ReceiverVars
<1>2. CASE SndNoBackpressure
  BY <1>2 DEF SndNoBackpressure, RecvSide, ReceiverVars
<1>3. CASE SndBackpressurePoll
  BY <1>3 DEF SndBackpressurePoll, Drain, TakeProgress, RecvSide,
              ReceiverVars
<1>4. CASE SndSlotFree
  BY <1>4 DEF SndSlotFree, RecvSide, ReceiverVars
<1>5. CASE SndWriteHeader
  BY <1>0, <1>5 DEF SndWriteHeader, RecvSide, ReceiverVars
<1>6. CASE SndTransfer
  BY <1>0, <1>6 DEF SndTransfer, Drain, TakeProgress, RecvSide,
                    ReceiverVars, SendSlot
<1>7. CASE SndTransferErr
  BY <1>0, <1>7 DEF SndTransferErr, RecvSide, ReceiverVars
<1>8. CASE SndDrainInflight
  BY <1>8 DEF SndDrainInflight, RecvSide, ReceiverVars
<1>9. ASSUME NEW s \in Slots, XferDone(s) PROVE TypeInv'
  BY <1>9 DEF XferDone, SenderVars, ReceiverVars
<1>10. ASSUME NEW s \in Slots, XferFail(s) PROVE TypeInv'
  BY <1>10 DEF XferFail, SenderVars, ReceiverVars
<1>11. ASSUME NEW m \in Counts, Deliver(m) PROVE TypeInv'
  BY <1>11 DEF Deliver, TakeProgress, SenderVars, ReceiverVars
<1>12. ASSUME NEW m \in Counts, Lose(m) PROVE TypeInv'
  BY <1>12 DEF Lose, SenderVars, ReceiverVars
<1>13. CASE RcvAccept
  <2>1. recv_hdr' \in [Slots -> SeqNums \cup {Sentinel}]
    BY <1>0, <1>13 DEF RcvAccept, RecvSlot
  <2>2. net' \subseteq Counts
    <3>1. transfers_received + 1 \in Counts
      BY <1>13 DEF RcvAccept
    <3>2. net' = net \cup {transfers_received + 1} \/ net' = net
      BY <1>13 DEF RcvAccept
    <3>3. QED
      BY <3>1, <3>2
  <2>3. transfers_received' \in Counts /\ sequence_mismatches' \in Nat
    BY <1>13 DEF RcvAccept
  <2>4. UNCHANGED << SenderVars, xfer, mailbox, rpc >>
    BY <1>13 DEF RcvAccept
  <2>5. QED
    BY <2>1, <2>2, <2>3, <2>4 DEF SenderVars
<1>14. CASE RcvFinish
  BY <1>14 DEF RcvFinish, SenderVars
<1>15. CASE Terminated \/ UNCHANGED vars
  BY <1>15 DEF Terminated, vars
<1>16. QED
  BY <1>1, <1>2, <1>3, <1>4, <1>5, <1>6, <1>7, <1>8, <1>9, <1>10, <1>11,
     <1>12, <1>13, <1>14, <1>15
  DEF Next, Sender, Receiver
(* Type correctness: every reachable state of the pipeline is well typed.  *)
(* It concerns the sender's header writes and the engine's copy of a       *)
(* header into the receiver's ring, which must only ever move a written    *)
(* sequence number.                                                        *)
THEOREM TypeCorrect == Spec => []TypeOK
<1>1. TypeInv => TypeOK
  BY DEF TypeInv
<1>2. QED
  BY TypeInvInit, TypeInvStep, <1>1, PTL DEF Spec

-----------------------------------------------------------------------------
(* IInv holds initially, for any threshold. *)
LEMMA IInvInit == Init => IInv
<1> SUFFICES ASSUME Init PROVE IInv
  OBVIOUS
<1>1. TypeInv
  BY TypeInvInit
<1>2. QED
  BY <1>1, NumTransfersAssumption, SentinelAssumption
  DEF Init, IInv, TypeInv, TypeOK, Counts

(* IInv is preserved by every step when the threshold is at most the ring  *)
(* size.                                                                   *)
LEMMA IInvStep ==
  ASSUME BACKPRESSURE_THRESHOLD <= NUM_BUFFERS
  PROVE  IInv /\ [Next]_vars => IInv'
<1> SUFFICES ASSUME IInv, [Next]_vars PROVE IInv'
  OBVIOUS
<1> USE NumBuffersAssumption, NumTransfersAssumption, IntervalAssumption,
        ThresholdAssumption, SentinelAssumption, GarbageAssumption
<1> USE DEF IInv, Undrained, TypeOK, Counts, SeqNums, XferStates,
            SenderPCs, SendSlot, RecvSlot
<1>0a. TypeInv'
  BY TypeInvStep
<1>0b. SendSlot \in Slots /\ RecvSlot \in Slots
  BY DEF TypeInv, Slots
<1>1. CASE SndLoopExit
  BY <1>0a, <1>1 DEF SndLoopExit, RecvSide, ReceiverVars, TypeInv
<1>2. CASE SndNoBackpressure
  BY <1>0a, <1>2 DEF SndNoBackpressure, RecvSide, ReceiverVars, TypeInv
<1>3. CASE SndBackpressurePoll
  BY <1>0a, <1>3 DEF SndBackpressurePoll, Drain, TakeProgress, RecvSide,
                     ReceiverVars, TypeInv
<1>4. CASE SndSlotFree
  BY <1>0a, <1>4 DEF SndSlotFree, RecvSide, ReceiverVars, TypeInv
<1>5. CASE SndWriteHeader
  BY <1>0a, <1>0b, <1>5 DEF SndWriteHeader, RecvSide, ReceiverVars, TypeInv
<1>6. CASE SndTransfer
  <2>1. recv_hdr[SendSlot] = Sentinel
    <3>1. SUFFICES ASSUME recv_hdr[SendSlot] # Sentinel PROVE FALSE
      OBVIOUS
    <3>2. Undrained(recv_hdr[SendSlot], SendSlot)
      BY <1>0b, <3>1
    <3>3. recv_hdr[SendSlot] + NUM_BUFFERS <= transfers_sent
      BY <3>2, SameSlotRingApart DEF TypeInv
    <3>4. transfers_sent - receiver_progress < BACKPRESSURE_THRESHOLD
      BY <1>6 DEF SndTransfer
    <3>5. QED
      BY <3>2, <3>3, <3>4 DEF TypeInv
  <2>2. /\ receiver_progress <= receiver_progress'
        /\ receiver_progress' <= transfers_received
        /\ mailbox' <= transfers_received
    BY <1>6 DEF SndTransfer, Drain, TakeProgress, TypeInv
  <2>3. /\ xfer' = [xfer EXCEPT ![SendSlot] = "PROC"]
        /\ transfers_sent' = transfers_sent + 1
        /\ spc' = "loop"
        /\ UNCHANGED << recv_hdr, transfers_received, send_hdr, net >>
    BY <1>6 DEF SndTransfer, RecvSide, ReceiverVars
  <2>4. send_hdr[SendSlot] = transfers_sent
        /\ transfers_sent - receiver_progress < BACKPRESSURE_THRESHOLD
    BY <1>6 DEF SndTransfer
  <2>5. ASSUME NEW t \in Slots, xfer'[t] = "PROC"
        PROVE  Undrained(send_hdr[t], t)' /\ recv_hdr'[t] = Sentinel
    <3>1. CASE t = SendSlot
      BY <2>1, <2>3, <2>4, <3>1 DEF TypeInv
    <3>2. CASE t # SendSlot
      BY <2>3, <2>5, <3>2 DEF TypeInv
    <3>3. QED
      BY <3>1, <3>2
  <2>6. \A t \in Slots : recv_hdr'[t] # Sentinel => Undrained(recv_hdr[t], t)'
    BY <2>3 DEF TypeInv
  <2>7. receiver_progress' <= transfers_received' /\ mailbox' <= transfers_received'
    BY <2>2, <2>3
  <2>8. \A m \in net' : m <= transfers_received'
    BY <2>3
  <2>9. transfers_received' <= transfers_sent'
    BY <1>0a, <2>3 DEF TypeInv
  <2>10. transfers_sent' - receiver_progress' <= BACKPRESSURE_THRESHOLD
    <3>1. transfers_sent \in Nat /\ receiver_progress \in Nat
          /\ receiver_progress' \in Nat
      BY <1>0a DEF TypeInv
    <3>2. (transfers_sent + 1) - receiver_progress' <= BACKPRESSURE_THRESHOLD
      BY <3>1, <2>2, <2>4, StepAheadBound
    <3>3. QED
      BY <3>2, <2>3, Zenon
  <2>11. QED
    BY <1>0a, <2>3, <2>5, <2>6, <2>7, <2>8, <2>9, <2>10
<1>7. CASE SndTransferErr
  BY <1>0a, <1>0b, <1>7 DEF SndTransferErr, RecvSide, ReceiverVars, TypeInv
<1>8. CASE SndDrainInflight
  BY <1>0a, <1>8 DEF SndDrainInflight, RecvSide, ReceiverVars, TypeInv
<1>9. ASSUME NEW s \in Slots, XferDone(s) PROVE IInv'
  BY <1>0a, <1>9 DEF XferDone, SenderVars, ReceiverVars, TypeInv
<1>10. ASSUME NEW s \in Slots, XferFail(s) PROVE IInv'
  BY <1>0a, <1>10 DEF XferFail, SenderVars, ReceiverVars, TypeInv
<1>11. ASSUME NEW m \in Counts, Deliver(m) PROVE IInv'
  BY <1>0a, <1>11 DEF Deliver, TakeProgress, SenderVars, ReceiverVars,
                      TypeInv
<1>12. ASSUME NEW m \in Counts, Lose(m) PROVE IInv'
  BY <1>0a, <1>12 DEF Lose, SenderVars, ReceiverVars, TypeInv
<1>13. CASE RcvAccept
  <2>1. /\ recv_hdr[RecvSlot] = transfers_received
        /\ recv_hdr' = [recv_hdr EXCEPT ![RecvSlot] = Sentinel]
        /\ transfers_received' = transfers_received + 1
        /\ net' \subseteq net \cup {transfers_received + 1}
        /\ UNCHANGED << SenderVars, xfer, mailbox >>
    BY <1>13 DEF RcvAccept
  <2>2. transfers_received < transfers_sent
    BY <1>0b, <2>1, SentinelAssumption DEF TypeInv
  <2>3. ASSUME NEW t \in Slots, t # RecvSlot, NEW v \in Nat, v % NUM_BUFFERS = t,
               transfers_received <= v
        PROVE  transfers_received + 1 <= v
    BY <2>3 DEF TypeInv
  <2>4. ASSUME NEW t \in Slots, xfer'[t] = "PROC"
        PROVE  Undrained(send_hdr[t], t)' /\ recv_hdr'[t] = Sentinel
    <3>1. t # RecvSlot
      BY <2>1, <2>4, SentinelAssumption DEF TypeInv
    <3>2. QED
      BY <2>1, <2>3, <2>4, <3>1 DEF SenderVars, TypeInv
  <2>5. ASSUME NEW t \in Slots, recv_hdr'[t] # Sentinel
        PROVE  Undrained(recv_hdr[t], t)'
    <3>1. t # RecvSlot
      BY <1>0b, <2>1, <2>5 DEF TypeInv
    <3>2. QED
      BY <2>1, <2>3, <2>5, <3>1 DEF SenderVars, TypeInv
  <2>6. QED
    BY <1>0a, <2>1, <2>2, <2>4, <2>5 DEF SenderVars, TypeInv
<1>14. CASE RcvFinish
  BY <1>0a, <1>14 DEF RcvFinish, SenderVars, TypeInv
<1>15. CASE Terminated \/ UNCHANGED vars
  BY <1>0a, <1>15 DEF Terminated, vars, TypeInv
<1>16. QED
  BY <1>1, <1>2, <1>3, <1>4, <1>5, <1>6, <1>7, <1>8, <1>9, <1>10, <1>11,
     <1>12, <1>13, <1>14, <1>15
  DEF Next, Sender, Receiver

(* IInv bounds every visible header less than a ring ahead. *)
LEMMA IInvSafe ==
  ASSUME BACKPRESSURE_THRESHOLD <= NUM_BUFFERS
  PROVE  IInv => NoBufferOverrun
  BY NumBuffersAssumption, ThresholdAssumption
  DEF IInv, Undrained, NoBufferOverrun, TypeInv, TypeOK, Counts

(* No buffer overrun, for every ring size, transfer count and progress     *)
(* interval, whenever the backpressure threshold is at most the ring size  *)
(* (the code's NUM_BUFFERS - 4 is): the receiver never finds in a slot a   *)
(* header other than an undrained transfer of that slot less than a ring   *)
(* ahead, even with failing transfers and lost, duplicated or reordered    *)
(* progress notifications.                                                 *)
THEOREM BufferNeverOverrun ==
  ASSUME BACKPRESSURE_THRESHOLD <= NUM_BUFFERS
  PROVE  Spec => []NoBufferOverrun
BY IInvInit, IInvStep, IInvSafe, PTL DEF Spec


-----------------------------------------------------------------------------
(***************************************************************************)
(* Refinement of RingStream.                                               *)
(***************************************************************************)
(* No transfer sits in two slots: every visible header is of its own slot. *)
LEMMA ContentsOfOtherSlot ==
  ASSUME IInv, NEW s \in Slots, NEW t \in Slots, s # t,
         recv_hdr[t] # Sentinel, NEW v \in Nat, v % NUM_BUFFERS = s
  PROVE  recv_hdr[t] # v
BY DEF IInv, Undrained

LEMMA RefineInit == Init => Stream!Init
<1> SUFFICES ASSUME Init PROVE RingContents = {} /\ transfers_received = 0
  BY DEF Stream!Init
<1>1. \A s \in Slots : recv_hdr[s] = Sentinel
  BY DEF Init
<1>2. QED
  BY <1>1 DEF Init, RingContents

(* A WRITE lands the header of its slot: RingStream's Land.                *)
LEMMA RefineLand ==
  ASSUME BACKPRESSURE_THRESHOLD <= NUM_BUFFERS,
         IInv, NEW s \in Slots, xfer[s] = "PROC",
         recv_hdr' = [recv_hdr EXCEPT ![s] = send_hdr[s]],
         transfers_received' = transfers_received
  PROVE  Stream!Land(send_hdr[s])
<1> DEFINE v == send_hdr[s]
<1>1. Undrained(v, s) /\ recv_hdr[s] = Sentinel
  BY DEF IInv
<1>2. v \in Nat /\ v % NUM_BUFFERS = s /\ transfers_received <= v
  BY <1>1 DEF Undrained
<1>3. recv_hdr \in [Slots -> SeqNums \cup {Sentinel}]
  BY DEF IInv, TypeInv, TypeOK
<1>4. v \notin RingContents
  <2>1. ASSUME NEW t \in Slots, recv_hdr[t] # Sentinel PROVE recv_hdr[t] # v
    <3>1. CASE t = s
      BY <1>1, <2>1, <3>1
    <3>2. CASE t # s
      BY <1>2, <2>1, <3>2, ContentsOfOtherSlot
    <3>3. QED
      BY <3>1, <3>2
  <2>2. QED
    BY <2>1 DEF RingContents
<1>5. v < transfers_received + NUM_BUFFERS
  <2>1. v < transfers_sent
    BY <1>1 DEF Undrained
  <2>2. transfers_sent - receiver_progress <= BACKPRESSURE_THRESHOLD
    BY <1>2, <2>1 DEF IInv
  <2>3. QED
    BY <1>2, <2>1, <2>2, NumBuffersAssumption, ThresholdAssumption
    DEF IInv, TypeInv, TypeOK, Counts
<1>6. RingContents' = RingContents \cup {v}
  BY <1>1, <1>2, <1>3, SentinelAssumption DEF RingContents
<1>7. QED
  BY <1>2, <1>4, <1>5, <1>6 DEF Stream!Land

(* The receiver accepts the transfer it waits for: RingStream's Take.      *)
LEMMA RefineTake ==
  ASSUME IInv, RcvAccept
  PROVE  Stream!Take
<1> DEFINE r == transfers_received
<1>1. /\ recv_hdr[RecvSlot] = r
      /\ recv_hdr' = [recv_hdr EXCEPT ![RecvSlot] = Sentinel]
      /\ transfers_received' = r + 1
  BY DEF RcvAccept
<1>2. RecvSlot \in Slots /\ r \in Nat /\ r % NUM_BUFFERS = RecvSlot
  BY NumBuffersAssumption DEF RecvSlot, Slots, IInv, TypeInv, TypeOK, Counts
<1>3. recv_hdr \in [Slots -> SeqNums \cup {Sentinel}]
  BY DEF IInv, TypeInv, TypeOK
<1>4. r \in RingContents
  BY <1>1, <1>2, SentinelAssumption DEF RingContents
<1>5. \A t \in Slots : t # RecvSlot /\ recv_hdr[t] # Sentinel =>
        recv_hdr[t] # r
  BY <1>2, ContentsOfOtherSlot
<1>6. RingContents' = RingContents \ {r}
  BY <1>1, <1>2, <1>3, <1>5 DEF RingContents
<1>7. QED
  BY <1>1, <1>4, <1>6 DEF Stream!Take

(* Every other step leaves the ring's contents and the count alone.       *)
LEMMA RefineStutter ==
  ASSUME UNCHANGED << recv_hdr, transfers_received >>
  PROVE  UNCHANGED Stream!vars
BY DEF Stream!vars, RingContents

LEMMA RefineStep ==
  ASSUME BACKPRESSURE_THRESHOLD <= NUM_BUFFERS
  PROVE  IInv /\ [Next]_vars => [Stream!Next]_Stream!vars
<1> SUFFICES ASSUME IInv, [Next]_vars
             PROVE  [Stream!Next]_Stream!vars
  OBVIOUS
<1>1. ASSUME NEW s \in Slots, XferDone(s) \/ XferFail(s)
      PROVE  [Stream!Next]_Stream!vars
  <2>1. CASE recv_hdr' = [recv_hdr EXCEPT ![s] = send_hdr[s]]
    <3>1. xfer[s] = "PROC" /\ transfers_received' = transfers_received
      BY <1>1 DEF XferDone, XferFail, ReceiverVars
    <3>2. Stream!Land(send_hdr[s])
      BY <2>1, <3>1, RefineLand
    <3>3. send_hdr[s] \in 0 .. NUM_TRANSFERS - 1
      BY <3>1 DEF IInv, TypeInv, TypeOK, SeqNums, Undrained
    <3>4. QED
      BY <3>2, <3>3 DEF Stream!Next
  <2>2. CASE UNCHANGED recv_hdr
    BY <1>1, <2>2, RefineStutter DEF XferDone, XferFail, ReceiverVars
  <2>3. QED
    BY <1>1, <2>1, <2>2 DEF XferDone, XferFail
<1>2. CASE RcvAccept
  BY <1>2, RefineTake DEF Stream!Next
<1>3. CASE UNCHANGED << recv_hdr, transfers_received >>
  BY <1>3, RefineStutter
<1>4. QED
  <2>1. Sender => UNCHANGED << recv_hdr, transfers_received >>
    BY DEF Sender, SndLoopExit, SndNoBackpressure, SndBackpressurePoll,
           SndSlotFree, SndWriteHeader, SndTransfer, SndTransferErr,
           SndDrainInflight, RecvSide, ReceiverVars
  <2>2. \A m \in Counts : Deliver(m) \/ Lose(m) =>
          UNCHANGED << recv_hdr, transfers_received >>
    BY DEF Deliver, Lose, ReceiverVars
  <2>3. RcvFinish \/ Terminated \/ UNCHANGED vars =>
          UNCHANGED << recv_hdr, transfers_received >>
    BY DEF RcvFinish, Terminated, vars
  <2>4. QED
    BY <1>1, <1>2, <1>3, <2>1, <2>2, <2>3 DEF Next, Receiver

(* The pipeline implements RingStream, for every ring size, transfer      *)
(* count and interval whenever the threshold is at most the ring size:    *)
(* the headers the engine lands in the receiver's ring are new transfers  *)
(* less than a ring ahead, none is overwritten before the receiver takes  *)
(* it, and the receiver takes them in sequence order.                     *)
THEOREM Refinement ==
  ASSUME BACKPRESSURE_THRESHOLD <= NUM_BUFFERS
  PROVE  Spec => ImplementsRingStream
<1>1. Spec => []IInv
  BY IInvInit, IInvStep, PTL DEF Spec
<1>2. QED
  BY <1>1, RefineInit, RefineStep, PTL
  DEF Spec, ImplementsRingStream, Stream!Spec

-----------------------------------------------------------------------------
(***************************************************************************)
(* The inductive invariant as a theorem, and monotonic progress.          *)
(***************************************************************************)
(* The whole inductive invariant holds in every reachable state: besides  *)
(* the absence of overruns, the sender's view of progress, the mailbox    *)
(* and every "P:" count in transit never run ahead of the receiver, the   *)
(* sender is never more than the threshold ahead of the progress it       *)
(* knows, and a slot with a WRITE in flight has been reset by the         *)
(* receiver.                                                              *)
THEOREM InductiveInvariant ==
  ASSUME BACKPRESSURE_THRESHOLD <= NUM_BUFFERS
  PROVE  Spec => []IInv
BY IInvInit, IInvStep, PTL DEF Spec

(* Taking a progress count never lowers the value taken into. *)
LEMMA TakeProgressMonotone ==
  ASSUME NEW p \in Int, NEW m \in Int,
         NEW q \in {p, TakeProgress(p, m)}
  PROVE  q >= p
BY DEF TakeProgress

(* The only steps that write receiver_progress are the drains (Drain,     *)
(* inside SndBackpressurePoll and every P-th SndTransfer), and they take  *)
(* the mailbox's count through TakeProgress.                              *)
LEMMA ProgressStep ==
  [Next]_vars =>
    receiver_progress' \in {receiver_progress,
                            TakeProgress(receiver_progress, mailbox)}
BY DEF Next, vars, Sender, Receiver, SndLoopExit, SndNoBackpressure,
       SndBackpressurePoll, SndSlotFree, SndWriteHeader, SndTransfer,
       SndTransferErr, SndDrainInflight, XferDone, XferFail, Deliver, Lose,
       RcvAccept, RcvFinish, Terminated, Drain, SenderVars, RecvSide

(* Monotonic progress (spec 8), for every parameter value and with lost,  *)
(* duplicated and reordered "P:" notifications: no step of the pipeline   *)
(* lowers the receiver progress the sender's backpressure gate uses,      *)
(* because every drain keeps the larger of the value in hand and the     *)
(* mailbox's.                                                             *)
THEOREM ProgressNeverDecreases == Spec => ProgressMonotonic
<1>1. TypeInv /\ [Next]_vars => receiver_progress' >= receiver_progress
  <2> SUFFICES ASSUME TypeInv, [Next]_vars
               PROVE  receiver_progress' >= receiver_progress
    OBVIOUS
  <2>1. receiver_progress \in Int /\ mailbox \in Int
    BY DEF TypeInv, TypeOK, Counts
  <2>2. QED
    BY <2>1, ProgressStep, TakeProgressMonotone
<1>2. QED
  BY <1>1, TypeInvInit, TypeInvStep, PTL DEF Spec, ProgressMonotonic

=============================================================================

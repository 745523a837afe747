# Formal models of the NIXL Python examples

This directory holds TLA+ models of the two-process examples under
`src/examples/python/`:
- `send_recv/nixl_sender_receiver.py` (the streaming ring pipeline);
- `2proc/nixl_api_2proc.py`;
- the helpers they share in `utils/`: `metadata_utils.py`, `tcp_server.py` and `memory_utils.py`.

It also holds TLC configurations for the models, TLAPS proofs, and `PROJECT.json`. `PROJECT.json` lists components, runs, mutants, the definition-to-source map, findings and hazards.

## 1. The system

Two processes cooperate without shared memory. In send_recv they are the sender and the receiver; in 2proc they are the initiator and the target. They go through three stages.

1. **Metadata exchange.** Each process publishes its NIXL agent metadata and loads the peer's. There are two back ends.
   - TCP mode uses a small key/value server, `tcp_server.py`. It serves SET, GET and CLEAR, one handler thread per connection, with the dict under `_lock`.
   - etcd mode uses NIXL's built-in `send_partial_agent_metadata` / `fetch_remote_metadata` / `check_remote_metadata`.
   - `retrieve_agent_metadata` polls every 100 ms for at most 10 s. On a timeout it returns `None`, and the caller logs an error and *returns*.
2. **Descriptor hand-over.** The sender needs the receiver's buffer descriptors.
   - TCP mode: the receiver SETs them under `receiver_buffers_desc`, and the sender reads them with a single GET (`retrieve_descriptors`).
   - etcd mode: they travel over NIXL notifications. The receiver sends `READY` every iteration until it has seen a `READY` from the sender, then sends `DESCS:<blob>` once. The sender sends `READY` on every fifth iteration, calls `get_new_notifs()` up to three times per iteration looking for `DESCS:`, and has no timeout.
3. **Ring pipeline** (send_recv only). The receiver owns N slots, each with an 8-byte sequence header set to all-ones (the sentinel).
   - The sender's loop for transfer i:
     - waits while `i - receiver_progress >= BACKPRESSURE_THRESHOLD`, draining `P:<n>` notifications and keeping the largest;
     - spins while the slot's pre-built WRITE handle is `PROC`;
     - writes header i into its local copy of the slot;
     - posts the WRITE;
     - every `PROGRESS_UPDATE_INTERVAL`-th transfer, drains notifications again.
   - After the loop the sender waits until no handle is `PROC`.
   - The receiver polls slot `i % N` until its header equals i, resets it to the sentinel, counts the transfer, and every P-th transfer sends `P:<count>`.
   - K and P are derived at import from `NUM_BUFFERS`, as `N-4` and `max(1, N//4)`.

`run_test` / `__main__` start both processes and join each with a 15 s timeout. Success means both exit codes are 0.

## 2. Modules

| Module | Models | State | Actions |
|---|---|---|---|
| `RingPipeline` | the ring stage: sender loop and final drain, receiver loop, the engine completing WRITEs, the notification substrate | counters, program counters, the header word of every slot on both sides, the per-slot handle state, in-flight progress values, the sender's mailbox | one action per step of each loop (`SndNoBackpressure`, `SndBackpressurePoll`, `SndSlotFree`, `SndWriteHeader`, `SndTransfer`, `SndTransferErr`, `SndDrainInflight`, `RcvAccept`, `RcvFinish`), plus `XferDone`/`XferFail` and `Deliver`/`Lose` |
| `Handshake` | etcd-mode start-up and `run_test` | phases of both processes, etcd publication and loading, `ready_count % 5`, the sender's drain index, notifications in flight and waiting per process, run_test's result | publish, metadata arrival, resolve (or time out), `SndLoopHead`, `SndDrain`, `RcvReadyLoop`, delivery/loss, `PipelineRun`, `RunTestJoin` |
| `TcpExchange` | TCP-mode start-up, the key/value server and `run_test` | the server's key set, the pending request and reply of each client, phases, whether the sender got a name and descriptors | one client step per `set_metadata`/`get_metadata` call of the start-up sequence, `Serve` (one handler under `_lock`), `PipelineRun`, `RunTestJoin` |
| `RingStream` | what the ring promises its consumer (spec 4.3): an abstract stream | `landed` (transfers in the ring), `taken` (transfers consumed) | `Land(i)` (less than a ring ahead of `taken`), `Take` (in order) |
| `TwoProc` | 2proc in TCP mode, end to end: target, initiator, engine, notifications, main | the server's key set, target and initiator phases, `remote_name`/descriptors present, the state of each transfer, notifications in flight and in the target's cache, main's phase and result | `TgtPublishMeta`, `TgtPublishDescs`, `TgtWait1`, `TgtWait2` (via `CheckRemoteXferDone`), `InitResolve`, `InitGetDescs`, `InitXfer1`, `InitWait1`, `InitXfer2`, `InitWait2` (via `Post`, `CheckXferState`), `XferDone`/`XferFail`, `NotifArrives`, `MainJoinTarget`, `MainJoinInit` |
| `TransferCompletions` | what 2proc promises, without processes or messages: transfers complete in order, the waiting side observes each completion after it happens and in order, and success is reported only after all were observed | `completed`, `observed`, `verdict` | `Complete`, `Observe`, `Report(ok)` |
| `Rendezvous` | the metadata rendezvous of the TCP start-up, without a server: each party publishes, then looks the other up | `published` (parties whose key is stored), `lookup[p]` (`idle`, `missing`, `found`, `gave_up`, `killed`) | `Publish(p)`, `Lookup(p)` (found iff the peer has published), `Retry(p)`, `GiveUp(p)`, `Kill(S)` |
| `RendezvousProofs` | TLAPS proof that the two parties of a `Rendezvous` never both miss each other | | |
| `RingPipelineProofs` | TLAPS proofs about `RingPipeline`, including its refinement of `RingStream` | | |
| `TwoProcProofs` | TLAPS proofs about `TwoProc` | | |
| `TcpExchangeProofs` | TLAPS proofs about `TcpExchange` (its `IInv` is checked through `MCTcpExchangeProofs`) | | |
| `HandshakeProofs` | TLAPS proofs about `Handshake` | | |
| `MC*` | TLC instances | | |

Each model keeps the control flow of its code: every guard, early return, break and error path. It abstracts the data as follows:
- a slot's payload is reduced to its header;
- a notification is reduced to its kind (`READY`, `DESCS`) or to its count;
- a key/value entry is reduced to the presence of its key.

Polling loops are modelled as guarded actions. A poll that finds nothing does not change the state, so it is a stutter.

Abstractions that matter when reading the models:
- **`get_new_notifs()` hands over everything that has arrived.** In the ring, the sender keeps only the largest count, so `mailbox` holds the largest count that has arrived and a drain is one comparison.
- **Notifications are at-least-once, unordered and optionally lossy**, as the spec describes them:
  - a delivered message may stay in flight and arrive again;
  - `NotifCanBeLost` (ring) and `LossyMsgs` (handshake) allow losses.
- **The engine is modelled at its interface.**
  - A posted WRITE is `PROC` until it lands the sender's header of its slot in the receiver's slot and becomes `DONE`.
  - With `XferCanFail`, it becomes `ERR` instead, with or without having written.
  - `transfer()` itself may return `ERR` (`SndTransferErr`).
- **The sender's header memory starts as `Garbage`**, since `malloc_passthru` memory is uninitialised. The receiver's headers start at `Sentinel` (2^64-1, outside every sequence number).
- **Timeouts are nondeterministic choices** enabled by flags: `MetadataCanTimeOut`, `JoinCanTimeOut`. A timeout may fire whenever the awaited condition does not hold yet, because the model has no clock.
- **2proc's transfers keep every early return.** The READ (`initialize_xfer`) and the WRITE (`prep_xfer_dlist`/`make_prepped_xfer`) are each posted by `Post`: no handle, or `transfer()` answering `ERR`, is a bare `return` (exit code 0). `check_xfer_state` is polled until `DONE` or `ERR`. `initialize_xfer` with `None` descriptors raises, so the initiator dies (`crashed`, exit code 1). The target's `check_remote_xfer_done` takes one tagged message out of its agent's cache.
- **The pipeline stage is one joint `PipelineRun` step in the start-up models.** `RingPipeline` shows separately that it terminates under the code's parameters (`AllTransfersDelivered`).

## 3. Runs

Pass runs:

| Run | Checks | Bounds |
|---|---|---|
| `ring_code_params` | `TypeOK`, `NoBufferOverrun`, `ProgressMonotonic`, `AllTransfersDelivered` under `FairSpec` | N=8, T=12, and the code's formulas K=N-4=4, P=N//4=2: the sender reaches the gate, the ring wraps once and a half, and several progress batches travel |
| `ring_faults` | `NoBufferOverrun`, `IInv` (the inductive invariant of the proof) and `ImplementsRingStream` (the refinement, section 5) with failing transfers and lossy, duplicating notifications (`TypeOK` and `ProgressMonotonic` are left to `ring_code_params` and to the proofs, which cover every parameter and fault) | N=3, T=8, K=N=3 (the largest threshold the proof allows), P=2 |
| `hs_lossy_ready` | `TypeOK`, `DescsNotDrainedUnread`, and `HandshakeCompletes` (once both sides are in their exchange loops, run_test reports success) with `READY` lossy and metadata timeouts | the code's constants: READY every 5 iterations, 3 drains |
| `tp_faults` | `SuccessMeansTransferred`, `InitiatorDoneLeadsToSuccess` and `ImplementsTransferCompletions` (the refinement, section 5) with metadata timeouts and refused or failing transfers | two transfers, as in the code; notifications at-least-once |
| `tcp_exit_codes` | `TypeOK`, `SuccessMeansStreamed`, `IInv` (the inductive invariant of `TcpExchangeProofs`) and `ImplementsRendezvous` (the refinement, section 5) with metadata and join timeouts | no constants to bound |

Violation runs. Each one checks a single property and documents a finding:

| Run | Property | What TLC shows |
|---|---|---|
| `ring_lost_progress` | `AllTransfersDelivered` | a single lost `P:<n>` is made up by a later count, but losing every count that would reopen the gate (here the last two, with K=2 and P=1; about K/P=4 with the code's K=60, P=16) stops both loops forever: nothing is ever resent |
| `ring_stale_params` | `OverrunIsCounted` | `run_test` shrinks N, but K stays 60. The sender overruns the ring, and the receiver spins without counting, because the mismatch test at line 183 is unreachable |
| `ring_async_err` | `FailedTransferNotReposted` | a handle whose transfer ended in `ERR` passes the slot wait and is posted again |
| `hs_lossy_descs` | `SuccessReported` | DESCS is sent once, and its loss hangs the sender (there is no timeout) |
| `hs_startup_timeout` | `SuccessMeansStreamed` | both etcd metadata waits time out, both processes return 0, and run_test reports success |
| `tcp_descs_race` | `DescriptorsBeforeTransfers` | the sender's single GET runs between the receiver's metadata SET and descriptor SET. It gets `None`, and `prep_xfer_dlist` raises |
| `tp_hang` | `ExampleTerminates` | with no fault injected, the initiator's descriptor GET misses the target's second SET, `initialize_xfer` raises, and the target (spinning on `UUID1`) and main (joining it, no timeout) wait forever |

`HandshakeCompletes` starts from both processes being in their exchange loops, because a metadata timeout before that point is a legitimate early exit (it is what `hs_startup_timeout` is about). The `hs_lossy_ready` run allows the timeouts, but they cannot affect `HandshakeCompletes`; what that run exercises is lost and duplicated READYs.

The ring bounds are as small as they can be while the interesting interleavings still happen:
- a wrap of the ring with writes still in flight;
- a full threshold of lead;
- progress values overtaking one another.

`NoBufferOverrun` is proved for all parameters (section 5), so the small bounds matter only for the liveness and fault runs. The start-up models are finite without bounds: notification sets and the `ready_count % 5` counter take finitely many values.

Every property of every pass run has a mutant in `PROJECT.json`: a plausible bug in a mapped definition that TLC catches. The seeded variants are defined at the top of each module, marked "Seeded faults".

Deadlock checking is off only where the system really stops moving forever: the fault runs (a failed transfer or a lost notification leaves a process spinning, which the model shows as no enabled step), `ring_stale_params` and the two `tp_*` runs (2proc really can hang, `tp_hang`).

The spec's own ring example, N=4, gives K=N-4=0 and the sender never passes its gate. This is hazard `numeric_edge` at line 68 in `PROJECT.json`. No run covers it: with K <= 0 the gate is closed from the first iteration, which `SndNoBackpressure` makes plain, so a run would only restate it.

## 4. Fairness

- **Busy-polling processes.** Both processes busy-poll: every wait in the code is a spin or a sleep-and-retry loop. That justifies weak fairness for each process's steps.
- **Engine and notifications.** The engine eventually completes every posted WRITE, and the substrate eventually delivers a notification that is in flight. This is weak fairness on `XferDone(s)` and `Deliver(m)`.
- **Lossy handshake channel.** The handshake model assumes strong fairness on delivery. A notification that is sent again and again is eventually delivered: a lossy but not hostile channel. Without it, no retry scheme could be shown to work.
- **2proc.** Each step of the target and the initiator is weakly fair (busy polls), the engine resolves every posted transfer (`WF` on `XferDone(i) \/ XferFail(i)`), a sent notification arrives (`WF` on `NotifArrives(t)`), and a `join()` returns once its process has ended.
- **Where fairness is not assumed.** `Lose`, `XferFail` and the timeouts have no fairness. They may happen, but they are never forced.

## 5. What is proved (TLAPS)

`RingPipelineProofs.tla` proves five theorems, for every value of the constants that satisfies the `ASSUME`s of `RingPipeline`.

**`TypeCorrect`: `Spec => []TypeOK`.** The inductive form `TypeInv` adds three facts:
- the sender is past the gate only while `transfers_sent < NUM_TRANSFERS`;
- a header it is about to post is a sequence number;
- a `PROC` handle's header is a sequence number.

**`BufferNeverOverrun`: `BACKPRESSURE_THRESHOLD <= NUM_BUFFERS => (Spec => []NoBufferOverrun)`.** This holds with failing transfers and lossy, duplicating, reordering notifications, since `Spec` includes all of them when the flags allow. The inductive invariant `IInv` (checked by the `ring_faults` run) says the following.
- Progress is never ahead of the receiver:
  - `receiver_progress`, the mailbox and every in-flight count are at most `transfers_received`;
  - `transfers_received <= transfers_sent`.
- The sender is never more than K ahead of the progress it knows, and strictly less than K ahead once it has passed the gate.
- Between the gate and the post, the slot's handle is not `PROC`, and the header in hand is `transfers_sent`.
- A `PROC` handle carries an undrained transfer of its own slot, and the receiver's copy of that slot is still the sentinel.
- Every non-sentinel receiver header is an undrained transfer of its slot.

The key step is `SndTransfer`. The receiver's copy of the slot being posted must be the sentinel. Otherwise it would hold an undrained transfer v of the same slot, with v < `transfers_sent`, and lemma `SameSlotRingApart` would give `v + N <= transfers_sent`. Together with `transfers_received <= v` and `transfers_sent - receiver_progress < K <= N`, this contradicts `receiver_progress <= transfers_received`.

One leaf needs the constant-level lemma `StepAheadBound`. The SMT back end of tlapm 1.4.5 mis-sorts arithmetic on primed integer variables. The arithmetic is stated over fresh constants and instantiated.

**`Refinement`: `BACKPRESSURE_THRESHOLD <= NUM_BUFFERS => (Spec => ImplementsRingStream)`.** The ring is mapped to `RingStream` by `landed <- RingContents` (the non-sentinel headers in the receiver's slots) and `taken <- transfers_received`:
- initially every receive slot is the sentinel and nothing was received;
- an engine `XferDone(s)` that writes header v into slot s is `Land(v)`: by `IInv`, v is undrained and of slot s, so v is not yet in the ring and less than a ring ahead of the receiver (`RefineLand`);
- `RcvAccept` is `Take`: it removes the header it waited for, and no other slot holds that number (`ContentsOfOtherSlot`);
- every other step leaves both the receive headers and the count alone, a stutter.

`IInv` is exactly the strengthening this needs, so the refinement reuses the invariant of `BufferNeverOverrun`.

**`InductiveInvariant`: `BACKPRESSURE_THRESHOLD <= NUM_BUFFERS => (Spec => []IInv)`.** This states the whole of `IInv`, the invariant the `ring_faults` run checks, as a result of its own.

**`ProgressNeverDecreases`: `Spec => ProgressMonotonic`.** This is the action property `[][receiver_progress' >= receiver_progress]_vars`, for all parameters.
- Lemma `ProgressStep` says that every step either leaves `receiver_progress` alone or replaces it with `TakeProgress(receiver_progress, mailbox)`.
- Lemma `TakeProgressMonotone` says that this value is never smaller.
- Only `TypeInv` is needed, so the theorem holds for any threshold.

`TwoProcProofs.tla` proves, for both values of each fault flag:
- **`TypeCorrect`: `Spec => []TypeOK`**;
- **`SuccessOnlyAfterTransfers`: `Spec => []SuccessMeansTransferred`.** Its inductive invariant ties each transfer's state to the initiator's phase (transfer 2 is posted only after transfer 1 is `DONE`), a notification in flight or in the cache to a `DONE` transfer, the target's return to transfer 2 being `DONE`, and `success` to both processes having returned. Without the notification clause, a stray `UUID2` could seem to let the target return.
- **`Refinement`: `Spec => ImplementsTransferCompletions`.** The mapping is:
  - `completed <- Completed`, the number of leading `DONE` transfers;
  - `observed <- Observed`, 0 until the target passes its first wait, 1 after it, 2 once it has returned;
  - `verdict <- Verdict`, main's report.

  `XferDone(i)` is `Complete`. It counts up by one because transfer 2 is never in flight before transfer 1 is `DONE` (`IInv`). `TgtWait1`/`TgtWait2` are `Observe`: a UUID in the cache means its transfer is `DONE` (`IInv`). `MainJoinInit` is `Report(success)`: `success` needs the target to have returned. Everything else is a stutter: failures, timeouts, posts, arrivals and main's first join. The proof reuses the invariant of `SuccessOnlyAfterTransfers`. The mutant `CheckXferStateErrOnly` lets the initiator post transfer 2 while transfer 1 is still `PROC`. TLC finds the refinement broken: transfer 2 can complete first.

`TcpExchangeProofs.tla` proves, for both values of each timeout flag:
- **`TypeCorrect`: `Spec => []TypeOK`**;
- **`SuccessOnlyAfterStreaming`: `Spec => []SuccessMeansStreamed`.** This is the TCP-mode counterpart of the etcd-mode finding `hs_startup_timeout`, and here it holds;
- **`InductiveInvariant`: `Spec => []IInv`**, the whole invariant that the `tcp_exit_codes` run checks, described below;
- **`RendezvousRefinement`: `Spec => ImplementsRendezvous`.** `published` is the set of processes whose metadata key is stored. `lookup[p]` is `idle` before the first GET and while a GET is pending, and the server's answer (`found`/`missing`) while p holds it. After that it is `found` or `gave_up`, by phase (and for the sender by whether it got a name), or `killed`. The correspondence:
  - the server's SET of a metadata key is `Publish`;
  - its answer to a GET of the peer's metadata is `Lookup`, which needs the asker's own key stored and no answer pending (`IInv`);
  - the poll loop's next GET is `Retry`, and its timeout `GiveUp`;
  - `terminate()` is `Kill`.

  `IInv` gained one clause for this proof: the sender has no name before it leaves `resolve`. Without it, the timeout branch, which leaves `sname` unchanged, could not be shown to be `GiveUp`;
- **`OneSideMissesAtMost`: `Spec => []Meeting!AtMostOneMisses`**, carried over from `RendezvousProofs!NeverBothMiss` through the refinement. The two instances of `Rendezvous`, one by `TcpExchange` and one by `RendezvousProofs`, are shown to have the same initial predicate, next-state relation and property.

`RendezvousProofs.tla` proves **`NeverBothMiss`: `Spec => []AtMostOneMisses`** for the abstract rendezvous. Its inductive invariant adds one fact: a party that has looked (and was not killed before) has published. When one side misses, the other has not published, so it has not looked either. When it looks, it finds the first side.

The inductive invariant `IInv` is also checked by the `tcp_exit_codes` run. It holds four kinds of facts:
- request/reply bookkeeping per phase: a reply in hand means no request pending, and a pending request is the one the phase sends;
- each process's own metadata key is on the server once that process is past its first SET;
- `~(SndErr /\ RcvErr)`: at most one side has ever seen the peer's metadata missing;
- `success` only after both processes returned.

`~(SndErr /\ RcvErr)` is the heart of the proof. A GET can only return `ERROR` while the peer has not yet stored its key. The peer stores its key before it polls, so the peer has not polled yet, and when it does poll it will find the key of the side that failed. Hence the two metadata timeouts cannot both fire, and "both returned 0 without streaming" cannot happen in TCP mode. TLC confirmed that `IInv` is inductive before the proof: every successor of the 54,056 states satisfying it satisfies it.

`HandshakeProofs.tla` proves two theorems.
- **`TypeCorrect`: `Spec => []TypeOK`**, for every `READY_EVERY` and `DRAINS` and whatever the substrate loses. The counter arithmetic is in the constant-level lemmas `ModStep` and `DrainStep`. The Boolean-valued functions are handled by `BoolFunExcept` and `BoolFunConst`, which Zenon proves.
- **`DescsNeverDrainedUnread`: `"DESCS" \notin LossyMsgs => (Spec => []DescsNotDrainedUnread)`.** The property is inductive together with `TypeOK`. The only step that empties the sender's queue, `SndDrain`, leaves the DESCS loop whenever DESCS is in the queue. `Deliver` moves DESCS from flight to the queue. The hypothesis is the configuration of `hs_lossy_ready`. A lost DESCS is a different question, answered by the `hs_lossy_descs` finding.

What stays with TLC:
- the liveness properties (`AllTransfersDelivered`, `HandshakeCompletes`, `InitiatorDoneLeadsToSuccess`, `ExampleTerminates`, `SuccessReported`, `OverrunIsCounted`), which TLAPS cannot reach under fairness;
- the violation runs' properties, which are false by design.

## 6. Findings

The seven violation runs are findings. `PROJECT.json` gives each one its source line. In short:
1. Losing the last progress counts before the gate stalls the pipeline for good, though spec 4.3 says progress loss only makes the producer conservative (true of isolated losses).
2. The receiver's overrun check is dead code, and `run_test`'s parameter override leaves stale K and P.
3. An asynchronously failed transfer is reposted.
4. A lost DESCS hangs the sender.
5. Start-up timeouts exit with code 0, and `run_test` then reports success.
6. TCP mode races the descriptor GET against the receiver's second SET. The same race exists in 2proc.
7. 2proc has no timeout on the target's notification waits or on main's joins, so any early exit of the initiator hangs the whole example instead of reporting "Process error" (`tp_hang`).

The N <= 4 configuration (K = 0, the sender never sends) is kept as a hazard, not as a run.

## 7. Not modelled, and the plan

**Not modelled:**
- 2proc in etcd mode: its start-up is the READY/DESCS protocol of `Handshake`; its transfer phase is the one `TwoProc` models.
- The NIXL engine and UCX, except at their interface.
- Logging, timing statistics, argument parsing and the etcd probe in `main`: they are I/O with no protocol state.
- The byte encoding of `read_uint64`/`write_uint64`: a header is written as one atomic word.

**Next steps:**
1. `Handshake` refines a rendezvous too, but over lossy notifications rather than a server: an abstract version with lost and repeated publications would let it share `NeverBothMiss`'s argument.
2. Composing `TcpExchange` with `RingPipeline`, so that a crashed sender is seen to leave the receiver spinning.

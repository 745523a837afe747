--------------------------- MODULE MCRingPipeline ---------------------------
(***************************************************************************)
(* Instantiates RingPipeline for TLC.  The threshold and the interval are  *)
(* computed from NUM_BUFFERS the way nixl_sender_receiver.py computes them *)
(* at import time (lines 67-68), or, for run_test() called with a smaller  *)
(* ring, kept at the values computed for the module's NUM_BUFFERS = 64.    *)
(***************************************************************************)
EXTENDS RingPipeline

\* BACKPRESSURE_THRESHOLD = NUM_BUFFERS - 4
CodeBackpressureThreshold == NUM_BUFFERS - 4

\* PROGRESS_UPDATE_INTERVAL = max(1, NUM_BUFFERS // 4)
CodeProgressInterval ==
  IF NUM_BUFFERS \div 4 > 1 THEN NUM_BUFFERS \div 4 ELSE 1

\* the import-time values for NUM_BUFFERS = 64, which run_test() keeps
StaleBackpressureThreshold == 64 - 4
StaleProgressInterval == 64 \div 4
=============================================================================

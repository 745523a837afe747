----------------------------- MODULE TcpExchange -----------------------------
(***************************************************************************)
(* The TCP-mode start-up of examples/python/send_recv/                     *)
(* nixl_sender_receiver.py (2proc/nixl_api_2proc.py does the same with     *)
(* target and initiator): the key/value server of utils/tcp_server.py,     *)
(* the helpers of utils/metadata_utils.py, and run_test's join and         *)
(* success check.  The receiver publishes its metadata, then its buffer    *)
(* descriptors, then polls for the sender's metadata; the sender publishes *)
(* its metadata, polls for the receiver's, then reads the descriptors with *)
(* a single GET.  Values are abstracted to the presence of their key.      *)
(***************************************************************************)
EXTENDS Naturals

CONSTANTS
  MetadataCanTimeOut,  \* may a retrieve_agent_metadata poll loop give up?
  JoinCanTimeOut       \* may join(timeout=15) return before a process exits?

ASSUME FlagsAssumption ==
  MetadataCanTimeOut \in BOOLEAN /\ JoinCanTimeOut \in BOOLEAN

Keys == {"receiver_metadata", "receiver_buffers_desc", "sender_metadata"}
Procs == {"snd", "rcv"}
Requests == [cmd : {"SET", "GET"}, key : Keys]
NoReq == [cmd |-> "NONE"]

VARIABLES
  kv,          \* keys held by the server's _metadata dict
  req,         \* req[p]: request p has sent and the server not yet handled
  resp,        \* resp[p]: reply waiting for p: "none", "OK" or "ERROR"
  sph,         \* sender phase
  rph,         \* receiver phase
  sname,       \* sender: receiver_name is not None
  sdescs,      \* sender: receiver_buffers_descs is not None
  mph,         \* run_test: "running" or "joined"
  success      \* run_test's success flag

vars == << kv, req, resp, sph, rph, sname, sdescs, mph, success >>

\* returned from the process function: exit code 0
Exited(ph) == ph \in {"returned", "aborted"}

\* no longer running: returned, or died of an exception
Ended(ph) == ph \in {"returned", "aborted", "crashed"}

TypeOK ==
  /\ kv \subseteq Keys
  /\ req \in [Procs -> Requests \cup {NoReq}]
  /\ resp \in [Procs -> {"none", "OK", "ERROR"}]
  /\ sph \in {"start", "pub_meta", "resolve", "get_descs", "stream",
              "returned", "aborted", "crashed", "killed"}
  /\ rph \in {"start", "pub_meta", "pub_descs", "resolve", "stream",
              "returned", "aborted", "killed"}
  /\ sname \in BOOLEAN
  /\ sdescs \in BOOLEAN
  /\ mph \in {"running", "joined"}
  /\ success \in BOOLEAN

\* run_test calls clear_metadata before it starts the two processes
Init ==
  /\ kv = {}
  /\ req = [p \in Procs |-> NoReq]
  /\ resp = [p \in Procs |-> "none"]
  /\ sph = "start"
  /\ rph = "start"
  /\ sname = FALSE
  /\ sdescs = FALSE
  /\ mph = "running"
  /\ success = FALSE

-----------------------------------------------------------------------------
(* Client side of set_metadata / get_metadata: p takes the reply to its    *)
(* previous request (if any) and sends the next one on a new connection.   *)
Reply(p) == resp[p] # "none"

Call(p, cmd, key) ==
  /\ req' = [req EXCEPT ![p] = [cmd |-> cmd, key |-> key]]
  /\ resp' = [resp EXCEPT ![p] = "none"]

(* Server, MetadataHandler.handle: one handler thread per connection, the  *)
(* dictionary access under _lock; a GET of a missing key is an ERROR.       *)
Serve(p) ==
  /\ req[p] # NoReq
  /\ kv' = IF req[p].cmd = "SET" THEN kv \cup {req[p].key} ELSE kv
  /\ resp' = [resp EXCEPT ![p] =
                IF req[p].cmd = "SET" \/ req[p].key \in kv THEN "OK"
                                                           ELSE "ERROR"]
  /\ req' = [req EXCEPT ![p] = NoReq]
  /\ UNCHANGED << sph, rph, sname, sdescs, mph, success >>

(* Seeded fault, used as a mutant: the receiver polls for the sender's    *)
(* metadata before publishing its own.                                     *)
RcvStartResolveFirst ==
  /\ rph = "start"
  /\ Call("rcv", "GET", "sender_metadata")
  /\ rph' = "resolve"
  /\ UNCHANGED << kv, sph, sname, sdescs, mph, success >>

-----------------------------------------------------------------------------
(* Receiver, lines 141-147: publish_agent_metadata, publish_descriptors,   *)
(* then retrieve_agent_metadata: a GET every 100 ms until the key is there *)
(* or 10 s have passed, when it returns None and the receiver returns.     *)
RcvStart ==
  /\ rph = "start"
  /\ Call("rcv", "SET", "receiver_metadata")
  /\ rph' = "pub_meta"
  /\ UNCHANGED << kv, sph, sname, sdescs, mph, success >>

RcvPublishDescs ==
  /\ rph = "pub_meta"
  /\ Reply("rcv")
  /\ Call("rcv", "SET", "receiver_buffers_desc")
  /\ rph' = "pub_descs"
  /\ UNCHANGED << kv, sph, sname, sdescs, mph, success >>

RcvFirstPoll ==
  /\ rph = "pub_descs"
  /\ Reply("rcv")
  /\ Call("rcv", "GET", "sender_metadata")
  /\ rph' = "resolve"
  /\ UNCHANGED << kv, sph, sname, sdescs, mph, success >>

RcvResolve ==
  /\ rph = "resolve"
  /\ Reply("rcv")
  /\ \/ resp["rcv"] = "OK" /\ rph' = "stream"
        /\ resp' = [resp EXCEPT !["rcv"] = "none"] /\ UNCHANGED req
     \/ resp["rcv"] = "ERROR" /\ UNCHANGED rph
        /\ Call("rcv", "GET", "sender_metadata")
     \/ MetadataCanTimeOut /\ resp["rcv"] = "ERROR" /\ rph' = "aborted"
        /\ resp' = [resp EXCEPT !["rcv"] = "none"] /\ UNCHANGED req
  /\ UNCHANGED << kv, sph, sname, sdescs, mph, success >>

\* Seeded fault, used as a mutant: the descriptors are read under a wrong key.
SndResolveWrongKey ==
  /\ sph = "resolve"
  /\ Reply("snd")
  /\ \/ resp["snd"] = "OK" /\ sname' = TRUE /\ sph' = "get_descs"
        /\ Call("snd", "GET", "receiver_descs")
     \/ resp["snd"] = "ERROR" /\ UNCHANGED << sname, sph >>
        /\ Call("snd", "GET", "receiver_metadata")
  /\ UNCHANGED << kv, rph, sdescs, mph, success >>

-----------------------------------------------------------------------------
(* Sender, lines 295-312: publish_agent_metadata, retrieve_agent_metadata  *)
(* as above, then retrieve_descriptors: ONE get, None when the key is      *)
(* missing.  `if not receiver_name: return`; otherwise                     *)
(* prep_xfer_dlist(receiver_name, None) raises and the process dies with   *)
(* exit code 1.                                                            *)
SndStart ==
  /\ sph = "start"
  /\ Call("snd", "SET", "sender_metadata")
  /\ sph' = "pub_meta"
  /\ UNCHANGED << kv, rph, sname, sdescs, mph, success >>

SndFirstPoll ==
  /\ sph = "pub_meta"
  /\ Reply("snd")
  /\ Call("snd", "GET", "receiver_metadata")
  /\ sph' = "resolve"
  /\ UNCHANGED << kv, rph, sname, sdescs, mph, success >>

SndResolve ==
  /\ sph = "resolve"
  /\ Reply("snd")
  /\ \/ resp["snd"] = "OK" /\ sname' = TRUE /\ sph' = "get_descs"
        /\ Call("snd", "GET", "receiver_buffers_desc")
     \/ resp["snd"] = "ERROR" /\ UNCHANGED << sname, sph >>
        /\ Call("snd", "GET", "receiver_metadata")
     \/ MetadataCanTimeOut /\ resp["snd"] = "ERROR" /\ UNCHANGED sname
        /\ sph' = "get_descs"
        /\ Call("snd", "GET", "receiver_buffers_desc")
  /\ UNCHANGED << kv, rph, sdescs, mph, success >>

SndGetDescs ==
  /\ sph = "get_descs"
  /\ Reply("snd")
  /\ sdescs' = (resp["snd"] = "OK")
  /\ sph' = IF ~sname THEN "aborted"
            ELSE IF sdescs' THEN "stream" ELSE "crashed"
  /\ resp' = [resp EXCEPT !["snd"] = "none"]
  /\ UNCHANGED << kv, req, rph, sname, mph, success >>

\* Both main loops run to completion (RingPipeline) and both return.
PipelineRun ==
  /\ sph = "stream"
  /\ rph = "stream"
  /\ sph' = "returned"
  /\ rph' = "returned"
  /\ UNCHANGED << kv, req, resp, sname, sdescs, mph, success >>

-----------------------------------------------------------------------------
(* run_test: join(timeout=15) on both, success = both exit codes are 0,    *)
(* and a process still alive is terminated.                                *)
RunTestJoin ==
  /\ mph = "running"
  /\ (Ended(sph) /\ Exited(rph)) \/ JoinCanTimeOut
  /\ mph' = "joined"
  /\ success' = (Exited(sph) /\ Exited(rph))
  /\ sph' = IF Ended(sph) THEN sph ELSE "killed"
  /\ rph' = IF Exited(rph) THEN rph ELSE "killed"
  /\ UNCHANGED << kv, req, resp, sname, sdescs >>

\* run_test has returned: nothing else happens.
Finished ==
  /\ mph = "joined"
  /\ UNCHANGED vars

Next ==
  \/ RcvStart \/ RcvPublishDescs \/ RcvFirstPoll \/ RcvResolve
  \/ SndStart \/ SndFirstPoll \/ SndResolve \/ SndGetDescs
  \/ \E p \in Procs : Serve(p)
  \/ PipelineRun
  \/ RunTestJoin
  \/ Finished

Spec == Init /\ [][Next]_vars

-----------------------------------------------------------------------------
(* The sender prepares its transfers with the receiver's descriptors in    *)
(* hand (spec 4.2: the consuming side's DescriptorSet reaches the          *)
(* producer): retrieve_descriptors never hands back None to a sender that  *)
(* goes on to prep_xfer_dlist.                                             *)
DescriptorsBeforeTransfers ==
  sph # "crashed"

(* run_test reports success only when both processes ran their main loops  *)
(* to the end.                                                             *)
SuccessMeansStreamed ==
  success => sph = "returned" /\ rph = "returned"

-----------------------------------------------------------------------------
(***************************************************************************)
(* Refinement of Rendezvous.  A party has published once its metadata key *)
(* is on the server; its lookup is decided when the server answers its    *)
(* GET of the peer's metadata, retried when it sends the GET again, and   *)
(* given up when its poll loop times out; run_test's terminate() kills it. *)
(***************************************************************************)
MetaKey(p) == IF p = "snd" THEN "sender_metadata" ELSE "receiver_metadata"

\* the state of p's current GET of the peer's metadata while p polls
Polled(p) == CASE resp[p] = "OK"    -> "found"
               [] resp[p] = "ERROR" -> "missing"
               [] OTHER             -> "idle"

SndLookup ==
  CASE sph \in {"start", "pub_meta"}             -> "idle"
    [] sph = "resolve"                           -> Polled("snd")
    [] sph = "get_descs"                         -> IF sname THEN "found"
                                                    ELSE "gave_up"
    [] sph \in {"stream", "returned", "crashed"} -> "found"
    [] sph = "aborted"                           -> "gave_up"
    [] sph = "killed"                            -> "killed"

RcvLookup ==
  CASE rph \in {"start", "pub_meta", "pub_descs"} -> "idle"
    [] rph = "resolve"                            -> Polled("rcv")
    [] rph \in {"stream", "returned"}             -> "found"
    [] rph = "aborted"                            -> "gave_up"
    [] rph = "killed"                             -> "killed"

MetaPublished == {p \in Procs : MetaKey(p) \in kv}

Lookups == [p \in Procs |-> IF p = "snd" THEN SndLookup ELSE RcvLookup]

Meeting == INSTANCE Rendezvous
             WITH published <- MetaPublished, lookup <- Lookups

(* The start-up implements Rendezvous: each process publishes its         *)
(* metadata before its first GET of the peer's, every answer to that GET  *)
(* is "found" exactly when the peer's key is stored, a miss only leads to *)
(* another GET or to the timeout, and terminate() only ends a process.   *)
ImplementsRendezvous == Meeting!Spec

=============================================================================

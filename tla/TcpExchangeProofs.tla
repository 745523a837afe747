-------------------------- MODULE TcpExchangeProofs --------------------------
(***************************************************************************)
(* Proofs about TcpExchange: run_test reports success only when both      *)
(* processes streamed, even though each metadata poll may time out.  The  *)
(* argument is an ordering one on the server: each process SETs its own   *)
(* metadata before it GETs the peer's, so the two GETs cannot both miss.  *)
(***************************************************************************)
EXTENDS TcpExchange, TLAPS

SetReq(k) == [cmd |-> "SET", key |-> k]
GetReq(k) == [cmd |-> "GET", key |-> k]

\* Phases in which a process has had its own metadata SET answered.
SndPolled == {"resolve", "get_descs", "stream", "returned", "aborted",
              "crashed"}
RcvPolled == {"pub_descs", "resolve", "stream", "returned", "aborted"}

\* The sender has seen its GET of the receiver's metadata fail: the ERROR
\* is in hand, it has timed out without a name, or it has returned for it.
SndErr ==
  \/ sph = "resolve" /\ resp["snd"] = "ERROR"
  \/ sph = "get_descs" /\ ~sname
  \/ sph = "aborted"

\* The receiver has seen its GET of the sender's metadata fail.
RcvErr ==
  \/ rph = "resolve" /\ resp["rcv"] = "ERROR"
  \/ rph = "aborted"

(* The inductive invariant.  Requests and replies follow each process's   *)
(* phase; a process past its first SET has its key on the server; and at *)
(* most one of the two processes ever sees the peer's metadata missing:  *)
(* a GET is only sent after the sender's own key is stored, so an ERROR   *)
(* for one side means the other side has not polled yet, and will find   *)
(* the key.                                                               *)
IInv ==
  /\ TypeOK
  /\ \A p \in Procs : resp[p] # "none" => req[p] = NoReq
  /\ sph = "start" => req["snd"] = NoReq /\ resp["snd"] = "none"
  /\ sph = "pub_meta" =>
       \/ req["snd"] = SetReq("sender_metadata")
       \/ resp["snd"] = "OK" /\ "sender_metadata" \in kv
  /\ sph \in SndPolled => "sender_metadata" \in kv
  /\ sph = "resolve" => req["snd"] \in {NoReq, GetReq("receiver_metadata")}
  /\ sph \in {"start", "pub_meta", "resolve"} => ~sname
  /\ rph = "start" => req["rcv"] = NoReq /\ resp["rcv"] = "none"
  /\ rph = "pub_meta" =>
       \/ req["rcv"] = SetReq("receiver_metadata")
       \/ resp["rcv"] = "OK" /\ "receiver_metadata" \in kv
  /\ rph \in RcvPolled => "receiver_metadata" \in kv
  /\ rph = "resolve" => req["rcv"] \in {NoReq, GetReq("sender_metadata")}
  /\ ~(SndErr /\ RcvErr)
  /\ sph = "returned" <=> rph = "returned"
  /\ success => mph = "joined"
  /\ success => sph = "returned" /\ rph = "returned"

LEMMA IInvInit == Init => IInv
BY DEF Init, IInv, TypeOK, Procs, NoReq, Requests, SndPolled, RcvPolled,
       SndErr, RcvErr

LEMMA IInvStep == IInv /\ [Next]_vars => IInv'
<1> SUFFICES ASSUME IInv, [Next]_vars PROVE IInv'
  OBVIOUS
<1> USE FlagsAssumption DEF IInv, TypeOK, Procs, Keys, NoReq, Requests,
        SetReq, GetReq, SndPolled, RcvPolled, SndErr, RcvErr, Exited, Ended,
        Reply, Call
<1>1. CASE RcvStart
  BY <1>1 DEF RcvStart
<1>2. CASE RcvPublishDescs
  BY <1>2 DEF RcvPublishDescs
<1>3. CASE RcvFirstPoll
  BY <1>3 DEF RcvFirstPoll
<1>4. CASE RcvResolve
  BY <1>4 DEF RcvResolve
<1>5. CASE SndStart
  BY <1>5 DEF SndStart
<1>6. CASE SndFirstPoll
  BY <1>6 DEF SndFirstPoll
<1>7. CASE SndResolve
  <2>1. sph = "resolve" /\ resp["snd"] # "none"
        /\ UNCHANGED << kv, rph, sdescs, mph, success >>
    BY <1>7 DEF SndResolve
  <2>2. CASE resp["snd"] = "OK" /\ sname' = TRUE /\ sph' = "get_descs"
             /\ Call("snd", "GET", "receiver_buffers_desc")
    BY <2>1, <2>2
  <2>3. CASE resp["snd"] = "ERROR" /\ UNCHANGED << sname, sph >>
             /\ Call("snd", "GET", "receiver_metadata")
    BY <2>1, <2>3
  <2>4. CASE MetadataCanTimeOut /\ resp["snd"] = "ERROR" /\ UNCHANGED sname
             /\ sph' = "get_descs"
             /\ Call("snd", "GET", "receiver_buffers_desc")
    BY <2>1, <2>4
  <2>5. QED
    BY <1>7, <2>2, <2>3, <2>4 DEF SndResolve
<1>8. CASE SndGetDescs
  BY <1>8 DEF SndGetDescs
<1>9. ASSUME NEW p \in Procs, Serve(p) PROVE IInv'
  <2>1. /\ req[p] \in Requests /\ req[p] # NoReq /\ resp[p] = "none"
        /\ kv' = IF req[p].cmd = "SET" THEN kv \cup {req[p].key} ELSE kv
        /\ resp' = [resp EXCEPT ![p] =
                      IF req[p].cmd = "SET" \/ req[p].key \in kv THEN "OK"
                                                                 ELSE "ERROR"]
        /\ req' = [req EXCEPT ![p] = NoReq]
        /\ UNCHANGED << sph, rph, sname, sdescs, mph, success >>
    BY <1>9 DEF Serve
  <2>2. kv \subseteq kv'
    BY <2>1
  <2>3. CASE p = "snd"
    <3>1. resp'["rcv"] = resp["rcv"] /\ req'["rcv"] = req["rcv"]
      BY <2>1, <2>3
    <3>2. resp'["snd"] = "ERROR" =>
            sph # "resolve" \/ ~("receiver_metadata" \in kv)
      BY <2>1, <2>3
    <3>3. sph = "pub_meta" =>
            "sender_metadata" \in kv' /\ resp'["snd"] = "OK"
      BY <2>1, <2>3
    <3>4. CASE req["snd"].cmd = "SET"
      <4>1. kv' = kv \cup {req["snd"].key} /\ resp'["snd"] = "OK"
            /\ req'["snd"] = NoReq
        BY <2>1, <2>3, <3>4
      <4>2. TypeOK'
        BY <2>1, <4>1
      <4>3. \A q \in Procs : resp'[q] # "none" => req'[q] = NoReq
        BY <3>1, <4>1
      <4>4. SndErr' => SndErr
        BY <2>1, <3>1, <4>1
      <4>5. RcvErr' => RcvErr
        BY <2>1, <3>1, <4>1
      <4>6. QED
        BY <2>1, <2>2, <2>3, <3>1, <3>3, <4>1, <4>2, <4>3, <4>4, <4>5
    <3>5. CASE req["snd"].cmd = "GET"
      <4>1. kv' = kv /\ resp'["snd"] \in {"OK", "ERROR"} /\ req'["snd"] = NoReq
        BY <2>1, <2>3, <3>5
      <4>2. TypeOK'
        BY <2>1, <4>1
      <4>3. \A q \in Procs : resp'[q] # "none" => req'[q] = NoReq
        BY <3>1, <4>1
      <4>4. QED
        BY <2>1, <2>3, <3>1, <3>2, <3>5, <4>1, <4>2, <4>3
    <3>6. QED
      BY <2>1, <2>3, <3>4, <3>5
  <2>4. CASE p = "rcv"
    <3>1. resp'["snd"] = resp["snd"] /\ req'["snd"] = req["snd"]
      BY <2>1, <2>4
    <3>2. resp'["rcv"] = "ERROR" =>
            rph # "resolve" \/ ~("sender_metadata" \in kv)
      BY <2>1, <2>4
    <3>3. rph = "pub_meta" =>
            "receiver_metadata" \in kv' /\ resp'["rcv"] = "OK"
      BY <2>1, <2>4
    <3>4. CASE req["rcv"].cmd = "SET"
      <4>1. kv' = kv \cup {req["rcv"].key} /\ resp'["rcv"] = "OK"
            /\ req'["rcv"] = NoReq
        BY <2>1, <2>4, <3>4
      <4>2. TypeOK'
        BY <2>1, <4>1
      <4>3. \A q \in Procs : resp'[q] # "none" => req'[q] = NoReq
        BY <3>1, <4>1
      <4>4. SndErr' => SndErr
        BY <2>1, <3>1, <4>1
      <4>5. RcvErr' => RcvErr
        BY <2>1, <3>1, <4>1
      <4>6. QED
        BY <2>1, <2>2, <2>4, <3>1, <3>3, <4>1, <4>2, <4>3, <4>4, <4>5
    <3>5. CASE req["rcv"].cmd = "GET"
      <4>1. kv' = kv /\ resp'["rcv"] \in {"OK", "ERROR"} /\ req'["rcv"] = NoReq
        BY <2>1, <2>4, <3>5
      <4>2. TypeOK'
        BY <2>1, <4>1
      <4>3. \A q \in Procs : resp'[q] # "none" => req'[q] = NoReq
        BY <3>1, <4>1
      <4>4. QED
        BY <2>1, <2>4, <3>1, <3>2, <3>5, <4>1, <4>2, <4>3
    <3>6. QED
      BY <2>1, <2>4, <3>4, <3>5
  <2>5. QED
    BY <2>3, <2>4
<1>10. CASE PipelineRun
  BY <1>10 DEF PipelineRun
<1>11. CASE RunTestJoin
  BY <1>11 DEF RunTestJoin
<1>12. CASE Finished \/ UNCHANGED vars
  <2>1. UNCHANGED << kv, req, resp, sph, rph, sname, sdescs, mph, success >>
    BY <1>12 DEF Finished, vars
  <2>2. QED
    BY <2>1
<1>13. QED
  BY <1>1, <1>2, <1>3, <1>4, <1>5, <1>6, <1>7, <1>8, <1>9, <1>10, <1>11,
     <1>12 DEF Next

(* Type correctness of the TCP-mode start-up, server included. *)
THEOREM TypeCorrect == Spec => []TypeOK
<1>1. IInv => TypeOK
  BY DEF IInv
<1>2. QED
  BY <1>1, IInvInit, IInvStep, PTL DEF Spec

(* Whatever metadata polls and joins time out, run_test reports success   *)
(* only when both processes returned from their main loops: the two       *)
(* metadata waits cannot both give up (each process SETs its own key      *)
(* before it GETs the peer's), so "both returned 0 after a start-up       *)
(* failure" cannot happen in TCP mode, unlike etcd mode                    *)
(* (hs_startup_timeout).                                                   *)
THEOREM SuccessOnlyAfterStreaming == Spec => []SuccessMeansStreamed
<1>1. IInv => SuccessMeansStreamed
  BY DEF IInv, SuccessMeansStreamed
<1>2. QED
  BY <1>1, IInvInit, IInvStep, PTL DEF Spec

(* The invariant that the tcp_exit_codes run checks holds for every       *)
(* setting of the timeout flags: requests and replies stay in step with   *)
(* each process's phase, a process past its first SET always has its key  *)
(* on the server, the two processes never both find the peer's metadata   *)
(* missing, and the sender returns normally exactly when the receiver     *)
(* does.                                                                   *)
THEOREM InductiveInvariant == Spec => []IInv
BY IInvInit, IInvStep, PTL DEF Spec

-----------------------------------------------------------------------------
(***************************************************************************)
(* The start-up implements Rendezvous.  The server's SET of a metadata    *)
(* key is Publish; its answer to a GET of the peer's metadata while the   *)
(* process polls is Lookup, which needs the process's own key stored and  *)
(* no answer pending (IInv); the poll loop's next GET is Retry and its    *)
(* timeout GiveUp (the sender has no name yet, IInv); terminate() is      *)
(* Kill; every other step changes neither mapped value.                   *)
(***************************************************************************)

(* The sender's lookup depends only on its phase, its name and, while it  *)
(* polls, the answer it holds; likewise for the receiver.                 *)
LEMMA SndLookupFrame ==
  ASSUME sph' = sph, sname' = sname,
         sph = "resolve" => resp'["snd"] = resp["snd"]
  PROVE  SndLookup' = SndLookup
BY DEF SndLookup, Polled

LEMMA RcvLookupFrame ==
  ASSUME rph' = rph, rph = "resolve" => resp'["rcv"] = resp["rcv"]
  PROVE  RcvLookup' = RcvLookup
BY DEF RcvLookup, Polled

LEMMA LookupsSnd ==
  ASSUME RcvLookup' = RcvLookup
  PROVE  Lookups' = [Lookups EXCEPT !["snd"] = SndLookup']
BY DEF Lookups, Procs

LEMMA LookupsRcv ==
  ASSUME SndLookup' = SndLookup
  PROVE  Lookups' = [Lookups EXCEPT !["rcv"] = RcvLookup']
BY DEF Lookups, Procs

LEMMA RdvInit == Init => Meeting!Init
BY DEF Init, Meeting!Init, Meeting!Parties, MetaPublished, Lookups,
       SndLookup, RcvLookup, MetaKey, Procs

LEMMA RdvStep == IInv /\ [Next]_vars => [Meeting!Next]_Meeting!vars
<1> SUFFICES ASSUME IInv, [Next]_vars PROVE [Meeting!Next]_Meeting!vars
  OBVIOUS
<1> USE FlagsAssumption DEF IInv, TypeOK, Procs, Keys, NoReq, Requests,
        SetReq, GetReq, SndPolled, RcvPolled
<1> DEFINE Stutter == UNCHANGED << MetaPublished, Lookups >>
<1>0. Stutter => [Meeting!Next]_Meeting!vars
  BY DEF Meeting!vars
<1>k. UNCHANGED kv => MetaPublished' = MetaPublished
  BY DEF MetaPublished
<1>1. CASE RcvStart \/ RcvPublishDescs \/ RcvFirstPoll
  <2>1. /\ rph \in {"start", "pub_meta", "pub_descs"}
        /\ rph' \in {"pub_meta", "pub_descs", "resolve"}
        /\ resp' = [resp EXCEPT !["rcv"] = "none"]
        /\ UNCHANGED << kv, sph, sname >>
    BY <1>1 DEF RcvStart, RcvPublishDescs, RcvFirstPoll, Call
  <2>2. RcvLookup' = "idle" /\ RcvLookup = "idle"
    BY <2>1 DEF RcvLookup, Polled
  <2>3. SndLookup' = SndLookup
    BY <2>1, SndLookupFrame
  <2>4. Stutter
    BY <1>k, <2>1, <2>2, <2>3 DEF Lookups
  <2>5. QED
    BY <1>0, <2>4
<1>2. CASE RcvResolve
  <2>1. /\ rph = "resolve" /\ resp["rcv"] # "none"
        /\ UNCHANGED << kv, sph, sname >>
        /\ resp'["snd"] = resp["snd"]
    BY <1>2 DEF RcvResolve, Reply, Call
  <2>2. SndLookup' = SndLookup /\ MetaPublished' = MetaPublished
    BY <1>k, <2>1, SndLookupFrame
  <2>3. Lookups' = [Lookups EXCEPT !["rcv"] = RcvLookup']
    BY <2>2, LookupsRcv
  <2>4. CASE resp["rcv"] = "OK" /\ rph' = "stream"
    <3>1. RcvLookup' = RcvLookup
      BY <2>1, <2>4 DEF RcvLookup, Polled
    <3>2. QED
      BY <1>0, <2>2, <3>1 DEF Lookups
  <2>5. CASE resp["rcv"] = "ERROR" /\ UNCHANGED rph
             /\ Call("rcv", "GET", "sender_metadata")
    <3>1. RcvLookup = "missing" /\ RcvLookup' = "idle"
      BY <2>1, <2>5 DEF RcvLookup, Polled, Call
    <3>2. Meeting!Retry("rcv")
      BY <2>2, <2>3, <3>1 DEF Meeting!Retry, Lookups
    <3>3. QED
      BY <3>2 DEF Meeting!Next, Meeting!Parties
  <2>6. CASE resp["rcv"] = "ERROR" /\ rph' = "aborted"
    <3>1. RcvLookup = "missing" /\ RcvLookup' = "gave_up"
      BY <2>1, <2>6 DEF RcvLookup, Polled
    <3>2. Meeting!GiveUp("rcv")
      BY <2>2, <2>3, <3>1 DEF Meeting!GiveUp, Lookups
    <3>3. QED
      BY <3>2 DEF Meeting!Next, Meeting!Parties
  <2>7. QED
    BY <1>2, <2>4, <2>5, <2>6 DEF RcvResolve
<1>3. CASE SndStart \/ SndFirstPoll
  <2>1. /\ sph \in {"start", "pub_meta"}
        /\ sph' \in {"pub_meta", "resolve"}
        /\ resp' = [resp EXCEPT !["snd"] = "none"]
        /\ UNCHANGED << kv, rph, sname >>
    BY <1>3 DEF SndStart, SndFirstPoll, Call
  <2>2. SndLookup' = "idle" /\ SndLookup = "idle"
    BY <2>1 DEF SndLookup, Polled
  <2>3. RcvLookup' = RcvLookup
    BY <2>1, RcvLookupFrame
  <2>4. Stutter
    BY <1>k, <2>1, <2>2, <2>3 DEF Lookups
  <2>5. QED
    BY <1>0, <2>4
<1>4. CASE SndResolve
  <2>1. /\ sph = "resolve" /\ resp["snd"] # "none" /\ ~sname
        /\ UNCHANGED << kv, rph >>
        /\ resp'["rcv"] = resp["rcv"]
    BY <1>4 DEF SndResolve, Reply, Call
  <2>2. RcvLookup' = RcvLookup /\ MetaPublished' = MetaPublished
    BY <1>k, <2>1, RcvLookupFrame
  <2>3. Lookups' = [Lookups EXCEPT !["snd"] = SndLookup']
    BY <2>2, LookupsSnd
  <2>4. CASE resp["snd"] = "OK" /\ sname' = TRUE /\ sph' = "get_descs"
    <3>1. SndLookup' = SndLookup
      BY <2>1, <2>4 DEF SndLookup, Polled
    <3>2. QED
      BY <1>0, <2>2, <3>1 DEF Lookups
  <2>5. CASE resp["snd"] = "ERROR" /\ UNCHANGED << sname, sph >>
             /\ Call("snd", "GET", "receiver_metadata")
    <3>1. SndLookup = "missing" /\ SndLookup' = "idle"
      BY <2>1, <2>5 DEF SndLookup, Polled, Call
    <3>2. Meeting!Retry("snd")
      BY <2>2, <2>3, <3>1 DEF Meeting!Retry, Lookups
    <3>3. QED
      BY <3>2 DEF Meeting!Next, Meeting!Parties
  <2>6. CASE resp["snd"] = "ERROR" /\ UNCHANGED sname /\ sph' = "get_descs"
    <3>1. SndLookup = "missing" /\ SndLookup' = "gave_up"
      BY <2>1, <2>6 DEF SndLookup, Polled
    <3>2. Meeting!GiveUp("snd")
      BY <2>2, <2>3, <3>1 DEF Meeting!GiveUp, Lookups
    <3>3. QED
      BY <3>2 DEF Meeting!Next, Meeting!Parties
  <2>7. QED
    BY <1>4, <2>4, <2>5, <2>6 DEF SndResolve
<1>5. CASE SndGetDescs \/ PipelineRun
  <2>1. /\ sph \in {"get_descs", "stream"}
        /\ sph' \in {"aborted", "stream", "crashed", "returned"}
        /\ sph' = "aborted" <=> sph = "get_descs" /\ ~sname
        /\ rph \in {"resolve", "stream", "pub_meta", "pub_descs", "start",
                    "returned", "aborted", "killed"}
        /\ \/ rph' = rph
           \/ rph = "stream" /\ rph' = "returned"
        /\ UNCHANGED << kv, sname >>
        /\ resp'["rcv"] = resp["rcv"]
    BY <1>5 DEF SndGetDescs, PipelineRun
  <2>2. SndLookup' = SndLookup
    BY <2>1 DEF SndLookup
  <2>3. RcvLookup' = RcvLookup
    BY <2>1 DEF RcvLookup, Polled
  <2>4. QED
    BY <1>0, <1>k, <2>1, <2>2, <2>3 DEF Lookups
<1>6. ASSUME NEW q \in Procs, Serve(q) PROVE [Meeting!Next]_Meeting!vars
  <2>1. /\ req[q] \in Requests /\ req[q] # NoReq /\ resp[q] = "none"
        /\ kv' = IF req[q].cmd = "SET" THEN kv \cup {req[q].key} ELSE kv
        /\ resp' = [resp EXCEPT ![q] =
                      IF req[q].cmd = "SET" \/ req[q].key \in kv
                      THEN "OK" ELSE "ERROR"]
        /\ UNCHANGED << sph, rph, sname >>
    BY <1>6 DEF Serve
  <2>2. CASE req[q].cmd = "SET"
    <3>1. q = "snd" => sph # "resolve"
      BY <2>1, <2>2
    <3>2. q = "rcv" => rph # "resolve"
      BY <2>1, <2>2
    <3>3. SndLookup' = SndLookup /\ RcvLookup' = RcvLookup
      BY <2>1, <3>1, <3>2, SndLookupFrame, RcvLookupFrame
    <3>4. UNCHANGED Lookups
      BY <3>3 DEF Lookups
    <3>5. MetaPublished' = MetaPublished \cup
                            {p \in Procs : MetaKey(p) = req[q].key}
      BY <2>1, <2>2 DEF MetaPublished
    <3>6. CASE req[q].key = "sender_metadata"
      <4>1. Meeting!Publish("snd")
        BY <3>4, <3>5, <3>6 DEF Meeting!Publish, MetaKey
      <4>2. QED
        BY <4>1 DEF Meeting!Next, Meeting!Parties
    <3>7. CASE req[q].key = "receiver_metadata"
      <4>1. Meeting!Publish("rcv")
        BY <3>4, <3>5, <3>7 DEF Meeting!Publish, MetaKey
      <4>2. QED
        BY <4>1 DEF Meeting!Next, Meeting!Parties
    <3>8. CASE req[q].key = "receiver_buffers_desc"
      <4>1. MetaPublished' = MetaPublished
        BY <3>5, <3>8 DEF MetaKey
      <4>2. QED
        BY <1>0, <3>4, <4>1
    <3>9. QED
      BY <2>1, <3>6, <3>7, <3>8
  <2>3. CASE req[q].cmd = "GET"
    <3>1. MetaPublished' = MetaPublished
      BY <1>k, <2>1, <2>3
    <3>2. CASE q = "snd" /\ sph = "resolve"
      <4>1. /\ req["snd"] = GetReq("receiver_metadata")
            /\ "sender_metadata" \in kv
            /\ SndLookup = "idle"
            /\ SndLookup' = IF "receiver_metadata" \in kv THEN "found"
                            ELSE "missing"
        BY <2>1, <3>2 DEF SndLookup, Polled
      <4>2. RcvLookup' = RcvLookup
        BY <2>1, <3>2, RcvLookupFrame
      <4>3. Meeting!Lookup("snd")
        BY <3>1, <4>1, <4>2, LookupsSnd
        DEF Meeting!Lookup, Meeting!Peer, MetaPublished, MetaKey, Lookups
      <4>4. QED
        BY <4>3 DEF Meeting!Next, Meeting!Parties
    <3>3. CASE q = "rcv" /\ rph = "resolve"
      <4>1. /\ req["rcv"] = GetReq("sender_metadata")
            /\ "receiver_metadata" \in kv
            /\ RcvLookup = "idle"
            /\ RcvLookup' = IF "sender_metadata" \in kv THEN "found"
                            ELSE "missing"
        BY <2>1, <3>3 DEF RcvLookup, Polled
      <4>2. SndLookup' = SndLookup
        BY <2>1, <3>3, SndLookupFrame
      <4>3. Meeting!Lookup("rcv")
        BY <3>1, <4>1, <4>2, LookupsRcv
        DEF Meeting!Lookup, Meeting!Peer, MetaPublished, MetaKey, Lookups
      <4>4. QED
        BY <4>3 DEF Meeting!Next, Meeting!Parties
    <3>4. CASE ~(q = "snd" /\ sph = "resolve") /\ ~(q = "rcv" /\ rph = "resolve")
      <4>1. SndLookup' = SndLookup /\ RcvLookup' = RcvLookup
        BY <2>1, <3>4, SndLookupFrame, RcvLookupFrame
      <4>2. QED
        BY <1>0, <3>1, <4>1 DEF Lookups
    <3>5. QED
      BY <3>2, <3>3, <3>4
  <2>4. QED
    BY <2>1, <2>2, <2>3
<1>7. CASE RunTestJoin
  <2>1. /\ sph' = IF Ended(sph) THEN sph ELSE "killed"
        /\ rph' = IF Exited(rph) THEN rph ELSE "killed"
        /\ UNCHANGED << kv, resp, sname >>
    BY <1>7 DEF RunTestJoin
  <2>2. MetaPublished' = MetaPublished
    BY <1>k, <2>1
  <2>3. SndLookup' = IF Ended(sph) THEN SndLookup ELSE "killed"
    BY <2>1 DEF SndLookup, Polled, Ended
  <2>4. RcvLookup' = IF Exited(rph) THEN RcvLookup ELSE "killed"
    BY <2>1 DEF RcvLookup, Polled, Exited
  <2>5. CASE Ended(sph) /\ Exited(rph)
    BY <1>0, <2>2, <2>3, <2>4, <2>5 DEF Lookups
  <2>6. CASE ~(Ended(sph) /\ Exited(rph))
    <3> DEFINE S == {p \in Procs : IF p = "snd" THEN ~Ended(sph)
                                   ELSE ~Exited(rph)}
    <3>1. S \in SUBSET Meeting!Parties /\ S # {}
      BY <2>6 DEF Meeting!Parties
    <3>2. Lookups' = [p \in Meeting!Parties |->
                        IF p \in S THEN "killed" ELSE Lookups[p]]
      BY <2>3, <2>4 DEF Lookups, Meeting!Parties
    <3>3. Meeting!Kill(S)
      BY <2>2, <3>1, <3>2 DEF Meeting!Kill
    <3>4. QED
      BY <3>1, <3>3 DEF Meeting!Next
  <2>7. QED
    BY <2>5, <2>6
<1>8. CASE Finished \/ UNCHANGED vars
  <2>1. UNCHANGED << kv, resp, sph, rph, sname >>
    BY <1>8 DEF Finished, vars
  <2>2. QED
    BY <1>0, <1>k, <2>1 DEF Lookups, SndLookup, RcvLookup, Polled
<1>9. QED
  BY <1>1, <1>2, <1>3, <1>4, <1>5, <1>6, <1>7, <1>8 DEF Next

(* The TCP start-up implements Rendezvous for every setting of the        *)
(* timeout flags: each process publishes its metadata before it asks for  *)
(* the peer's, an answer is "found" exactly when the peer's key is        *)
(* stored, and a miss leads only to another GET or to giving up.          *)
THEOREM RendezvousRefinement == Spec => ImplementsRendezvous
<1>1. []IInv /\ [][Next]_vars => [][Meeting!Next]_Meeting!vars
  BY RdvStep, PTL
<1>2. QED
  BY <1>1, RdvInit, IInvInit, IInvStep, PTL
  DEF Spec, ImplementsRendezvous, Meeting!Spec

MeetingProofs == INSTANCE RendezvousProofs
                   WITH published <- MetaPublished, lookup <- Lookups

(* Carried over from Rendezvous through the refinement: the sender and    *)
(* the receiver never both have their metadata poll come back empty, so   *)
(* a timeout of retrieve_agent_metadata can strike one side only.         *)
THEOREM OneSideMissesAtMost == Spec => []Meeting!AtMostOneMisses
<1>1. Meeting!Init <=> MeetingProofs!Init
  BY DEF Meeting!Init, MeetingProofs!Init, Meeting!Parties,
         MeetingProofs!Parties
<1>2. [Meeting!Next]_Meeting!vars <=> [MeetingProofs!Next]_MeetingProofs!vars
  BY DEF Meeting!Next, MeetingProofs!Next, Meeting!vars, MeetingProofs!vars,
         Meeting!Publish, MeetingProofs!Publish, Meeting!Lookup,
         MeetingProofs!Lookup, Meeting!Retry, MeetingProofs!Retry,
         Meeting!GiveUp, MeetingProofs!GiveUp, Meeting!Kill,
         MeetingProofs!Kill, Meeting!Parties, MeetingProofs!Parties,
         Meeting!Peer, MeetingProofs!Peer
<1>3. Meeting!AtMostOneMisses <=> MeetingProofs!AtMostOneMisses
  BY DEF Meeting!AtMostOneMisses, MeetingProofs!AtMostOneMisses,
         Meeting!Parties, MeetingProofs!Parties, Meeting!Peer,
         MeetingProofs!Peer
<1>4. QED
  BY <1>1, <1>2, <1>3, MeetingProofs!NeverBothMiss, RendezvousRefinement, PTL
  DEF ImplementsRendezvous, Meeting!Spec, MeetingProofs!Spec

=============================================================================

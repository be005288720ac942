---------------------------- MODULE PedersenDKG ----------------------------
(***************************************************************************)
(* The Pedersen DKG handler (dkg/pedersen, Handler) on every participant  *)
(* of one setup, with the orchestrator that starts it.                    *)
(*                                                                         *)
(*  - Handler.Stream: under h.Lock it refuses the stream if running is    *)
(*    set and sets running when the key is not done yet; then it loops on *)
(*    in.Recv with a 4s timeout: a Start calls start (which spawns       *)
(*    doDKG), a Deal or a Response is pushed on a buffered channel of    *)
(*    capacity chanSize (push blocks while it is full), a DecryptRequest *)
(*    is answered and ends the stream.  A timeout ends the stream once   *)
(*    the key is done; EOF ends it; any other error ends it with an      *)
(*    error.  When Stream returns, its deferred cancel ends globalCtx.   *)
(*  - doDKG (its own goroutine): deal sends a deal to every other        *)
(*    participant (a failed send is only logged); respond pops n-1 deals *)
(*    and for each handleDeal sends a response to every other            *)
(*    participant; certify pops (n-1)^2 responses; finalize stores the   *)
(*    key (startRes.Done becomes true) and sends StartDone to the         *)
(*    orchestrator.  Every wait also selects on globalCtx.  A deferred   *)
(*    step clears running.                                                *)
(*  - The orchestrator (not under src/) sends Start to every participant *)
(*    and closes the stream (EOF) once it has every StartDone, or early  *)
(*    when its own context expires.                                       *)
(*  - Decrypt streams: another Stream carrying a DecryptRequest, which   *)
(*    passes the same running check first.                                *)
(* Cryptography is abstracted: deals, responses and the certification    *)
(* always verify.  Messages between participants are delivered in any    *)
(* order; a send to a participant whose Stream has returned fails.       *)
(***************************************************************************)
EXTENDS Naturals, Sequences, FiniteSets

CONSTANTS
    Nodes,        \* the participants of the setup
    ChanSize,     \* capacity of the deal and response channels (chanSize)
    MaxFaults,    \* bound on receive errors and failed starts
    MaxDecrypts,  \* bound on decrypt streams
    OrchTimeout   \* whether the orchestrator's context has a deadline

ASSUME /\ Cardinality(Nodes) >= 2 /\ ChanSize \in Nat \ {0}
       /\ MaxFaults \in Nat /\ MaxDecrypts \in Nat /\ OrchTimeout \in BOOLEAN

N == Cardinality(Nodes)
Others(n) == Nodes \ {n}

\* Responses node i must certify: one from every other node j for the deal
\* of every dealer d other than j.
AllResponses(i) == {<<j, d>> \in Others(i) \X Nodes : d # j}

Msg == [type : {"start"}] \cup [type : {"deal"}, from : Nodes]
       \cup [type : {"resp"}, from : Nodes, dealer : Nodes]

\* No message held by a push.
NoMsg == [type |-> "none"]

VARIABLES
    sPc,        \* [Nodes -> SPcs]: the setup Stream of each node
    pending,    \* [Nodes -> Msg \cup {NoMsg}]: message a blocked push holds, or NoMsg
    running,    \* [Nodes -> BOOLEAN]: Handler.running
    done,       \* [Nodes -> BOOLEAN]: startRes.Done()
    ctxDone,    \* [Nodes -> BOOLEAN]: globalCtx cancelled (Stream returned)
    inbox,      \* [Nodes -> SUBSET Msg]: messages queued for in.Recv
    dealsCh,    \* [Nodes -> Seq(Nodes)]: the deals channel (dealer ids)
    respCh,     \* [Nodes -> Seq(Nodes \X Nodes)]: responses <<from, dealer>>
    dkgPc,      \* [Nodes -> DPcs]: the doDKG goroutine
    dealTo,     \* [Nodes -> SUBSET Nodes]: participants still to get our deal
    nDeals,     \* [Nodes -> Nat]: numReceivedDeals in respond
    dealer,     \* [Nodes -> Nodes]: dealer of the deal handleDeal processes (n when none)
    respTo,     \* [Nodes -> SUBSET Nodes]: participants still to get the response
    respGot,    \* [Nodes -> SUBSET (Nodes \X Nodes)]: responses certify processed
    orchPc,     \* "init", "wait" or "closed"
    gotDone,    \* SUBSET Nodes: StartDone messages the orchestrator received
    faults,     \* environment faults so far
    decrypts    \* decrypt streams so far

vars == <<sPc, pending, running, done, ctxDone, inbox, dealsCh, respCh, dkgPc,
          dealTo, nDeals, dealer, respTo, respGot, orchPc, gotDone, faults,
          decrypts>>

SPcs == {"idle", "loop", "push", "ret"}
DPcs == {"none", "deal", "respond", "handle", "certify", "finalize", "send",
         "ok", "failed"}
Active == DPcs \ {"none", "ok", "failed"}

Init ==
    /\ sPc = [n \in Nodes |-> "idle"]
    /\ pending = [n \in Nodes |-> NoMsg]
    /\ running = [n \in Nodes |-> FALSE]
    /\ done = [n \in Nodes |-> FALSE]
    /\ ctxDone = [n \in Nodes |-> FALSE]
    /\ inbox = [n \in Nodes |-> {}]
    /\ dealsCh = [n \in Nodes |-> <<>>]
    /\ respCh = [n \in Nodes |-> <<>>]
    /\ dkgPc = [n \in Nodes |-> "none"]
    /\ dealTo = [n \in Nodes |-> {}]
    /\ nDeals = [n \in Nodes |-> 0]
    /\ dealer = [n \in Nodes |-> n]
    /\ respTo = [n \in Nodes |-> {}]
    /\ respGot = [n \in Nodes |-> {}]
    /\ orchPc = "init"
    /\ gotDone = {}
    /\ faults = 0
    /\ decrypts = 0
-----------------------------------------------------------------------------
(* Helpers.                                                               *)

\* out.Send to a participant: queued for its in.Recv unless its Stream has
\* returned, in which case the send fails.
SendFails(to) == sPc[to] = "ret"
Deliver(to, m) == inbox' = [inbox EXCEPT ![to] = @ \cup {m}]

\* cryChan.push on a channel with room.
HasRoom(ch) == Len(ch) < ChanSize

\* doDKG returns (with or without an error): its deferred step clears running.
EndDKG(n, pc) ==
    /\ dkgPc' = [dkgPc EXCEPT ![n] = pc]
    /\ running' = [running EXCEPT ![n] = FALSE]

\* Stream returns: the deferred cancel ends globalCtx.
EndStream(n) ==
    /\ sPc' = [sPc EXCEPT ![n] = "ret"]
    /\ ctxDone' = [ctxDone EXCEPT ![n] = TRUE]

-----------------------------------------------------------------------------
(* Mutations of the actions below, for checking that the properties can   *)
(* fail; they are not part of Spec.                                       *)

\* certify expecting one response fewer than (n-1)^2.
CertifyPopShort(n) ==
    /\ dkgPc[n] = "certify"
    /\ \/ /\ respCh[n] # <<>>
          /\ respGot' = [respGot EXCEPT ![n] = @ \cup {Head(respCh[n])}]
          /\ respCh' = [respCh EXCEPT ![n] = Tail(@)]
          /\ dkgPc' = [dkgPc EXCEPT ![n] =
                IF Cardinality(respGot'[n]) >= (N - 1) * (N - 1) - 1
                THEN "finalize" ELSE "certify"]
          /\ UNCHANGED running
       \/ /\ ctxDone[n]
          /\ EndDKG(n, "failed")
          /\ UNCHANGED <<respGot, respCh>>
    /\ UNCHANGED <<sPc, pending, done, ctxDone, inbox, dealsCh, dealTo,
                   nDeals, dealer, respTo, orchPc, gotDone, faults, decrypts>>

\* certify treating a failed pop (globalCtx done) as the end of the
\* responses.
CertifyPopIgnoresCtx(n) ==
    /\ dkgPc[n] = "certify"
    /\ \/ /\ respCh[n] # <<>>
          /\ respGot' = [respGot EXCEPT ![n] = @ \cup {Head(respCh[n])}]
          /\ respCh' = [respCh EXCEPT ![n] = Tail(@)]
          /\ dkgPc' = [dkgPc EXCEPT ![n] =
                IF Cardinality(respGot'[n]) >= (N - 1) * (N - 1)
                THEN "finalize" ELSE "certify"]
       \/ /\ ctxDone[n]
          /\ dkgPc' = [dkgPc EXCEPT ![n] = "finalize"]
          /\ UNCHANGED <<respGot, respCh>>
    /\ UNCHANGED <<sPc, pending, running, done, ctxDone, inbox, dealsCh,
                   dealTo, nDeals, dealer, respTo, orchPc, gotDone, faults,
                   decrypts>>

\* Stream pushing a Deal without waiting for room in the channel.
RecvDealUnbounded(n) ==
    /\ sPc[n] = "loop"
    /\ \E m \in inbox[n] :
        /\ m.type = "deal"
        /\ inbox' = [inbox EXCEPT ![n] = @ \ {m}]
        /\ dealsCh' = [dealsCh EXCEPT ![n] = Append(@, m.from)]
    /\ UNCHANGED <<sPc, pending, running, done, ctxDone, respCh, dkgPc,
                   dealTo, nDeals, dealer, respTo, respGot, orchPc, gotDone,
                   faults, decrypts>>

-----------------------------------------------------------------------------
(* Handler.Stream (the setup stream of each node).                        *)

\* The RPC reaches the node: under h.Lock, refuse if running, else set
\* running unless the key is already done.
StreamBegin(n) ==
    /\ sPc[n] = "idle"
    /\ orchPc # "init"
    /\ IF running[n]
       THEN /\ sPc' = [sPc EXCEPT ![n] = "ret"]
            /\ UNCHANGED running
       ELSE /\ sPc' = [sPc EXCEPT ![n] = "loop"]
            /\ running' = [running EXCEPT ![n] = @ \/ ~done[n]]
    /\ UNCHANGED <<pending, done, ctxDone, inbox, dealsCh, respCh, dkgPc,
                   dealTo, nDeals, dealer, respTo, respGot, orchPc, gotDone,
                   faults, decrypts>>

\* A Start message: start creates the DKG, sets the participants and
\* spawns doDKG, which begins by dealing.
RecvStart(n) ==
    /\ sPc[n] = "loop"
    /\ [type |-> "start"] \in inbox[n]
    /\ inbox' = [inbox EXCEPT ![n] = @ \ {[type |-> "start"]}]
    /\ dkgPc' = [dkgPc EXCEPT ![n] = "deal"]
    /\ dealTo' = [dealTo EXCEPT ![n] = Others(n)]
    /\ UNCHANGED <<sPc, pending, running, done, ctxDone, dealsCh, respCh,
                   nDeals, dealer, respTo, respGot, orchPc, gotDone, faults,
                   decrypts>>

\* start fails (participants and keys disagree, or the DKG cannot be
\* created): Stream returns the error.
StartFail(n) ==
    /\ sPc[n] = "loop"
    /\ [type |-> "start"] \in inbox[n]
    /\ faults < MaxFaults
    /\ faults' = faults + 1
    /\ inbox' = [inbox EXCEPT ![n] = @ \ {[type |-> "start"]}]
    /\ EndStream(n)
    /\ UNCHANGED <<pending, running, done, dealsCh, respCh, dkgPc, dealTo,
                   nDeals, dealer, respTo, respGot, orchPc, gotDone, decrypts>>

\* A Deal is pushed on the deals channel; the push blocks while it is full.
RecvDeal(n) ==
    /\ sPc[n] = "loop"
    /\ \E m \in inbox[n] :
        /\ m.type = "deal"
        /\ inbox' = [inbox EXCEPT ![n] = @ \ {m}]
        /\ IF HasRoom(dealsCh[n])
           THEN /\ dealsCh' = [dealsCh EXCEPT ![n] = Append(@, m.from)]
                /\ UNCHANGED <<sPc, pending>>
           ELSE /\ sPc' = [sPc EXCEPT ![n] = "push"]
                /\ pending' = [pending EXCEPT ![n] = m]
                /\ UNCHANGED dealsCh
    /\ UNCHANGED <<running, done, ctxDone, respCh, dkgPc, dealTo, nDeals,
                   dealer, respTo, respGot, orchPc, gotDone, faults, decrypts>>

\* A Response is pushed on the responses channel; the push blocks while it
\* is full.
RecvResp(n) ==
    /\ sPc[n] = "loop"
    /\ \E m \in inbox[n] :
        /\ m.type = "resp"
        /\ inbox' = [inbox EXCEPT ![n] = @ \ {m}]
        /\ IF HasRoom(respCh[n])
           THEN /\ respCh' = [respCh EXCEPT ![n] = Append(@, <<m.from, m.dealer>>)]
                /\ UNCHANGED <<sPc, pending>>
           ELSE /\ sPc' = [sPc EXCEPT ![n] = "push"]
                /\ pending' = [pending EXCEPT ![n] = m]
                /\ UNCHANGED respCh
    /\ UNCHANGED <<running, done, ctxDone, dealsCh, dkgPc, dealTo, nDeals,
                   dealer, respTo, respGot, orchPc, gotDone, faults, decrypts>>

\* The blocked push completes once doDKG has popped from that channel.
PushUnblock(n) ==
    /\ sPc[n] = "push"
    /\ LET m == pending[n] IN
       IF m.type = "deal"
       THEN /\ HasRoom(dealsCh[n])
            /\ dealsCh' = [dealsCh EXCEPT ![n] = Append(@, m.from)]
            /\ UNCHANGED respCh
       ELSE /\ HasRoom(respCh[n])
            /\ respCh' = [respCh EXCEPT ![n] = Append(@, <<m.from, m.dealer>>)]
            /\ UNCHANGED dealsCh
    /\ sPc' = [sPc EXCEPT ![n] = "loop"]
    /\ pending' = [pending EXCEPT ![n] = NoMsg]
    /\ UNCHANGED <<running, done, ctxDone, inbox, dkgPc, dealTo, nDeals,
                   dealer, respTo, respGot, orchPc, gotDone, faults, decrypts>>

\* in.Recv times out with nothing to receive: Stream returns once the key
\* is done (otherwise it loops again, which changes nothing).
RecvTimeout(n) ==
    /\ sPc[n] = "loop"
    /\ inbox[n] = {}
    /\ done[n]
    /\ EndStream(n)
    /\ UNCHANGED <<pending, running, done, inbox, dealsCh, respCh, dkgPc,
                   dealTo, nDeals, dealer, respTo, respGot, orchPc, gotDone,
                   faults, decrypts>>

\* in.Recv returns io.EOF: the orchestrator has closed the stream.
RecvEOF(n) ==
    /\ sPc[n] = "loop"
    /\ orchPc = "closed"
    /\ EndStream(n)
    /\ UNCHANGED <<pending, running, done, inbox, dealsCh, respCh, dkgPc,
                   dealTo, nDeals, dealer, respTo, respGot, orchPc, gotDone,
                   faults, decrypts>>

\* in.Recv fails: Stream returns the error.
RecvError(n) ==
    /\ sPc[n] = "loop"
    /\ faults < MaxFaults
    /\ faults' = faults + 1
    /\ EndStream(n)
    /\ UNCHANGED <<pending, running, done, inbox, dealsCh, respCh, dkgPc,
                   dealTo, nDeals, dealer, respTo, respGot, orchPc, gotDone,
                   decrypts>>

\* Another Stream carrying a DecryptRequest: the same running check, then
\* handleDecrypt, which fails unless the key is done; the stream returns.
Decrypt(n) ==
    /\ decrypts < MaxDecrypts
    /\ decrypts' = decrypts + 1
    /\ running' = [running EXCEPT ![n] = @ \/ ~done[n]]
    /\ UNCHANGED <<sPc, pending, done, ctxDone, inbox, dealsCh, respCh, dkgPc,
                   dealTo, nDeals, dealer, respTo, respGot, orchPc, gotDone,
                   faults>>

-----------------------------------------------------------------------------
(* doDKG (one goroutine per started node).                                *)

\* deal: send our deal to one more participant; a failed send is only
\* logged.  The select on globalCtx makes doDKG fail once Stream returned.
DealSend(n) ==
    /\ dkgPc[n] = "deal"
    /\ IF ctxDone[n]
       THEN /\ EndDKG(n, "failed")
            /\ UNCHANGED <<inbox, dealTo>>
       ELSE \E j \in dealTo[n] :
            /\ IF SendFails(j) THEN UNCHANGED inbox
               ELSE Deliver(j, [type |-> "deal", from |-> n])
            /\ dealTo' = [dealTo EXCEPT ![n] = @ \ {j}]
            /\ dkgPc' = [dkgPc EXCEPT ![n] =
                          IF dealTo'[n] = {} THEN "respond" ELSE "deal"]
            /\ UNCHANGED running
    /\ UNCHANGED <<sPc, pending, done, ctxDone, dealsCh, respCh, nDeals,
                   dealer, respTo, respGot, orchPc, gotDone, faults, decrypts>>

\* respond: pop the next deal (or fail on globalCtx) and hand it to
\* handleDeal, which answers every other participant.
RespondPop(n) ==
    /\ dkgPc[n] = "respond"
    /\ \/ /\ dealsCh[n] # <<>>
          /\ dealer' = [dealer EXCEPT ![n] = Head(dealsCh[n])]
          /\ dealsCh' = [dealsCh EXCEPT ![n] = Tail(@)]
          /\ respTo' = [respTo EXCEPT ![n] = Others(n)]
          /\ dkgPc' = [dkgPc EXCEPT ![n] = "handle"]
          /\ UNCHANGED running
       \/ /\ ctxDone[n]
          /\ EndDKG(n, "failed")
          /\ UNCHANGED <<dealer, dealsCh, respTo>>
    /\ UNCHANGED <<sPc, pending, done, ctxDone, inbox, respCh, dealTo, nDeals,
                   respGot, orchPc, gotDone, faults, decrypts>>

\* handleDeal: send the response to one more participant.  A failed send,
\* or globalCtx done, returns an error, and respond with it.  After the
\* last one respond counts the deal, and moves on to certify after n-1
\* deals.
HandleSend(n) ==
    /\ dkgPc[n] = "handle"
    /\ \E j \in respTo[n] :
        IF SendFails(j) \/ ctxDone[n]
        THEN /\ EndDKG(n, "failed")
             /\ UNCHANGED <<inbox, respTo, nDeals, dealer>>
        ELSE /\ Deliver(j, [type |-> "resp", from |-> n, dealer |-> dealer[n]])
             /\ respTo' = [respTo EXCEPT ![n] = @ \ {j}]
             /\ IF respTo'[n] = {}
                THEN /\ nDeals' = [nDeals EXCEPT ![n] = @ + 1]
                     /\ dkgPc' = [dkgPc EXCEPT ![n] =
                                   IF nDeals'[n] = N - 1 THEN "certify"
                                   ELSE "respond"]
                     /\ dealer' = [dealer EXCEPT ![n] = n]
                ELSE UNCHANGED <<nDeals, dkgPc, dealer>>
             /\ UNCHANGED running
    /\ UNCHANGED <<sPc, pending, done, ctxDone, dealsCh, respCh, dealTo,
                   respGot, orchPc, gotDone, faults, decrypts>>

\* certify: pop responses until (n-1)^2 have been processed.
CertifyPop(n) ==
    /\ dkgPc[n] = "certify"
    /\ \/ /\ respCh[n] # <<>>
          /\ respGot' = [respGot EXCEPT ![n] = @ \cup {Head(respCh[n])}]
          /\ respCh' = [respCh EXCEPT ![n] = Tail(@)]
          /\ dkgPc' = [dkgPc EXCEPT ![n] =
                IF Cardinality(respGot'[n]) >= (N - 1) * (N - 1)
                THEN "finalize" ELSE "certify"]
          /\ UNCHANGED running
       \/ /\ ctxDone[n]
          /\ EndDKG(n, "failed")
          /\ UNCHANGED <<respGot, respCh>>
    /\ UNCHANGED <<sPc, pending, done, ctxDone, inbox, dealsCh, dealTo,
                   nDeals, dealer, respTo, orchPc, gotDone, faults, decrypts>>

\* finalize: SetDistKey, after which startRes.Done() holds.
FinalizeSet(n) ==
    /\ dkgPc[n] = "finalize"
    /\ done' = [done EXCEPT ![n] = TRUE]
    /\ dkgPc' = [dkgPc EXCEPT ![n] = "send"]
    /\ UNCHANGED <<sPc, pending, running, ctxDone, inbox, dealsCh, respCh,
                   dealTo, nDeals, dealer, respTo, respGot, orchPc, gotDone,
                   faults, decrypts>>

\* finalize: send StartDone to the orchestrator, or fail on globalCtx; the
\* deferred step then clears running.
FinalizeSend(n) ==
    /\ dkgPc[n] = "send"
    /\ IF ctxDone[n]
       THEN /\ EndDKG(n, "failed")
            /\ UNCHANGED gotDone
       ELSE /\ EndDKG(n, "ok")
            /\ gotDone' = gotDone \cup {n}
    /\ UNCHANGED <<sPc, pending, done, ctxDone, inbox, dealsCh, respCh,
                   dealTo, nDeals, dealer, respTo, respGot, orchPc, faults,
                   decrypts>>

-----------------------------------------------------------------------------
(* The orchestrator (the DKG actor's Setup, not under src/).              *)

\* Open the stream and send Start to every participant.
OrchStart ==
    /\ orchPc = "init"
    /\ orchPc' = "wait"
    /\ inbox' = [n \in Nodes |-> inbox[n] \cup {[type |-> "start"]}]
    /\ UNCHANGED <<sPc, pending, running, done, ctxDone, dealsCh, respCh,
                   dkgPc, dealTo, nDeals, dealer, respTo, respGot, gotDone,
                   faults, decrypts>>

\* Every participant answered StartDone: close the stream.
OrchClose ==
    /\ orchPc = "wait"
    /\ gotDone = Nodes
    /\ orchPc' = "closed"
    /\ UNCHANGED <<sPc, pending, running, done, ctxDone, inbox, dealsCh,
                   respCh, dkgPc, dealTo, nDeals, dealer, respTo, respGot,
                   gotDone, faults, decrypts>>

\* The orchestrator's context deadline expires before every StartDone is
\* in: it closes the stream early.
OrchGiveUp ==
    /\ OrchTimeout
    /\ orchPc = "wait"
    /\ gotDone # Nodes
    /\ orchPc' = "closed"
    /\ UNCHANGED <<sPc, pending, running, done, ctxDone, inbox, dealsCh,
                   respCh, dkgPc, dealTo, nDeals, dealer, respTo, respGot,
                   gotDone, faults, decrypts>>

-----------------------------------------------------------------------------
(* The specification.                                                     *)

\* The steps of each node's setup Stream goroutine.
StreamStep(n) ==
    \/ StreamBegin(n) \/ RecvStart(n) \/ RecvDeal(n) \/ RecvResp(n)
    \/ PushUnblock(n) \/ RecvTimeout(n) \/ RecvEOF(n)

\* The steps of each node's doDKG goroutine.
DKGStep(n) ==
    \/ DealSend(n) \/ RespondPop(n) \/ HandleSend(n) \/ CertifyPop(n)
    \/ FinalizeSet(n) \/ FinalizeSend(n)

\* Faults and decrypt requests come from the environment.
Env(n) == StartFail(n) \/ RecvError(n) \/ Decrypt(n)

Next ==
    \/ \E n \in Nodes : StreamStep(n) \/ DKGStep(n) \/ Env(n)
    \/ OrchStart \/ OrchClose \/ OrchGiveUp

Fairness ==
    /\ \A n \in Nodes : WF_vars(StreamStep(n)) /\ WF_vars(DKGStep(n))
    /\ WF_vars(OrchStart) /\ WF_vars(OrchClose) /\ WF_vars(OrchGiveUp)

Spec == Init /\ [][Next]_vars /\ Fairness

-----------------------------------------------------------------------------
(* Properties.                                                            *)

TypeOK ==
    /\ sPc \in [Nodes -> SPcs]
    /\ pending \in [Nodes -> Msg \cup {NoMsg}]
    /\ running \in [Nodes -> BOOLEAN]
    /\ done \in [Nodes -> BOOLEAN]
    /\ ctxDone \in [Nodes -> BOOLEAN]
    /\ inbox \in [Nodes -> SUBSET Msg]
    /\ \A n \in Nodes : Len(dealsCh[n]) <= ChanSize /\ Len(respCh[n]) <= ChanSize
    /\ dkgPc \in [Nodes -> DPcs]
    /\ dealTo \in [Nodes -> SUBSET Nodes]
    /\ nDeals \in [Nodes -> 0..(N - 1)]
    /\ respGot \in [Nodes -> SUBSET (Nodes \X Nodes)]
    /\ orchPc \in {"init", "wait", "closed"}
    /\ gotDone \subseteq Nodes

\* certify lets finalize store the key only after it has processed the
\* response of every other participant to every deal, and then every
\* participant has finished dealing: a node never holds a key built from
\* part of the setup, whatever the order deals and responses arrive in.
CertifiedAfterAllResponses ==
    \A i \in Nodes :
        done[i] => /\ respGot[i] = AllResponses(i)
                   /\ \A j \in Nodes : dkgPc[j] \notin {"none", "deal"}

\* The running flag Stream sets is cleared again, so a node that started a
\* setup can always take a later stream: the handler's comment says only
\* a setup in progress is refused.  (The cli/crypto test, mod.go:59-68,
\* expects "DKG is running" right after a stream whose receive failed,
\* that is it relies on the flag staying set.)
SetupSettles == \A n \in Nodes : running[n] ~> ~running[n]

\* running is set only while a setup is in progress on the node: its setup
\* Stream is receiving, or doDKG has not returned.
NoStaleRunning ==
    \A n \in Nodes :
        running[n] => \/ sPc[n] \in {"loop", "push"}
                      \/ dkgPc[n] \in Active

\* Once every participant has stored the key, the orchestrator eventually
\* holds every StartDone (finalize's acknowledgement is not lost).
SetupCompletes == (\A n \in Nodes : done[n]) ~> (gotDone = Nodes)

=============================================================================

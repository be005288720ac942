----------------------------- MODULE BlockSync -----------------------------
(***************************************************************************)
(* The block synchronizer of cosipbft (core/ordering/cosipbft/blocksync/  *)
(* default.go).  An orchestrator (the leader) calls Sync: its routine      *)
(* opens a stream to the players, announces its block count, counts the    *)
(* players that are soft-synced (sent a SyncRequest) and hard-synced (sent *)
(* a SyncAck, or failed), and streams the missing blocks with syncNode.    *)
(* Each player runs the stream handler: it waits for the announcement,    *)
(* acknowledges at once when it already has the blocks, and otherwise,    *)
(* under the handler mutex, raises the cached latest index, requests the  *)
(* blocks from its own count and catches them up one by one.              *)
(*                                                                         *)
(* Several Sync calls may run at once (one per element of Syncs); the     *)
(* handlers of one player then compete for its mutex.  The overlay stream *)
(* of one Sync is modelled as one FIFO per player (orchestrator to player)*)
(* and one FIFO at the orchestrator (the session's receive queue).  A     *)
(* send may fail (bounded by MaxSendErrors) and the caller may cancel the *)
(* context of a Sync, which fails every later send and receive on it.     *)
(***************************************************************************)
EXTENDS Naturals, Sequences, FiniteSets

CONSTANTS
    Players,        \* the players of every Sync (mino.Players)
    Leaders,        \* nodes that orchestrate a Sync
    Syncs,          \* identifiers of concurrent Sync calls
    OrchOf,         \* [Syncs -> Leaders]: the node that calls Sync
    MaxBlock,       \* bound on the length of any block store
    MaxSendErrors,  \* bound on the number of sends that fail
    None            \* model value: the mutex is free / no target

ASSUME /\ Players # {} /\ Leaders \cap Players = {}
       /\ OrchOf \in [Syncs -> Leaders]
       /\ MaxBlock \in Nat /\ MaxSendErrors \in Nat
       /\ None \notin Syncs \cup Players

Nodes == Players \cup Leaders

VARIABLES
    blocks,     \* [Nodes -> Nat]: blocks.Len() of each node's block store
    latest,     \* [Players -> Nat]: *handler.latest, read by GetLatest
    owner,      \* [Players -> Syncs \cup {None}]: holder of handler's Mutex
    oPc,        \* [Syncs -> ...]: where routine is
    announced,  \* [Syncs -> Nat]: `latest` local to routine (line 100)
    soft,       \* [Syncs -> SUBSET Players]
    hard,       \* [Syncs -> SUBSET Players]
    errd,       \* [Syncs -> SUBSET Players]: players behind hardErrs
    target,     \* [Syncs -> Players \cup {None}]: `to` of syncNode
    next,       \* [Syncs -> Nat]: loop index i of syncNode
    hPc,        \* [Syncs -> [Players -> ...]]: where Stream is
    hIdx,       \* [Syncs -> [Players -> Nat]]: m.GetLatestIndex()
    toP,        \* [Syncs -> [Players -> Seq(Msg)]]: orchestrator to player
    toO,        \* [Syncs -> Seq(Msg)]: receive queue of the orchestrator
    cancelled,  \* [Syncs -> BOOLEAN]: ctx of the Sync call is done
    ch,         \* [Syncs -> Seq(Event)]: the Event channel, capacity 1
    closed,     \* [Syncs -> BOOLEAN]: close(ch) has happened
    seen,       \* [Syncs -> Event]: last event read by the caller
    sendErrs    \* number of sends that failed so far

orchVars == <<announced, soft, hard, errd, target, next, ch, closed>>
vars == <<blocks, latest, owner, oPc, orchVars, hPc, hIdx, toP, toO,
          cancelled, seen, sendErrs>>

OPcs == {"idle", "announce", "loop", "syncNode", "done", "failed"}
HPcs == {"idle", "wait", "lock", "request", "catchup", "ack", "done", "failed"}

Msg == [type : {"announce", "reply", "request", "ack"},
        from : Nodes, idx : 0..MaxBlock]
Event == [soft : Nat, hard : Nat, errors : Nat]

Announce(s, i) == [type |-> "announce", from |-> OrchOf[s], idx |-> i]
SyncReply(s, i) == [type |-> "reply", from |-> OrchOf[s], idx |-> i]
SyncRequest(p, i) == [type |-> "request", from |-> p, idx |-> i]
SyncAck(p) == [type |-> "ack", from |-> p, idx |-> 0]

\* The Event published by sendToChannel for the given sets.
NewEvent(sf, hd, er) ==
    [soft |-> Cardinality(sf), hard |-> Cardinality(hd), errors |-> Cardinality(er)]

(***************************************************************************)
(* A send on the stream of Sync s: it fails when the context is done, or  *)
(* spuriously while the error budget lasts.                               *)
(***************************************************************************)
SendOk(s) == ~cancelled[s]
SendFails(s) == cancelled[s] \/ sendErrs < MaxSendErrors
CountSendError(s) == sendErrs' = IF cancelled[s] THEN sendErrs ELSE sendErrs + 1

Init ==
    /\ blocks \in [Nodes -> 0..MaxBlock]
    /\ latest = [p \in Players |-> blocks[p]]
    /\ owner = [p \in Players |-> None]
    /\ oPc = [s \in Syncs |-> "idle"]
    /\ announced = [s \in Syncs |-> 0]
    /\ soft = [s \in Syncs |-> {}]
    /\ hard = [s \in Syncs |-> {}]
    /\ errd = [s \in Syncs |-> {}]
    /\ target = [s \in Syncs |-> None]
    /\ next = [s \in Syncs |-> 0]
    /\ hPc = [s \in Syncs |-> [p \in Players |-> "idle"]]
    /\ hIdx = [s \in Syncs |-> [p \in Players |-> 0]]
    /\ toP = [s \in Syncs |-> [p \in Players |-> <<>>]]
    /\ toO = [s \in Syncs |-> <<>>]
    /\ cancelled = [s \in Syncs |-> FALSE]
    /\ ch = [s \in Syncs |-> <<>>]
    /\ closed = [s \in Syncs |-> FALSE]
    /\ seen = [s \in Syncs |-> NewEvent({}, {}, {})]
    /\ sendErrs = 0

\* Releasing the mutex (deferred Unlock) if this Stream holds it.
Release(s, p) == owner' = [owner EXCEPT ![p] = IF @ = s THEN None ELSE @]

SetHPc(s, p, pc) == hPc' = [hPc EXCEPT ![s][p] = pc]

\* GetLatest: the atomic load of *latest.
GetLatest(p) == latest[p]

\* waitAnnounce: the stream's next message is the orchestrator's SyncMessage
\* (its failing Recv is HandlerRecvFail).
AnnounceReceived(s, p) ==
    /\ toP[s][p] # <<>>
    /\ Head(toP[s][p]).type = "announce"

-----------------------------------------------------------------------------
(* Mutations of the actions below, each a plausible slip in default.go.   *)
(* They are not part of Spec; the model checker substitutes one at a time *)
(* to confirm that the properties notice it.                              *)

\* syncNode's loop written i <= s.blocks.Len().
SyncNodeSendPastEnd(s) ==
    /\ oPc[s] = "syncNode"
    /\ next[s] <= blocks[OrchOf[s]]
    /\ SendOk(s)
    /\ toP' = [toP EXCEPT ![s][target[s]] = Append(@, SyncReply(s, next[s]))]
    /\ next' = [next EXCEPT ![s] = @ + 1]
    /\ UNCHANGED <<blocks, latest, owner, oPc, announced, soft, hard, errd,
                   target, ch, closed, hPc, hIdx, toO, cancelled, seen, sendErrs>>

\* sendToChannel as a non-blocking send that drops the event when full.
RecvAckDropWhenFull(s) ==
    /\ oPc[s] = "loop" /\ Cardinality(hard[s]) < Cardinality(Players)
    /\ toO[s] # <<>>
    /\ Head(toO[s]).type = "ack"
    /\ soft' = [soft EXCEPT ![s] = @ \cup {Head(toO[s]).from}]
    /\ hard' = [hard EXCEPT ![s] = @ \cup {Head(toO[s]).from}]
    /\ ch' = [ch EXCEPT ![s] = IF @ = <<>>
                                THEN <<NewEvent(soft'[s], hard'[s], errd[s])>>
                                ELSE @]
    /\ toO' = [toO EXCEPT ![s] = Tail(@)]
    /\ UNCHANGED <<blocks, latest, owner, oPc, announced, errd, target, next,
                   closed, hPc, hIdx, toP, cancelled, seen, sendErrs>>

\* Stream without h.Lock(): the catch-up loops of two Syncs overlap.
LockMissing(s, p) ==
    /\ hPc[s][p] = "lock"
    /\ latest' = [latest EXCEPT ![p] = IF hIdx[s][p] > @ THEN hIdx[s][p] ELSE @]
    /\ SetHPc(s, p, "request")
    /\ UNCHANGED <<blocks, owner, oPc, orchVars, hIdx, toP, toO, cancelled,
                   seen, sendErrs>>

\* The catch-up loop stops one block short (blocks.Len()+1 < index).
CatchUpDoneEarly(s, p) ==
    /\ hPc[s][p] = "catchup"
    /\ blocks[p] + 1 >= hIdx[s][p]
    /\ SetHPc(s, p, "ack")
    /\ UNCHANGED <<blocks, latest, owner, oPc, orchVars, hIdx, toP, toO,
                   cancelled, seen, sendErrs>>

\* ack sent without the deferred Unlock.
AckKeepsLock(s, p) ==
    /\ hPc[s][p] = "ack"
    /\ \/ /\ SendOk(s)
          /\ toO' = [toO EXCEPT ![s] = Append(@, SyncAck(p))]
          /\ SetHPc(s, p, "done")
          /\ UNCHANGED sendErrs
       \/ /\ SendFails(s)
          /\ CountSendError(s)
          /\ SetHPc(s, p, "failed")
          /\ UNCHANGED toO
    /\ UNCHANGED <<blocks, latest, owner, oPc, orchVars, hIdx, toP, cancelled,
                   seen>>

-----------------------------------------------------------------------------
(* Orchestrator side: Sync and routine.                                    *)

\* Sync spawns routine, which opens the stream: every player's handler runs.
Sync(s) ==
    /\ oPc[s] = "idle"
    /\ oPc' = [oPc EXCEPT ![s] = "announce"]
    /\ hPc' = [hPc EXCEPT ![s] = [p \in Players |-> "wait"]]
    /\ UNCHANGED <<blocks, latest, owner, orchVars, hIdx, toP, toO,
                   cancelled, seen, sendErrs>>

\* Step 1 of routine: announce blocks.Len() to every player.
AnnounceOk(s) ==
    /\ oPc[s] = "announce"
    /\ SendOk(s)
    /\ announced' = [announced EXCEPT ![s] = blocks[OrchOf[s]]]
    /\ toP' = [toP EXCEPT ![s] = [p \in Players |->
                    Append(@[p], Announce(s, blocks[OrchOf[s]]))]]
    /\ oPc' = [oPc EXCEPT ![s] = "loop"]
    /\ UNCHANGED <<blocks, latest, owner, soft, hard, errd, target, next,
                   ch, closed, hPc, hIdx, toO, cancelled, seen, sendErrs>>

\* Some destination reports an error: routine returns and Sync closes ch.
\* The players in `got` were reached before the error was read.
AnnounceFail(s) ==
    /\ oPc[s] = "announce"
    /\ SendFails(s)
    /\ \E got \in SUBSET Players :
         /\ got # Players
         /\ cancelled[s] => got = {}
         /\ toP' = [toP EXCEPT ![s] = [p \in Players |->
                     IF p \in got THEN Append(@[p], Announce(s, blocks[OrchOf[s]]))
                                  ELSE @[p]]]
    /\ announced' = [announced EXCEPT ![s] = blocks[OrchOf[s]]]
    /\ CountSendError(s)
    /\ oPc' = [oPc EXCEPT ![s] = "failed"]
    /\ closed' = [closed EXCEPT ![s] = TRUE]
    /\ UNCHANGED <<blocks, latest, owner, soft, hard, errd, target, next, ch,
                   hPc, hIdx, toO, cancelled, seen>>

LoopGuard(s) == oPc[s] = "loop" /\ Cardinality(hard[s]) < Cardinality(Players)

\* A SyncRequest from a player not yet soft: publish, then start syncNode.
RecvRequest(s) ==
    /\ LoopGuard(s)
    /\ toO[s] # <<>>
    /\ LET m == Head(toO[s]) IN
         /\ m.type = "request"
         /\ m.from \notin soft[s]
         /\ soft' = [soft EXCEPT ![s] = @ \cup {m.from}]
         /\ ch' = [ch EXCEPT ![s] = <<NewEvent(soft'[s], hard[s], errd[s])>>]
         /\ target' = [target EXCEPT ![s] = m.from]
         /\ next' = [next EXCEPT ![s] = m.idx]
    /\ toO' = [toO EXCEPT ![s] = Tail(@)]
    /\ oPc' = [oPc EXCEPT ![s] = "syncNode"]
    /\ UNCHANGED <<blocks, latest, owner, announced, hard, errd, closed, hPc,
                   hIdx, toP, cancelled, seen, sendErrs>>

\* A SyncAck makes the player soft and hard.
RecvAck(s) ==
    /\ LoopGuard(s)
    /\ toO[s] # <<>>
    /\ Head(toO[s]).type = "ack"
    /\ soft' = [soft EXCEPT ![s] = @ \cup {Head(toO[s]).from}]
    /\ hard' = [hard EXCEPT ![s] = @ \cup {Head(toO[s]).from}]
    /\ ch' = [ch EXCEPT ![s] = <<NewEvent(soft'[s], hard'[s], errd[s])>>]
    /\ toO' = [toO EXCEPT ![s] = Tail(@)]
    /\ UNCHANGED <<blocks, latest, owner, oPc, announced, errd, target, next,
                   closed, hPc, hIdx, toP, cancelled, seen, sendErrs>>

\* Recv returns the context error: routine fails and ch is closed.
RecvFail(s) ==
    /\ LoopGuard(s)
    /\ cancelled[s]
    /\ oPc' = [oPc EXCEPT ![s] = "failed"]
    /\ closed' = [closed EXCEPT ![s] = TRUE]
    /\ UNCHANGED <<blocks, latest, owner, announced, soft, hard, errd, target,
                   next, ch, hPc, hIdx, toP, toO, cancelled, seen, sendErrs>>

\* Every player is hard: routine returns nil and Sync closes ch.
Finish(s) ==
    /\ oPc[s] = "loop"
    /\ Cardinality(hard[s]) = Cardinality(Players)
    /\ oPc' = [oPc EXCEPT ![s] = "done"]
    /\ closed' = [closed EXCEPT ![s] = TRUE]
    /\ UNCHANGED <<blocks, latest, owner, announced, soft, hard, errd, target,
                   next, ch, hPc, hIdx, toP, toO, cancelled, seen, sendErrs>>

\* One iteration of syncNode: send block i, waiting for the send's result.
SyncNodeSend(s) ==
    /\ oPc[s] = "syncNode"
    /\ next[s] < blocks[OrchOf[s]]
    /\ SendOk(s)
    /\ toP' = [toP EXCEPT ![s][target[s]] = Append(@, SyncReply(s, next[s]))]
    /\ next' = [next EXCEPT ![s] = @ + 1]
    /\ UNCHANGED <<blocks, latest, owner, oPc, announced, soft, hard, errd,
                   target, ch, closed, hPc, hIdx, toO, cancelled, seen, sendErrs>>

\* The send fails: the player is counted hard with the error recorded.
SyncNodeFail(s) ==
    /\ oPc[s] = "syncNode"
    /\ next[s] < blocks[OrchOf[s]]
    /\ SendFails(s)
    /\ CountSendError(s)
    /\ hard' = [hard EXCEPT ![s] = @ \cup {target[s]}]
    /\ errd' = [errd EXCEPT ![s] = @ \cup {target[s]}]
    /\ ch' = [ch EXCEPT ![s] = <<NewEvent(soft[s], hard'[s], errd'[s])>>]
    /\ oPc' = [oPc EXCEPT ![s] = "loop"]
    /\ UNCHANGED <<blocks, latest, owner, announced, soft, target, next, closed,
                   hPc, hIdx, toP, toO, cancelled, seen>>

\* The loop of syncNode ends at the current blocks.Len().
SyncNodeEnd(s) ==
    /\ oPc[s] = "syncNode"
    /\ next[s] >= blocks[OrchOf[s]]
    /\ oPc' = [oPc EXCEPT ![s] = "loop"]
    /\ UNCHANGED <<blocks, latest, owner, orchVars, hPc, hIdx, toP, toO,
                   cancelled, seen, sendErrs>>
-----------------------------------------------------------------------------
(* Player side: handler.Stream, waitAnnounce and ack.                      *)

\* waitAnnounce returns the announcement; Stream compares it with its
\* blocks.Len() outside the mutex.
WaitAnnounce(s, p) ==
    /\ hPc[s][p] = "wait"
    /\ AnnounceReceived(s, p)
    /\ hIdx' = [hIdx EXCEPT ![s][p] = Head(toP[s][p]).idx]
    /\ toP' = [toP EXCEPT ![s][p] = Tail(@)]
    /\ SetHPc(s, p, IF hIdx'[s][p] <= blocks[p] THEN "ack" ELSE "lock")
    /\ UNCHANGED <<blocks, latest, owner, oPc, orchVars, toO, cancelled,
                   seen, sendErrs>>

\* h.Lock(), then the compare-and-store of the latest index.
Lock(s, p) ==
    /\ hPc[s][p] = "lock"
    /\ owner[p] = None
    /\ owner' = [owner EXCEPT ![p] = s]
    /\ latest' = [latest EXCEPT ![p] = IF hIdx[s][p] > @ THEN hIdx[s][p] ELSE @]
    /\ SetHPc(s, p, "request")
    /\ UNCHANGED <<blocks, oPc, orchVars, hIdx, toP, toO, cancelled, seen,
                   sendErrs>>

\* The SyncRequest carries blocks.Len() read under the mutex.
SendRequest(s, p) ==
    /\ hPc[s][p] = "request"
    /\ \/ /\ SendOk(s)
          /\ toO' = [toO EXCEPT ![s] = Append(@, SyncRequest(p, blocks[p]))]
          /\ SetHPc(s, p, "catchup")
          /\ UNCHANGED <<owner, sendErrs>>
       \/ /\ SendFails(s)
          /\ CountSendError(s)
          /\ SetHPc(s, p, "failed")
          /\ Release(s, p)
          /\ UNCHANGED toO
    /\ UNCHANGED <<blocks, latest, oPc, orchVars, hIdx, toP, cancelled, seen>>

\* One iteration of the catch-up loop: a SyncReply is handed to
\* pbftsm.CatchUp, which stores the block following the stored ones.
CatchUp(s, p) ==
    /\ hPc[s][p] = "catchup"
    /\ blocks[p] < hIdx[s][p]
    /\ toP[s][p] # <<>>
    /\ Head(toP[s][p]).type = "reply"
    /\ Head(toP[s][p]).idx = blocks[p]
    /\ blocks' = [blocks EXCEPT ![p] = @ + 1]
    /\ toP' = [toP EXCEPT ![s][p] = Tail(@)]
    /\ UNCHANGED <<latest, owner, oPc, orchVars, hPc, hIdx, toO, cancelled,
                   seen, sendErrs>>

\* The loop condition blocks.Len() < m.GetLatestIndex() is false.
CatchUpDone(s, p) ==
    /\ hPc[s][p] = "catchup"
    /\ blocks[p] >= hIdx[s][p]
    /\ SetHPc(s, p, "ack")
    /\ UNCHANGED <<blocks, latest, owner, oPc, orchVars, hIdx, toP, toO,
                   cancelled, seen, sendErrs>>

\* A Recv of waitAnnounce or of the catch-up loop returns an error: the
\* stream of this Sync is closed. Stream returns (and unlocks).
HandlerRecvFail(s, p) ==
    /\ cancelled[s]
    /\ \/ hPc[s][p] = "wait"
       \/ hPc[s][p] = "catchup" /\ blocks[p] < hIdx[s][p]
    /\ SetHPc(s, p, "failed")
    /\ Release(s, p)
    /\ UNCHANGED <<blocks, latest, oPc, orchVars, hIdx, toP, toO, cancelled,
                   seen, sendErrs>>

\* ack sends the SyncAck; Stream returns and the deferred Unlock runs.
Ack(s, p) ==
    /\ hPc[s][p] = "ack"
    /\ \/ /\ SendOk(s)
          /\ toO' = [toO EXCEPT ![s] = Append(@, SyncAck(p))]
          /\ SetHPc(s, p, "done")
          /\ UNCHANGED sendErrs
       \/ /\ SendFails(s)
          /\ CountSendError(s)
          /\ SetHPc(s, p, "failed")
          /\ UNCHANGED toO
    /\ Release(s, p)
    /\ UNCHANGED <<blocks, latest, oPc, orchVars, hIdx, toP, cancelled, seen>>

-----------------------------------------------------------------------------
(* Environment: consensus at a leader, the caller of Sync.                 *)

\* The leader's consensus stores a new block while synchronizations run.
Commit(n) ==
    /\ n \in Leaders
    /\ blocks[n] < MaxBlock
    /\ blocks' = [blocks EXCEPT ![n] = @ + 1]
    /\ UNCHANGED <<latest, owner, oPc, orchVars, hPc, hIdx, toP, toO,
                   cancelled, seen, sendErrs>>

\* The caller's context of Sync s is cancelled (or times out).
Cancel(s) ==
    /\ oPc[s] # "idle"
    /\ ~cancelled[s]
    /\ cancelled' = [cancelled EXCEPT ![s] = TRUE]
    /\ UNCHANGED <<blocks, latest, owner, oPc, orchVars, hPc, hIdx, toP, toO,
                   seen, sendErrs>>

\* The caller ranges over the Event channel.
Consume(s) ==
    /\ ch[s] # <<>>
    /\ seen' = [seen EXCEPT ![s] = Head(ch[s])]
    /\ ch' = [ch EXCEPT ![s] = Tail(@)]
    /\ UNCHANGED <<blocks, latest, owner, oPc, announced, soft, hard, errd,
                   target, next, closed, hPc, hIdx, toP, toO, cancelled,
                   sendErrs>>

OrchStep(s) ==
    \/ AnnounceOk(s) \/ AnnounceFail(s)
    \/ RecvRequest(s) \/ RecvAck(s)
    \/ RecvFail(s) \/ Finish(s)
    \/ SyncNodeSend(s) \/ SyncNodeFail(s) \/ SyncNodeEnd(s)

HandlerStep(s, p) ==
    \/ WaitAnnounce(s, p) \/ SendRequest(s, p) \/ CatchUp(s, p)
    \/ CatchUpDone(s, p) \/ HandlerRecvFail(s, p) \/ Ack(s, p)

Next ==
    \/ \E s \in Syncs :
         \/ Sync(s) \/ OrchStep(s) \/ Cancel(s) \/ Consume(s)
         \/ \E p \in Players : Lock(s, p) \/ HandlerStep(s, p)
    \/ \E n \in Leaders : Commit(n)

(***************************************************************************)
(* Every goroutine that can run eventually runs (weak fairness); a waiter *)
(* on the handler mutex gets it if it is free infinitely often: Go's      *)
(* sync.Mutex switches to FIFO hand-off for waiters starved over 1ms.     *)
(* A send step is fair, whichever its outcome; Sync calls, commits,      *)
(* cancellations and the caller's reads of the Event channel are the     *)
(* environment's and are not forced.                                     *)
(***************************************************************************)
Fairness ==
    /\ \A s \in Syncs :
         /\ WF_vars(AnnounceOk(s) \/ AnnounceFail(s))
         /\ WF_vars(RecvRequest(s) \/ RecvAck(s))
         /\ WF_vars(RecvFail(s)) /\ WF_vars(Finish(s))
         /\ WF_vars(SyncNodeSend(s) \/ SyncNodeFail(s))
         /\ WF_vars(SyncNodeEnd(s))
         /\ \A p \in Players :
              /\ SF_vars(Lock(s, p))
              /\ WF_vars(HandlerStep(s, p))

Spec == Init /\ [][Next]_vars /\ Fairness

-----------------------------------------------------------------------------
(* Properties.                                                             *)

TypeOK ==
    /\ blocks \in [Nodes -> 0..MaxBlock]
    /\ latest \in [Players -> 0..MaxBlock]
    /\ owner \in [Players -> Syncs \cup {None}]
    /\ oPc \in [Syncs -> OPcs]
    /\ announced \in [Syncs -> 0..MaxBlock]
    /\ soft \in [Syncs -> SUBSET Players]
    /\ hard \in [Syncs -> SUBSET Players]
    /\ errd \in [Syncs -> SUBSET Players]
    /\ target \in [Syncs -> Players \cup {None}]
    /\ next \in [Syncs -> 0..MaxBlock]
    /\ hPc \in [Syncs -> [Players -> HPcs]]
    /\ hIdx \in [Syncs -> [Players -> 0..MaxBlock]]
    /\ toP \in [Syncs -> [Players -> Seq(Msg)]]
    /\ toO \in [Syncs -> Seq(Msg)]
    /\ cancelled \in [Syncs -> BOOLEAN]
    /\ ch \in [Syncs -> Seq(Event)] /\ \A s \in Syncs : Len(ch[s]) <= 1
    /\ closed \in [Syncs -> BOOLEAN]
    /\ seen \in [Syncs -> Event]
    /\ sendErrs \in 0..MaxSendErrors

(***************************************************************************)
(* Hard synchronization means what its name says: a player that routine   *)
(* counts hard without recording an error for it (a SyncAck arrived) has *)
(* stored every block up to the index routine announced, whatever other   *)
(* Sync calls did to that player meanwhile.                               *)
(***************************************************************************)
HardMeansSynced ==
    \A s \in Syncs : \A p \in hard[s] \ errd[s] : blocks[p] >= announced[s]

(***************************************************************************)
(* The comment of Stream (lines 197-200): because the SyncRequest carries *)
(* the block count read under the mutex, a player never catches up the    *)
(* same block twice: whenever its catch-up loop looks at a SyncReply, the *)
(* reply holds exactly the next block it lacks.                           *)
(***************************************************************************)
ReplyInOrder ==
    \A s \in Syncs, p \in Players :
        ( /\ hPc[s][p] = "catchup" /\ blocks[p] < hIdx[s][p]
          /\ toP[s][p] # <<>> )
        => /\ Head(toP[s][p]).type = "reply"
           /\ Head(toP[s][p]).idx = blocks[p]

(***************************************************************************)
(* sendToChannel drains the capacity-1 channel before publishing, so the  *)
(* newest Event is never lost: once a successful Sync has closed its     *)
(* channel and the caller has drained it, the caller's last Event counts  *)
(* every player hard.                                                     *)
(***************************************************************************)
FinalEventComplete ==
    \A s \in Syncs :
        (oPc[s] = "done" /\ ch[s] = <<>>) => seen[s].hard = Cardinality(Players)

(***************************************************************************)
(* A Stream handler that takes a player's mutex eventually releases it,  *)
(* so later Sync calls can catch that player up.                          *)
(***************************************************************************)
LockReleased ==
    \A s \in Syncs, p \in Players : (owner[p] = s) ~> (owner[p] # s)
=============================================================================

------------------------------ MODULE Session ------------------------------
(***************************************************************************)
(* One minogrpc session (mino/minogrpc/session) at node Me, with its      *)
(* parent stream and the child relays it opens on demand.                 *)
(*                                                                         *)
(*  - Send (spec 4.D) makes a packet for the parent's routing table and   *)
(*    calls sendPacket: Forward splits it into routes and voids, a void   *)
(*    is reported on the error channel, a sendTo goroutine runs per route *)
(*    and Send closes the channel when all of them have returned.         *)
(*  - sendTo gets the relay of its next hop from setupRelay, which holds  *)
(*    the session mutex while it acquires a connection, opens the stream *)
(*    and waits for the header; it then sends through the relay. Any     *)
(*    failure goes to onFailure, which tells the routing table.           *)
(*  - Each relay has a goroutine that drains its stream; when the stream *)
(*    ends it deletes the relay under the mutex, closes it, releases the *)
(*    connection and calls Done on the session's WaitGroup.              *)
(*  - The routing table is the flat one (spec 4.B): the next hop of a    *)
(*    destination is the destination itself, OnFailure records the peer  *)
(*    as failed and reports that it cannot reroute, and Forward voids a  *)
(*    failed destination.  The connection manager (spec 4.A) counts the  *)
(*    references of each peer and dials anew when the count was zero.   *)
(*  - The environment crashes peers and ends the parent stream, which    *)
(*    cancels the context every child stream and relay send derives from; *)
(*    Listen then returns and Close waits on the session's WaitGroup.     *)
(***************************************************************************)
EXTENDS Naturals, FiniteSets

CONSTANTS
    Peers,       \* distant addresses the session may forward to
    Calls,       \* identifiers of Send calls on this session
    RecvCalls,   \* the calls that are RecvPacket of a child's packet
    MaxRelays,   \* bound on the relays opened over the session's lifetime
    MaxCrashes,  \* bound on peer crashes
    MaxStreamErrors, \* bound on relay streams ending with codes.Unknown
    None         \* model value: the mutex is free / no relay

ASSUME /\ Peers # {} /\ Calls # {}
       /\ MaxRelays \in Nat \ {0} /\ MaxCrashes \in Nat
       /\ MaxStreamErrors \in Nat
       /\ None \notin Peers \X Calls /\ RecvCalls \subseteq Calls

RelayIds == 1..MaxRelays

VARIABLES
    callPc,     \* [Calls -> {"idle","sending","done"}]
    dests,      \* [Calls -> SUBSET Peers]: addrs of the Send call
    delivered,  \* [Calls -> SUBSET Peers]: destinations the packet reached
    errored,    \* [Calls -> SUBSET Peers]: destinations named by an error
    nErrs,      \* [Calls -> Nat]: errors pushed on the call's errs channel
    task,       \* [Calls -> [Peers -> TaskPcs]]: the sendTo goroutines
    taskConn,   \* [Calls -> [Peers -> Nat]]: connection of the relay used
    mu,         \* session mutex: None or the <<call, peer>> of setupRelay
    relays,     \* [Peers -> RelayIds \cup {None}]: s.relays
    rel,        \* [RelayIds -> relay record]: relays and their drain loops
    wg,         \* counter of the session's WaitGroup
    refs,       \* [Peers -> Nat]: connection manager reference counts
    connGen,    \* [Peers -> Nat]: number of dials of each peer so far
    failed,     \* SUBSET Peers: peers the routing table knows failed
    down,       \* SUBSET Peers: crashed peers
    streamErrs, \* relay streams that ended with codes.Unknown so far
    cancelled,  \* the parent stream has ended (its context is done)
    listenPc,   \* Listen: "listening", "ending" (write lock), "returned"
    closed      \* Close has returned

vars == <<callPc, dests, delivered, errored, nErrs, task, taskConn, mu, relays, rel,
          wg, refs, connGen, failed, down, streamErrs, cancelled, listenPc,
          closed>>

TaskPcs == {"none", "setup", "dial", "send", "done"}
RelayPcs == {"unused", "recv", "exiting", "deleted", "gone"}
RelayRec == [peer : Peers \cup {None}, conn : Nat, pc : RelayPcs]

\* A relay whose drain goroutine has not yet called Done.
Live(r) == rel[r].pc \in {"recv", "exiting", "deleted"}

Init ==
    /\ callPc = [c \in Calls |-> "idle"]
    /\ dests = [c \in Calls |-> {}]
    /\ delivered = [c \in Calls |-> {}]
    /\ errored = [c \in Calls |-> {}]
    /\ nErrs = [c \in Calls |-> 0]
    /\ task = [c \in Calls |-> [a \in Peers |-> "none"]]
    /\ taskConn = [c \in Calls |-> [a \in Peers |-> 0]]
    /\ mu = None
    /\ relays = [a \in Peers |-> None]
    /\ rel = [r \in RelayIds |-> [peer |-> None, conn |-> 0, pc |-> "unused"]]
    /\ wg = 0
    /\ refs = [a \in Peers |-> 0]
    /\ connGen = [a \in Peers |-> 0]
    /\ failed = {}
    /\ down = {}
    /\ streamErrs = 0
    /\ cancelled = FALSE
    /\ listenPc = "listening"
    /\ closed = FALSE

-----------------------------------------------------------------------------
(* Routing table (flat) and connection manager.                           *)

\* Forward: the destinations it routes (next hop = destination) and voids.
Routes(D) == D \ failed
Voids(D) == D \cap failed

\* ConnectionManager.Acquire: reuse the connection or dial when unused.
Acquire(a) ==
    /\ refs' = [refs EXCEPT ![a] = @ + 1]
    /\ connGen' = [connGen EXCEPT ![a] = IF refs[a] = 0 THEN @ + 1 ELSE @]

\* ConnectionManager.Release: the connection closes when the count is zero.
Release(a) == refs' = [refs EXCEPT ![a] = IF @ > 0 THEN @ - 1 ELSE 0]

\* Mutation of onFailure (not part of Spec): the table's error is dropped
\* instead of being pushed on errs.
onFailureSilent(c, a) ==
    /\ failed' = failed \cup {a}
    /\ UNCHANGED <<errored, nErrs>>

\* onFailure: table.OnFailure(gateway) marks the peer failed and, being
\* flat, returns an error, which is pushed on errs for the packet's
\* destination; the packet is not retried.
onFailure(c, a) ==
    /\ failed' = failed \cup {a}
    /\ errored' = [errored EXCEPT ![c] = @ \cup {a}]
    /\ nErrs' = [nErrs EXCEPT ![c] = @ + 1]

\* The Forward RPC succeeded but the peer's ack carries an error (its
\* queue dropped the packet): sendTo pushes each ack error on errs.
AckError(c, a) ==
    /\ errored' = [errored EXCEPT ![c] = @ \cup {a}]
    /\ nErrs' = [nErrs EXCEPT ![c] = @ + 1]
    /\ UNCHANGED <<failed, delivered>>

SetTask(c, a, pc) == task' = [task EXCEPT ![c][a] = pc]

\* The first relay identifier not used yet (MaxRelays bounds the model).
FreeRelay == CHOOSE r \in RelayIds : rel[r].pc = "unused"

-----------------------------------------------------------------------------
(* Mutations of the actions below, for checking that the properties can   *)
(* fail; they are not part of Spec.                                       *)

\* setupRelay returning on a failed stream without connMgr.Release.
SetupDialNoRelease(c, a) ==
    /\ task[c][a] = "dial"
    /\ \/ /\ a \notin down /\ ~cancelled /\ \E r \in RelayIds : rel[r].pc = "unused"
          /\ rel' = [rel EXCEPT ![FreeRelay] =
                       [peer |-> a, conn |-> connGen[a], pc |-> "recv"]]
          /\ relays' = [relays EXCEPT ![a] = FreeRelay]
          /\ wg' = wg + 1
          /\ taskConn' = [taskConn EXCEPT ![c][a] = connGen[a]]
          /\ SetTask(c, a, "send")
          /\ UNCHANGED <<refs, failed, errored, nErrs>>
       \/ /\ a \in down \/ cancelled
          /\ onFailure(c, a)
          /\ SetTask(c, a, "done")
          /\ UNCHANGED <<rel, relays, wg, taskConn, refs>>
    /\ mu' = None
    /\ UNCHANGED <<callPc, dests, delivered, connGen, down, streamErrs,
                   cancelled, listenPc, closed>>

\* setupRelay keeping the mutex after a failed stream (no deferred Unlock).
SetupDialKeepsLock(c, a) ==
    /\ task[c][a] = "dial"
    /\ \/ /\ a \notin down /\ ~cancelled /\ \E r \in RelayIds : rel[r].pc = "unused"
          /\ rel' = [rel EXCEPT ![FreeRelay] =
                       [peer |-> a, conn |-> connGen[a], pc |-> "recv"]]
          /\ relays' = [relays EXCEPT ![a] = FreeRelay]
          /\ wg' = wg + 1
          /\ taskConn' = [taskConn EXCEPT ![c][a] = connGen[a]]
          /\ SetTask(c, a, "send")
          /\ mu' = None
          /\ UNCHANGED <<refs, failed, errored, nErrs>>
       \/ /\ a \in down \/ cancelled
          /\ Release(a)
          /\ onFailure(c, a)
          /\ SetTask(c, a, "done")
          /\ UNCHANGED <<rel, relays, wg, taskConn, mu>>
    /\ UNCHANGED <<callPc, dests, delivered, connGen, down, streamErrs,
                   cancelled, listenPc, closed>>

\* The drain loop stopping only when the peer is gone, not on cancellation.
DrainEndIgnoresCancel(r) ==
    /\ rel[r].pc = "recv"
    /\ rel[r].peer \in down
    /\ rel' = [rel EXCEPT ![r].pc = "exiting"]
    /\ UNCHANGED <<callPc, dests, delivered, errored, nErrs, task, taskConn, mu,
                   relays, wg, refs, connGen, failed, down, streamErrs,
                   cancelled, listenPc, closed>>

\* The drain goroutine calling Done as soon as the entry is deleted,
\* before it releases the connection.
DrainDeleteEarlyDone(r) ==
    /\ rel[r].pc = "exiting"
    /\ mu = None
    /\ relays' = [relays EXCEPT ![rel[r].peer] = None]
    /\ rel' = [rel EXCEPT ![r].pc = "deleted"]
    /\ wg' = wg - 1
    /\ UNCHANGED <<callPc, dests, delivered, errored, nErrs, task, taskConn, mu, refs,
                   connGen, failed, down, streamErrs, cancelled, listenPc,
                   closed>>

-----------------------------------------------------------------------------
(* Send and sendPacket.                                                   *)

\* sendPacket on the parent for the destinations D of call c: one error
\* is pushed per void, a sendTo is started per route and the call stays
\* "sending" until they have all returned.
SendPacket(c, D) ==
    /\ errored' = [errored EXCEPT ![c] = Voids(D)]
    /\ nErrs' = [nErrs EXCEPT ![c] = Cardinality(Voids(D))]
    /\ task' = [task EXCEPT ![c] =
                  [a \in Peers |-> IF a \in Routes(D) THEN "setup" ELSE "none"]]
    /\ callPc' = [callPc EXCEPT ![c] =
                    IF Routes(D) = {} THEN "done" ELSE "sending"]

\* Send(msg, addrs...): under the parents read lock, sendPacket on the
\* parent.  Once Listen has removed the parent the packet is ignored with
\* one error on errs.  A Send waits while Listen's teardown holds or
\* waits for the write lock.
Send(c) ==
    /\ c \notin RecvCalls
    /\ callPc[c] = "idle"
    /\ listenPc # "ending"
    /\ \E D \in SUBSET Peers \ {{}} :
        /\ dests' = [dests EXCEPT ![c] = D]
        /\ IF listenPc = "returned"
           THEN /\ errored' = [errored EXCEPT ![c] = D]
                /\ nErrs' = [nErrs EXCEPT ![c] = 1]
                /\ callPc' = [callPc EXCEPT ![c] = "done"]
                /\ UNCHANGED task
           ELSE SendPacket(c, D)
    /\ UNCHANGED <<delivered, taskConn, mu, relays, rel, wg, refs, connGen,
                   failed, down, streamErrs, cancelled, listenPc, closed>>

\* RecvPacket(from, p): a child forwards a packet upward.  Under the parents
\* read lock, sendPacket on the parent with an errs channel of capacity
\* len(destinations), read into the ack once sendPacket has returned.
\* With no parent left the packet is dropped: RecvPacket returns an error
\* and pushes nothing.
RecvPacket(c) ==
    /\ c \in RecvCalls
    /\ callPc[c] = "idle"
    /\ listenPc # "ending"
    /\ \E D \in SUBSET Peers \ {{}} :
        /\ dests' = [dests EXCEPT ![c] = D]
        /\ IF listenPc = "returned"
           THEN /\ errored' = [errored EXCEPT ![c] = D]
                /\ callPc' = [callPc EXCEPT ![c] = "done"]
                /\ UNCHANGED <<task, nErrs>>
           ELSE SendPacket(c, D)
    /\ UNCHANGED <<delivered, taskConn, mu, relays, rel, wg, refs, connGen,
                   failed, down, streamErrs, cancelled, listenPc, closed>>

\* The capacity of call c's errs channel: len(addrs)+1 in Send,
\* len(pkt.GetDestination()) in RecvPacket.
ErrCap(c) == IF c \in RecvCalls THEN Cardinality(dests[c]) ELSE Cardinality(dests[c]) + 1

\* sendPacket's wg.Wait has returned: Send or RecvPacket closes errs.
Complete(c) ==
    /\ callPc[c] = "sending"
    /\ \A a \in Peers : task[c][a] \in {"none", "done"}
    /\ callPc' = [callPc EXCEPT ![c] = "done"]
    /\ UNCHANGED <<dests, delivered, errored, nErrs, task, taskConn, mu, relays, rel,
                   wg, refs, connGen, failed, down, streamErrs, cancelled,
                   listenPc, closed>>
-----------------------------------------------------------------------------
(* sendTo and setupRelay.                                                 *)

\* setupRelay, under the mutex: the relay of the peer already exists.
SetupExisting(c, a) ==
    /\ task[c][a] = "setup"
    /\ mu = None
    /\ relays[a] # None
    /\ taskConn' = [taskConn EXCEPT ![c][a] = rel[relays[a]].conn]
    /\ SetTask(c, a, "send")
    /\ UNCHANGED <<callPc, dests, delivered, errored, nErrs, mu, relays, rel, wg,
                   refs, connGen, failed, down, streamErrs, cancelled,
                   listenPc, closed>>

\* setupRelay, under the mutex: no relay yet, acquire a connection and keep
\* the mutex for the stream set-up.
SetupAcquire(c, a) ==
    /\ task[c][a] = "setup"
    /\ mu = None
    /\ relays[a] = None
    /\ mu' = <<c, a>>
    /\ Acquire(a)
    /\ SetTask(c, a, "dial")
    /\ UNCHANGED <<callPc, dests, delivered, errored, nErrs, taskConn, relays, rel,
                   wg, failed, down, streamErrs, cancelled, listenPc, closed>>

\* setupRelay, still under the mutex: open the stream with the parent's
\* context and wait for the header.  On success insert the relay, Add(1)
\* and start its drain goroutine; on failure release the connection and
\* let sendTo call onFailure.  The deferred Unlock frees the mutex.
SetupDial(c, a) ==
    /\ task[c][a] = "dial"
    /\ \/ /\ a \notin down /\ ~cancelled /\ \E r \in RelayIds : rel[r].pc = "unused"
          /\ rel' = [rel EXCEPT ![FreeRelay] =
                       [peer |-> a, conn |-> connGen[a], pc |-> "recv"]]
          /\ relays' = [relays EXCEPT ![a] = FreeRelay]
          /\ wg' = wg + 1
          /\ taskConn' = [taskConn EXCEPT ![c][a] = connGen[a]]
          /\ SetTask(c, a, "send")
          /\ UNCHANGED <<refs, failed, errored, nErrs>>
       \/ /\ a \in down \/ cancelled
          /\ Release(a)
          /\ onFailure(c, a)
          /\ SetTask(c, a, "done")
          /\ UNCHANGED <<rel, relays, wg, taskConn>>
    /\ mu' = None
    /\ UNCHANGED <<callPc, dests, delivered, connGen, down, streamErrs,
                   cancelled, listenPc, closed>>

\* Mutation of RelaySend: a failed Forward is pushed on errs and then
\* handed to onFailure, which pushes its own error for the same peer.
RelaySendReportsTwice(c, a) ==
    /\ task[c][a] = "send"
    /\ IF /\ a \notin down /\ ~cancelled
          /\ refs[a] > 0 /\ connGen[a] = taskConn[c][a]
       THEN \/ /\ delivered' = [delivered EXCEPT ![c] = @ \cup {a}]
               /\ UNCHANGED <<failed, errored, nErrs>>
            \/ AckError(c, a)
       ELSE /\ failed' = failed \cup {a}
            /\ errored' = [errored EXCEPT ![c] = @ \cup {a}]
            /\ nErrs' = [nErrs EXCEPT ![c] = @ + 2]
            /\ UNCHANGED delivered
    /\ SetTask(c, a, "done")
    /\ UNCHANGED <<callPc, dests, taskConn, mu, relays, rel, wg, refs,
                   connGen, down, streamErrs, cancelled, listenPc, closed>>

\* relay.Send: a Forward RPC over the relay's connection with the parent
\* stream's context.  It fails when the peer is down, the context is
\* cancelled or the connection the relay holds has been closed; sendTo
\* then calls onFailure with the relay's address.
RelaySend(c, a) ==
    /\ task[c][a] = "send"
    /\ IF /\ a \notin down /\ ~cancelled
          /\ refs[a] > 0 /\ connGen[a] = taskConn[c][a]
       THEN \/ /\ delivered' = [delivered EXCEPT ![c] = @ \cup {a}]
               /\ UNCHANGED <<failed, errored, nErrs>>
            \/ AckError(c, a)
       ELSE /\ onFailure(c, a)
            /\ UNCHANGED delivered
    /\ SetTask(c, a, "done")
    /\ UNCHANGED <<callPc, dests, taskConn, mu, relays, rel, wg, refs,
                   connGen, down, streamErrs, cancelled, listenPc, closed>>

-----------------------------------------------------------------------------
(* The drain goroutine of a relay.                                        *)

\* stream.Recv ends with EOF or a status other than Unknown: the peer is
\* gone (Unavailable) or the parent context is done (Canceled).
DrainEnd(r) ==
    /\ rel[r].pc = "recv"
    /\ rel[r].peer \in down \/ cancelled
    /\ rel' = [rel EXCEPT ![r].pc = "exiting"]
    /\ UNCHANGED <<callPc, dests, delivered, errored, nErrs, task, taskConn, mu,
                   relays, wg, refs, connGen, failed, down, streamErrs,
                   cancelled, listenPc, closed>>

\* stream.Recv fails with codes.Unknown (the distant handler returned an
\* error): the drain loop calls table.OnFailure on the address.
DrainError(r) ==
    /\ rel[r].pc = "recv"
    /\ streamErrs < MaxStreamErrors
    /\ streamErrs' = streamErrs + 1
    /\ failed' = failed \cup {rel[r].peer}
    /\ rel' = [rel EXCEPT ![r].pc = "exiting"]
    /\ UNCHANGED <<callPc, dests, delivered, errored, nErrs, task, taskConn, mu,
                   relays, wg, refs, connGen, down, cancelled, listenPc,
                   closed>>

\* Deferred exit, first half: delete(s.relays, addr) under the mutex.
DrainDelete(r) ==
    /\ rel[r].pc = "exiting"
    /\ mu = None
    /\ relays' = [relays EXCEPT ![rel[r].peer] = None]
    /\ rel' = [rel EXCEPT ![r].pc = "deleted"]
    /\ UNCHANGED <<callPc, dests, delivered, errored, nErrs, task, taskConn, mu, wg,
                   refs, connGen, failed, down, streamErrs, cancelled,
                   listenPc, closed>>

\* Deferred exit, second half: close the relay, connMgr.Release, s.Done.
DrainRelease(r) ==
    /\ rel[r].pc = "deleted"
    /\ Release(rel[r].peer)
    /\ wg' = wg - 1
    /\ rel' = [rel EXCEPT ![r].pc = "gone"]
    /\ UNCHANGED <<callPc, dests, delivered, errored, nErrs, task, taskConn, mu,
                   relays, connGen, failed, down, streamErrs, cancelled,
                   listenPc, closed>>

-----------------------------------------------------------------------------
(* Listen, Close and the environment.                                     *)

\* A distant peer crashes: its streams and RPCs fail from now on.
Crash(a) ==
    /\ a \notin down
    /\ Cardinality(down) < MaxCrashes
    /\ down' = down \cup {a}
    /\ UNCHANGED <<callPc, dests, delivered, errored, nErrs, task, taskConn, mu,
                   relays, rel, wg, refs, connGen, failed, streamErrs,
                   cancelled, listenPc, closed>>

\* The parent stream ends: its context is cancelled and Listen's drain loop
\* returns; its deferred teardown asks for the parents write lock.
ParentEnd ==
    /\ ~cancelled
    /\ cancelled' = TRUE
    /\ listenPc' = "ending"
    /\ UNCHANGED <<callPc, dests, delivered, errored, nErrs, task, taskConn, mu,
                   relays, rel, wg, refs, connGen, failed, down, streamErrs,
                   closed>>

\* Listen's teardown gets the write lock once no Send holds the read lock
\* and deletes the parent.
ListenReturn ==
    /\ listenPc = "ending"
    /\ \A c \in Calls : callPc[c] # "sending"
    /\ listenPc' = "returned"
    /\ UNCHANGED <<callPc, dests, delivered, errored, nErrs, task, taskConn, mu,
                   relays, rel, wg, refs, connGen, failed, down, streamErrs,
                   cancelled, closed>>

\* Close, called by the overlay server after Listen: closes errs and
\* returns once the session's WaitGroup is zero.
Close ==
    /\ listenPc = "returned"
    /\ ~closed
    /\ wg = 0
    /\ closed' = TRUE
    /\ UNCHANGED <<callPc, dests, delivered, errored, nErrs, task, taskConn, mu,
                   relays, rel, wg, refs, connGen, failed, down, streamErrs,
                   cancelled, listenPc>>

TaskStep(c, a) ==
    \/ SetupExisting(c, a) \/ SetupAcquire(c, a) \/ SetupDial(c, a)
    \/ RelaySend(c, a)

DrainStep(r) ==
    DrainEnd(r) \/ DrainError(r) \/ DrainDelete(r) \/ DrainRelease(r)

Next ==
    \/ \E c \in Calls : Send(c) \/ RecvPacket(c) \/ Complete(c)
    \/ \E c \in Calls, a \in Peers : TaskStep(c, a)
    \/ \E r \in RelayIds : DrainStep(r)
    \/ \E a \in Peers : Crash(a)
    \/ ParentEnd \/ ListenReturn \/ Close

\* Goroutines are scheduled fairly.  Go's mutex hands itself over to a
\* waiter that has waited over 1ms (starvation mode), so a goroutine that
\* keeps asking for the session mutex gets it: strong fairness on each
\* goroutine (a sendTo, or a drain loop once its stream has ended), which
\* for its steps that stay enabled once enabled is the same as weak
\* fairness.  The overlay server calls Close after Listen.  The calls, the
\* crashes, the Unknown stream errors and the end of the parent stream are
\* the environment's and are not fair.
DrainExit(r) == DrainEnd(r) \/ DrainDelete(r) \/ DrainRelease(r)

Fairness ==
    /\ \A c \in Calls : WF_vars(Complete(c))
    /\ \A c \in Calls, a \in Peers : SF_vars(TaskStep(c, a))
    /\ \A r \in RelayIds : SF_vars(DrainExit(r))
    /\ WF_vars(ListenReturn) /\ WF_vars(Close)

Spec == Init /\ [][Next]_vars /\ Fairness

-----------------------------------------------------------------------------
(* Properties.                                                            *)

TypeOK ==
    /\ callPc \in [Calls -> {"idle", "sending", "done"}]
    /\ dests \in [Calls -> SUBSET Peers]
    /\ delivered \in [Calls -> SUBSET Peers]
    /\ errored \in [Calls -> SUBSET Peers]
    /\ nErrs \in [Calls -> Nat]
    /\ task \in [Calls -> [Peers -> TaskPcs]]
    /\ taskConn \in [Calls -> [Peers -> Nat]]
    /\ mu \in {None} \cup (Calls \X Peers)
    /\ relays \in [Peers -> RelayIds \cup {None}]
    /\ rel \in [RelayIds -> RelayRec]
    /\ wg \in Nat /\ refs \in [Peers -> Nat] /\ connGen \in [Peers -> Nat]
    /\ failed \subseteq Peers /\ down \subseteq Peers
    /\ streamErrs \in 0..MaxStreamErrors
    /\ cancelled \in BOOLEAN /\ closed \in BOOLEAN
    /\ listenPc \in {"listening", "ending", "returned"}

\* Refcount balance (spec property 4) across setupRelay and the drain
\* goroutines: the references the connection manager counts for a peer are
\* exactly one per relay of that peer whose drain goroutine has not yet
\* released, plus one per setupRelay between Acquire and the end of its
\* stream set-up; the session's WaitGroup counts the same relays; and a
\* relay in s.relays is one whose goroutine has not yet deleted it.
RefcountBalance ==
    /\ \A a \in Peers :
          refs[a] = Cardinality({r \in RelayIds : Live(r) /\ rel[r].peer = a})
                    + Cardinality({c \in Calls : task[c][a] = "dial"})
    /\ wg = Cardinality({r \in RelayIds : Live(r)})
    /\ \A a \in Peers : relays[a] # None =>
          /\ rel[relays[a]].peer = a
          /\ rel[relays[a]].pc \in {"recv", "exiting"}

\* No silent loss in Send: once the error channel of a Send is closed,
\* every destination was either reached by a relay send or named by an
\* error (a void, an onFailure, or "packet ignored").
SendAccounted ==
    \A c \in Calls : callPc[c] = "done" =>
        dests[c] \subseteq delivered[c] \cup errored[c]

\* Close quiescence (spec property 3): when Close has returned, no sendTo
\* is running, no relay is left in s.relays and every connection the
\* session acquired has been released.
CloseQuiescence ==
    closed =>
        /\ \A c \in Calls, a \in Peers : task[c][a] \in {"none", "done"}
        /\ \A a \in Peers : relays[a] = None /\ refs[a] = 0

\* No sendTo blocks on a full error channel.  RecvPacket reads its errs,
\* of capacity len(destinations), only after sendPacket's wg.Wait and
\* under the parents read lock, so one push too many would block a sendTo,
\* the RecvPacket and Listen's teardown for ever.  Send's caller reads its
\* channel concurrently, but Send sizes it len(addrs)+1 so that no push
\* waits on the caller.  Voids, onFailure errors and ack errors of all the
\* call's sendTo goroutines together never exceed the capacity.
ErrsWithinCapacity == \A c \in Calls : nErrs[c] <= ErrCap(c)

\* Send error-channel closure (spec property 5): every Send that started
\* sendTo goroutines eventually has its channel closed, whatever fails.
SendCompletes ==
    \A c \in Calls : callPc[c] = "sending" ~> callPc[c] = "done"

\* Once the parent stream has ended, every relay's drain goroutine exits
\* and Close returns, so the session's connections are all released.
SessionQuiesces == cancelled ~> closed

=============================================================================

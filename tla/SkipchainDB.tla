---------------------------- MODULE SkipchainDB ----------------------------
(***************************************************************************)
(* skipchain.InMemoryDatabase: a block slice behind a sync.Mutex, used by *)
(* goroutines Procs. Write, Contains, Read and ReadLast each run under   *)
(* the lock and are one step. Atomic takes three: it clones the slice    *)
(* under the lock, runs the transaction on the clone without the lock,  *)
(* and, when the transaction returns nil, stores the clone's slice under *)
(* the lock again. A transaction is a sequence of at most MaxTxWrites    *)
(* writes on the clone, after which it returns nil or an error.          *)
(***************************************************************************)
EXTENDS Naturals, Sequences

CONSTANTS Procs, Blocks, MaxTxWrites

VARIABLES
    blocks,  \* db.blocks
    pc,      \* [Procs -> {"idle", "tx"}]: inside Atomic's tx callback
    snap,    \* [Procs -> Seq(Blocks)]: the clone the transaction works on
    txLog    \* [Procs -> Seq(Blocks)]: the writes the transaction issued

vars == <<blocks, pc, snap, txLog>>

Store == INSTANCE BlockStore WITH inTx <- [p \in Procs |-> pc[p] = "tx"]

\* InMemoryDatabase.Write's effect on a slice. Contains, Read and ReadLast
\* change nothing and are left out.
WriteBlock(bs, b) == Store!WriteBlock(bs, b)

\* NewInMemoryDatabase: an empty slice.
Init == /\ blocks = <<>>
        /\ pc = [p \in Procs |-> "idle"]
        /\ snap = [p \in Procs |-> <<>>]
        /\ txLog = [p \in Procs |-> <<>>]

\* Write(block) under the lock.
Write(p, b) == /\ pc[p] = "idle"
               /\ blocks' = WriteBlock(blocks, b)
               /\ UNCHANGED <<pc, snap, txLog>>

\* Atomic, first locked section: snapshot := db.clone().
AtomicClone(p) == /\ pc[p] = "idle"
                  /\ pc' = [pc EXCEPT ![p] = "tx"]
                  /\ snap' = [snap EXCEPT ![p] = blocks]
                  /\ txLog' = [txLog EXCEPT ![p] = <<>>]
                  /\ UNCHANGED blocks

\* The transaction calls Write on the snapshot (its own lock).
TxWrite(p, b) == /\ pc[p] = "tx"
                 /\ Len(txLog[p]) < MaxTxWrites
                 /\ snap' = [snap EXCEPT ![p] = WriteBlock(@, b)]
                 /\ txLog' = [txLog EXCEPT ![p] = Append(@, b)]
                 /\ UNCHANGED <<blocks, pc>>

\* tx returns an error: Atomic returns it and db.blocks is left alone.
TxFail(p) == /\ pc[p] = "tx"
             /\ pc' = [pc EXCEPT ![p] = "idle"]
             /\ txLog' = [txLog EXCEPT ![p] = <<>>]
             /\ UNCHANGED <<blocks, snap>>

\* tx returns nil: second locked section, db.blocks = snapshot.blocks.
AtomicStore(p) == /\ pc[p] = "tx"
                  /\ blocks' = snap[p]
                  /\ pc' = [pc EXCEPT ![p] = "idle"]
                  /\ txLog' = [txLog EXCEPT ![p] = <<>>]
                  /\ UNCHANGED snap

Next == \E p \in Procs :
            \/ AtomicClone(p) \/ TxFail(p) \/ AtomicStore(p)
            \/ \E b \in Blocks : Write(p, b) \/ TxWrite(p, b)

Spec == Init /\ [][Next]_vars

-----------------------------------------------------------------------------
\* Atomic is atomic (the Database interface's comment): every behaviour of
\* the in-memory database, with Writes and Atomics of several goroutines
\* interleaved, is one of BlockStore, where a transaction's writes apply
\* to the chain as it is when the transaction commits.
AtomicIsSerial == Store!Spec
=============================================================================

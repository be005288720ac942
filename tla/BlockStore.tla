----------------------------- MODULE BlockStore -----------------------------
(***************************************************************************)
(* What the skipchain Database interface promises (skipchain.Database):  *)
(* a chain of blocks, block i at position i, written one at a time, and  *)
(* Atomic transactions whose writes take effect together, as if run on  *)
(* the chain as it is when they commit, or not at all.                   *)
(***************************************************************************)
EXTENDS Naturals, Sequences

CONSTANTS Procs, Blocks   \* goroutines using the database; blocks (records with .index)

\* Write(block): append at the end, overwrite an existing index, or fail
\* ("missing intermediate blocks") leaving the chain as it is.
RECURSIVE ApplyWrites(_, _)
WriteBlock(bs, b) ==
    IF b.index = Len(bs) THEN Append(bs, b)
    ELSE IF b.index < Len(bs) THEN [bs EXCEPT ![b.index + 1] = b]
    ELSE bs

\* The chain after a sequence of writes, each applied to the previous result.
ApplyWrites(bs, ws) ==
    IF ws = <<>> THEN bs ELSE ApplyWrites(WriteBlock(bs, Head(ws)), Tail(ws))

VARIABLES
    blocks,  \* the chain
    inTx,    \* [Procs -> BOOLEAN]: the goroutine is inside Atomic
    txLog    \* [Procs -> Seq(Blocks)]: the writes of its open transaction

storeVars == <<blocks, inTx, txLog>>

Init == /\ blocks = <<>>
        /\ inTx = [p \in Procs |-> FALSE]
        /\ txLog = [p \in Procs |-> <<>>]

Write(p, b) == /\ ~inTx[p]
               /\ blocks' = WriteBlock(blocks, b)
               /\ UNCHANGED <<inTx, txLog>>

Begin(p) == /\ ~inTx[p]
            /\ inTx' = [inTx EXCEPT ![p] = TRUE]
            /\ UNCHANGED <<blocks, txLog>>

TxWrite(p, b) == /\ inTx[p]
                 /\ txLog' = [txLog EXCEPT ![p] = Append(@, b)]
                 /\ UNCHANGED <<blocks, inTx>>

Commit(p) == /\ inTx[p]
             /\ blocks' = ApplyWrites(blocks, txLog[p])
             /\ inTx' = [inTx EXCEPT ![p] = FALSE]
             /\ txLog' = [txLog EXCEPT ![p] = <<>>]

Abort(p) == /\ inTx[p]
            /\ inTx' = [inTx EXCEPT ![p] = FALSE]
            /\ txLog' = [txLog EXCEPT ![p] = <<>>]
            /\ UNCHANGED blocks

Next == \E p \in Procs :
            \/ Begin(p) \/ Commit(p) \/ Abort(p)
            \/ \E b \in Blocks : Write(p, b) \/ TxWrite(p, b)

Spec == Init /\ [][Next]_storeVars
=============================================================================

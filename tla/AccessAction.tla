---------------------------- MODULE AccessAction ----------------------------
(***************************************************************************)
(* The access controller's "add" action (contracts/access/controller/    *)
(* action.go): addAction.Execute resolves three dependencies from the     *)
(* node's injector, parses the --identity flags with parseIdentities and  *)
(* grants the parsed identities on the access store. One call of Execute  *)
(* is one step: it shares nothing with another call but the store, which  *)
(* it touches once, in Grant. The identity strings, their base64 decoding *)
(* and the BLS unmarshalling are small constant functions.                *)
(***************************************************************************)
EXTENDS Sequences, SequencesExt

CONSTANTS IdStrs, Bytes, Keys, B64Decode, NewPublicKey, DecodeErr, KeyErr,
          Calls, Requests,
          NoKey   \* the zero access.Identity of a fresh slice entry

\* The dependencies Execute resolves, in the order it resolves them.
ResolveOrder == <<"native", "access", "store">>
Deps == {ResolveOrder[i] : i \in 1..3}

VARIABLES
    injected,  \* the dependencies the node's injector holds
    req,       \* [Calls -> identity list of the call, or NoReq]
    result,    \* [Calls -> "none", "ok" or the error Execute returned]
    granted    \* identities the access store grants

vars == <<injected, req, result, granted>>

\* The abstract reply of a call: any error of Execute is an error.
reply == [c \in Calls |-> IF result[c] \in {"none", "ok"} THEN result[c] ELSE "error"]

\* The refinement mapping: req and granted are the code's own; reply is
\* the error or nil Execute returned.
Abs == INSTANCE AccessControl WITH req <- req, reply <- reply, granted <- granted

NoReq == Abs!NoReq

\* Mutation: the loop keeps going past a bad identity, leaving the
\* zero identity in the pre-sized slice.
RECURSIVE ParseIdentitiesSkipBad(_)
ParseIdentitiesSkipBad(ids) ==
    IF ids = <<>> THEN [ok |-> TRUE, keys |-> <<>>, err |-> "none"]
    ELSE LET r == ParseIdentitiesSkipBad(Tail(ids))
             k == IF Abs!Valid(Head(ids)) THEN Abs!KeyOf(Head(ids)) ELSE NoKey
         IN  [r EXCEPT !.keys = <<k>> \o @]

\* Mutation: the loop starts at index 1 and never looks at the first id.
ParseIdentitiesSkipFirst(ids) ==
    LET keyAt(i) == IF i = 1 THEN NoKey ELSE Abs!KeyOf(ids[i])
        bad == {i \in 2..Len(ids) : ~Abs!Valid(ids[i])}
        first == CHOOSE i \in bad : \A j \in bad : i <= j
    IN  IF bad = {}
        THEN [ok |-> TRUE, keys |-> [i \in 1..Len(ids) |-> keyAt(i)], err |-> "none"]
        ELSE [ok |-> FALSE, keys |-> <<>>,
              err |-> IF B64Decode[ids[first]] = DecodeErr THEN "decode" ELSE "unmarshal"]

\* parseIdentities: decode and unmarshal each id in order; the first one
\* that fails ends the parse with its error and no identities.
RECURSIVE ParseIdentities(_)
ParseIdentities(ids) ==
    IF ids = <<>> THEN [ok |-> TRUE, keys |-> <<>>, err |-> "none"]
    ELSE LET idBuf == B64Decode[Head(ids)]
             pk == NewPublicKey[idBuf]
             rest == ParseIdentities(Tail(ids))
         IN  CASE idBuf = DecodeErr -> [ok |-> FALSE, keys |-> <<>>, err |-> "decode"]
               [] pk = KeyErr       -> [ok |-> FALSE, keys |-> <<>>, err |-> "unmarshal"]
               [] ~rest.ok          -> rest
               [] OTHER             -> [rest EXCEPT !.keys = <<pk>> \o @]

\* The first dependency of the order the injector does not hold.
FirstMissing ==
    ResolveOrder[CHOOSE i \in 1..3 : ResolveOrder[i] \notin injected
                                  /\ \A j \in 1..(i - 1) : ResolveOrder[j] \in injected]

\* asrv.Grant on the access store: adds every identity or fails with the
\* store unchanged.
Grant(c, identities) ==
    \/ /\ granted' = granted \cup ToSet(identities)
       /\ result' = [result EXCEPT ![c] = "ok"]
    \/ /\ result' = [result EXCEPT ![c] = "grant"]
       /\ UNCHANGED granted

\* Mutation: a parse error is logged and the identities read before the
\* bad one are granted anyway.
ExecuteIgnoresParseError(c, ids) ==
    LET p == ParseIdentities(ids)
        readSoFar == CHOOSE n \in 0..Len(ids) :
                        /\ \A j \in 1..n : Abs!Valid(ids[j])
                        /\ (n < Len(ids) => ~Abs!Valid(ids[n + 1]))
    IN  /\ result[c] = "none"
        /\ req' = [req EXCEPT ![c] = ids]
        /\ IF ~(Deps \subseteq injected)
           THEN /\ result' = [result EXCEPT ![c] = FirstMissing]
                /\ UNCHANGED granted
           ELSE Grant(c, [i \in 1..readSoFar |-> Abs!KeyOf(ids[i])])
        /\ UNCHANGED injected

\* addAction.Execute for call c with the --identity list ids.
Execute(c, ids) ==
    /\ result[c] = "none"
    /\ req' = [req EXCEPT ![c] = ids]
    /\ IF ~(Deps \subseteq injected)
       THEN /\ result' = [result EXCEPT ![c] = FirstMissing]
            /\ UNCHANGED granted
       ELSE LET p == ParseIdentities(ids) IN
            IF ~p.ok
            THEN /\ result' = [result EXCEPT ![c] = p.err]
                 /\ UNCHANGED granted
            ELSE Grant(c, p.keys)
    /\ UNCHANGED injected

\* The injector is whatever the node's controllers put in it at start.
Init ==
    /\ injected \in SUBSET Deps
    /\ req = [c \in Calls |-> NoReq]
    /\ result = [c \in Calls |-> "none"]
    /\ granted = {}

Next == \E c \in Calls, ids \in Requests : Execute(c, ids)

Spec == Init /\ [][Next]_vars

-----------------------------------------------------------------------------
Results == {"none", "ok", "native", "access", "store", "decode", "unmarshal", "grant"}

TypeOK ==
    /\ injected \subseteq Deps
    /\ req \in [Calls -> Requests \cup {NoReq}]
    /\ result \in [Calls -> Results]
    /\ granted \subseteq Keys

\* The declarative reading of parseIdentities: the keys of all ids when
\* every id is valid, else the error of the first invalid one.
ParseReference(ids) ==
    LET bad == {i \in 1..Len(ids) : ~Abs!Valid(ids[i])}
        first == CHOOSE i \in bad : \A j \in bad : i <= j
    IN  IF bad = {}
        THEN [ok |-> TRUE, keys |-> [i \in 1..Len(ids) |-> Abs!KeyOf(ids[i])], err |-> "none"]
        ELSE [ok |-> FALSE, keys |-> <<>>,
              err |-> IF B64Decode[ids[first]] = DecodeErr THEN "decode" ELSE "unmarshal"]

\* parseIdentities' loop returns, for the identity list of every call made
\* (every list of the bounded set is some call's), exactly what its
\* declarative reading says: all keys in order, or the error of the first
\* id that does not decode or unmarshal.
ParseMatchesReference ==
    \A c \in Calls : req[c] # NoReq => ParseIdentities(req[c]) = ParseReference(req[c])

\* addAction.Execute implements the all-or-nothing grant: a call that
\* replies ok has granted every identity it carried, and a call that
\* fails, at whatever step, has granted none.
AllOrNothing == Abs!Spec
=============================================================================

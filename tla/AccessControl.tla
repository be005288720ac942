--------------------------- MODULE AccessControl ---------------------------
(***************************************************************************)
(* What the access controller's "add" action promises its callers: a call *)
(* carrying a list of identity strings either grants every identity of    *)
(* the list and replies ok, or grants nothing and replies with an error.  *)
(* An identity string is valid when it is base64 that decodes to a BLS    *)
(* public key; the key it names is KeyOf(str).                            *)
(***************************************************************************)
EXTENDS Sequences, SequencesExt

CONSTANTS
    IdStrs,        \* identity strings a client may pass (--identity)
    Bytes,         \* byte strings they decode to
    Keys,          \* BLS public keys
    B64Decode,     \* [IdStrs -> Bytes \cup {DecodeErr}]
    NewPublicKey,  \* [Bytes -> Keys \cup {KeyErr}]
    DecodeErr, KeyErr,
    Calls,         \* the calls of the action
    Requests       \* the identity lists a call may carry

Valid(str) == /\ B64Decode[str] # DecodeErr
              /\ NewPublicKey[B64Decode[str]] # KeyErr

KeyOf(str) == NewPublicKey[B64Decode[str]]

NoReq == <<"none">>

VARIABLES
    req,      \* [Calls -> Requests \cup {NoReq}]: the list a call carried
    reply,    \* [Calls -> {"none", "ok", "error"}]
    granted   \* SUBSET Keys: identities the access store grants

absVars == <<req, reply, granted>>

Init ==
    /\ req = [c \in Calls |-> NoReq]
    /\ reply = [c \in Calls |-> "none"]
    /\ granted = {}

\* The call succeeds: every identity of its list is valid and now granted.
Succeed(c, ids) ==
    /\ reply[c] = "none"
    /\ \A i \in 1..Len(ids) : Valid(ids[i])
    /\ req' = [req EXCEPT ![c] = ids]
    /\ reply' = [reply EXCEPT ![c] = "ok"]
    /\ granted' = granted \cup {KeyOf(ids[i]) : i \in 1..Len(ids)}

\* The call fails and the store is left as it was.
Fail(c, ids) ==
    /\ reply[c] = "none"
    /\ req' = [req EXCEPT ![c] = ids]
    /\ reply' = [reply EXCEPT ![c] = "error"]
    /\ UNCHANGED granted

Next == \E c \in Calls, ids \in Requests : Succeed(c, ids) \/ Fail(c, ids)

Spec == Init /\ [][Next]_absVars
=============================================================================

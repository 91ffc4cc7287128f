------------------------------- MODULE KeyStore -------------------------------
(***************************************************************************)
(* What the key server promises the callers of Crypto, and what UserCache   *)
(* takes for granted of it: a call is executed at one moment between its    *)
(* submission and its answer, a call that generates a key stores the key it *)
(* answers with unless the database refuses, and a call that queries        *)
(* answers with what was stored at that moment.                             *)
(***************************************************************************)
CONSTANTS
    Calls,          \* the calls clients make, each once
    Methods,        \* Methods[c]: "generate_key" or "query_pub_key"
    Slot,           \* Slot[c]: the <<uuid, version>> it is about
    None            \* no key, no answer

VARIABLES
    record,         \* record[s]: the key stored for slot s
    resp,           \* resp[c]: the response to call c, once it was executed
    client          \* client[c]: "new", "sent", "answered" or "error"

vars == <<record, resp, client>>

Slots == {Slot[c] : c \in Calls}
NewKey(c) == <<Slot[c], c>>     \* the key that call c generates
NoKey == <<>>                   \* a response without a key

Init ==
    /\ record = [s \in Slots |-> NoKey]
    /\ resp = [c \in Calls |-> None]
    /\ client = [c \in Calls |-> "new"]

Send(c) ==
    /\ client[c] = "new"
    /\ client' = [client EXCEPT ![c] = "sent"]
    /\ UNCHANGED <<record, resp>>

(* A call is executed although its client may have been told of an error.   *)
Generate(c) ==
    /\ Methods[c] = "generate_key" /\ client[c] # "new" /\ resp[c] = None
    /\ \/ /\ resp' = [resp EXCEPT ![c] = NewKey(c)]
          /\ record' \in {[record EXCEPT ![Slot[c]] = NewKey(c)], record}
       \/ /\ resp' = [resp EXCEPT ![c] = NoKey]
          /\ UNCHANGED record
    /\ UNCHANGED client

Query(c) ==
    /\ Methods[c] = "query_pub_key" /\ client[c] # "new" /\ resp[c] = None
    /\ resp' = [resp EXCEPT ![c] = record[Slot[c]]]
    /\ UNCHANGED <<record, client>>

Answer(c) ==
    /\ client[c] = "sent" /\ resp[c] # None
    /\ client' = [client EXCEPT ![c] = "answered"]
    /\ UNCHANGED <<record, resp>>

(* Some of the calls under way fail, one or all of them.                    *)
Fail ==
    /\ \E failed \in SUBSET {c \in Calls : client[c] = "sent"} :
          client' = [c \in Calls |-> IF c \in failed THEN "error" ELSE client[c]]
    /\ UNCHANGED <<record, resp>>

Next ==
    \/ \E c \in Calls : Send(c) \/ Generate(c) \/ Query(c) \/ Answer(c)
    \/ Fail

Spec == Init /\ [][Next]_vars
=============================================================================

----------------------------- MODULE AtomicStore -----------------------------
(***************************************************************************)
(* What the memcached front end promises its clients (spec sections 4.1,   *)
(* 4.5, 7 and 8): every command takes effect atomically at one instant     *)
(* between its arrival and its response.                                   *)
(*                                                                         *)
(*   SET     stores the value:                     STORED                  *)
(*   ADD     stores it only if the key is absent:  STORED or NOT_STORED    *)
(*   DELETE  removes a present key:                DELETED or NOT_FOUND    *)
(*   GET     reads the key:                        the value, or MISS      *)
(*                                                                         *)
(* The HTTP API's key endpoints make the same promise over the same store: *)
(*   PUT/POST /key/k  stores the value:            200 (OK)                *)
(*   GET /key/k       reads the key:               the value, or 404       *)
(*                                                                         *)
(* A store failure makes a command answer ERROR without effect.            *)
(***************************************************************************)
EXTENDS Naturals

CONSTANTS
    Clients,     \* the connections issuing commands
    Keys,        \* the keys they use
    Values,      \* the values they store
    Absent,      \* the store holds no value for a key
    NoCmd,       \* a client with no command in progress
    NoResult     \* a command that has not taken effect yet

ASSUME {Absent, NoCmd, NoResult} \cap Values = {}

Cmds ==
    [op: {"SET", "ADD", "HTTP_PUT"}, key: Keys, value: Values]
        \cup [op: {"GET", "DELETE", "HTTP_GET"}, key: Keys, value: {Absent}]

Results == Values \cup {"STORED", "NOT_STORED", "DELETED", "NOT_FOUND", "MISS", "ERROR", "OK"}

VARIABLES
    kv,          \* the contents of the store
    pending,     \* the command each client has in progress
    result       \* its result, once it has taken effect

vars == <<kv, pending, result>>

Init ==
    /\ kv \in [Keys -> Values \cup {Absent}]
    /\ pending = [c \in Clients |-> NoCmd]
    /\ result = [c \in Clients |-> NoResult]

(* The result of command x on store contents s, and the contents after.    *)
Effect(s, x) ==
    CASE x.op = "SET" -> [kv |-> [s EXCEPT ![x.key] = x.value], res |-> "STORED"]
      [] x.op = "ADD" /\ s[x.key] = Absent ->
            [kv |-> [s EXCEPT ![x.key] = x.value], res |-> "STORED"]
      [] x.op = "ADD" -> [kv |-> s, res |-> "NOT_STORED"]
      [] x.op = "DELETE" /\ s[x.key] # Absent ->
            [kv |-> [s EXCEPT ![x.key] = Absent], res |-> "DELETED"]
      [] x.op = "DELETE" -> [kv |-> s, res |-> "NOT_FOUND"]
      [] x.op = "GET" /\ s[x.key] # Absent -> [kv |-> s, res |-> s[x.key]]
      [] x.op = "GET" -> [kv |-> s, res |-> "MISS"]
      [] x.op = "HTTP_PUT" -> [kv |-> [s EXCEPT ![x.key] = x.value], res |-> "OK"]
      [] x.op = "HTTP_GET" /\ s[x.key] # Absent -> [kv |-> s, res |-> s[x.key]]
      [] x.op = "HTTP_GET" -> [kv |-> s, res |-> "NOT_FOUND"]

Issue(c, x) ==
    /\ pending[c] = NoCmd
    /\ pending' = [pending EXCEPT ![c] = x]
    /\ UNCHANGED <<kv, result>>

Apply(c) ==
    /\ pending[c] # NoCmd
    /\ result[c] = NoResult
    /\ LET e == Effect(kv, pending[c]) IN
         /\ kv' = e.kv
         /\ result' = [result EXCEPT ![c] = e.res]
    /\ UNCHANGED pending

Fail(c) ==
    /\ pending[c] # NoCmd
    /\ result[c] = NoResult
    /\ result' = [result EXCEPT ![c] = "ERROR"]
    /\ UNCHANGED <<kv, pending>>

Respond(c) ==
    /\ result[c] # NoResult
    /\ pending' = [pending EXCEPT ![c] = NoCmd]
    /\ result' = [result EXCEPT ![c] = NoResult]
    /\ UNCHANGED kv

Next ==
    \E c \in Clients :
        \/ \E x \in Cmds : Issue(c, x)
        \/ Apply(c)
        \/ Fail(c)
        \/ Respond(c)

Spec == Init /\ [][Next]_vars
==============================================================================

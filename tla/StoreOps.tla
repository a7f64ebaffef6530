------------------------------ MODULE StoreOps ------------------------------
(***************************************************************************)
(* The store calls of request::prepare_response() (src/src/quitsies/tcp/   *)
(* request.cpp) made concurrently by several connections, against the      *)
(* RocksDB store of db::rocks (src/src/quitsies/db/rocks.{hpp,cpp}).       *)
(*                                                                         *)
(* Each connection's worker thread runs prepare_response() for its parsed  *)
(* command.  Every rocks::get, put and del is one atomic RocksDB call; the *)
(* steps of one command interleave with those of the others.  The only    *)
(* synchronisation is the store-wide std::mutex taken by ADD around its    *)
(* get-then-put (rocks::lock / rocks::unlock).  out is the response the    *)
(* command wrote into its stringstream; the connection sends it and resets *)
(* the request (Respond).  The HTTP API's key handlers (rocks.cpp,         *)
(* register_endpoints) run on the served library's threads against the     *)
(* same store; a client c may also stand for one of those threads.         *)
(***************************************************************************)
EXTENDS Naturals

CONSTANTS
    Clients, Keys, Values, Absent, NoCmd, NoResult,
    NoOwner,     \* _db_mutex is free
    Roles,       \* Roles[c]: the commands (with keys and values) connection c may send
    MaxCmds,     \* how many commands each connection sends
    Faults,      \* the RocksDB calls that may fail: a subset of {"get", "put", "del"}
    Throws       \* whether a C++ exception may escape a store call of ADD

ASSUME NoOwner \notin Clients /\ Throws \in BOOLEAN

VARIABLES
    store,       \* the RocksDB contents
    lock,        \* the holder of _db_mutex
    pc,          \* where each connection is in prepare_response()
    cmd,         \* the command it is executing
    out,         \* the response written so far
    issued       \* how many commands it has sent

vars == <<store, lock, pc, cmd, out, issued>>

Abs == INSTANCE AtomicStore WITH kv <- store, pending <- cmd, result <- out

Pcs == {"idle", "del_get", "del_del", "add_lock", "add_get", "add_put",
        "add_unlock", "set_put", "get_get", "http_put", "http_get", "done"}

(* rocks::get: ok with the value, not_found, or an I/O error.              *)
GetStatus(k) ==
    {IF store[k] = Absent THEN "not_found" ELSE "ok"}
        \cup (IF "get" \in Faults THEN {"error"} ELSE {})

(* rocks::put and rocks::del: ok, or an error.  RocksDB's Delete of an     *)
(* absent key is ok.                                                       *)
WriteOk(call) == {TRUE} \cup (IF call \in Faults THEN {FALSE} ELSE {})

Init ==
    /\ store \in [Keys -> Values \cup {Absent}]
    /\ lock = NoOwner
    /\ pc = [c \in Clients |-> "idle"]
    /\ cmd = [c \in Clients |-> NoCmd]
    /\ out = [c \in Clients |-> NoResult]
    /\ issued = [c \in Clients |-> 0]

FirstStep == [DELETE |-> "del_get", ADD |-> "add_lock", SET |-> "set_put", GET |-> "get_get",
              HTTP_PUT |-> "http_put", HTTP_GET |-> "http_get"]

(* The parser finished command x and called prepare_response().            *)
Issue(c, x) ==
    /\ pc[c] = "idle"
    /\ issued[c] < MaxCmds
    /\ x \in Roles[c]
    /\ cmd' = [cmd EXCEPT ![c] = x]
    /\ pc' = [pc EXCEPT ![c] = FirstStep[x.op]]
    /\ issued' = [issued EXCEPT ![c] = @ + 1]
    /\ UNCHANGED <<store, lock, out>>

Goto(c, p) == pc' = [pc EXCEPT ![c] = p]
Answer(c, r) == out' = [out EXCEPT ![c] = r]

(* DELETE: get the key; any status but ok answers NOT_FOUND.               *)
DelGet(c) ==
    /\ pc[c] = "del_get"
    /\ \E st \in GetStatus(cmd[c].key) :
         IF st = "ok" THEN Goto(c, "del_del") /\ UNCHANGED out
         ELSE Goto(c, "done") /\ Answer(c, "NOT_FOUND")
    /\ UNCHANGED <<store, lock, cmd, issued>>

(* DELETE: then delete it.                                                 *)
DelDel(c) ==
    /\ pc[c] = "del_del"
    /\ \E ok \in WriteOk("del") :
         IF ok THEN store' = [store EXCEPT ![cmd[c].key] = Absent] /\ Answer(c, "DELETED")
         ELSE UNCHANGED store /\ Answer(c, "ERROR")
    /\ Goto(c, "done")
    /\ UNCHANGED <<lock, cmd, issued>>

(* Seeded fault: ADD goes ahead without waiting for the mutex.             *)
AddLockUnguarded(c) ==
    /\ pc[c] = "add_lock"
    /\ lock' = c
    /\ Goto(c, "add_get")
    /\ UNCHANGED <<store, cmd, out, issued>>

(* ADD: _db->lock().                                                       *)
AddLock(c) ==
    /\ pc[c] = "add_lock"
    /\ lock = NoOwner
    /\ lock' = c
    /\ Goto(c, "add_get")
    /\ UNCHANGED <<store, cmd, out, issued>>

(* ADD: get the key; found answers NOT_STORED, not_found goes on to put,   *)
(* an error answers ERROR.                                                 *)
AddGet(c) ==
    /\ pc[c] = "add_get"
    /\ \E st \in GetStatus(cmd[c].key) :
         CASE st = "ok"        -> Goto(c, "add_unlock") /\ Answer(c, "NOT_STORED")
           [] st = "not_found" -> Goto(c, "add_put") /\ UNCHANGED out
           [] st = "error"     -> Goto(c, "add_unlock") /\ Answer(c, "ERROR")
    /\ UNCHANGED <<store, lock, cmd, issued>>

(* ADD: put the value.                                                     *)
AddPut(c) ==
    /\ pc[c] = "add_put"
    /\ \E ok \in WriteOk("put") :
         IF ok THEN store' = [store EXCEPT ![cmd[c].key] = cmd[c].value] /\ Answer(c, "STORED")
         ELSE UNCHANGED store /\ Answer(c, "ERROR")
    /\ Goto(c, "add_unlock")
    /\ UNCHANGED <<lock, cmd, issued>>

(* ADD: _db->unlock().                                                     *)
AddUnlock(c) ==
    /\ pc[c] = "add_unlock"
    /\ lock' = NoOwner
    /\ Goto(c, "done")
    /\ UNCHANGED <<store, cmd, out, issued>>

(* ADD: an exception is thrown inside the critical section before the      *)
(* store changes (store calls never throw, but building the value with    *)
(* _buffer.str() or the error text allocates); the catch block of          *)
(* prepare_response() answers ERROR and never reaches _db->unlock().       *)
AddThrows(c) ==
    /\ Throws
    /\ pc[c] \in {"add_get", "add_put"}
    /\ Answer(c, "ERROR")
    /\ Goto(c, "done")
    /\ UNCHANGED <<store, lock, cmd, issued>>

(* Seeded fault: SET answers STORED whatever the put returned.             *)
SetPutIgnoresStatus(c) ==
    /\ pc[c] = "set_put"
    /\ \E ok \in WriteOk("put") :
         IF ok THEN store' = [store EXCEPT ![cmd[c].key] = cmd[c].value] /\ Answer(c, "STORED")
         ELSE UNCHANGED store /\ Answer(c, "STORED")
    /\ Goto(c, "done")
    /\ UNCHANGED <<lock, cmd, issued>>

(* SET: put the value.                                                     *)
SetPut(c) ==
    /\ pc[c] = "set_put"
    /\ \E ok \in WriteOk("put") :
         IF ok THEN store' = [store EXCEPT ![cmd[c].key] = cmd[c].value] /\ Answer(c, "STORED")
         ELSE UNCHANGED store /\ Answer(c, "ERROR")
    /\ Goto(c, "done")
    /\ UNCHANGED <<lock, cmd, issued>>

(* Seeded fault: GET writes the status of a failed get as its answer.      *)
GetGetReportsStatus(c) ==
    /\ pc[c] = "get_get"
    /\ \E st \in GetStatus(cmd[c].key) :
         Answer(c, IF st = "ok" THEN store[cmd[c].key] ELSE st)
    /\ Goto(c, "done")
    /\ UNCHANGED <<store, lock, cmd, issued>>

(* GET: get the key; a found value is returned, anything else is left out  *)
(* of the response, which then reads as a miss.                            *)
GetGet(c) ==
    /\ pc[c] = "get_get"
    /\ \E st \in GetStatus(cmd[c].key) :
         Answer(c, IF st = "ok" THEN store[cmd[c].key] ELSE "MISS")
    /\ Goto(c, "done")
    /\ UNCHANGED <<store, lock, cmd, issued>>

(* HTTP PUT or POST /key/{key}: one put, taking no lock; a failure answers *)
(* 500 with the status text, success an empty 200.                         *)
HttpPut(c) ==
    /\ pc[c] = "http_put"
    /\ \E ok \in WriteOk("put") :
         IF ok THEN store' = [store EXCEPT ![cmd[c].key] = cmd[c].value] /\ Answer(c, "OK")
         ELSE UNCHANGED store /\ Answer(c, "ERROR")
    /\ Goto(c, "done")
    /\ UNCHANGED <<lock, cmd, issued>>

(* HTTP GET /key/{key}: the value, 404 when not found, 500 on an error.    *)
HttpGet(c) ==
    /\ pc[c] = "http_get"
    /\ \E st \in GetStatus(cmd[c].key) :
         Answer(c, CASE st = "ok" -> store[cmd[c].key]
                     [] st = "not_found" -> "NOT_FOUND"
                     [] st = "error" -> "ERROR")
    /\ Goto(c, "done")
    /\ UNCHANGED <<store, lock, cmd, issued>>

(* The response is sent and the request reset for the next command.        *)
Respond(c) ==
    /\ pc[c] = "done"
    /\ Goto(c, "idle")
    /\ cmd' = [cmd EXCEPT ![c] = NoCmd]
    /\ out' = [out EXCEPT ![c] = NoResult]
    /\ UNCHANGED <<store, lock, issued>>

(* Everything a connection's thread does once it has a command.            *)
Work(c) ==
    \/ DelGet(c) \/ DelDel(c)
    \/ AddLock(c) \/ AddGet(c) \/ AddPut(c) \/ AddUnlock(c) \/ AddThrows(c)
    \/ SetPut(c) \/ GetGet(c)
    \/ HttpPut(c) \/ HttpGet(c)
    \/ Respond(c)

Next ==
    \E c \in Clients :
        \/ \E x \in Roles[c] : Issue(c, x)
        \/ Work(c)

(* A worker thread that can take a step eventually does.                   *)
FairSpec == Init /\ [][Next]_vars /\ \A c \in Clients : WF_vars(Work(c))

-----------------------------------------------------------------------------
TypeOK ==
    /\ store \in [Keys -> Values \cup {Absent}]
    /\ lock \in Clients \cup {NoOwner}
    /\ pc \in [Clients -> Pcs]
    /\ cmd \in [Clients -> Abs!Cmds \cup {NoCmd}]
    /\ out \in [Clients -> Abs!Results \cup {NoResult}]
    /\ issued \in [Clients -> 0..MaxCmds]

(* Linearizability: every command takes effect atomically at one instant   *)
(* between prepare_response() starting and the response being sent; the    *)
(* interleaved get/put/del calls of concurrent connections implement the    *)
(* atomic store of AtomicStore.                                             *)
Linearizable == Abs!Spec

==============================================================================

----------------------------- MODULE Connection -----------------------------
(***************************************************************************)
(* One TCP connection of the memcached front end (tcp::connection,         *)
(* src/src/quitsies/tcp/connection.cpp) with its client, composed with the *)
(* request parser of module Request.                                       *)
(*                                                                         *)
(* Every completion handler (read, write, timer) is one atomic step; the   *)
(* io_service runs them in any order.  The read and write timers are       *)
(* boost deadline_timers whose expiry is set once, by the constructor, at  *)
(* time 0: an async_wait completes with success once now >= its expiry    *)
(* (Expire, then the handler TimerFires), and cancel() aborts only the     *)
(* waits that have not completed yet.  The connection manager's stop(),    *)
(* whose source is not part of the repository, follows the spec (section  *)
(* 4.3): it removes the connection from the live set and calls             *)
(* connection::stop() once.                                                *)
(***************************************************************************)
EXTENDS Integers, Sequences, SequencesExt

CONSTANTS
    MaxBytes, HasDb, SizeBits, OtherBytes,  \* the parser's, as in Request
    ReadTimeout,   \* read_timeout in ticks; 0 disables the read timer
    WriteTimeout,  \* write_timeout in ticks; 0 disables the write timer
    Script,        \* the wire messages the client may send
    Pipelined,     \* whether the client sends before its last command is answered
    MaxCmds,       \* how many messages the client sends
    MaxTime,       \* how far the clock runs
    SlowReader     \* the client may leave the socket's send buffer full

VARIABLES
    req,        \* the connection's request (_request)
    inbox,      \* bytes the client sent that the connection has not read
    sent,       \* the messages the client sent, in order
    received,   \* the responses the client received, in order
    peer,       \* the client still has its end open
    sock,       \* "open" until connection::stop() closes _socket
    reading,    \* an async_read_some is outstanding
    writing,    \* an async_write is outstanding
    timer,      \* per timer: waits not yet completed, handlers completed with success
    now,        \* the clock
    readSince,  \* when start() last began a read
    writeSince, \* when the current write began
    live,       \* the connection is in the manager's live set
    deferred    \* the outstanding write was not all sent when it started

vars == <<req, inbox, sent, received, peer, sock, reading, writing, timer,
          now, readSince, writeSince, live, deferred>>

R == INSTANCE Request WITH Wires <- {<<>>}, MaxChunk <- 1, wire <- <<>>, pos <- 0

Timers == {"read", "write"}

(* The deadline both timers were given by the constructor.                 *)
Expiry == [t \in Timers |-> IF t = "read" THEN ReadTimeout ELSE WriteTimeout]

(* The response a message gets when it arrives alone and whole, and        *)
(* whether it gets one at all (noreply commands and QUIT do not).          *)
ReplyOf(w) == R!Process(R!InitialRequest, w).response
Answered(w) == LET r == R!Process(R!InitialRequest, w) IN
               r.status = "FINISHED" /\ ~r.no_reply

(* The responses owed for the messages s, in order.                        *)
Replies(s) == FoldLeft(LAMBDA acc, w : IF Answered(w) THEN Append(acc, ReplyOf(w)) ELSE acc,
                       <<>>, s)

ArmWait(tm, t) == [tm EXCEPT ![t].armed = @ + 1]
CancelWaits(tm, t) == [tm EXCEPT ![t].armed = 0]

(* connection_manager::stop (spec-modelled): remove the connection from    *)
(* the live set and call connection::stop(), which shuts down and closes   *)
(* the socket; a connection no longer live is left alone.                  *)
ManagerStop ==
    IF live THEN live' = FALSE /\ sock' = "closed"
    ELSE UNCHANGED <<live, sock>>

(* The timer state after start(): a read is outstanding and, with a read   *)
(* timeout, one more wait on the read timer.                               *)
StartTimers(tm) == IF ReadTimeout > 0 THEN ArmWait(tm, "read") ELSE tm

(* The connection manager has just called start() on a new connection.    *)
Init ==
    /\ req = R!InitialRequest
    /\ inbox = <<>>
    /\ sent = <<>>
    /\ received = <<>>
    /\ peer = TRUE
    /\ sock = "open"
    /\ reading = TRUE
    /\ writing = FALSE
    /\ timer = StartTimers([t \in Timers |-> [armed |-> 0, fired |-> 0]])
    /\ now = 0
    /\ readSince = 0
    /\ writeSince = 0
    /\ live = TRUE
    /\ deferred = FALSE

(* Seeded fault: the read handler starts the write and reads on as well.  *)
DoWriteAndRead ==
    /\ reading' = TRUE /\ writing' = TRUE /\ writeSince' = now
    /\ deferred' \in IF SlowReader THEN BOOLEAN ELSE {FALSE}

(* The read is over and do_write() starts async_write on a buffer over the  *)
(* string get_response() returns by value: a temporary, destroyed as soon   *)
(* as async_write returns.  The reactor tries the send at once; the bytes   *)
(* the socket cannot take then (a client slow to read has filled its send  *)
(* buffer) are sent later from that buffer.                                *)
DoWrite ==
    /\ reading' = FALSE /\ writing' = TRUE /\ writeSince' = now
    /\ deferred' \in IF SlowReader THEN BOOLEAN ELSE {FALSE}

(* What the client receives for the response r: a deferred send reads the  *)
(* destroyed temporary, whose bytes may still be intact or may have been    *)
(* reused (undefined behaviour: either outcome).                            *)
Garbled == [op |-> "GARBLED", keys |-> <<>>, data |-> <<>>]
Delivered(r) == IF deferred THEN {r, Garbled} ELSE {r}

(* The read handler of do_read() with n bytes: feed them to process(), then *)
(* act on the request's status.  FINISHED cancels the read timer and waits  *)
(* on the write timer; with noreply it cancels that wait at once (a wait    *)
(* whose deadline has passed may already have completed on another thread  *)
(* of the pool), resets the request and calls start(), otherwise it calls   *)
(* do_write().  QUITTING asks the manager to stop the connection; any other *)
(* status reads again.                                                      *)
ReadDone(n) ==
    /\ reading /\ sock = "open"
    /\ n \in 1..Len(inbox)
    /\ inbox' = SubSeq(inbox, n + 1, Len(inbox))
    /\ LET r  == R!Process(req, SubSeq(inbox, 1, n))
           t1 == CancelWaits(timer, "read")
           t2 == IF WriteTimeout > 0 THEN ArmWait(t1, "write") ELSE t1
       IN
       CASE r.status = "FINISHED" /\ r.no_reply ->
                /\ req' = R!Reset
                /\ \E late \in IF WriteTimeout > 0 /\ now >= WriteTimeout
                               THEN {0, 1} ELSE {0} :
                     timer' = StartTimers([t2 EXCEPT !["write"] =
                                  [armed |-> 0, fired |-> @.fired + late]])
                /\ readSince' = now
                /\ UNCHANGED <<reading, writing, writeSince, live, sock, deferred>>
         [] r.status = "FINISHED" ->
                /\ req' = r
                /\ timer' = t2
                /\ DoWrite
                /\ UNCHANGED <<readSince, live, sock>>
         [] r.status = "QUITTING" ->
                /\ req' = r
                /\ reading' = FALSE
                /\ ManagerStop
                /\ UNCHANGED <<timer, writing, readSince, writeSince, deferred>>
         [] OTHER ->
                /\ req' = r
                /\ UNCHANGED <<timer, reading, writing, readSince, writeSince, live, sock, deferred>>
    /\ UNCHANGED <<sent, received, peer, now>>

(* The read handler on end of stream or a reset: stop the connection.     *)
ReadFails ==
    /\ reading /\ sock = "open"
    /\ inbox = <<>> /\ ~peer
    /\ reading' = FALSE
    /\ ManagerStop
    /\ UNCHANGED <<req, inbox, sent, received, peer, writing, timer, now,
                   readSince, writeSince, deferred>>

(* The read handler after the socket was closed: operation_aborted, nothing *)
(* is done.                                                                 *)
ReadAborted ==
    /\ reading /\ sock = "closed"
    /\ reading' = FALSE
    /\ UNCHANGED <<req, inbox, sent, received, peer, sock, writing, timer, now,
                   readSince, writeSince, live, deferred>>

(* Seeded fault: the write handler does not reset the request.           *)
WriteDoneNoReset ==
    /\ writing /\ sock = "open" /\ peer
    /\ \E b \in Delivered(req.response) : received' = Append(received, b)
    /\ timer' = StartTimers(CancelWaits(timer, "write"))
    /\ writing' = FALSE /\ reading' = TRUE /\ readSince' = now
    /\ UNCHANGED <<req, inbox, sent, peer, sock, now, writeSince, live, deferred>>

(* The write handler of do_write(): the client has the response; cancel the *)
(* write timer, reset the request and start() again.                        *)
WriteDone ==
    /\ writing /\ sock = "open" /\ peer
    /\ \E b \in Delivered(req.response) : received' = Append(received, b)
    /\ req' = R!Reset
    /\ timer' = StartTimers(CancelWaits(timer, "write"))
    /\ writing' = FALSE /\ reading' = TRUE /\ readSince' = now
    /\ UNCHANGED <<inbox, sent, peer, sock, now, writeSince, live, deferred>>

(* The write handler when the client has gone: stop the connection.        *)
WriteFails ==
    /\ writing /\ sock = "open" /\ ~peer
    /\ writing' = FALSE
    /\ ManagerStop
    /\ UNCHANGED <<req, inbox, sent, received, peer, reading, timer, now,
                   readSince, writeSince, deferred>>

(* The write handler after the socket was closed: operation_aborted.       *)
WriteAborted ==
    /\ writing /\ sock = "closed"
    /\ writing' = FALSE
    /\ UNCHANGED <<req, inbox, sent, received, peer, sock, reading, timer, now,
                   readSince, writeSince, live, deferred>>

(* The reactor completes the outstanding waits on timer t whose deadline   *)
(* has passed.                                                              *)
Expire(t) ==
    /\ timer[t].armed > 0 /\ now >= Expiry[t]
    /\ timer' = [timer EXCEPT ![t] = [armed |-> 0, fired |-> @.fired + @.armed]]
    /\ UNCHANGED <<req, inbox, sent, received, peer, sock, reading, writing,
                   now, readSince, writeSince, live, deferred>>

(* Seeded fault: the timer handler waits on its timer again, as start()    *)
(* does, instead of only asking the manager to stop the connection.        *)
TimerFiresRearm(t) ==
    /\ timer[t].fired > 0
    /\ timer' = [timer EXCEPT ![t] = [armed |-> @.armed + 1, fired |-> @.fired - 1]]
    /\ ManagerStop
    /\ UNCHANGED <<req, inbox, sent, received, peer, reading, writing, now,
                   readSince, writeSince, deferred>>

(* A timer handler completed with success: ask the manager to stop the     *)
(* connection.                                                              *)
TimerFires(t) ==
    /\ timer[t].fired > 0
    /\ timer' = [timer EXCEPT ![t].fired = @ - 1]
    /\ ManagerStop
    /\ UNCHANGED <<req, inbox, sent, received, peer, reading, writing, now,
                   readSince, writeSince, deferred>>

(* server: a termination signal makes stop_all() stop every live connection. *)
StopAll ==
    /\ live
    /\ ManagerStop
    /\ UNCHANGED <<req, inbox, sent, received, peer, reading, writing, timer,
                   now, readSince, writeSince, deferred>>

Tick ==
    /\ now < MaxTime
    /\ now' = now + 1
    /\ UNCHANGED <<req, inbox, sent, received, peer, sock, reading, writing,
                   timer, readSince, writeSince, live, deferred>>

(* The client sends message w: at once when it pipelines, otherwise only   *)
(* when everything it sent has been delivered and answered.  Nothing is    *)
(* sent after QUIT.                                                         *)
Send(w) ==
    /\ peer /\ Len(sent) < MaxCmds
    /\ \A i \in 1..Len(sent) : R!Process(R!InitialRequest, sent[i]).status # "QUITTING"
    /\ Pipelined \/ (inbox = <<>> /\ Len(received) = Len(Replies(sent)))
    /\ inbox' = inbox \o w
    /\ sent' = Append(sent, w)
    /\ UNCHANGED <<req, received, peer, sock, reading, writing, timer, now,
                   readSince, writeSince, live, deferred>>

(* The client closes its end or the connection is reset.                   *)
Hangup ==
    /\ peer
    /\ peer' = FALSE
    /\ UNCHANGED <<req, inbox, sent, received, sock, reading, writing, timer,
                   now, readSince, writeSince, live, deferred>>

(* The handlers the io_service runs once they are ready.                   *)
Handler ==
    \/ \E n \in 1..Len(inbox) : ReadDone(n)
    \/ ReadFails \/ ReadAborted
    \/ WriteDone \/ WriteFails \/ WriteAborted
    \/ \E t \in Timers : Expire(t) \/ TimerFires(t)

Next ==
    \/ Handler
    \/ \E w \in Script : Send(w)
    \/ Hangup \/ StopAll \/ Tick

(* Every ready handler eventually runs and the clock keeps going (up to    *)
(* MaxTime); the client and signals are not forced to do anything.         *)
FairSpec ==
    /\ Init /\ [][Next]_vars
    /\ WF_vars(\E n \in 1..Len(inbox) : ReadDone(n))
    /\ WF_vars(ReadFails) /\ WF_vars(ReadAborted)
    /\ WF_vars(WriteDone) /\ WF_vars(WriteFails) /\ WF_vars(WriteAborted)
    /\ \A t \in Timers : WF_vars(Expire(t)) /\ WF_vars(TimerFires(t))
    /\ WF_vars(Tick)


-----------------------------------------------------------------------------
(* The responses the client receives are those of the commands it sent, in  *)
(* order, one each (spec 4.2: one fully completed command at a time): the   *)
(* read handler, the parser and the write handler together never answer a  *)
(* command twice, answer bytes that were no command, or skip one.           *)
ResponsesMatchRequests == IsPrefix(received, Replies(sent))

(* One socket operation at a time, on a request in the state it needs: no  *)
(* read is outstanding while a response is being written, a write only     *)
(* sends the response of a FINISHED request that owes one, and a read only *)
(* feeds a request that is not finished.  Handlers of one connection run   *)
(* on any thread of the pool without a strand; this discipline is what     *)
(* keeps two socket handlers from using _request at the same time.         *)
OneOperationAtATime ==
    /\ ~(reading /\ writing)
    /\ writing => req.status = "FINISHED" /\ ~req.no_reply
    /\ reading => req.status \notin R!Terminal

(* Nothing of the connection is outstanding: no read or write, no wait on  *)
(* either timer, and no timer handler still to run.  Each of these holds a  *)
(* shared_ptr to the connection (self), which is freed only then.           *)
Quiescent ==
    /\ ~reading /\ ~writing
    /\ \A t \in Timers : timer[t].armed = 0 /\ timer[t].fired = 0

(* A stopped connection is released: once the socket is closed, whatever    *)
(* path closed it (QUIT, a hang-up, a timeout, stop_all), every outstanding *)
(* operation completes, so the connection does not outlive its socket      *)
(* forever (spec 4.3: an entry is kept alive only as long as asynchronous   *)
(* operations reference it).  On QUIT the read timer is not cancelled       *)
(* (connection.cpp:112), so this rests on that wait expiring and its        *)
(* handler finding the connection already stopped.                          *)
ConnectionReleased == sock = "closed" ~> Quiescent

(* A timer stops the connection only after the client has kept it waiting  *)
(* for the timeout: the read timer when the current read began at least     *)
(* read_timeout ago, the write timer when a write has been outstanding for  *)
(* write_timeout (spec 4.2).                                                *)
TimeoutOnlyAfterIdle ==
    [][/\ (live /\ ~live' /\ timer'["read"].fired < timer["read"].fired)
             => now - readSince >= ReadTimeout
       /\ (live /\ ~live' /\ timer'["write"].fired < timer["write"].fired)
             => writing /\ now - writeSince >= WriteTimeout]_vars
====

------------------------------- MODULE Request -------------------------------
(***************************************************************************)
(* The memcached text-protocol parser of quitsies: class tcp::request      *)
(* (src/src/quitsies/tcp/request.hpp, request.cpp).                        *)
(*                                                                         *)
(* A request object is fed the bytes of each socket read through           *)
(* process(data, length).  The bytes are scanned one at a time; the token  *)
(* being built lives in _buffer, which persists between calls, so a token  *)
(* may span reads.  Once the command is complete process() calls           *)
(* prepare_response() and returns, and the rest of that read is never      *)
(* looked at.                                                              *)
(*                                                                         *)
(* Data abstraction: a byte is a one-character string, except that each    *)
(* command keyword ("set", "get", ...) and the word "noreply" is one       *)
(* symbol.  Keys, numbers and payloads are made of single-byte symbols,    *)
(* so tokens can still be split between reads.  The store calls made by   *)
(* prepare_response() are not performed here: the response of a SET, ADD, *)
(* GET, GETS or DELETE is the store call it makes, [op, keys, data]; the   *)
(* module StoreOps models what the store does with it.                     *)
(***************************************************************************)
EXTENDS Integers, Sequences, SequencesExt

CONSTANTS
    MaxBytes,    \* _max_bytes: request size limit, 0 means no limit
    HasDb,       \* whether _db is non-null (the unit tests pass NULL)
    SizeBits,    \* width of size_t, the type of _remaining
    OtherBytes   \* the bytes, other than digits, that keys and data use

ASSUME MaxBytes \in Nat /\ HasDb \in BOOLEAN /\ SizeBits \in Nat \ {0}

(* is_white_space(); the vertical tab has no TLA+ string escape and is     *)
(* treated like the other five.                                            *)
WhiteSpace == {" ", "\t", "\f", "\r", "\n"}

Digit == {"0", "1", "2", "3", "4", "5", "6", "7", "8", "9"}

DigitValue == [d \in Digit |->
                 CHOOSE v \in 0..9 : <<"0","1","2","3","4","5","6","7","8","9">>[v+1] = d]

Commands == {"NONE", "SET", "ADD", "GET", "GETS", "DELETE", "QUIT", "PING"}

\* The wire spelling of each command (command_from_str).
Keyword == [SET |-> "set", ADD |-> "add", GET |-> "get", GETS |-> "gets",
            DELETE |-> "delete", QUIT |-> "quit", PING |-> "ping"]

Byte == WhiteSpace \cup Digit \cup OtherBytes \cup {"-", "noreply"}
            \cup {Keyword[c] : c \in DOMAIN Keyword}

Statuses == {"COMMAND", "DELETE_KEY", "STORAGE_KEY", "FLAGS", "EXPTIME",
             "NBYTES", "NOREP", "DATA", "RETRIEVAL_KEY", "RETRIEVAL_KEYS",
             "FINISHED", "QUITTING"}

(* Responses.  A response is either a store call [op, keys, data] still to *)
(* be made, or a fixed reply; NoResponse is the empty _response of an      *)
(* unfinished request.                                                     *)
StoreCall(cmd, ks, data) == [op |-> cmd, keys |-> ks, data |-> data]
Reply(kind) == StoreCall(kind, <<>>, <<>>)
ReplyKinds == {"NO_RESPONSE", "PONG", "ERROR_NO_DB", "ERROR_NO_KEY", "CLIENT_ERROR"}
NoResponse == Reply("NO_RESPONSE")

SizeMax == 2^SizeBits - 1
IntMax == 2147483647   \* INT_MAX of a 32-bit int

(* The fields of tcp::request, as constructed and as reset() leaves them.  *)
(* The constructor leaves _command uninitialised; no path reads it before  *)
(* the COMMAND token assigns it, so it starts as NONE here.                *)
InitialRequest ==
    [status |-> "COMMAND", command |-> "NONE", keys |-> <<>>, flags |-> 0,
     exp_time |-> 0, remaining |-> 0, no_reply |-> FALSE, buffer |-> <<>>,
     response |-> NoResponse]

(* command_from_str(): the token names a command or is NONE.               *)
CommandFromStr(buf) ==
    IF \E c \in DOMAIN Keyword : buf = <<Keyword[c]>>
    THEN CHOOSE c \in DOMAIN Keyword : buf = <<Keyword[c]>>
    ELSE "NONE"

(* status_from_command(); NONE throws "unsupported command".               *)
StatusFromCommand(cmd) ==
    CASE cmd \in {"SET", "ADD"}  -> "STORAGE_KEY"
      [] cmd \in {"GET", "GETS"} -> "RETRIEVAL_KEY"
      [] cmd = "DELETE"          -> "DELETE_KEY"
      [] cmd = "QUIT"            -> "QUITTING"
      [] cmd = "PING"            -> "FINISHED"

(* std::stoi: an optional sign, then the longest run of digits; no digit   *)
(* throws invalid_argument, a value beyond int throws out_of_range.  The   *)
(* result is [ok |-> FALSE] for either exception.                          *)
Stoi(buf) ==
    LET signed == buf # <<>> /\ Head(buf) \in {"-", "+"}
        rest   == IF signed THEN Tail(buf) ELSE buf
        stop   == SelectInSeq(rest, LAMBDA c : c \notin Digit)
        digits == IF stop = 0 THEN rest ELSE SubSeq(rest, 1, stop - 1)
        mag    == FoldLeft(LAMBDA acc, d : 10 * acc + DigitValue[d], 0, digits)
    IN  [ok  |-> digits # <<>> /\ mag <= IntMax,
         val |-> IF signed /\ Head(buf) = "-" THEN -mag ELSE mag]

(* The int returned by stoi stored into the size_t _remaining.             *)
ToSizeT(n) == n % (SizeMax + 1)

(* The catch block of process(): status FINISHED, a CLIENT_ERROR response. *)
Fail(s) == [s EXCEPT !.status = "FINISHED", !.response = Reply("CLIENT_ERROR")]

(* prepare_response(), up to the store calls: PING answers PONG, a missing *)
(* store or a request without key is an ERROR, anything else is the store  *)
(* call of the command with its keys and the payload in _buffer.           *)
PrepareResponse(s) ==
    [s EXCEPT !.status = "FINISHED",
              !.response = CASE s.command = "PING" -> Reply("PONG")
                             [] ~HasDb             -> Reply("ERROR_NO_DB")
                             [] s.keys = <<>>      -> Reply("ERROR_NO_KEY")
                             [] OTHER -> StoreCall(s.command, s.keys, s.buffer)]

(* A delimiter in COMMAND: classify the token and clear it; PING finishes  *)
(* at once, an unknown command throws.                                     *)
DelimitCommand(s) ==
    LET cmd == CommandFromStr(s.buffer)
        t   == [s EXCEPT !.command = cmd, !.buffer = <<>>]
    IN  CASE cmd = "NONE"                        -> Fail(t)
          [] StatusFromCommand(cmd) = "FINISHED" -> PrepareResponse(t)
          [] OTHER -> [t EXCEPT !.status = StatusFromCommand(cmd)]

(* A delimiter in DELETE_KEY or STORAGE_KEY: the token is the key.         *)
DelimitKey(s, next) ==
    IF s.buffer = <<>>
    THEN Fail(s)
    ELSE [s EXCEPT !.keys = Append(@, s.buffer), !.buffer = <<>>, !.status = next]

(* Seeded fault: FLAGS and EXPTIME store into each other's field.          *)
DelimitNumberSwapped(s) ==
    LET r == Stoi(s.buffer) IN
    IF ~r.ok THEN Fail(s)
    ELSE CASE s.status = "FLAGS" ->
                [s EXCEPT !.exp_time = r.val, !.buffer = <<>>, !.status = "EXPTIME"]
           [] s.status = "EXPTIME" ->
                [s EXCEPT !.flags = r.val, !.buffer = <<>>, !.status = "NBYTES"]
           [] s.status = "NBYTES" ->
                [s EXCEPT !.remaining = ToSizeT(r.val), !.buffer = <<>>, !.status = "NOREP"]

(* A delimiter in FLAGS, EXPTIME or NBYTES: the token is a number.         *)
DelimitNumber(s) ==
    LET r == Stoi(s.buffer)
        n == r.val
    IN
    IF ~r.ok THEN Fail(s)
    ELSE CASE s.status = "FLAGS" ->
                [s EXCEPT !.flags = n, !.buffer = <<>>, !.status = "EXPTIME"]
           [] s.status = "EXPTIME" ->
                [s EXCEPT !.exp_time = n, !.buffer = <<>>, !.status = "NBYTES"]
           [] s.status = "NBYTES" ->
                [s EXCEPT !.remaining = ToSizeT(n), !.buffer = <<>>, !.status = "NOREP"]

(* A delimiter in NOREP: "noreply" sets _no_reply; any other token is left *)
(* in _buffer and the request moves on to its data, or finishes.           *)
DelimitNoReply(s) ==
    CASE s.buffer = <<"noreply">> -> [s EXCEPT !.buffer = <<>>, !.no_reply = TRUE]
      [] s.remaining > 0          -> [s EXCEPT !.status = "DATA"]
      [] OTHER                    -> PrepareResponse(s)

(* Seeded fault: empty tokens are skipped, so nothing ends the key list.   *)
DelimitRetrievalSkipEmpty(s) ==
    IF s.buffer = <<>>
    THEN s
    ELSE [s EXCEPT !.keys = Append(@, s.buffer), !.buffer = <<>>]

(* A delimiter in RETRIEVAL_KEY(S): an empty token ends the command, any   *)
(* other is one more key.                                                  *)
DelimitRetrieval(s) ==
    IF s.buffer = <<>>
    THEN PrepareResponse(s)
    ELSE [s EXCEPT !.keys = Append(@, s.buffer), !.buffer = <<>>]

Delimit(s) ==
    CASE s.status = "COMMAND"     -> DelimitCommand(s)
      [] s.status = "DELETE_KEY"  -> DelimitKey(s, "NOREP")
      [] s.status = "STORAGE_KEY" -> DelimitKey(s, "FLAGS")
      [] s.status \in {"FLAGS", "EXPTIME", "NBYTES"} -> DelimitNumber(s)
      [] s.status = "NOREP"       -> DelimitNoReply(s)
      [] s.status \in {"RETRIEVAL_KEY", "RETRIEVAL_KEYS"} -> DelimitRetrieval(s)
      [] OTHER                    -> s

(* One iteration of the loop of process() on byte b.  In DATA every byte   *)
(* is payload until _remaining is 0; the byte after the payload finishes   *)
(* the request without being consumed.                                     *)
Step(s, b) ==
    CASE s.status = "DATA" /\ s.remaining > 0 ->
              [s EXCEPT !.remaining = @ - 1, !.buffer = Append(@, b)]
      [] s.status = "DATA"  -> PrepareResponse(s)
      [] b \in WhiteSpace   -> Delimit(s)
      [] OTHER              -> [s EXCEPT !.buffer = Append(@, b)]

(* process(data, length): the size guard, then the loop, which returns as  *)
(* soon as the request is FINISHED.                                        *)
Process(s, chunk) ==
    IF MaxBytes > 0 /\ Len(chunk) + Len(s.buffer) >= MaxBytes
    THEN Fail(s)
    ELSE FoldLeft(LAMBDA t, b : IF t.status = "FINISHED" THEN t ELSE Step(t, b),
                  s, chunk)

(* reset(): every field back to its initial value.                         *)
Reset == InitialRequest

-----------------------------------------------------------------------------
(***************************************************************************)
(* One request object fed by one client.  The client has sent the bytes    *)
(* wire; each socket read hands process() the next 1..MaxChunk of them     *)
(* (TCP may split a stream anywhere).  A read that finishes the request    *)
(* may carry bytes process() never looks at: they are read and lost all    *)
(* the same.  The object is only fed while it is neither FINISHED nor      *)
(* QUITTING (connection::do_read stops reading then).                      *)
(***************************************************************************)
CONSTANTS
    Wires,       \* the byte streams a client may send
    MaxChunk     \* the largest read the model delivers

VARIABLES
    req,         \* the tcp::request object
    wire,        \* the bytes the client sent
    pos          \* how many of them have been read

vars == <<req, wire, pos>>

Terminal == {"FINISHED", "QUITTING"}

Init ==
    /\ req = InitialRequest
    /\ wire \in Wires
    /\ pos = 0

(* A socket read of n bytes, handed to process().                          *)
Receive(n) ==
    /\ req.status \notin Terminal
    /\ pos + n <= Len(wire)
    /\ req' = Process(req, SubSeq(wire, pos + 1, pos + n))
    /\ pos' = pos + n
    /\ UNCHANGED wire

Next == \E n \in 1..MaxChunk : Receive(n)

Spec == Init /\ [][Next]_vars

-----------------------------------------------------------------------------
Bytes == Seq(Byte)

RequestState ==
    [status: Statuses, command: Commands, keys: Seq(Bytes), flags: Int,
     exp_time: Int, remaining: 0..SizeMax, no_reply: BOOLEAN, buffer: Bytes,
     response: [op: Commands \cup ReplyKinds, keys: Seq(Bytes), data: Bytes]]

TypeOK ==
    /\ req \in RequestState
    /\ wire \in Wires
    /\ pos \in 0..Len(wire)

==============================================================================

------------------------------ MODULE MCRequest ------------------------------
(***************************************************************************)
(* Model of one tcp::request fed one well-formed command of the wire       *)
(* protocol (spec section 6), split into reads at every possible place.    *)
(* The client side, Encode, writes a command the way a memcached client    *)
(* does; Expected is what the parser must end with for it.                 *)
(***************************************************************************)
EXTENDS Request

CRLF == <<"\r", "\n">>

DigitChar == <<"0", "1", "2", "3", "4", "5", "6", "7", "8", "9">>

RECURSIVE Decimal(_)
Decimal(n) == IF n < 10 THEN <<DigitChar[n + 1]>>
              ELSE Decimal(n \div 10) \o <<DigitChar[(n % 10) + 1]>>

NoReplyWord(m) == IF m.no_reply THEN <<" ", "noreply">> ELSE <<>>

(* The command line, and the data block of a storage command.              *)
Encode(m) ==
    CASE m.command \in {"SET", "ADD"} ->
            <<Keyword[m.command], " ">> \o m.keys[1] \o <<" ">> \o Decimal(m.flags)
              \o <<" ">> \o Decimal(m.exp_time) \o <<" ">> \o Decimal(Len(m.data))
              \o NoReplyWord(m) \o CRLF \o m.data \o CRLF
      [] m.command \in {"GET", "GETS"} ->
            <<Keyword[m.command]>>
              \o FlattenSeq([i \in 1..Len(m.keys) |-> <<" ">> \o m.keys[i]]) \o CRLF
      [] m.command = "DELETE" ->
            <<Keyword[m.command], " ">> \o m.keys[1] \o NoReplyWord(m) \o CRLF
      [] m.command \in {"QUIT", "PING"} -> <<Keyword[m.command]>> \o CRLF

KeyNames == {<<"a">>, <<"a", "b">>}
Payloads == {<<>>, <<"x">>, <<"\r", "\n">>}

StorageMsgs ==
    [command: {"SET", "ADD"}, keys: {<<k>> : k \in KeyNames}, flags: {0, 12},
     exp_time: {1}, no_reply: BOOLEAN, data: Payloads]
RetrievalMsgs ==
    [command: {"GET", "GETS"}, keys: {<<k>> : k \in KeyNames} \cup {<<<<"a">>, <<"a", "b">>>>},
     flags: {0}, exp_time: {0}, no_reply: {FALSE}, data: {<<>>}]
DeleteMsgs ==
    [command: {"DELETE"}, keys: {<<k>> : k \in KeyNames}, flags: {0},
     exp_time: {0}, no_reply: BOOLEAN, data: {<<>>}]
BareMsgs ==
    [command: {"QUIT", "PING"}, keys: {<<>>}, flags: {0}, exp_time: {0},
     no_reply: {FALSE}, data: {<<>>}]

Msgs == StorageMsgs \cup RetrievalMsgs \cup DeleteMsgs \cup BareMsgs

MCWires == {Encode(m) : m \in Msgs}

MsgOf(w) == CHOOSE m \in Msgs : Encode(m) = w

(* The parser state the spec (section 4.1) prescribes once the command m   *)
(* has been parsed.                                                         *)
Expected(m) ==
    [InitialRequest EXCEPT
        !.status   = IF m.command = "QUIT" THEN "QUITTING" ELSE "FINISHED",
        !.command  = m.command,
        !.keys     = m.keys,
        !.flags    = m.flags,
        !.exp_time = m.exp_time,
        !.no_reply = m.no_reply,
        !.buffer   = m.data,
        !.response = CASE m.command = "QUIT" -> NoResponse
                       [] m.command = "PING" -> Reply("PONG")
                       [] ~HasDb             -> Reply("ERROR_NO_DB")
                       [] OTHER -> StoreCall(m.command, m.keys, m.data)]

(* Malformed commands (spec section 6): a negative byte count, a token     *)
(* other than noreply where noreply may stand (after a storage header and  *)
(* after a DELETE key), a missing key, and flags that are not a number.    *)
NegativeBytes == <<Keyword["SET"], " ", "a", " ", "0", " ", "0", " ", "-", "1">> \o CRLF
BadNoReplySet == <<Keyword["SET"], " ", "a", " ", "0", " ", "0", " ", "1", " ", "x">>
                     \o CRLF \o <<"x">> \o CRLF
BadNoReplyDelete == <<Keyword["DELETE"], " ", "a", " ", "x">> \o CRLF
MissingKey == <<Keyword["DELETE"]>> \o CRLF
BadFlags == <<Keyword["SET"], " ", "a", " ", "x", " ", "0", " ", "1">> \o CRLF \o <<"x">> \o CRLF

MalformedWires == {NegativeBytes, BadNoReplySet, BadNoReplyDelete, MissingKey, BadFlags}

(* Chunk invariance (spec section 8): however the reads split the command, *)
(* when process() reports it complete the parsed command, keys, flags,     *)
(* exptime, noreply, payload and response are those of the command sent.   *)
ParseMatchesRequest ==
    req.status \in Terminal => req = Expected(MsgOf(wire))

(* A client is never left waiting (spec section 7): once every byte of a   *)
(* well-formed command has been handed to process(), the request is       *)
(* FINISHED or QUITTING, so the connection stops reading and answers.      *)
CompleteRequestAnswered ==
    pos = Len(wire) => req.status \in Terminal

(* The request-size limit (spec section 4.1): a command of which more than *)
(* MaxBytes bytes must be read is refused with a client error, however the  *)
(* reads split it; the guard at the top of process() is meant to enforce   *)
(* it.  process() finishes a well-formed command at most two bytes before   *)
(* its end (an empty data block's CR LF is never read), so a message longer *)
(* than MaxBytes + 2 cannot be finished without reading too much.           *)
SizeLimitEnforced ==
    (MaxBytes > 0 /\ req.status \in Terminal /\ Len(wire) - 2 > MaxBytes)
        => req.response = Reply("CLIENT_ERROR")

(* Malformed input is refused (spec section 6: "malformed input at any     *)
(* stage yields CLIENT_ERROR and the parser reaches FINISHED"): a malformed *)
(* command never makes a store call, and once all of it has been read the   *)
(* request is FINISHED with a client error.  It is about the NBYTES branch  *)
(* of process() (stoi into the size_t _remaining) and the NOREP branch      *)
(* (any token other than noreply is kept as the start of the payload).      *)
MalformedRejected ==
    (req.status \in Terminal \/ pos = Len(wire))
        => req.response = Reply("CLIENT_ERROR")
==============================================================================

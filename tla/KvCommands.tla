----------------------------- MODULE KvCommands -----------------------------
(***************************************************************************)
(* The data of tiny-kv-server: the commands a client can send, the         *)
(* responses the server can give, and what service/cmd_service.rs makes    *)
(* of the outcome of a storage call.  Tables, keys and values are model    *)
(* values; a message text is reduced to the kind of text it is.            *)
(***************************************************************************)
EXTENDS Naturals, Sequences

CONSTANTS Tables,      \* table names
          Keys,        \* key names
          Vals,        \* values a pair may carry
          DefaultVal,  \* Value::default(), the value with no content
          NoValue      \* Option::None

ASSUME DataAssumption == /\ DefaultVal \in Vals
                         /\ NoValue \notin Vals

Ops == {"hget", "hset", "hset_nopair", "unsupported", "empty"}

\* A request.  "empty" is a CommandRequest without request_data,
\* "hset_nopair" an Hset without its pair, "unsupported" any command that
\* dispatch does not know.  Fields an operation does not use are ignored.
Command == [op : Ops, table : Tables, key : Keys, val : Vals \cup {NoValue}]

OptVal == Vals \cup {NoValue}

Messages == {"", "not found", "invalid command", "modified before send"}

Response == [status : {0, 200, 500}, message : Messages, value : OptVal]

OkResponse(v) == [status |-> 200, message |-> "", value |-> v]

\* Mutant: a status the protocol does not have
ErrResponseNotFound(m) == [status |-> 404, message |-> m, value |-> NoValue]

ErrResponse(m) == [status |-> 500, message |-> m, value |-> NoValue]

DefaultResponse == [status |-> 0, message |-> "", value |-> NoValue]

\* kv.value.unwrap_or_default()
Stored(cmd) == IF cmd.val = NoValue THEN DefaultVal ELSE cmd.val

\* Hget::execute on the value the storage found
HgetResponse(found) ==
    IF found = NoValue THEN ErrResponse("not found") ELSE OkResponse(found)

\* Hset::execute on the value the storage replaced
HsetResponse(old) ==
    IF old = NoValue THEN OkResponse(DefaultVal) ELSE OkResponse(old)

\* The part of a response that on_before_send hooks leave alone in
\* bins/server.rs: everything but the message.
Answer(r) == [status |-> r.status, value |-> r.value]

Answers == [status : {0, 200, 500}, value : OptVal]
=============================================================================

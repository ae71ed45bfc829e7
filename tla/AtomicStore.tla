---------------------------- MODULE AtomicStore ----------------------------
(***************************************************************************)
(* What tiny-kv-server promises its clients: one map from table and key to *)
(* value, on which every command takes effect at one instant between its   *)
(* call and its answer, at most once.  A client may leave at any time; the *)
(* command it had called may still take effect, once, or never.            *)
(***************************************************************************)
EXTENDS KvCommands

CONSTANTS Clients, Requests

VARIABLES store,   \* store[t][k]: the value of key k of table t, or NoValue
          open,    \* the clients that have a connection and still use it
          op       \* op[c]: the command of c in progress

vars == <<store, open, op>>

NoOp == [st |-> "none"]

Idle(c) == op[c].st = "none"

Init == /\ store = [t \in Tables |-> [k \in Keys |-> NoValue]]
        /\ open = {}
        /\ op = [c \in Clients |-> NoOp]

Open(c) == /\ c \notin open
           /\ Idle(c)
           /\ open' = open \cup {c}
           /\ UNCHANGED <<store, op>>

Call(c) == /\ c \in open
           /\ Idle(c)
           /\ \E cmd \in Requests : op' = [op EXCEPT ![c] = [st |-> "called", cmd |-> cmd]]
           /\ UNCHANGED <<store, open>>

\* The answer the command gets from the store as it is
AnswerTo(cmd) ==
    CASE cmd.op = "hget" -> Answer(HgetResponse(store[cmd.table][cmd.key]))
      [] cmd.op = "hset" -> Answer(HsetResponse(store[cmd.table][cmd.key]))
      [] cmd.op = "hset_nopair" -> Answer(ErrResponse("invalid command"))
      [] OTHER -> Answer(DefaultResponse)

\* A command without request_data never takes effect
TakeEffect(c) ==
    /\ op[c].st = "called"
    /\ op[c].cmd.op # "empty"
    /\ LET cmd == op[c].cmd IN
       /\ op' = [op EXCEPT ![c] = [st |-> "answered", cmd |-> cmd, answer |-> AnswerTo(cmd)]]
       /\ store' = IF cmd.op = "hset"
                   THEN [store EXCEPT ![cmd.table][cmd.key] = Stored(cmd)]
                   ELSE store
    /\ UNCHANGED open

\* The client takes the answer, or it is dropped with the connection
Return(c) == /\ op[c].st = "answered"
             /\ op' = [op EXCEPT ![c] = NoOp]
             /\ UNCHANGED <<store, open>>

Leave(c) == /\ c \in open
            /\ open' = open \ {c}
            /\ UNCHANGED <<store, op>>

Next == \E c \in Clients : Open(c) \/ Call(c) \/ TakeEffect(c) \/ Return(c) \/ Leave(c)

Spec == Init /\ [][Next]_vars
=============================================================================

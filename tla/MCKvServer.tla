----------------------------- MODULE MCKvServer -----------------------------
(***************************************************************************)
(* Instances of KvServer for TLC.                                          *)
(***************************************************************************)
EXTENDS KvServer, TLC

CONSTANTS c1, c2, c3, t1, t2, k1, v1, v2, v0, sh1

Request(o, t, k, v) == [op |-> o, table |-> t, key |-> k, val |-> v]

\* A read, two writes of different values, and the commands without effect
MixedRequests ==
    {Request("hget", t1, k1, NoValue), Request("hset", t1, k1, v1),
     Request("hset", t1, k1, NoValue), Request("hset_nopair", t1, k1, NoValue),
     Request("unsupported", t1, k1, NoValue), Request("empty", t1, k1, NoValue)}

\* Reads and writes of two tables that share a shard
StorageRequests ==
    {Request("hget", t, k1, NoValue) : t \in Tables}
        \cup {Request("hset", t, k1, v) : t \in Tables, v \in {v1, v2}}

OneShard == [t \in Tables |-> sh1]

\* fn_on_before_send of bins/server.rs
MarkMessage(r) == [r EXCEPT !.message = "modified before send"]

Symmetry == Permutations(Clients)
=============================================================================

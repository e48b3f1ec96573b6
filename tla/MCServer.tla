------------------------------ MODULE MCServer ------------------------------
(* Instances of Server for TLC.                                            *)
EXTENDS Server

CONSTANTS key, field, c1, c2

(* field is the path key:field, a field of key or a flat key.             *)
MCParent == [p \in Path |-> IF p = field THEN key ELSE Absent]

Do(op, path, type) == [op |-> op, path |-> path, type |-> type]

MCCommand ==
  {Do("set", key, "string"), Do("setex", key, "string"), Do("setnx", key, "string"),
   Do("add", key, "string"), Do("add", key, "set"), Do("take", key, "set"),
   Do("add", key, "list"), Do("take", key, "list"), Do("add", key, "stream"),
   Do("add", key, "zset"), Do("take", key, "zset"),
   Do("add", field, "set"), Do("take", field, "set"),
   Do("expire", key, "string"), Do("persist", key, "string"),
   Do("del", key, "string"), Do("hset", field, "hash"), Do("hdel", field, "hash"),
   Do("flush", key, "string")}

MCQueueable == {Do("hset", field, "hash")}

(* Bound: what follows the command whose append has failed is left out.    *)
UntilFault == faults > 0 => \E c \in Conn : job[c].pc # "idle"
=============================================================================

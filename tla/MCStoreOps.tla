----------------------------- MODULE MCStoreOps -----------------------------
(***************************************************************************)
(* Instances of StoreOps for TLC: three connections, two values, and the   *)
(* commands each connection may send.  Two values tell an ADD's value from *)
(* a SET's.  The key k2 lets SETs run beside the ADDs on k1 where a run    *)
(* asks about commands that are meant to work together.                    *)
(***************************************************************************)
EXTENDS StoreOps, TLC

CONSTANTS c1, c2, c3, k1, k2

(* The commands with operation in ops on a key of ks.                      *)
Ops(ops, ks) == {x \in Abs!Cmds : x.op \in ops /\ x.key \in ks}

(* Two clients racing ADDs on k1, one of which also SETs k2 over memcached *)
(* or puts it over HTTP, and a third deleting and reading both keys over   *)
(* memcached and reading k1 over HTTP.  A client waits for each answer     *)
(* before it sends again, whichever front end it uses.                     *)
MixedRoles ==
    (c1 :> Ops({"ADD"}, {k1}))
    @@ (c2 :> (Ops({"ADD"}, {k1}) \cup Ops({"SET", "HTTP_PUT"}, {k2})))
    @@ (c3 :> (Ops({"DELETE", "GET"}, {k1, k2}) \cup Ops({"HTTP_GET"}, {k1})))

(* An ADD racing a SET on another connection.                              *)
SetAddRoles ==
    (c1 :> Ops({"ADD"}, Keys)) @@ (c2 :> Ops({"SET"}, Keys)) @@ (c3 :> Ops({"GET"}, Keys))

(* Two connections deleting the same key.                                  *)
DeleteRoles ==
    (c1 :> Ops({"DELETE"}, Keys)) @@ (c2 :> Ops({"DELETE"}, Keys)) @@ (c3 :> Ops({"GET"}, Keys))

(* Two connections racing ADDs, a third deleting and reading the key.      *)
AddRoles ==
    (c1 :> Ops({"ADD"}, Keys)) @@ (c2 :> Ops({"ADD"}, Keys)) @@ (c3 :> Ops({"DELETE", "GET"}, Keys))

(* Every command kind, with RocksDB reads that may fail.                    *)
GetErrorRoles ==
    (c1 :> Ops({"DELETE"}, Keys)) @@ (c2 :> Ops({"ADD"}, Keys)) @@ (c3 :> Ops({"GET"}, Keys))
==============================================================================

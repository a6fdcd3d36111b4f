-------------------------------- MODULE Durable --------------------------------
(***************************************************************************)
(* lib/persistence.ts: a store is one JSON file, replaced whole by a       *)
(* rename.  A handler that writes several stores writes them one after the *)
(* other, with no await between: no other request sees the gap, but a      *)
(* process that dies in it leaves the first writes without the later ones. *)
(***************************************************************************)
EXTENDS Naturals, FiniteSets

(* What a store holds when the first `done` writes of a handler reached    *)
(* the disk and this store is written by the k-th of them.                 *)
writeJsonAtomic(done, k, new, old) == IF done >= k THEN new ELSE old

(* A list's filter: the elements at the places `keep`, in their order.     *)
Kept(list, keep) ==
    [k \in 1..Cardinality(keep) |-> list[CHOOSE i \in keep : Cardinality({j \in keep : j <= i}) = k]]
=============================================================================

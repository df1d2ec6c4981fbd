----------------------------- MODULE MCKmalloc -----------------------------
(* Instance of Kmalloc: pages of eight units, headers of two. *)
EXTENDS Kmalloc
=============================================================================

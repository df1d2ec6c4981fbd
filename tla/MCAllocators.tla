---------------------------- MODULE MCAllocators ----------------------------
(***************************************************************************)
(* Instances of the two allocators, Pmm and Kmalloc.  A behaviour is one   *)
(* of Pmm or one of Kmalloc, which has its own view of the pages; the      *)
(* other allocator stays as it was initially.                              *)
(* Pmm: six pages, maps with holes and with ACPI memory.                   *)
(* Kmalloc: six pages of eight units, headers of two.                      *)
(***************************************************************************)
EXTENDS Kmalloc, Pmm

VARIABLE subject  \* the allocator that runs

Desc(start, n, type) == [PhysicalStart |-> start, NumberOfPages |-> n, Type |-> type]

MCMaps ==
  {{Desc(0, 6, 7)},
   {Desc(0, 2, 7), Desc(2, 1, 9), Desc(3, 3, 7)},
   {Desc(1, 3, 7), Desc(4, 2, 3)}}

MCReserved == {0}

AllocatorsInit ==
  /\ Init /\ kmalloc_init
  /\ subject \in {"pmm", "kmalloc"}
  /\ subject = "kmalloc" => memory_map = {Desc(0, 6, 7)}

AllocatorsNext ==
  \/ subject = "pmm" /\ Next /\ UNCHANGED <<heapVars, subject>>
  \/ subject = "kmalloc" /\ HeapNext /\ UNCHANGED <<vars, subject>>

AllocatorsSpec == AllocatorsInit /\ [][AllocatorsNext]_<<vars, heapVars, subject>>
=============================================================================

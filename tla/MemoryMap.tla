----------------------------- MODULE MemoryMap -----------------------------
(***************************************************************************)
(* What kernel/pmm.c and kernel/paging.c make of the firmware's memory     *)
(* map.  A map is a set of descriptors; memory is counted in pages.        *)
(***************************************************************************)
EXTENDS Integers, FiniteSets, FiniteSetsExt

Covers(d) == d.PhysicalStart .. d.PhysicalStart + d.NumberOfPages - 1

EFI_CONVENTIONAL_MEMORY == 7

Conventional(m) == {d \in m : d.Type = EFI_CONVENTIONAL_MEMORY}

\* ACPI, runtime and MMIO descriptors.
Protected(m) == {d \in m : d.Type \in {5, 6, 9, 10, 11}}

\* The first page after every descriptor.
TopOf(m) == Max({d.PhysicalStart + d.NumberOfPages : d \in m} \cup {0})

\* The bitmap of pmm_init over a number of pages: everything is marked used,
\* conventional memory freed, and what is already taken reserved again.
BitmapOf(m, pages, reserved) ==
  LET freed == UNION {Covers(d) : d \in Conventional(m)}
      taken == reserved \cup UNION {Covers(d) : d \in Protected(m)}
  IN  (pages \ freed) \cup (pages \cap taken)

\* free_pages counts the descriptors' pages one by one; reserve_page takes
\* one off for a page whose bit was clear.
FreePagesOf(m, pages, reserved) ==
  LET size(d) == d.NumberOfPages
      freed == UNION {Covers(d) : d \in Conventional(m)}
  IN  MapThenSumSet(size, Conventional(m))
        - Cardinality(BitmapOf(m, pages, reserved) \cap freed)
=============================================================================

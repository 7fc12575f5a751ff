------------------------------ MODULE MCMemory ------------------------------
(* A small memory: the pages and address spaces, or the kernel heap; part    *)
(* selects which of the two a behaviour is about.                            *)
EXTENDS Heap, TLC

VARIABLE part

MemoryInit == PagingInit /\ HeapInit /\ part \in {"paging", "heap"}

MemoryNext ==
  /\ UNCHANGED part
  /\ \/ part = "paging" /\ PagingNext /\ UNCHANGED heapVars
     \/ part = "heap" /\ HeapNext /\ UNCHANGED pagingVars

MemorySpec == MemoryInit /\ [][MemoryNext]_<<pagingVars, heapVars, part>>
=============================================================================

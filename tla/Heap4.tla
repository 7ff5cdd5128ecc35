------------------------------- MODULE Heap4 --------------------------------
(***************************************************************************)
(* The allocator of FreeRTOS (sw/FreeRTOS/heap_4.c): first fit in address  *)
(* order, neighbouring free blocks merged.  Addresses and sizes are in     *)
(* units of portBYTE_ALIGNMENT from the aligned start of ucHeap; a block   *)
(* includes its header.  The free list, which is kept in address order, is *)
(* the set of its blocks.  The callers hold the scheduler suspended, so    *)
(* each list operation is one step; vPortFree clears the allocation bit    *)
(* before it suspends the scheduler, hence two steps.                      *)
(***************************************************************************)
EXTENDS Integers, FiniteSets

CONSTANTS
  HeapUnits,       \* from the aligned start to pxEnd
  HeapStructUnits  \* xHeapStructSize

ASSUME HeapAssumption ==
  HeapUnits \in Nat \ {0} /\ HeapStructUnits \in Nat \ {0}

VARIABLES
  free,            \* the blocks of the free list
  used,            \* the blocks that are marked allocated
  leaving,         \* marked free again, not in the list yet
  xFreeBytesRemaining, xMinimumEverFreeBytesRemaining

heapVars == <<free, used, leaving, xFreeBytesRemaining,
              xMinimumEverFreeBytesRemaining>>

BlockLink_t == [at : Nat, size : Nat]
EndOf(b) == b.at + b.size
heapMINIMUM_BLOCK_SIZE == 2 * HeapStructUnits

prvHeapInit ==
  /\ free = {[at |-> 0, size |-> HeapUnits]} /\ used = {} /\ leaving = {}
  /\ xFreeBytesRemaining = HeapUnits /\ xMinimumEverFreeBytesRemaining = HeapUnits

(* A plausible mistake: only the block in front is merged.                  *)
MergesBackwardsOnly(f, b) ==
  LET before == {x \in f : EndOf(x) = b.at}
      at == IF before = {} THEN b.at ELSE (CHOOSE x \in before : TRUE).at
  IN (f \ before) \cup {[at |-> at, size |-> EndOf(b) - at]}

(* The block joins the free block that ends where it starts and the one     *)
(* that starts where it ends.                                               *)
prvInsertBlockIntoFreeList(f, b) ==
  LET before == {x \in f : EndOf(x) = b.at}
      after == {x \in f : x.at = EndOf(b)}
      at == IF before = {} THEN b.at ELSE (CHOOSE x \in before : TRUE).at
      end == IF after = {} THEN EndOf(b) ELSE EndOf(CHOOSE x \in after : TRUE)
  IN (f \ (before \cup after)) \cup {[at |-> at, size |-> end - at]}

(* A request of so many bytes, with the header and the padding the code     *)
(* adds: a whole unit when the size is aligned already.                     *)
WantedUnits(bytes, align) == HeapStructUnits + bytes \div align + 1

(* The first free block in address order that holds wanted units.           *)
FirstFit(b, wanted) ==
  /\ b \in free /\ b.size >= wanted
  /\ \A x \in free : x.size >= wanted => b.at <= x.at
Fits(wanted) ==
  /\ wanted > 0 /\ wanted <= xFreeBytesRemaining
  /\ \E b \in free : b.size >= wanted

(* pvPortMalloc under suspended scheduler: takes[b] says what b leaves.     *)
Allocate(b, wanted) ==
  LET split == b.size - wanted > heapMINIMUM_BLOCK_SIZE
      taken == IF split THEN [at |-> b.at, size |-> wanted] ELSE b
      rest == [at |-> b.at + wanted, size |-> b.size - wanted]
      left == xFreeBytesRemaining - taken.size
  IN /\ FirstFit(b, wanted)
     /\ free' = IF split THEN prvInsertBlockIntoFreeList(free \ {b}, rest)
                         ELSE free \ {b}
     /\ used' = used \cup {taken}
     /\ xFreeBytesRemaining' = left
     /\ xMinimumEverFreeBytesRemaining' =
          IF left < xMinimumEverFreeBytesRemaining
          THEN left ELSE xMinimumEverFreeBytesRemaining
     /\ UNCHANGED leaving

(* vPortFree: the bit, then the list. *)
heapFREE_BLOCK(b) ==
  /\ b \in used
  /\ used' = used \ {b} /\ leaving' = leaving \cup {b}
  /\ UNCHANGED <<free, xFreeBytesRemaining, xMinimumEverFreeBytesRemaining>>
Release(b) ==
  /\ b \in leaving
  /\ leaving' = leaving \ {b}
  /\ free' = prvInsertBlockIntoFreeList(free, b)
  /\ xFreeBytesRemaining' = xFreeBytesRemaining + b.size
  /\ UNCHANGED <<used, xMinimumEverFreeBytesRemaining>>

HeapNext ==
  \/ \E wanted \in Nat \ {0}, b \in free :
       wanted <= xFreeBytesRemaining /\ Allocate(b, wanted)
  \/ \E b \in used : heapFREE_BLOCK(b)
  \/ \E b \in leaving : Release(b)
HeapSpec == prvHeapInit /\ [][HeapNext]_heapVars
-----------------------------------------------------------------------------
Blocks == free \cup used \cup leaving

(* The free list, the allocated blocks and those on their way back are      *)
(* blocks of the heap, and a block is only one of these (heap_4.c).         *)
HeapTypeOK ==
  /\ \A b \in Blocks : b \in BlockLink_t /\ b.size > 0 /\ EndOf(b) <= HeapUnits
  /\ free \cap (used \cup leaving) = {} /\ used \cap leaving = {}
(* No two blocks share memory: what pvPortMalloc hands out is not handed    *)
(* out again, nor written by the free list, until it is given back.         *)
Disjoint ==
  \A a, b \in Blocks : a # b => EndOf(a) <= b.at \/ EndOf(b) <= a.at
(* No memory is lost: every unit belongs to a block.                        *)
Covered ==
  \A u \in 0..HeapUnits - 1 : \E b \in Blocks : b.at <= u /\ u < EndOf(b)
(* Free neighbours are merged, whatever the order of allocations and frees. *)
Coalesced == \A a, b \in free : EndOf(a) # b.at

(* The allocator is sound, whatever the order of allocations and frees      *)
(* (pvPortMalloc, vPortFree, prvInsertBlockIntoFreeList).                   *)
HeapInv == HeapTypeOK /\ Disjoint /\ Covered /\ Coalesced

(* When everything has been given back the heap is one block again          *)
(* (prvInsertBlockIntoFreeList): no sequence of calls fragments it for good. *)
WholeAgain ==
  used = {} /\ leaving = {} => free = {[at |-> 0, size |-> HeapUnits]}
=============================================================================

------------------------------ MODULE Allocation ------------------------------
(***************************************************************************)
(* The allocation interface of 001-core (TenEngine-001-core/src/alloc.cpp):*)
(* Alloc, Free and Realloc over the heap of the C library, with the set    *)
(* g_freed that makes a second Free of the same pointer do nothing.        *)
(*                                                                         *)
(* A pointer is an address and the block that was there when it was handed *)
(* out.  Any thread may free any pointer, and free it again, as            *)
(* BinarySerializer does with the buffer of its writer, while the library  *)
(* gives the same address out for another block.  Free looks into g_freed  *)
(* and adds to it under the mutex and calls the library after it.          *)
(*                                                                         *)
(* An address never leaves g_freed, so it goes back to the library once,   *)
(* however often it is allocated: from the second time on it leaks.        *)
(* Realloc does not copy what the old block held, which has no part here.  *)
(***************************************************************************)
EXTENDS Naturals

CONSTANTS HeapUser,     \* threads that allocate and free
          Address,      \* what the library hands out
          NoPointer,
          MaxBlocks     \* bound: blocks ever allocated

\* A pointer is a pair; NoPointer is none.
ASSUME PointerAssumption == NoPointer \notin Address \X Nat

VARIABLES block,        \* of each address: the block that is there, 0 if it is free
          blocks,       \* blocks allocated so far
          g_freed,      \* addresses that were freed once
          pointers,     \* <<address, block>>: every pointer handed out
          freeing,      \* the pointer each thread is about to give to the library
          reallocating  \* the old pointer of a Realloc, until it is freed

heapVars == <<block, blocks, g_freed, pointers, freeing, reallocating>>

HeapInit ==
    /\ block = [a \in Address |-> 0] /\ blocks = 0
    /\ g_freed = {} /\ pointers = {}
    /\ freeing = [t \in HeapUser |-> NoPointer]
    /\ reallocating = [t \in HeapUser |-> NoPointer]

\* Slip: an address that is handed out again is taken out of g_freed.
AlignedAllocForgets(a) ==
    /\ block[a] = 0 /\ blocks < MaxBlocks
    /\ blocks' = blocks + 1
    /\ block' = [block EXCEPT ![a] = blocks + 1]
    /\ pointers' = pointers \cup {<<a, blocks + 1>>}
    /\ g_freed' = g_freed \ {a}

\* The library hands out any address that is not taken; it may have none.
AlignedAllocImpl(a) ==
    /\ block[a] = 0 /\ blocks < MaxBlocks
    /\ blocks' = blocks + 1
    /\ block' = [block EXCEPT ![a] = blocks + 1]
    /\ pointers' = pointers \cup {<<a, blocks + 1>>}
    /\ UNCHANGED g_freed

\* A pointer whose address was freed before is ignored.
AlignedFreeImpl(t, p) ==
    \/ /\ p[1] \notin g_freed
       /\ g_freed' = g_freed \cup {p[1]}
       /\ freeing' = [freeing EXCEPT ![t] = p]
    \/ /\ p[1] \in g_freed
       /\ UNCHANGED <<g_freed, freeing>>

LibraryFree(t) ==
    /\ freeing[t] # NoPointer
    /\ block' = [block EXCEPT ![freeing[t][1]] = 0]
    /\ freeing' = [freeing EXCEPT ![t] = NoPointer]
    /\ UNCHANGED <<blocks, g_freed, pointers, reallocating>>

Outside(t) == freeing[t] = NoPointer /\ reallocating[t] = NoPointer

Alloc(t) ==
    /\ Outside(t)
    /\ \E a \in Address : AlignedAllocImpl(a)
    /\ UNCHANGED <<freeing, reallocating>>

Free(t, p) ==
    /\ Outside(t)
    /\ AlignedFreeImpl(t, p)
    /\ UNCHANGED <<block, blocks, pointers, reallocating>>

\* A new block first, whether or not the old pointer still has one.
Realloc(t, p) ==
    /\ Outside(t)
    /\ \E a \in Address : AlignedAllocImpl(a)
    /\ reallocating' = [reallocating EXCEPT ![t] = p]
    /\ UNCHANGED freeing

ReallocFrees(t) ==
    LET p == reallocating[t] IN
    /\ p # NoPointer
    /\ reallocating' = [reallocating EXCEPT ![t] = NoPointer]
    /\ AlignedFreeImpl(t, p)
    /\ UNCHANGED <<block, blocks, pointers>>

HeapNext ==
    \E t \in HeapUser :
        \/ Alloc(t) \/ LibraryFree(t) \/ ReallocFrees(t)
        \/ \E p \in pointers : Free(t, p) \/ Realloc(t, p)

HeapSpec == HeapInit /\ [][HeapNext]_heapVars

(***************************************************************************)
(* "no-op for nullptr or double-free" (alloc.h): the library is given a    *)
(* pointer only while the block it was made for is at its address, and by  *)
(* one thread, however late and often stale pointers are freed.            *)
(***************************************************************************)
FreesItsOwnBlock ==
    \A t \in HeapUser : freeing[t] # NoPointer =>
        /\ block[freeing[t][1]] = freeing[t][2]
        /\ \A u \in HeapUser \ {t} : freeing[u] # freeing[t]
=============================================================================

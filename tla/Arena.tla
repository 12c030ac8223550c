-------------------------------- MODULE Arena --------------------------------
(***************************************************************************)
(* The bump allocator of src/src/arena.c, over an address space of a few   *)
(* bytes, so that sizes near SIZE_MAX and the sums that would wrap occur.  *)
(* calloc and free are external: calloc takes any free place of enough     *)
(* bytes, aligned as malloc aligns, or fails.                              *)
(*                                                                         *)
(* `given` remembers what the callers were promised: the address, the      *)
(* bytes they asked for and the alignment.  It constrains nothing.         *)
(***************************************************************************)
EXTENDS Naturals, FiniteSets

CONSTANTS
    Null,               \* the null pointer
    SizeMax,            \* SIZE_MAX, and the last address
    Header,             \* sizeof(Block)
    BlockMin,           \* BLOCK_MIN
    MallocAlign,        \* what calloc aligns to
    MaxAlign,           \* MAX_ALIGN, the alignment of arrays
    Requests,           \* the pairs << n, align >> asked of arena_alloc
    ArrayRequests       \* the pairs << count, size >> asked of arena_array

ASSUME SizeAssumption ==
    /\ SizeMax \in Nat /\ Header \in Nat \ {0} /\ BlockMin \in Nat \ {0}
    /\ Header + BlockMin <= SizeMax
    /\ Null \notin 0 .. SizeMax

ASSUME RequestAssumption ==
    /\ MallocAlign \in 1 .. SizeMax /\ MaxAlign \in 1 .. SizeMax
    /\ Requests \subseteq (0 .. SizeMax) \X (1 .. SizeMax)
    /\ ArrayRequests \subseteq (0 .. SizeMax) \X (0 .. SizeMax)

VARIABLES
    phase,              \* "none", "live", "destroying" or "destroyed"
    heap,               \* the blocks calloc gave: address -> [next, used, cap]
    head,               \* the arena's block list, and the cursor of its end
    given               \* the allocations that were returned

vars == << phase, heap, head, given >>

-----------------------------------------------------------------------------
(* size_t arithmetic. *)
Wrap(n) == n % (SizeMax + 1)

Addresses == 1 .. SizeMax

Blocks == [next : Addresses \cup {Null}, used : 1 .. SizeMax, cap : BlockMin .. SizeMax]

Bytes(p, n) == p .. (p + n - 1)

Data(b) == b + Header

(* calloc *)
Taken == UNION {Bytes(b, Header + heap[b].cap) : b \in DOMAIN heap}

Places(bytes) ==
    {p \in Addresses : /\ p % MallocAlign = 0
                       /\ p + bytes - 1 <= SizeMax
                       /\ Bytes(p, bytes) \cap Taken = {}}

-----------------------------------------------------------------------------
(* The bytes to skip to the next multiple of align: `& (align - 1)` of a   *)
(* power of two is the remainder.                                          *)
\* Fault: the offset in the block is aligned, not the address.
PadOfOffset(b, used, align) == (align - (used % align)) % align

Pad(b, used, align) == (align - ((Data(b) + used) % align)) % align

AtLeastOne(n) == IF n = 0 THEN 1 ELSE n

Free(b) == heap[b].cap - heap[b].used

\* Fault: the room is compared before the bytes skipped are taken off.
HeadFitsUnpadded(n, align) == head # Null /\ n <= Free(head)

HeadFits(n, align) ==
    /\ head # Null
    /\ LET pad == Pad(head, heap[head].used, align)
       IN  pad <= Free(head) /\ n <= Free(head) - pad

\* Fault: the bytes skipped are given out again.
UsedUnpadded(used, pad, n) == used + n

UsedAfter(used, pad, n) == used + pad + n

(* A fresh block: room for the bytes and for what aligning them may skip.  *)
(* Nothing is asked of calloc when that or the header does not fit.        *)
\* Fault: the sum of the size and the alignment wraps.
FreshNeedWrapped(n, align) == {Wrap(n + align)}

FreshNeed(n, align) == {need \in {n + align} : need <= SizeMax}

Capacity(need) == IF need > BlockMin THEN need ELSE BlockMin

Fresh(n, align) ==
    {cap \in {Capacity(need) : need \in FreshNeed(n, align)} : cap <= SizeMax - Header}

-----------------------------------------------------------------------------
Init ==
    /\ phase = "none"
    /\ heap = [b \in {} |-> Null]
    /\ head = Null
    /\ given = {}

(* arena_new *)
New ==
    /\ phase = "none"
    /\ phase' = "live"
    /\ UNCHANGED << heap, head, given >>

(* `asked` is the number of bytes the caller wants: count * size for an    *)
(* array.                                                                  *)
Promise(p, asked, align) ==
    given' = given \cup {[at |-> p, bytes |-> AtLeastOne(asked), align |-> align]}

(* arena_alloc: from the first block, *)
Bump(n, align, asked) ==
    /\ HeadFits(n, align)
    /\ LET used == heap[head].used
           pad  == Pad(head, used, align)
       IN  /\ heap' = [heap EXCEPT ![head].used = UsedAfter(used, pad, n)]
           /\ Promise(Data(head) + used + pad, asked, align)
    /\ UNCHANGED << phase, head >>

\* Fault: the blocks before the fresh one are forgotten.
LinkedAlone == Null

Linked == head

(* from a fresh one, wherever calloc puts it, *)
Grow(n, align, asked) ==
    /\ ~HeadFits(n, align)
    /\ \E cap \in Fresh(n, align) : \E b \in Places(Header + cap) :
           LET pad == Pad(b, 0, align)
           IN  /\ heap' = [a \in DOMAIN heap \cup {b} |->
                             IF a = b
                             THEN [next |-> Linked, used |-> UsedAfter(0, pad, n), cap |-> cap]
                             ELSE heap[a]]
               /\ head' = b
               /\ Promise(Data(b) + pad, asked, align)
    /\ UNCHANGED phase

(* or not at all: calloc fails, or there is nothing to ask it for. *)
Fail(n, align) ==
    /\ ~HeadFits(n, align)
    /\ UNCHANGED vars

AllocBytes(n, align, asked) ==
    \/ Bump(AtLeastOne(n), align, asked)
    \/ Grow(AtLeastOne(n), align, asked)
    \/ Fail(AtLeastOne(n), align)

Alloc(n, align) == phase = "live" /\ AllocBytes(n, align, n)

(* arena_array *)
TooMany(count, size) == size # 0 /\ count > SizeMax \div size

Array(count, size) ==
    /\ phase = "live"
    /\ IF TooMany(count, size)
       THEN UNCHANGED vars
       ELSE AllocBytes(Wrap(count * size), MaxAlign, count * size)

(* arena_destroy, one block at a time: the next is read before the free. *)
Destroy ==
    /\ phase = "live"
    /\ phase' = "destroying"
    /\ UNCHANGED << heap, head, given >>

FreeBlock ==
    /\ phase = "destroying" /\ head # Null
    /\ head' = heap[head].next
    /\ heap' = [b \in DOMAIN heap \ {head} |-> heap[b]]
    /\ UNCHANGED << phase, given >>

FreeArena ==
    /\ phase = "destroying" /\ head = Null
    /\ phase' = "destroyed"
    /\ UNCHANGED << heap, head, given >>

Next ==
    \/ New
    \/ \E r \in Requests : Alloc(r[1], r[2])
    \/ \E r \in ArrayRequests : Array(r[1], r[2])
    \/ Destroy \/ FreeBlock \/ FreeArena

Spec == Init /\ [][Next]_vars

-----------------------------------------------------------------------------
(* No block holds more than it has: the unsigned differences of            *)
(* arena_alloc never wrap.                                                 *)
TypeOK ==
    /\ phase \in {"none", "live", "destroying", "destroyed"}
    /\ DOMAIN heap \subseteq Addresses
    /\ heap \in [DOMAIN heap -> Blocks]
    /\ \A b \in DOMAIN heap : heap[b].used <= heap[b].cap
    /\ head \in DOMAIN heap \cup {Null}
    /\ given \subseteq [at : Addresses, bytes : 1 .. SizeMax, align : 1 .. SizeMax]

(* What is returned is aligned and lies, with all the bytes the caller     *)
(* asked for, inside one block.                                            *)
AllocationsHeld ==
    phase = "live" => \A g \in given :
        /\ g.at % g.align = 0
        /\ \E b \in DOMAIN heap :
               /\ Data(b) <= g.at
               /\ g.at + g.bytes <= Data(b) + heap[b].cap

(* Nothing is given out twice: no byte belongs to two allocations, which   *)
(* is also why all memory is zeroed, and none to a block header.           *)
AllocationsDisjoint ==
    phase = "live" =>
        /\ \A g, h \in given : g # h =>
               Bytes(g.at, g.bytes) \cap Bytes(h.at, h.bytes) = {}
        /\ \A g \in given, b \in DOMAIN heap :
               Bytes(g.at, g.bytes) \cap Bytes(b, Header) = {}

(* arena_destroy frees every block there is, once. *)
EverythingFreed == phase = "destroyed" => DOMAIN heap = {}
=============================================================================

------------------------------ MODULE ArenaProofs ------------------------------
(***************************************************************************)
(* Proofs about Arena: for every width of an address, every size of a      *)
(* header and of a block, every alignment and every calloc, what           *)
(* arena_alloc returns is aligned, inside its block and nobody else's, and *)
(* arena_destroy frees every block.                                        *)
(***************************************************************************)
EXTENDS Arena, TLAPS

-----------------------------------------------------------------------------
(* The strengthening.  Blocks do not overlap and end in the address space; *)
End(b) == Data(b) + heap[b].cap

BlocksApart ==
    \A b \in DOMAIN heap :
        /\ End(b) <= SizeMax + 1
        /\ \A c \in DOMAIN heap : b # c => End(b) <= c \/ End(c) <= b

(* an allocation lies in the used part of a block, so that what is taken   *)
(* from the rest of it later lies behind;                                  *)
Within(g, b) == Data(b) <= g.at /\ g.at + g.bytes <= Data(b) + heap[b].used

Held ==
    \A g \in given : g.at % g.align = 0 /\ \E b \in DOMAIN heap : Within(g, b)

Apart(g, h) == g.at + g.bytes <= h.at \/ h.at + h.bytes <= g.at

Disjoint == \A g, h \in given : g # h => Apart(g, h)

(* and the blocks are the list that starts at head: each is one further    *)
(* from its end than the next.                                             *)
Chain(rank) ==
    /\ rank \in [DOMAIN heap -> Nat \ {0}]
    /\ \A b, c \in DOMAIN heap : b # c => rank[b] # rank[c]
    /\ \A b \in DOMAIN heap :
           \/ heap[b].next = Null /\ rank[b] = 1
           \/ heap[b].next \in DOMAIN heap /\ rank[heap[b].next] = rank[b] - 1
    /\ head = Null => DOMAIN heap = {}
    /\ head # Null => \A b \in DOMAIN heap : rank[b] <= rank[head]

Chained == \E rank : Chain(rank)

Sound == phase = "live" => BlocksApart /\ Held /\ Disjoint

IInv ==
    /\ TypeOK /\ Chained /\ Sound
    /\ phase = "none" => given = {} /\ DOMAIN heap = {}
    /\ phase = "destroyed" => head = Null

-----------------------------------------------------------------------------
(* Arithmetic. *)

(* What follows a multiple of a by less than a leaves as a remainder.      *)
LEMMA RemainderOfSum ==
    ASSUME NEW q \in Nat, NEW a \in Nat \ {0}, NEW r \in 0 .. (a - 1)
    PROVE  (q * a + r) % a = r
  BY Z3

(* Padding is less than the alignment and reaches a multiple of it.        *)
LEMMA PaddingAligns ==
    ASSUME NEW x \in Nat, NEW a \in Nat \ {0}
    PROVE  /\ (a - (x % a)) % a \in 0 .. (a - 1)
           /\ (x + ((a - (x % a)) % a)) % a = 0
<1> DEFINE r == x % a
           q == x \div a
<1>1. q \in Nat /\ r \in 0 .. (a - 1) /\ x = q * a + r
  BY Z3
<1>2. CASE r = 0
  <2>1. (a - r) % a = 0
    BY <1>2, RemainderOfSum, Z3
  <2> QED BY <1>1, <1>2, <2>1
<1>3. CASE r # 0
  <2>1. a - r \in 0 .. (a - 1)
    BY <1>1, <1>3
  <2>2. (a - r) % a = a - r
    BY <2>1, Z3
  <2>3. x + (a - r) = (q + 1) * a + 0
    BY <1>1, Z3
  <2>4. ((q + 1) * a + 0) % a = 0
    BY <1>1, RemainderOfSum
  <2> QED BY <2>1, <2>2, <2>3, <2>4
<1> QED BY <1>2, <1>3

(* A count that passes the test of arena_array does not wrap.              *)
LEMMA ProductFits ==
    ASSUME NEW count \in Nat, NEW size \in Nat, NEW most \in Nat,
           ~(size # 0 /\ count > most \div size)
    PROVE  count * size \in 0 .. most
<1>1. CASE size = 0
  BY <1>1
<1>2. CASE size # 0
  <2> DEFINE q == most \div size
  <2>1. q \in Nat /\ q * size <= most
    BY <1>2, Z3
  <2>2. count <= q
    BY <1>2, <2>1
  <2>3. count * size <= q * size
    <3> HIDE DEF q
    <3> QED BY <2>1, <2>2, Z3
  <2>4. count * size \in Nat
    BY Z3
  <2> QED BY <2>1, <2>3, <2>4
<1> QED BY <1>1, <1>2

(* Intervals without a common number lie one after the other.              *)
LEMMA IntervalsApart ==
    ASSUME NEW p \in Nat, NEW m \in Nat \ {0}, NEW q \in Nat, NEW n \in Nat \ {0},
           Bytes(p, m) \cap Bytes(q, n) = {}
    PROVE  p + m <= q \/ q + n <= p
<1> SUFFICES ASSUME ~(p + m <= q), ~(q + n <= p) PROVE FALSE
  OBVIOUS
<1>1. CASE p <= q
  <2>1. q \in Bytes(p, m) /\ q \in Bytes(q, n)
    BY <1>1 DEF Bytes
  <2> QED BY <2>1
<1>2. CASE ~(p <= q)
  <2>1. p \in Bytes(p, m) /\ p \in Bytes(q, n)
    BY <1>2 DEF Bytes
  <2> QED BY <2>1
<1> QED BY <1>1, <1>2

-----------------------------------------------------------------------------
(* Allocation. *)

(* The numbers of a block.                                                 *)
LEMMA BlockNumbers ==
    ASSUME TypeOK, NEW b \in DOMAIN heap
    PROVE  /\ b \in Nat /\ b >= 1 /\ Header \in Nat /\ Header >= 1
           /\ heap[b].cap \in Nat /\ heap[b].cap <= SizeMax /\ heap[b].cap >= 1
           /\ heap[b].used \in Nat /\ heap[b].used >= 1
           /\ heap[b].used <= heap[b].cap
           /\ heap[b] \in Blocks
  BY SizeAssumption DEF TypeOK, Addresses, Blocks

(* The pad in a block.                                                     *)
LEMMA PadNumbers ==
    ASSUME NEW b \in Nat, NEW used \in Nat, NEW align \in 1 .. SizeMax
    PROVE  /\ Pad(b, used, align) \in Nat /\ Pad(b, used, align) < align
           /\ (Data(b) + used + Pad(b, used, align)) % align = 0
<1>1. Data(b) + used \in Nat /\ align \in Nat \ {0}
  BY SizeAssumption DEF Data
<1> HIDE DEF Data
<1> QED BY <1>1, PaddingAligns DEF Pad

(* One more promise, apart from the earlier ones, keeps them all.          *)
LEMMA PromiseKept ==
    ASSUME TypeOK, Disjoint,
           NEW p \in Addresses, NEW n \in 1 .. SizeMax, NEW align \in 1 .. SizeMax,
           given' = given \cup {[at |-> p, bytes |-> n, align |-> align]},
           p % align = 0,
           \E b \in DOMAIN heap' : Data(b) <= p /\ p + n <= Data(b) + heap'[b].used,
           \A g \in given : /\ g.at % g.align = 0
                            /\ \E b \in DOMAIN heap' : Within(g, b)'
                            /\ g.at + g.bytes <= p \/ p + n <= g.at
    PROVE  /\ given' \subseteq [at : Addresses, bytes : 1 .. SizeMax, align : 1 .. SizeMax]
           /\ Held' /\ Disjoint'
<1> DEFINE new == [at |-> p, bytes |-> n, align |-> align]
<1>1. given' \subseteq [at : Addresses, bytes : 1 .. SizeMax, align : 1 .. SizeMax]
  BY DEF TypeOK
<1>2. Held'
  BY DEF Held, Within
<1>3. Disjoint'
  BY DEF Disjoint, Apart
<1> QED BY <1>1, <1>2, <1>3

(* From the first block.                                                   *)
LEMMA BumpStep ==
    ASSUME IInv, phase = "live",
           NEW n \in 1 .. SizeMax, NEW align \in 1 .. SizeMax, NEW asked \in Nat,
           AtLeastOne(asked) = n, Bump(n, align, asked)
    PROVE  IInv'
<1> DEFINE used == heap[head].used
           cap  == heap[head].cap
           pad  == Pad(head, used, align)
           p    == Data(head) + used + pad
<1>1. /\ head \in DOMAIN heap /\ pad <= cap - used /\ n <= cap - used - pad
      /\ heap' = [heap EXCEPT ![head].used = used + pad + n]
      /\ given' = given \cup {[at |-> p, bytes |-> n, align |-> align]}
      /\ phase' = phase /\ head' = head
  BY DEF IInv, TypeOK, Bump, HeadFits, Free, UsedAfter, Promise
<1>2. /\ used \in Nat /\ cap \in Nat /\ used >= 1 /\ cap <= SizeMax
      /\ head \in Nat /\ head >= 1 /\ Header \in Nat /\ Header >= 1
      /\ heap[head] \in Blocks
  BY <1>1, BlockNumbers DEF IInv
<1>3. pad \in Nat /\ p % align = 0
  BY <1>2, PadNumbers
<1>4. /\ DOMAIN heap' = DOMAIN heap
      /\ heap'[head] = [heap[head] EXCEPT !.used = used + pad + n]
      /\ \A b \in DOMAIN heap : b # head => heap'[b] = heap[b]
      /\ heap' = [b \in DOMAIN heap |-> heap'[b]]
  BY <1>1 DEF IInv, TypeOK
<1>5. /\ \A b \in DOMAIN heap : heap'[b].cap = heap[b].cap /\ heap'[b].next = heap[b].next
      /\ heap'[head].used = used + pad + n
      /\ heap'[head] \in Blocks
  BY <1>1, <1>2, <1>3, <1>4, SizeAssumption DEF Blocks
<1>6. \A b \in DOMAIN heap : heap[b].used <= heap'[b].used /\ heap'[b].used <= heap'[b].cap
  BY <1>1, <1>2, <1>3, <1>4, <1>5, BlockNumbers DEF IInv
<1>7. BlocksApart /\ Held /\ Disjoint
  BY DEF IInv, Sound
<1>8. /\ p \in Nat /\ Data(head) <= p /\ head < p /\ End(head) \in Nat
      /\ p + n <= End(head) /\ End(head) <= SizeMax + 1
  BY <1>1, <1>2, <1>3, <1>7 DEF End, Data, BlocksApart
<1> HIDE DEF used, cap, pad, p
<1>9. p \in Addresses
  BY <1>2, <1>8, SizeAssumption DEF Addresses
<1>10. ASSUME NEW g \in given
       PROVE  /\ g.at % g.align = 0
              /\ \E b \in DOMAIN heap' : Within(g, b)'
              /\ g.at + g.bytes <= p \/ p + n <= g.at
  <2>1. PICK b \in DOMAIN heap : Within(g, b)
    BY <1>7 DEF Held
  <2>2. g.at \in Nat /\ g.bytes \in Nat
    BY SizeAssumption DEF IInv, TypeOK, Addresses
  <2>3. b \in Nat /\ heap[b].used \in Nat /\ heap[b].cap \in Nat /\ heap'[b].used \in Nat
    <3>1. CASE b = head
      BY <3>1, <1>2, <1>3, <1>5 DEF used, cap
    <3>2. CASE b # head
      BY <2>1, <3>2, <1>4, BlockNumbers DEF IInv
    <3> QED BY <3>1, <3>2
  <2>4. Within(g, b)'
    BY <2>1, <2>2, <2>3, <1>2, <1>6 DEF Within, Data
  <2>5. g.at + g.bytes <= p \/ p + n <= g.at
    <3>1. CASE b = head
      BY <3>1, <2>1, <2>2, <1>2, <1>3 DEF Within, Data, p, used
    <3>2. CASE b # head
      <4>1. End(b) <= head \/ End(head) <= b
        BY <3>2, <1>1, <1>7 DEF BlocksApart
      <4>2. g.at + g.bytes <= End(b) /\ b <= g.at /\ End(b) \in Nat
        BY <2>1, <2>2, <2>3, <1>2, BlockNumbers DEF IInv, Within, End, Data
      <4> QED BY <4>1, <4>2, <2>2, <2>3, <1>2, <1>8
    <3> QED BY <3>1, <3>2
  <2> QED BY <2>1, <2>4, <2>5, <1>4, <1>7 DEF Held
<1>11. /\ given' \subseteq [at : Addresses, bytes : 1 .. SizeMax, align : 1 .. SizeMax]
       /\ Held' /\ Disjoint'
  <2>1. Data(head) <= p /\ p + n <= Data(head) + heap'[head].used
    BY <1>2, <1>3, <1>5, <1>8 DEF Data, p
  <2>2. \E b \in DOMAIN heap' : Data(b) <= p /\ p + n <= Data(b) + heap'[b].used
    BY <2>1, <1>1, <1>4
  <2>3. TypeOK
    BY DEF IInv
  <2> QED BY <2>2, <2>3, <1>1, <1>3, <1>7, <1>9, <1>10, PromiseKept
<1>12. TypeOK'
  BY <1>1, <1>4, <1>5, <1>6, <1>11 DEF IInv, TypeOK
<1>13. BlocksApart'
  BY <1>4, <1>5, <1>7 DEF BlocksApart, End, Data
<1>14. Chained'
  <2>1. PICK rank : Chain(rank)
    BY DEF IInv, Chained
  <2>2. Chain(rank)'
    BY <2>1, <1>1, <1>4, <1>5 DEF Chain
  <2> QED BY <2>2 DEF Chained
<1> QED BY <1>1, <1>11, <1>12, <1>13, <1>14 DEF IInv, Sound

(* A free place overlaps no block, and is none.                            *)
LEMMA PlaceIsFree ==
    ASSUME TypeOK, NEW bytes \in Nat \ {0}, NEW p \in Places(bytes)
    PROVE  /\ p \in Addresses /\ p + bytes <= SizeMax + 1 /\ p \notin DOMAIN heap
           /\ \A c \in DOMAIN heap : p + bytes <= c \/ End(c) <= p
<1>1. p \in Addresses /\ p + bytes <= SizeMax + 1 /\ p \in Nat
  BY SizeAssumption DEF Places, Addresses
<1>2. ASSUME NEW c \in DOMAIN heap PROVE p + bytes <= c \/ End(c) <= p
  <2>1. Bytes(p, bytes) \cap Bytes(c, Header + heap[c].cap) = {}
    BY DEF Places, Taken
  <2>2. c \in Nat /\ Header + heap[c].cap \in Nat \ {0}
    BY BlockNumbers
  <2>3. p + bytes <= c \/ c + (Header + heap[c].cap) <= p
    BY <1>1, <2>1, <2>2, IntervalsApart
  <2> QED BY <2>3, BlockNumbers DEF End, Data
<1>3. p \notin DOMAIN heap
  BY <1>1, <1>2, BlockNumbers DEF End, Data
<1> QED BY <1>1, <1>2, <1>3

(* From a fresh block.                                                     *)
LEMMA GrowStep ==
    ASSUME IInv, phase = "live",
           NEW n \in 1 .. SizeMax, NEW align \in 1 .. SizeMax, NEW asked \in Nat,
           AtLeastOne(asked) = n, Grow(n, align, asked)
    PROVE  IInv'
<1>1. PICK cap \in Fresh(n, align) : \E b \in Places(Header + cap) :
          LET pad == Pad(b, 0, align)
          IN  /\ heap' = [a \in DOMAIN heap \cup {b} |->
                            IF a = b
                            THEN [next |-> Linked, used |-> UsedAfter(0, pad, n), cap |-> cap]
                            ELSE heap[a]]
              /\ head' = b
              /\ Promise(Data(b) + pad, asked, align)
  BY DEF Grow
<1>2. PICK b \in Places(Header + cap) :
          LET pad == Pad(b, 0, align)
          IN  /\ heap' = [a \in DOMAIN heap \cup {b} |->
                            IF a = b
                            THEN [next |-> Linked, used |-> UsedAfter(0, pad, n), cap |-> cap]
                            ELSE heap[a]]
              /\ head' = b
              /\ Promise(Data(b) + pad, asked, align)
  BY <1>1
<1> DEFINE pad == Pad(b, 0, align)
           p   == Data(b) + pad
<1>3. /\ cap \in Nat /\ cap >= n + align /\ cap >= BlockMin /\ cap <= SizeMax
      /\ Header \in Nat /\ Header >= 1
  BY SizeAssumption DEF Fresh, FreshNeed, Capacity
<1>4. /\ b \in Addresses /\ b + (Header + cap) <= SizeMax + 1 /\ b \notin DOMAIN heap
      /\ \A c \in DOMAIN heap : b + (Header + cap) <= c \/ End(c) <= b
  BY <1>3, PlaceIsFree DEF IInv
<1>5. b \in Nat /\ b >= 1
  BY <1>4, SizeAssumption DEF Addresses
<1>6. pad \in Nat /\ pad < align /\ (Data(b) + 0 + pad) % align = 0
  BY <1>5, PadNumbers
<1>7. p \in Nat /\ p = Data(b) + 0 + pad /\ p % align = 0
  BY <1>3, <1>5, <1>6 DEF Data
<1>8. /\ DOMAIN heap' = DOMAIN heap \cup {b} /\ head' = b /\ phase' = phase
      /\ heap'[b] = [next |-> head, used |-> pad + n, cap |-> cap]
      /\ \A c \in DOMAIN heap : heap'[c] = heap[c]
      /\ heap' = [c \in DOMAIN heap' |-> heap'[c]]
      /\ given' = given \cup {[at |-> p, bytes |-> n, align |-> align]}
  <2>1. UsedAfter(0, pad, n) = pad + n
    BY <1>6 DEF UsedAfter
  <2> HIDE DEF pad
  <2> QED BY <2>1, <1>2, <1>4 DEF Linked, Promise, Grow, pad
<1>9. /\ pad + n <= cap /\ pad + n \in 1 .. SizeMax
      /\ p + n = Data(b) + (pad + n) /\ Data(b) <= p /\ b < p
      /\ p + n <= b + (Header + cap)
  <2>1. align \in Nat /\ n \in Nat /\ n >= 1 /\ SizeMax \in Nat
    BY SizeAssumption
  <2>2. p = b + Header + pad /\ Data(b) = b + Header
    BY DEF Data
  <2> HIDE DEF pad, p
  <2> QED BY <2>1, <2>2, <1>3, <1>5, <1>6
<1> HIDE DEF pad, p
<1>10. p \in Addresses
  BY <1>4, <1>3, <1>5, <1>7, <1>9, SizeAssumption DEF Addresses
<1>11. BlocksApart /\ Held /\ Disjoint /\ TypeOK
  BY DEF IInv, Sound
<1>12. heap'[b] \in Blocks
  <2>1. head \in Addresses \cup {Null}
    BY <1>11 DEF TypeOK
  <2> QED BY <2>1, <1>8, <1>9, <1>3 DEF Blocks
<1>13. ASSUME NEW g \in given
       PROVE  /\ g.at % g.align = 0
              /\ \E c \in DOMAIN heap' : Within(g, c)'
              /\ g.at + g.bytes <= p \/ p + n <= g.at
  <2>1. PICK c \in DOMAIN heap : Within(g, c)
    BY <1>11 DEF Held
  <2>2. g.at \in Nat /\ g.bytes \in Nat
    BY <1>11, SizeAssumption DEF TypeOK, Addresses
  <2>3. /\ c \in Nat /\ heap[c].used \in Nat /\ heap[c].cap \in Nat
        /\ heap[c].used <= heap[c].cap
    BY <1>11, BlockNumbers
  <2>4. Within(g, c)' /\ c \in DOMAIN heap'
    BY <2>1, <1>8 DEF Within, Data
  <2>5. g.at + g.bytes <= End(c) /\ c <= g.at /\ End(c) \in Nat
    BY <2>1, <2>2, <2>3, <1>3 DEF Within, End, Data
  <2>6. b + (Header + cap) <= c \/ End(c) <= b
    BY <1>4
  <2>7. g.at + g.bytes <= p \/ p + n <= g.at
    BY <2>2, <2>3, <2>5, <2>6, <1>3, <1>5, <1>7, <1>9
  <2> QED BY <2>4, <2>7, <1>11 DEF Held
<1>14. /\ given' \subseteq [at : Addresses, bytes : 1 .. SizeMax, align : 1 .. SizeMax]
       /\ Held' /\ Disjoint'
  <2>1. b \in DOMAIN heap' /\ heap'[b].used = pad + n
    BY <1>8
  <2>2. Data(b) \in Nat /\ p + n <= Data(b) + heap'[b].used
    BY <2>1, <1>3, <1>5, <1>7, <1>9 DEF Data
  <2>3. \E c \in DOMAIN heap' : Data(c) <= p /\ p + n <= Data(c) + heap'[c].used
    BY <2>1, <2>2, <1>9
  <2> QED BY <2>3, <1>7, <1>8, <1>10, <1>11, <1>13, PromiseKept
<1>15. TypeOK'
  <2>1. \A c \in DOMAIN heap' : heap'[c] \in Blocks /\ heap'[c].used <= heap'[c].cap
    BY <1>8, <1>9, <1>11, <1>12 DEF TypeOK
  <2> QED BY <2>1, <1>4, <1>8, <1>11, <1>14 DEF TypeOK
<1>16. BlocksApart'
  <2>1. \A c \in DOMAIN heap : End(c)' = End(c) /\ End(c) \in Nat /\ c \in Nat
    BY <1>8, <1>11, BlockNumbers DEF End, Data
  <2>2. End(b)' = b + (Header + cap)
    BY <1>3, <1>5, <1>8 DEF End, Data
  <2>3. ASSUME NEW c \in DOMAIN heap', NEW d \in DOMAIN heap', c # d
        PROVE  End(c)' <= d \/ End(d)' <= c
    BY <2>1, <2>2, <2>3, <1>4, <1>8, <1>11 DEF BlocksApart
  <2>4. ASSUME NEW c \in DOMAIN heap' PROVE End(c)' <= SizeMax + 1
    BY <2>1, <2>2, <1>4, <1>8, <1>11 DEF BlocksApart
  <2> QED BY <2>3, <2>4 DEF BlocksApart
<1>17. Chained'
  <2>1. PICK rank : Chain(rank)
    BY DEF IInv, Chained
  <2> DEFINE longer == [c \in DOMAIN heap \cup {b} |->
                           IF c = b THEN (IF head = Null THEN 1 ELSE rank[head] + 1)
                           ELSE rank[c]]
  <2>2. /\ b # Null
        /\ head # Null => head \in DOMAIN heap /\ rank[head] \in Nat \ {0}
    BY <2>1, <1>4, <1>11, SizeAssumption DEF TypeOK, Addresses, Chain
  <2>3. /\ longer \in [DOMAIN heap' -> Nat \ {0}]
        /\ \A c, d \in DOMAIN heap' : c # d => longer[c] # longer[d]
    BY <2>1, <2>2, <1>4, <1>8 DEF Chain
  <2>4. ASSUME NEW c \in DOMAIN heap'
        PROVE  \/ heap'[c].next = Null /\ longer[c] = 1
               \/ heap'[c].next \in DOMAIN heap' /\ longer[heap'[c].next] = longer[c] - 1
    <3>1. CASE c = b
      BY <3>1, <2>2, <1>4, <1>8
    <3>2. CASE c # b
      BY <3>2, <2>1, <1>4, <1>8 DEF Chain
    <3> QED BY <3>1, <3>2
  <2>5. \A c \in DOMAIN heap' : longer[c] <= longer[head']
    BY <2>1, <2>2, <1>4, <1>8 DEF Chain
  <2>6. PICK rankAfter : rankAfter = longer
    OBVIOUS
  <2>7. Chain(rankAfter)'
    <3> HIDE DEF longer
    <3> QED BY <2>2, <2>3, <2>4, <2>5, <2>6, <1>8 DEF Chain
  <2> QED BY <2>7 DEF Chained
<1> QED BY <1>8, <1>11, <1>14, <1>15, <1>16, <1>17 DEF IInv, Sound

(* arena_alloc, whichever way it goes.                                     *)
LEMMA AllocStep ==
    ASSUME IInv, phase = "live", NEW n \in 0 .. SizeMax, NEW align \in 1 .. SizeMax,
           AllocBytes(n, align, n)
    PROVE  IInv'
<1>1. AtLeastOne(n) \in 1 .. SizeMax /\ n \in Nat
  BY SizeAssumption DEF AtLeastOne
<1>2. CASE Bump(AtLeastOne(n), align, n)
  BY <1>1, <1>2, BumpStep
<1>3. CASE Grow(AtLeastOne(n), align, n)
  BY <1>1, <1>3, GrowStep
<1>4. CASE Fail(AtLeastOne(n), align)
  BY <1>4 DEF Fail, vars, IInv, TypeOK, Chained, Chain, Sound, BlocksApart, Held, Disjoint,
              Within, End, Data
<1> QED BY <1>2, <1>3, <1>4 DEF AllocBytes

-----------------------------------------------------------------------------
(* arena_destroy frees the head of the list, and the next is not freed.    *)
LEMMA FreeBlockStep ==
    ASSUME IInv, FreeBlock PROVE IInv'
<1>1. PICK rank : Chain(rank)
  BY DEF IInv, Chained
<1>2. /\ head \in DOMAIN heap /\ phase = "destroying" /\ phase' = phase
      /\ head' = heap[head].next /\ given' = given
      /\ heap' = [b \in DOMAIN heap \ {head} |-> heap[b]]
      /\ head # Null
  BY DEF IInv, TypeOK, FreeBlock
<1>3. /\ DOMAIN heap' = DOMAIN heap \ {head}
      /\ \A b \in DOMAIN heap' : heap'[b] = heap[b]
      /\ heap' = [b \in DOMAIN heap' |-> heap'[b]]
  BY <1>2
<1> PICK shorter : shorter = [b \in DOMAIN heap' |-> rank[b]]
  OBVIOUS
<1>4. /\ \A b \in DOMAIN heap : rank[b] \in Nat \ {0} /\ rank[b] <= rank[head]
      /\ \A b \in DOMAIN heap' : rank[b] < rank[head]
  BY <1>1, <1>2, <1>3 DEF Chain
<1>5. ASSUME NEW b \in DOMAIN heap'
      PROVE  \/ heap[b].next = Null /\ rank[b] = 1
             \/ heap[b].next \in DOMAIN heap' /\ rank[heap[b].next] = rank[b] - 1
  BY <1>1, <1>3, <1>4 DEF Chain
<1>6. CASE heap[head].next = Null /\ rank[head] = 1
  <2>1. DOMAIN heap' = {}
    BY <1>3, <1>4, <1>6
  <2>2. Chain(shorter)'
    BY <2>1, <1>2, <1>6 DEF Chain
  <2>3. TypeOK'
    BY <2>1, <1>2, <1>3, <1>6 DEF IInv, TypeOK
  <2> QED BY <2>2, <2>3, <1>2 DEF IInv, Chained, Sound
<1>7. CASE heap[head].next \in DOMAIN heap /\ rank[heap[head].next] = rank[head] - 1
  <2>1. head' \in DOMAIN heap' /\ rank[head'] = rank[head] - 1
    BY <1>2, <1>3, <1>4, <1>7
  <2>2. head' # Null
    BY <2>1, <1>3, SizeAssumption DEF IInv, TypeOK, Addresses
  <2>3. \A b \in DOMAIN heap' : rank[b] <= rank[head']
    <3> DEFINE most == rank[head]
    <3>1. ASSUME NEW b \in DOMAIN heap' PROVE rank[b] <= most - 1
      <4>1. rank[b] \in Nat /\ most \in Nat /\ rank[b] < most
        BY <1>2, <1>3, <1>4
      <4> HIDE DEF most
      <4> QED BY <4>1
    <3> QED BY <3>1, <2>1
  <2>4. Chain(shorter)'
    BY <2>1, <2>2, <2>3, <1>1, <1>3, <1>4, <1>5 DEF Chain
  <2>5. TypeOK'
    BY <2>1, <1>2, <1>3 DEF IInv, TypeOK
  <2> QED BY <2>4, <2>5, <1>2 DEF IInv, Chained, Sound
<1> QED BY <1>1, <1>2, <1>6, <1>7 DEF Chain

-----------------------------------------------------------------------------
(* What fits does not wrap.                                                *)
LEMMA WrapFits ==
    ASSUME NEW m \in 0 .. SizeMax
    PROVE  Wrap(m) = m
<1>1. SizeMax \in Nat
  BY SizeAssumption
<1> QED BY <1>1, Z3 DEF Wrap

(* The arena starts without a block.                                       *)
LEMMA InitIInv == Init => IInv
<1> SUFFICES ASSUME Init PROVE IInv
  OBVIOUS
<1>1. DOMAIN heap = {} /\ heap \in [{} -> Blocks]
  BY DEF Init
<1>2. TypeOK
  BY <1>1 DEF Init, TypeOK
<1>3. Chain([b \in {} |-> 1])
  BY <1>1 DEF Init, Chain
<1> QED BY <1>1, <1>2, <1>3 DEF Init, IInv, Chained, Sound

(* No step leaves IInv.                                                    *)
LEMMA StepIInv == IInv /\ [Next]_vars => IInv'
<1> SUFFICES ASSUME IInv, [Next]_vars PROVE IInv'
  OBVIOUS
<1> USE DEF IInv, TypeOK, Chained, Chain, Sound, BlocksApart, Held, Disjoint, Apart, Within,
            End, Data
<1>1. CASE New
  BY <1>1 DEF New
<1>2. ASSUME NEW r \in Requests, Alloc(r[1], r[2]) PROVE IInv'
  <2>1. r[1] \in 0 .. SizeMax /\ r[2] \in 1 .. SizeMax
    BY RequestAssumption
  <2> USE DEF Alloc
  <2> HIDE DEF IInv
  <2> QED BY <2>1, <1>2, AllocStep
<1>3. ASSUME NEW r \in ArrayRequests, Array(r[1], r[2]) PROVE IInv'
  <2>1. r[1] \in Nat /\ r[2] \in Nat /\ MaxAlign \in 1 .. SizeMax /\ SizeMax \in Nat
    BY RequestAssumption, SizeAssumption
  <2>2. CASE TooMany(r[1], r[2])
    BY <2>2, <1>3 DEF Array, vars
  <2>3. CASE ~TooMany(r[1], r[2])
    <3>1. r[1] * r[2] \in 0 .. SizeMax
      BY <2>1, <2>3, ProductFits DEF TooMany
    <3>2. Wrap(r[1] * r[2]) = r[1] * r[2]
      BY <3>1, WrapFits
    <3>3. phase = "live" /\ AllocBytes(r[1] * r[2], MaxAlign, r[1] * r[2])
      BY <3>2, <2>3, <1>3 DEF Array
    <3> HIDE DEF IInv
    <3> QED BY <2>1, <3>1, <3>3, AllocStep
  <2> QED BY <2>2, <2>3
<1>4. CASE Destroy
  BY <1>4 DEF Destroy
<1>5. CASE FreeBlock
  <2> HIDE DEF IInv
  <2> QED BY <1>5, FreeBlockStep
<1>6. CASE FreeArena
  BY <1>6 DEF FreeArena
<1>7. CASE UNCHANGED vars
  BY <1>7 DEF vars
<1> QED BY <1>1, <1>2, <1>3, <1>4, <1>5, <1>6, <1>7 DEF Next

(* No block is ever filled past its end: the unsigned differences of       *)
(* arena_alloc do not wrap.                                                *)
THEOREM TypeCorrect == Spec => []TypeOK
<1>1. IInv => TypeOK
  BY DEF IInv
<1> QED BY InitIInv, StepIInv, <1>1, PTL DEF Spec

(* Whatever arena_alloc and arena_array return is aligned and has all the  *)
(* bytes that were asked for inside one block.                             *)
THEOREM HeldTheorem == Spec => []AllocationsHeld
<1>1. IInv => AllocationsHeld
  <2> SUFFICES ASSUME IInv, phase = "live", NEW g \in given
               PROVE  /\ g.at % g.align = 0
                      /\ \E b \in DOMAIN heap :
                             Data(b) <= g.at /\ g.at + g.bytes <= Data(b) + heap[b].cap
    BY DEF AllocationsHeld
  <2>1. PICK b \in DOMAIN heap : Within(g, b)
    BY DEF IInv, Sound, Held
  <2>2. g.at + g.bytes \in Nat
    BY SizeAssumption DEF IInv, TypeOK, Addresses
  <2> QED BY <2>1, <2>2, BlockNumbers DEF IInv, Sound, Held, Within, Data
<1> QED BY InitIInv, StepIInv, <1>1, PTL DEF Spec

(* No byte belongs to two allocations, nor to one and a block header.      *)
THEOREM DisjointTheorem == Spec => []AllocationsDisjoint
<1>1. IInv => AllocationsDisjoint
  <2> SUFFICES ASSUME IInv, phase = "live" PROVE AllocationsDisjoint
    BY DEF AllocationsDisjoint
  <2>1. BlocksApart /\ Held /\ Disjoint /\ TypeOK
    BY DEF IInv, Sound
  <2>2. \A g \in given : g.at \in Nat /\ g.bytes \in Nat
    BY <2>1, SizeAssumption DEF TypeOK, Addresses
  <2>3. ASSUME NEW g \in given, NEW h \in given, g # h
        PROVE  Bytes(g.at, g.bytes) \cap Bytes(h.at, h.bytes) = {}
    BY <2>1, <2>2, <2>3 DEF Disjoint, Apart, Bytes
  <2>4. ASSUME NEW g \in given, NEW b \in DOMAIN heap
        PROVE  Bytes(g.at, g.bytes) \cap Bytes(b, Header) = {}
    <3>1. PICK c \in DOMAIN heap : Within(g, c)
      BY <2>1 DEF Held
    <3>2. c = b \/ End(b) <= c \/ End(c) <= b
      BY <2>1 DEF BlocksApart
    <3>3. g.at + g.bytes <= b \/ b + Header <= g.at
      BY <3>1, <3>2, <2>1, <2>2, BlockNumbers DEF Within, End, Data
    <3> QED BY <3>3, <2>1, <2>2, BlockNumbers DEF Bytes
  <2> QED BY <2>3, <2>4 DEF AllocationsDisjoint
<1> QED BY InitIInv, StepIInv, <1>1, PTL DEF Spec

(* After arena_destroy no block is left, and each was freed once.          *)
THEOREM FreedTheorem == Spec => []EverythingFreed
<1>1. IInv => EverythingFreed
  BY DEF IInv, Chained, Chain, EverythingFreed
<1> QED BY InitIInv, StepIInv, <1>1, PTL DEF Spec
=============================================================================

-------------------------------- MODULE Heap --------------------------------
(***************************************************************************)
(* lib/malloc.c: first fit over a chain of blocks that lie one after the   *)
(* other, each behind a header. The file holds two allocators: the one the *)
(* kernel is built with merges free blocks while malloc searches and       *)
(* searches from last_free, the place of the last allocation; the one of   *)
(* CONFIG_ALT_ALLOCATOR merges them in free. Every call is one critical    *)
(* section, hence one step.                                                *)
(*                                                                         *)
(* Memory is counted in 4-byte words, what align4 leaves; a header has two *)
(* (next and size). Of the blocks only those on the chain are kept in mem: *)
(* what a merged header leaves behind is never read again.                 *)
(***************************************************************************)
EXTENDS Integers, FiniteSetsExt

CONSTANTS HeapLen,     \* words in the zone given to ucx_heap_init
          Requests,    \* sizes asked for, in words after align4, whose own
                       \* wrap makes the largest ones a 0
          Allocators   \* subset of {"default", "alt"}

Hdr == 2               \* sizeof(struct mem_block_s), in words
HeapBase == 1          \* address of the zone; address 0 is NULL
HeapTail == HeapBase + HeapLen - Hdr
WordMod == 1073741824  \* 2^30: size_t, in words: sizes wrap around

ASSUME HeapAssumption == /\ HeapLen \in Nat /\ HeapLen >= 2 * Hdr
                         /\ HeapLen < WordMod - 2 * Hdr
                         /\ Requests \subseteq 0 .. WordMod - 1

VARIABLES mem,         \* header address -> [next, size, used]
          last_free,   \* where malloc starts ("ff" in the other allocator)
          allocator,   \* which of the two is compiled in
          owned,       \* what the application holds: pointer -> words
          hres         \* the last call and what it returned

heapVars == <<mem, last_free, allocator, owned, hres>>

(* f with v at a, whether or not it had something there *)
Put(f, a, v) == [x \in DOMAIN f \cup {a} |-> IF x = a THEN v ELSE f[x]]

HeapInit ==
  /\ mem = [a \in {HeapBase, HeapTail} |->
              IF a = HeapBase
                THEN [next |-> HeapTail, size |-> HeapLen - 2 * Hdr, used |-> FALSE]
                ELSE [next |-> 0, size |-> 0, used |-> FALSE]]
  /\ last_free = HeapBase
  /\ allocator \in Allocators
  /\ owned = << >>
  /\ hres = <<"init">>

(* Where a run of free blocks starts on the way from a header on: the inner *)
(* loops skip used blocks, then walk to the next used one or to the tail.   *)
(* The tail itself is "a run" when the block before it is used.             *)
RunStarts(m, from) ==
  {a \in DOMAIN m : /\ a >= from /\ ~m[a].used
                    /\ \/ a = from
                       \/ \E b \in DOMAIN m : b >= from /\ m[b].used /\ m[b].next = a}

(* slip: free neighbours are not merged *)
RunOfOne(m, a) == IF m[a].next = 0 THEN a ELSE m[a].next

(* Where the run of free blocks at a ends: a used block, or the tail.       *)
RunEnd(m, a) == Min({b \in DOMAIN m : b >= a /\ (m[b].used \/ m[b].next = 0)})

RunSize(m, a) == (RunEnd(m, a) - a - Hdr) % WordMod

(* q->size = p - q - sizeof(header); q->next = p: each run in starts        *)
(* becomes one block.                                                       *)
Merged(m, starts) ==
  [a \in {b \in DOMAIN m : \A s \in starts : ~(s < b /\ b < RunEnd(m, s))} |->
     IF a \in starts
       THEN [next |-> RunEnd(m, a), size |-> RunSize(m, a), used |-> FALSE]
       ELSE m[a]]

(* slip: the header of the block itself is forgotten *)
SplitNoHeader(m, p, n, rest) ==
  Put(Put(m, p + n, [next |-> m[p].next, size |-> rest, used |-> FALSE]),
      p, [next |-> p + n, size |-> n, used |-> TRUE])

(* The block at p gets n words and is used; what is left of it becomes a    *)
(* free block, whose header is written with this size.                      *)
Split(m, p, n, rest) ==
  Put(Put(m, p + Hdr + n, [next |-> m[p].next, size |-> rest, used |-> FALSE]),
      p, [next |-> p + Hdr + n, size |-> n, used |-> TRUE])

(* The sum of the request and a header is not checked for a wrap. *)
Fits(size, n) == size >= (n + Hdr) % WordMod
Wraps(n) == n + Hdr >= WordMod

(* The remainder of a request that wraps has its header where others are:   *)
(* what the memory holds after that is not followed.                        *)
Granted(m, p, n, rest) ==
  /\ mem' = IF Wraps(n) THEN m ELSE Split(m, p, n, rest)
  /\ last_free' = p
  /\ owned' = Put(owned, p + Hdr, n)
  /\ hres' = <<"malloc", n, p + Hdr>>

Refused(n) == /\ hres' = <<"malloc", n, 0>>
              /\ UNCHANGED <<last_free, owned>>

(* Merge run after run from last_free on, up to the first that fits. The    *)
(* size of the remainder is computed from p->size after p->size became the  *)
(* size of the request: it is minus one header.                             *)
malloc_default(n) ==
  LET runs == RunStarts(mem, last_free)
      fit == {a \in runs : Fits(RunSize(mem, a), n)}
  IN /\ allocator = "default"
     /\ IF fit = {}
          THEN mem' = Merged(mem, runs) /\ Refused(n)
          ELSE LET p == Min(fit) IN
               Granted(Merged(mem, {a \in runs : a <= p}), p, n,
                       (n - n - Hdr) % WordMod)

(* The other one believes the sizes in the headers. It stops at the tail,   *)
(* whose size is 0, for a request above that: one of no size walks on along *)
(* the NULL in the tail, to what the code does not say.                     *)
Astray == hres' = <<"astray">> /\ UNCHANGED <<last_free, owned>>

malloc_alt(n) ==
  LET fit == {a \in DOMAIN mem : a >= last_free /\ ~mem[a].used /\ Fits(mem[a].size, n)}
  IN /\ allocator = "alt"
     /\ IF fit = {}
          THEN mem' = mem /\ IF n = 0 THEN Astray ELSE Refused(n)
          ELSE LET p == Min(fit) IN Granted(mem, p, n, mem[p].size - n - Hdr)

ucx_malloc(n) == (malloc_default(n) \/ malloc_alt(n)) /\ UNCHANGED allocator

(* The application frees what malloc gave it, once.                         *)
ucx_free(ptr) ==
  LET m == [mem EXCEPT ![ptr - Hdr].used = FALSE] IN
  /\ ptr \in DOMAIN owned
  /\ mem' = IF allocator = "alt" THEN Merged(m, RunStarts(m, HeapBase)) ELSE m
  /\ last_free' = HeapBase
  /\ owned' = [p \in DOMAIN owned \ {ptr} |-> owned[p]]
  /\ hres' = <<"free", ptr>>
  /\ UNCHANGED allocator

(* The memory is as the model describes it. *)
Followed == hres # <<"astray">> /\ \A p \in DOMAIN owned : ~Wraps(owned[p])

HeapNext == \/ Followed /\ \E n \in Requests : ucx_malloc(n)
            \/ Followed /\ \E ptr \in DOMAIN owned : ucx_free(ptr)
            \/ ~Followed /\ UNCHANGED heapVars

HeapSpec == HeapInit /\ [][HeapNext]_heapVars

-----------------------------------------------------------------------------
(* Header and payload of the block behind pointer p.                        *)
Extent(p) == (p - Hdr) .. (p + owned[p] - 1)

(* What malloc hands out lies in the zone and shares no word, of payload or *)
(* header, with anything else handed out, through every sequence of splits, *)
(* merges and reused blocks, in both allocators.                            *)
BlocksDisjoint ==
  \A p \in DOMAIN owned :
    /\ Extent(p) \subseteq HeapBase .. HeapTail - 1
    /\ \A q \in DOMAIN owned \ {p} : Extent(p) \cap Extent(q) = {}

(* Enough consecutive words that nobody owns, between what is owned: the    *)
(* block, its header and one for the remainder.                             *)
GapFits(n) ==
  \E a \in HeapBase .. HeapTail - (n + 2 * Hdr) :
    \A p \in DOMAIN owned : Extent(p) \cap a .. (a + n + 2 * Hdr - 1) = {}

(* A search that starts at the first block, as each one does after a free,  *)
(* refuses only what fits nowhere: whatever the history of splits, no gap   *)
(* is lost to fragments that were not merged or whose size was not healed.  *)
FreshSearchComplete ==
  \A n \in Requests :
    hres = <<"malloc", n, 0>> /\ last_free = HeapBase => ~GapFits(n)

(* malloc.c:121-122: "free areas are searched from the beginning of the     *)
(* heap".                                                                   *)
SearchComplete == \A n \in Requests : hres = <<"malloc", n, 0>> => ~GapFits(n)
=============================================================================

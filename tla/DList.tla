------------------------------- MODULE DList --------------------------------
(***************************************************************************)
(* The doubly linked lists of lib/list.c, pointer by pointer. Unlike the   *)
(* singly linked ones their sentinels never change: a node goes in between *)
(* two others and out again. Nothing in the kernel uses them; they are     *)
(* part of the library applications are linked with.                       *)
(***************************************************************************)
EXTENDS Integers, FiniteSetsExt, Sequences

CONSTANTS DNode, DListId, DVal

DNil == 0
DDead == 57005        \* 0xdead, the datum of a head sentinel

ASSUME DListAssumption == DNode \subseteq Nat \ {DNil} /\ IsFiniteSet(DNode)

VARIABLES dnodes,     \* node -> [prev, next, data, freed]
          dlists,     \* list -> [head, tail, length], or NoDList
          dres        \* the value the last call put in or took out

dlistVars == <<dnodes, dlists, dres>>

DCell(prev, next, data) == [prev |-> prev, next |-> next, data |-> data, freed |-> FALSE]
DFreed == [DCell(DNil, DNil, DNil) EXCEPT !.freed = TRUE]
NoDList == [head |-> DNil, tail |-> DNil, length |-> 0]

DUnused == {n \in DNode : dnodes[n].freed}
DNew == Min(DUnused)

DListInit == /\ dnodes = [n \in DNode |-> DFreed]
             /\ dlists = [l \in DListId |-> NoDList]
             /\ dres = DNil

DLive(l) == dlists[l] # NoDList
DHead(l) == dlists[l].head
DTail(l) == dlists[l].tail
DEmpty(l) == dnodes[dnodes[DHead(l)].next].next = DNil

DWalk(l) ==
  LET at[k \in 0 .. Cardinality(DNode)] ==
        IF k = 0 THEN DHead(l)
        ELSE LET last == at[k - 1] IN IF last \in DNode THEN dnodes[last].next ELSE DNil
  IN at
OnDList(l) == LET w == DWalk(l) IN {w[k] : k \in 1 .. dlists[l].length}

DFailed == dres' = DNil /\ UNCHANGED <<dnodes, dlists>>

dlist_create(l) ==
  /\ ~DLive(l)
  /\ IF Cardinality(DUnused) < 2 THEN DFailed
     ELSE LET h == DNew  t == Min(DUnused \ {h}) IN
       /\ dnodes' = [dnodes EXCEPT ![h] = DCell(DNil, t, DDead), ![t] = DCell(h, DNil, DNil)]
       /\ dlists' = [dlists EXCEPT ![l] = [head |-> h, tail |-> t, length |-> 0]]
       /\ dres' = DNil

dlist_destroy(l) ==
  /\ DLive(l)
  /\ IF dnodes[DHead(l)].next # DTail(l) THEN DFailed
     ELSE /\ dnodes' = [dnodes EXCEPT ![DHead(l)] = DFreed, ![DTail(l)] = DFreed]
          /\ dlists' = [dlists EXCEPT ![l] = NoDList]
          /\ dres' = DNil

DLonger(l, by) == dlists' = [dlists EXCEPT ![l].length = @ + by]

(* Slip: the node after the new one still has the old predecessor. *)
LinkForwardOnly(m, node, prev, val) ==
  [m EXCEPT ![node] = DCell(prev, m[prev].next, val), ![prev].next = node]

(* node goes in after prev: its neighbours point at it, both ways.          *)
LinkAfter(m, node, prev, val) ==
  [m EXCEPT ![node] = DCell(prev, m[prev].next, val),
            ![m[prev].next].prev = node, ![prev].next = node]

(* node->prev->next = node->next; node->next->prev = node->prev             *)
Unlinked(node) ==
  [dnodes EXCEPT ![dnodes[node].prev].next = dnodes[node].next,
                 ![dnodes[node].next].prev = dnodes[node].prev]

(* After the tail sentinel there is no place.                               *)
dlist_insert(l, prevnode, val) ==
  /\ DLive(l)
  /\ IF DUnused = {} \/ dnodes[prevnode].next = DNil THEN DFailed
     ELSE /\ dnodes' = LinkAfter(dnodes, DNew, prevnode, val)
          /\ DLonger(l, 1)
          /\ dres' = val

dlist_push(l, val) == DLive(l) /\ dlist_insert(l, DHead(l), val)
dlist_pushback(l, val) == DLive(l) /\ dlist_insert(l, dnodes[DTail(l)].prev, val)

DDrop(l, node) ==
  /\ dnodes' = [Unlinked(node) EXCEPT ![node] = DFreed]
  /\ DLonger(l, -1)
  /\ dres' = dnodes[node].data

dlist_pop(l) ==
  DLive(l) /\ IF DEmpty(l) THEN DFailed ELSE DDrop(l, dnodes[DHead(l)].next)

dlist_popback(l) ==
  DLive(l) /\ IF DEmpty(l) THEN DFailed ELSE DDrop(l, dnodes[DTail(l)].prev)

dlist_remove(l, node) ==
  DLive(l) /\ IF node \in {DHead(l), DTail(l)} THEN DFailed ELSE DDrop(l, node)

dlist_move(dst, src, node) ==
  /\ DLive(src) /\ DLive(dst)
  /\ IF dnodes[node].prev = DNil \/ dnodes[node].next = DNil THEN DFailed
     ELSE LET cut == Unlinked(node)
              shorter == [dlists EXCEPT ![src].length = @ - 1]
          IN /\ dnodes' = LinkAfter(cut, node, cut[DTail(dst)].prev, dnodes[node].data)
             /\ dlists' = [shorter EXCEPT ![dst].length = @ + 1]
             /\ dres' = dnodes[node].data

(* Unlike list_rotate, which returns the node that moved, dlist_rotate      *)
(* returns the one that was last, or the head if there is no other: dres    *)
(* is the datum of that node.                                               *)
dlist_rotate(l) ==
  /\ DLive(l)
  /\ IF DEmpty(l) THEN DFailed
     ELSE LET node == dnodes[DHead(l)].next
              cut == Unlinked(node)
          IN /\ dnodes' = LinkAfter(cut, node, cut[DTail(l)].prev, dnodes[node].data)
             /\ dres' = dnodes[cut[DTail(l)].prev].data
             /\ UNCHANGED dlists

dlist_cnext(l, node) ==
  IF dnodes[dnodes[node].next].next = DNil THEN dnodes[DHead(l)].next ELSE dnodes[node].next

dlist_cprev(l, node) ==
  IF dnodes[dnodes[node].prev].prev = DNil THEN dnodes[DTail(l)].prev ELSE dnodes[node].prev

(* From 0 on, or from the last node, which is -1, back.                     *)
dlist_index(l, idx) ==
  LET back[k \in 0 .. Cardinality(DNode)] ==
        IF k = 0 THEN DTail(l)
        ELSE IF back[k - 1] \in DNode THEN dnodes[back[k - 1]].prev ELSE DNil
  IN IF idx >= 0 THEN DWalk(l)[idx + 1] ELSE back[-idx]

DListNext ==
  \E l \in DListId :
    \/ dlist_create(l) \/ dlist_destroy(l)
    \/ dlist_pop(l) \/ dlist_popback(l) \/ dlist_rotate(l)
    \/ \E val \in DVal : dlist_push(l, val) \/ dlist_pushback(l, val)
    \/ \E n \in OnDList(l) \cup {DTail(l)} :
         \/ \E val \in DVal : dlist_insert(l, n, val)
         \/ dlist_remove(l, n)
         \/ \E dst \in DListId : dlist_move(dst, l, n)

DListSpec == DListInit /\ [][DListNext]_dlistVars

-----------------------------------------------------------------------------
DValues(l) ==
  IF ~DLive(l) THEN << >>
  ELSE LET w == DWalk(l)
           last == Max({k \in DOMAIN w : w[k] # DNil})
       IN [k \in 1 .. last - 1 |-> dnodes[w[k]].data]

DS == INSTANCE SeqLists WITH ListId <- DListId, Val <- DVal, NoVal <- DNil,
                             seqs <- [l \in DListId |-> DValues(l)], answer <- dres

DNavigable(l) ==
  LET s == DValues(l)
  IN /\ Len(s) = dlists[l].length
     /\ \A i \in 1 .. Len(s) :
          LET node == dlist_index(l, i - 1)
          IN /\ dnodes[node].data = s[i]
             /\ dlist_index(l, i - 1 - Len(s)) = node
             /\ dnodes[dlist_cnext(l, node)].data = DS!After(s, i)
             /\ dnodes[dlist_cprev(l, node)].data = DS!Before(s, i)

(* Which end a call works at, and that it fails only for want of memory or  *)
(* of a value.                                                              *)
DAtItsEnd(l) ==
  /\ \A val \in DVal :
       /\ dlist_push(l, val) => IF DUnused = {} THEN DS!Nothing ELSE DS!Push(l, val)
       /\ dlist_pushback(l, val) => IF DUnused = {} THEN DS!Nothing ELSE DS!Pushback(l, val)
  /\ dlist_pop(l) => DS!Pop(l)
  /\ dlist_popback(l) => DS!Popback(l)
  /\ dlist_rotate(l) => IF DEmpty(l) THEN DS!Nothing ELSE DS!Turn(l)

(* The doubly linked lists are sequences, read forwards and backwards:      *)
(* after any operations the chains of prev and of next are each other's     *)
(* reverse, each call works at the end it is named for, and a value moved   *)
(* between lists is in exactly one of them.                                 *)
DListsAreSequences ==
  DS!Spec /\ [](\A l \in DListId : DNavigable(l))
  /\ [][\A l \in DListId : DAtItsEnd(l)]_dlistVars
=============================================================================

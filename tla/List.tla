-------------------------------- MODULE List --------------------------------
(***************************************************************************)
(* The singly linked lists of lib/list.c, pointer by pointer: the task     *)
(* list, the timer list and the coroutine groups are such lists. A list    *)
(* has a head and a tail sentinel. list_pushback, list_move and            *)
(* list_rotate put the value into the old tail and make another node the   *)
(* tail, so nodes that hold no value become nodes that do.                 *)
(*                                                                         *)
(* The lists take no lock and every call is one step; the callers see to   *)
(* that. Callers hand in nodes of the list they name.                      *)
(***************************************************************************)
EXTENDS Integers, FiniteSetsExt, Sequences

CONSTANTS Node,       \* the nodes there is memory for: numbers from 1 on
          ListId, Val

Nil == 0
Dead == 57005         \* 0xdead, the datum of a head sentinel

ASSUME ListAssumption == Node \subseteq Nat \ {Nil} /\ IsFiniteSet(Node)

VARIABLES nodes,      \* node -> [next, data], or Freed
          lists,      \* list -> [head, tail, length], or NoList
          lres        \* the value the last call put in or took out

listVars == <<nodes, lists, lres>>

Freed == [next |-> Nil, data |-> Nil, freed |-> TRUE]
NoList == [head |-> Nil, tail |-> Nil, length |-> 0]
Cell(next, data) == [next |-> next, data |-> data, freed |-> FALSE]

Unused == {n \in Node : nodes[n].freed}
New == Min(Unused)

ListInit == /\ nodes = [n \in Node |-> Freed]
            /\ lists = [l \in ListId |-> NoList]
            /\ lres = Nil

Live(l) == lists[l] # NoList
First(l) == nodes[lists[l].head].next
(* list->head->next->next is not null: the first node is not the tail *)
NotEmpty(l) == Live(l) /\ nodes[First(l)].next # Nil

(* The walk from the head on, a null pointer once it has left the list.     *)
Walk(l) ==
  LET at[k \in 0 .. Cardinality(Node)] ==
        IF k = 0 THEN lists[l].head
        ELSE LET last == at[k - 1] IN IF last \in Node THEN nodes[last].next ELSE Nil
  IN at
OnList(l) == LET w == Walk(l) IN {w[k] : k \in 1 .. lists[l].length}
Pred(n) == CHOOSE m \in Node \ Unused : nodes[m].next = n

Failed == lres' = Nil /\ UNCHANGED <<nodes, lists>>

list_create(l) ==
  /\ ~Live(l)
  /\ IF Cardinality(Unused) < 2 THEN Failed
     ELSE LET h == New  t == Min(Unused \ {h}) IN
       /\ nodes' = [nodes EXCEPT ![h] = Cell(t, Dead), ![t] = Cell(Nil, Nil)]
       /\ lists' = [lists EXCEPT ![l] = [head |-> h, tail |-> t, length |-> 0]]
       /\ lres' = Nil

list_destroy(l) ==
  /\ Live(l)
  /\ IF First(l) # lists[l].tail THEN Failed
     ELSE /\ nodes' = [nodes EXCEPT ![lists[l].head] = Freed, ![lists[l].tail] = Freed]
          /\ lists' = [lists EXCEPT ![l] = NoList]
          /\ lres' = Nil

Longer(l, by) == lists' = [lists EXCEPT ![l].length = @ + by]

(* The node after which list_push puts its node is the head, list_insert's  *)
(* is any node; after the tail there is no place.                           *)
list_insert(l, prevnode, val) ==
  /\ Live(l)
  /\ IF Unused = {} \/ nodes[prevnode].next = Nil THEN Failed
     ELSE /\ nodes' = [nodes EXCEPT ![New] = Cell(nodes[prevnode].next, val),
                                    ![prevnode].next = New]
          /\ Longer(l, 1)
          /\ lres' = val

list_push(l, val) == Live(l) /\ list_insert(l, lists[l].head, val)

(* Slip: list->tail is left on the node that now holds the value. *)
PushbackKeepsTail(l, val) ==
  /\ Live(l)
  /\ IF Unused = {} THEN Failed
     ELSE LET t == lists[l].tail IN
       /\ nodes' = [nodes EXCEPT ![New] = Cell(Nil, Nil), ![t] = Cell(New, val)]
       /\ Longer(l, 1)
       /\ lres' = val

list_pushback(l, val) ==
  /\ Live(l)
  /\ IF Unused = {} THEN Failed
     ELSE LET t == lists[l].tail IN
       /\ nodes' = [nodes EXCEPT ![New] = Cell(Nil, Nil), ![t] = Cell(New, val)]
       /\ lists' = [lists EXCEPT ![l].tail = New, ![l].length = @ + 1]
       /\ lres' = val

(* A node leaves the list: last->next = node->next; free(node).             *)
Drop(l, node) ==
  /\ nodes' = [nodes EXCEPT ![Pred(node)].next = nodes[node].next, ![node] = Freed]
  /\ Longer(l, -1)
  /\ lres' = nodes[node].data

list_pop(l) == Live(l) /\ IF NotEmpty(l) THEN Drop(l, First(l)) ELSE Failed

list_popback(l) ==
  Live(l) /\ IF NotEmpty(l) THEN Drop(l, Pred(lists[l].tail)) ELSE Failed

list_remove(l, node) ==
  Live(l) /\ IF node \in {lists[l].head, lists[l].tail} THEN Failed ELSE Drop(l, node)

(* A node that was unlinked becomes the tail of list dst; the old tail gets *)
(* its value.                                                               *)
AppendNode(cut, dst, node, val) ==
  [cut EXCEPT ![lists[dst].tail] = Cell(node, val), ![node] = Cell(Nil, Nil)]

list_move(dst, src, node) ==
  /\ Live(src) /\ Live(dst)
  /\ IF nodes[node].next = Nil THEN Failed
     ELSE LET val == nodes[node].data
              cut == [nodes EXCEPT ![Pred(node)].next = nodes[node].next]
              shorter == [lists EXCEPT ![src].length = @ - 1]
          IN /\ nodes' = AppendNode(cut, dst, node, val)
             /\ lists' = [shorter EXCEPT ![dst].tail = node, ![dst].length = @ + 1]
             /\ lres' = val

list_rotate(l) ==
  /\ Live(l)
  /\ IF ~NotEmpty(l) THEN Failed
     ELSE LET node == First(l)
              cut == [nodes EXCEPT ![lists[l].head].next = nodes[node].next]
          IN /\ nodes' = AppendNode(cut, l, node, nodes[node].data)
             /\ lists' = [lists EXCEPT ![l].tail = node]
             /\ lres' = nodes[node].data

(* Past the last value list_cnext goes back to the first one.               *)
list_cnext(l, node) ==
  IF nodes[nodes[node].next].next = Nil THEN First(l) ELSE nodes[node].next

list_index(l, idx) == Walk(l)[idx + 1]

ListNext ==
  \E l \in ListId :
    \/ list_create(l) \/ list_destroy(l)
    \/ list_pop(l) \/ list_popback(l) \/ list_rotate(l)
    \/ \E val \in Val : list_push(l, val) \/ list_pushback(l, val)
    \/ \E n \in OnList(l) \cup {lists[l].tail} :
         \/ \E val \in Val : list_insert(l, n, val)
         \/ list_remove(l, n)
         \/ \E dst \in ListId : list_move(dst, l, n)

ListSpec == ListInit /\ [][ListNext]_listVars

-----------------------------------------------------------------------------
(* The values between the sentinels, as list_foreach meets them: up to the  *)
(* node without a successor.                                                *)
Values(l) ==
  IF ~Live(l) THEN << >>
  ELSE LET w == Walk(l)
           last == Max({k \in DOMAIN w : w[k] # Nil})
       IN [k \in 1 .. last - 1 |-> nodes[w[k]].data]

S == INSTANCE SeqLists WITH seqs <- [l \in ListId |-> Values(l)],
                            answer <- lres, NoVal <- Nil

(* Going round a list and indexing it, the way the schedulers do.           *)
Navigable(l) ==
  LET s == Values(l)
  IN /\ Len(s) = lists[l].length
     /\ \A i \in 1 .. Len(s) :
          LET node == list_index(l, i - 1)
          IN nodes[node].data = s[i] /\ nodes[list_cnext(l, node)].data = S!After(s, i)

(* Which end a call works at, and that it fails only for want of memory or  *)
(* of a value.                                                              *)
AtItsEnd(l) ==
  /\ \A val \in Val :
       /\ list_push(l, val) => IF Unused = {} THEN S!Nothing ELSE S!Push(l, val)
       /\ list_pushback(l, val) => IF Unused = {} THEN S!Nothing ELSE S!Pushback(l, val)
  /\ list_pop(l) => S!Pop(l)
  /\ list_popback(l) => S!Popback(l)
  /\ list_rotate(l) => S!Rotate(l)

(* Pointers, sentinels that change places and the length counter included,  *)
(* the lists are sequences: each call changes them and answers as it would  *)
(* a sequence, at the end it is named for, a value moved between lists is   *)
(* in exactly one of them, and list_cnext leads round a list without        *)
(* missing a value.                                                         *)
ListsAreSequences ==
  S!Spec /\ [](\A l \in ListId : Navigable(l)) /\ [][\A l \in ListId : AtItsEnd(l)]_listVars
=============================================================================

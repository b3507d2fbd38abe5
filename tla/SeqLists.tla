------------------------------ MODULE SeqLists ------------------------------
(***************************************************************************)
(* What the lists of lib/list.c promise, singly and doubly linked alike:   *)
(* each one is a sequence of values, no operation on one list touches      *)
(* another, and answer is the value the last call put in or took out.      *)
(***************************************************************************)
EXTENDS Naturals, Sequences, SequencesExt

CONSTANTS ListId, Val, NoVal

VARIABLES seqs,       \* list -> the values it holds, first to last
          answer      \* what the last call returned

Init == seqs = [l \in ListId |-> << >>] /\ answer = NoVal

(* No memory for a node, a sentinel where a value was expected, a list that *)
(* is created, or destroyed when empty: no list changes.                    *)
Nothing == answer' = NoVal /\ UNCHANGED seqs

Insert(l, i, v) == answer' = v /\ seqs' = [seqs EXCEPT ![l] = InsertAt(@, i, v)]

Delete(l, i) == answer' = seqs[l][i] /\ seqs' = [seqs EXCEPT ![l] = RemoveAt(@, i)]

(* Value i of one list becomes the last of another one, or of the same.     *)
Moved(src, dst, i) ==
  LET cut == [seqs EXCEPT ![src] = RemoveAt(@, i)]
  IN seqs' = [cut EXCEPT ![dst] = Append(@, seqs[src][i])]
Move(src, dst, i) == answer' = seqs[src][i] /\ Moved(src, dst, i)

(* The calls that name no place: each works at its end of the list.         *)
Push(l, v) == Insert(l, 1, v)
Pushback(l, v) == Insert(l, Len(seqs[l]) + 1, v)
Pop(l) == IF seqs[l] = << >> THEN Nothing ELSE Delete(l, 1)
Popback(l) == IF seqs[l] = << >> THEN Nothing ELSE Delete(l, Len(seqs[l]))
Rotate(l) == IF seqs[l] = << >> THEN Nothing ELSE Move(l, l, 1)

(* A rotation that answers the value that was last, if there was another.   *)
Turn(l) == /\ seqs[l] # << >> /\ Moved(l, l, 1)
           /\ Len(seqs[l]) > 1 => answer' = seqs[l][Len(seqs[l])]

Next == \/ Nothing
        \/ \E l \in ListId :
             \/ \E v \in Val, i \in 1 .. Len(seqs[l]) + 1 : Insert(l, i, v)
             \/ \E i \in 1 .. Len(seqs[l]) : Delete(l, i) \/ \E d \in ListId : Move(l, d, i)
             \/ Turn(l)

Spec == Init /\ [][Next]_<<seqs, answer>>

(* Round a list: the first value comes after the last one.                  *)
After(s, i) == s[IF i = Len(s) THEN 1 ELSE i + 1]
Before(s, i) == s[IF i = 1 THEN Len(s) ELSE i - 1]
=============================================================================

-------------------------------- MODULE File --------------------------------
(***************************************************************************)
(* What a memory with a position promises to a task that seeks, reads and  *)
(* writes: an array of bytes, in segments that a write never leaves. A     *)
(* transfer that cannot begin answers 0 bytes; a write that cannot go on   *)
(* has stored some of the bytes, from the first on, at their places and    *)
(* nowhere else. Of a transfer that is disturbed only the places are sure: *)
(* bytes of a write may be lost, and later ones stored in their place.     *)
(***************************************************************************)
EXTENDS Integers, Sequences

CONSTANTS FileSize, SegmentSize, FileByte,
          Positions, Lengths, Contents   \* what the callers ask for

VARIABLES file, fpos, fout

fileVars == <<file, fpos, fout>>

ReadPlace(i) == (fpos + i - 1) % FileSize

(* The segment of the first byte, wrapping around in it.                    *)
WritePlace(i) ==
  LET first == fpos % FileSize
  IN first - (first % SegmentSize) + ((first + i - 1) % SegmentSize)

Seek(p) == fpos' = p /\ fout' = <<"seek", p>> /\ UNCHANGED file

Read(n) ==
  /\ UNCHANGED file
  /\ \/ fpos' = fpos + n /\ fout' = <<"read", [i \in 1 .. n |-> file[ReadPlace(i)]], "calm">>
     \/ /\ fpos' = fpos + n
        /\ \E bytes \in [1 .. n -> FileByte] : fout' = <<"read", bytes, "disturbed">>
     \/ fpos' = fpos /\ fout' = <<"read", << >>, "calm">>

Write(b) ==
  \E k \in 0 .. Len(b) :
    LET at(a) == {i \in 1 .. k : WritePlace(i) = a}
    IN /\ fpos' = fpos + k
       /\ \/ /\ file' = [a \in 0 .. FileSize - 1 |->
                          IF at(a) = {} THEN file[a] ELSE b[CHOOSE i \in at(a) : TRUE]]
             /\ \/ fout' = <<"write", 0, "calm">>
                \/ k = Len(b) /\ fout' = <<"write", k, "calm">>
          \/ /\ file' \in [0 .. FileSize - 1 -> FileByte]
             /\ \A a \in 0 .. FileSize - 1 :
                  file'[a] = file[a] \/ \E i \in at(a) : \E j \in 1 .. i : file'[a] = b[j]
             /\ \E n \in 0 .. k : fout' = <<"write", n, "disturbed">>

Init == /\ file \in [0 .. FileSize - 1 -> FileByte]
        /\ fpos = 0 /\ fout = <<"none">>

Next == \/ \E p \in Positions : Seek(p)
        \/ \E n \in Lengths : Read(n)
        \/ \E b \in Contents : Write(b)

Spec == Init /\ [][Next]_fileVars
=============================================================================

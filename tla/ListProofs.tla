------------------------------ MODULE ListProofs ------------------------------
(***************************************************************************)
(* The lists of lib/list.c are sequences, for every finite memory, any set *)
(* of list variables and any values: whatever the sentinels do that change *)
(* places, the calls do what insertions, removals and moves do to          *)
(* sequences, and a walk sees all values.                                  *)
(* The pointers are read through chains: an invariant says that functions  *)
(* len and at exist, such that at[l][0] to at[l][len[l] + 1] are the nodes *)
(* of list l from sentinel to sentinel. Each call is shown to change the   *)
(* chains at one place.                                                    *)
(***************************************************************************)
EXTENDS List, DList, BasicProofs, FiniteSetTheorems

-----------------------------------------------------------------------------
(* Chains of nodes: at[l][0], at[l][1], ... at[l][len[l] + 1] are the nodes *)
(* of list l from its head sentinel to its tail sentinel, and len says how  *)
(* many values are between them. What is used is on a chain, once.          *)

(* The places of list l: 0 is the head sentinel, the last is the tail.      *)
Places(len, l) == 0 .. len[l] + 1

(* The links follow the chains to the end, no node has two places, and      *)
(* whatever is used has one.                                                *)
Linked(next, len, at, used) ==
  /\ \A l \in DOMAIN len :
       /\ len[l] \in Nat
       /\ \A i \in Places(len, l) : at[l][i] \in used
       /\ \A i \in 0 .. len[l] : next[at[l][i]] = at[l][i + 1]
       /\ next[at[l][len[l] + 1]] = 0
  /\ \A k, l \in DOMAIN len : \A i \in Places(len, k), j \in Places(len, l) :
       at[k][i] = at[l][j] => k = l /\ i = j
  /\ \A n \in used : \E l \in DOMAIN len : \E i \in Places(len, l) : at[l][i] = n

(* One chain grows or shrinks; a node is put in behind place p; the node at *)
(* place p is taken out.                                                    *)
Longer1(len, l, by) == [len EXCEPT ![l] = len[l] + by]
Put1(len, at, l, p, new) ==
  [at EXCEPT ![l] = [i \in 0 .. len[l] + 2 |->
     IF i <= p THEN at[l][i] ELSE IF i = p + 1 THEN new ELSE at[l][i - 1]]]
Cut1(len, at, l, p) ==
  [at EXCEPT ![l] = [i \in 0 .. len[l] |-> IF i < p THEN at[l][i] ELSE at[l][i + 1]]]

(* A node is linked in after place p of list l, which may be its tail.      *)
LEMMA LinkedIn ==
  ASSUME NEW next, NEW next2, NEW len, NEW at, NEW used, Linked(next, len, at, used),
         DOMAIN at = DOMAIN len,
         NEW l \in DOMAIN len, NEW p \in Places(len, l), NEW new, new \notin used,
         next2[at[l][p]] = new, next2[new] = next[at[l][p]],
         \A n \in used : n # at[l][p] => next2[n] = next[n]
  PROVE  Linked(next2, Longer1(len, l, 1), Put1(len, at, l, p, new), used \cup {new})
<1> DEFINE len2 == Longer1(len, l, 1)
           at2 == Put1(len, at, l, p, new)
           n == len[l]
<1>1. /\ DOMAIN len2 = DOMAIN len /\ len2[l] = n + 1
      /\ \A k \in DOMAIN len : k # l => len2[k] = len[k] /\ at2[k] = at[k]
      /\ n \in Nat /\ p \in 0 .. n + 1
  BY DEF Longer1, Put1, Linked, Places
<1>2. \A i \in 0 .. n + 2 :
        at2[l][i] = IF i <= p THEN at[l][i] ELSE IF i = p + 1 THEN new ELSE at[l][i - 1]
  BY DEF Put1
<1>3. \A i \in 0 .. n + 1 : at[l][i] \in used
  BY <1>1 DEF Linked, Places
<1>4. \A i, j \in 0 .. n + 1 : at[l][i] = at[l][j] => i = j
  BY <1>1 DEF Linked, Places
<1> HIDE DEF len2, at2, n
<1>5. ASSUME NEW k \in DOMAIN len, k # l
      PROVE  /\ len[k] \in Nat
             /\ \A i \in Places(len, k) : at[k][i] \in used
             /\ \A i \in 0 .. len[k] : next2[at[k][i]] = at[k][i + 1]
             /\ next2[at[k][len[k] + 1]] = 0
  <2>1. /\ len[k] \in Nat
        /\ \A i \in Places(len, k) : at[k][i] \in used
        /\ \A i \in 0 .. len[k] : next[at[k][i]] = at[k][i + 1]
        /\ next[at[k][len[k] + 1]] = 0
    BY DEF Linked
  <2>2. \A i \in Places(len, k) : next2[at[k][i]] = next[at[k][i]]
    <3>1. \A i \in Places(len, k) : at[k][i] # at[l][p]
      BY <1>5 DEF Linked
    <3> QED BY <2>1, <3>1
  <2>3. len[k] + 1 \in Places(len, k) /\ \A i \in 0 .. len[k] : i \in Places(len, k)
    BY <2>1 DEF Places
  <2> QED BY <2>1, <2>2, <2>3
<1>6. /\ \A i \in 0 .. n + 2 : at2[l][i] \in used \cup {new}
      /\ \A i \in 0 .. n + 1 : next2[at2[l][i]] = at2[l][i + 1]
      /\ next2[at2[l][n + 2]] = 0
  <2>1. /\ \A i \in 0 .. n : next[at[l][i]] = at[l][i + 1]
        /\ next[at[l][n + 1]] = 0
    BY <1>1 DEF Linked, n
  <2>2. ASSUME NEW i \in 0 .. n + 2
        PROVE  at2[l][i] \in used \cup {new}
    BY <1>1, <1>2, <1>3
  <2>3. ASSUME NEW i \in 0 .. n + 1, i # p
        PROVE  next2[at[l][i]] = next[at[l][i]]
    BY <1>1, <1>3, <1>4, <2>3
  <2>4. ASSUME NEW i \in 0 .. n + 1
        PROVE  next2[at2[l][i]] = at2[l][i + 1]
    <3>1. /\ at2[l][i] = IF i <= p THEN at[l][i] ELSE IF i = p + 1 THEN new ELSE at[l][i - 1]
          /\ at2[l][i + 1] = IF i + 1 <= p THEN at[l][i + 1]
                             ELSE IF i + 1 = p + 1 THEN new ELSE at[l][i]
      <4>1. i \in 0 .. n + 2 /\ i + 1 \in 0 .. n + 2 /\ (i + 1) - 1 = i
        BY <1>1
      <4> QED BY <1>2, <4>1
    <3>2. CASE i < p
      BY <1>1, <2>1, <2>3, <3>1, <3>2
    <3>3. CASE i = p
      BY <1>1, <3>1, <3>3
    <3>4. CASE i = p + 1
      BY <1>1, <2>1, <3>1, <3>4
    <3>5. CASE i > p + 1
      <4>1. i - 1 \in 0 .. n /\ i - 1 \in 0 .. n + 1 /\ i - 1 # p /\ (i - 1) + 1 = i
        BY <1>1, <3>5
      <4> QED BY <1>1, <2>1, <2>3, <3>1, <3>5, <4>1
    <3> QED BY <1>1, <3>2, <3>3, <3>4, <3>5
  <2>5. next2[at2[l][n + 2]] = 0
    <3>1. at2[l][n + 2] = IF p = n + 1 THEN new ELSE at[l][n + 1]
      <4>1. n + 2 \in 0 .. n + 2 /\ (n + 2) - 1 = n + 1 /\ (p = n + 1 <=> n + 2 = p + 1)
            /\ ~(n + 2 <= p)
        BY <1>1
      <4> QED BY <1>2, <4>1
    <3> QED BY <1>1, <2>1, <2>3, <3>1
  <2> QED BY <2>2, <2>4, <2>5
<1>7. ASSUME NEW i \in 0 .. n + 2, NEW j \in 0 .. n + 2, at2[l][i] = at2[l][j]
      PROVE  i = j
  <2> DEFINE Was(x) == IF x <= p THEN x ELSE x - 1
  <2>1. ASSUME NEW x \in 0 .. n + 2
        PROVE  /\ x = p + 1 => at2[l][x] = new
               /\ x # p + 1 => /\ at2[l][x] = at[l][Was(x)]
                               /\ Was(x) \in 0 .. n + 1 /\ at[l][Was(x)] # new
    <3>1. x # p + 1 => Was(x) \in 0 .. n + 1
      BY <1>1
    <3> QED BY <1>1, <1>2, <1>3, <3>1
  <2>2. CASE i # p + 1 /\ j # p + 1
    <3>1. Was(i) = Was(j)
      <4> HIDE DEF Was
      <4> QED BY <1>4, <1>7, <2>1, <2>2
    <3> QED BY <1>1, <2>2, <3>1
  <2> HIDE DEF Was
  <2>3. CASE i = p + 1 \/ j = p + 1
    BY <1>7, <2>1, <2>3
  <2> QED BY <2>2, <2>3
<1>8. ASSUME NEW k \in DOMAIN len, NEW m \in DOMAIN len,
             NEW i \in Places(len2, k), NEW j \in Places(len2, m), at2[k][i] = at2[m][j]
      PROVE  k = m /\ i = j
  <2>0. Places(len2, l) = 0 .. n + 2
    BY <1>1 DEF Places
  <2>1. CASE k = l /\ m = l
    BY <1>7, <1>8, <2>0, <2>1
  <2>2. \A x \in DOMAIN len : x # l => Places(len2, x) = Places(len, x)
    BY <1>1 DEF Places
  <2>3. CASE k # l /\ m # l
    BY <1>1, <1>8, <2>2, <2>3 DEF Linked
  <2>4. ASSUME NEW x \in 0 .. n + 2, NEW y \in DOMAIN len, y # l, NEW z \in Places(len, y)
        PROVE  at2[l][x] # at[y][z]
    <3>1. at2[l][x] = new \/ \E w \in 0 .. n + 1 : at2[l][x] = at[l][w]
      <4>1. x <= p \/ x = p + 1 \/ (x > p + 1 /\ x - 1 \in 0 .. n + 1)
        BY <1>1
      <4>2. x <= p => x \in 0 .. n + 1
        BY <1>1
      <4> QED BY <1>1, <1>2, <4>1, <4>2
    <3>2. at[y][z] \in used
      BY DEF Linked
    <3>3. \A w \in 0 .. n + 1 : at[l][w] # at[y][z]
      BY <2>4 DEF Linked, Places, n
    <3> QED BY <3>1, <3>2, <3>3
  <2> QED BY <1>1, <1>8, <2>0, <2>1, <2>2, <2>3, <2>4
<1>9. ASSUME NEW x \in used \cup {new}
      PROVE  \E k \in DOMAIN len : \E i \in Places(len2, k) : at2[k][i] = x
  <2>0. Places(len2, l) = 0 .. n + 2
    BY <1>1 DEF Places
  <2>1. CASE x = new
    <3>1. p + 1 \in 0 .. n + 2 /\ at2[l][p + 1] = new
      BY <1>1, <1>2
    <3> QED BY <2>0, <2>1, <3>1
  <2>2. CASE x \in used
    <3>0. PICK k \in DOMAIN len : \E i \in Places(len, k) : at[k][i] = x
      BY <2>2 DEF Linked
    <3>1. PICK i \in Places(len, k) : at[k][i] = x
      BY <3>0
    <3>2. CASE k # l
      BY <1>1, <3>1, <3>2 DEF Places
    <3>3. CASE k = l
      <4>1. i \in 0 .. n + 1
        BY <3>3 DEF Places, n
      <4>2. CASE i <= p
        BY <1>1, <1>2, <2>0, <3>1, <3>3, <4>1, <4>2
      <4>3. CASE i > p
        <5>1. i + 1 \in 0 .. n + 2 /\ (i + 1) - 1 = i /\ ~(i + 1 <= p) /\ i + 1 # p + 1
          BY <1>1, <4>1, <4>3
        <5>2. at2[l][i + 1] = at[l][i]
          BY <1>2, <5>1
        <5> QED BY <2>0, <3>1, <3>3, <5>1, <5>2
      <4> QED BY <1>1, <4>1, <4>2, <4>3
    <3> QED BY <3>2, <3>3
  <2> QED BY <2>1, <2>2
<1>10. ASSUME NEW k \in DOMAIN len
       PROVE  /\ len2[k] \in Nat
              /\ \A i \in Places(len2, k) : at2[k][i] \in used \cup {new}
              /\ \A i \in 0 .. len2[k] : next2[at2[k][i]] = at2[k][i + 1]
              /\ next2[at2[k][len2[k] + 1]] = 0
  <2>1. CASE k = l
    <3>1. len2[k] = n + 1 /\ Places(len2, k) = 0 .. n + 2 /\ len2[k] + 1 = n + 2
      BY <1>1, <2>1 DEF Places
    <3> QED BY <1>1, <1>6, <2>1, <3>1
  <2>2. CASE k # l
    <3>1. len2[k] = len[k] /\ at2[k] = at[k] /\ Places(len2, k) = Places(len, k)
      BY <1>1, <2>2 DEF Places
    <3> QED BY <1>5, <2>2, <3>1
  <2> QED BY <2>1, <2>2
<1> QED BY <1>1, <1>8, <1>9, <1>10 DEF Linked, len2, at2

(* The node at place p of list l, no sentinel, is taken out.                *)
LEMMA LinkedOut ==
  ASSUME NEW next, NEW next2, NEW len, NEW at, NEW used, Linked(next, len, at, used),
         DOMAIN at = DOMAIN len,
         NEW l \in DOMAIN len, NEW p \in 1 .. len[l],
         next2[at[l][p - 1]] = next[at[l][p]],
         \A n \in used : n # at[l][p - 1] /\ n # at[l][p] => next2[n] = next[n]
  PROVE  Linked(next2, Longer1(len, l, -1), Cut1(len, at, l, p), used \ {at[l][p]})
<1> DEFINE len2 == Longer1(len, l, -1)
           at2 == Cut1(len, at, l, p)
           n == len[l]
           gone == at[l][p]
<1>1. /\ DOMAIN len2 = DOMAIN len /\ len2[l] = n - 1
      /\ \A k \in DOMAIN len : k # l => len2[k] = len[k] /\ at2[k] = at[k]
      /\ n \in Nat /\ p \in 1 .. n /\ n - 1 \in Nat
  BY DEF Longer1, Cut1, Linked, Places
<1>2. \A i \in 0 .. n : at2[l][i] = IF i < p THEN at[l][i] ELSE at[l][i + 1]
  BY DEF Cut1
<1>3. \A i \in 0 .. n + 1 : at[l][i] \in used
  BY <1>1 DEF Linked, Places
<1>4. \A i, j \in 0 .. n + 1 : at[l][i] = at[l][j] => i = j
  BY <1>1 DEF Linked, Places
<1>5. p \in 0 .. n + 1 /\ p - 1 \in 0 .. n + 1
  BY <1>1
<1> DEFINE Was(x) == IF x < p THEN x ELSE x + 1
<1>6. ASSUME NEW i \in 0 .. n
      PROVE  /\ at2[l][i] = at[l][Was(i)] /\ Was(i) \in 0 .. n + 1 /\ Was(i) # p
             /\ at2[l][i] \in used \ {gone}
  <2>1. Was(i) \in 0 .. n + 1 /\ Was(i) # p
    BY <1>1
  <2>2. at2[l][i] = at[l][Was(i)]
    BY <1>2
  <2> HIDE DEF Was, at2
  <2> QED BY <1>3, <1>4, <1>5, <2>1, <2>2
<1> HIDE DEF len2, at2, n
<1>7. ASSUME NEW k \in DOMAIN len, k # l
      PROVE  /\ len[k] \in Nat
             /\ \A i \in Places(len, k) : at[k][i] \in used \ {gone}
             /\ \A i \in 0 .. len[k] : next2[at[k][i]] = at[k][i + 1]
             /\ next2[at[k][len[k] + 1]] = 0
  <2>1. /\ len[k] \in Nat
        /\ \A i \in Places(len, k) : at[k][i] \in used
        /\ \A i \in 0 .. len[k] : next[at[k][i]] = at[k][i + 1]
        /\ next[at[k][len[k] + 1]] = 0
    BY DEF Linked
  <2>2. \A i \in Places(len, k), j \in 0 .. n + 1 : at[k][i] # at[l][j]
    BY <1>7 DEF Linked, Places, n
  <2>3. \A i \in Places(len, k) : at[k][i] # at[l][p - 1] /\ at[k][i] # gone
    BY <1>5, <2>2
  <2>4. \A i \in Places(len, k) : next2[at[k][i]] = next[at[k][i]]
    BY <2>1, <2>3
  <2>5. len[k] + 1 \in Places(len, k) /\ \A i \in 0 .. len[k] : i \in Places(len, k)
    BY <2>1 DEF Places
  <2> HIDE DEF gone
  <2> QED BY <2>1, <2>3, <2>4, <2>5
<1>8. ASSUME NEW i \in 0 .. n
      PROVE  next2[at2[l][i]] = IF i = n THEN 0 ELSE at2[l][i + 1]
  <2>1. \A j \in 0 .. n : next[at[l][j]] = at[l][j + 1]
    BY DEF Linked, n
  <2>2. next[at[l][n + 1]] = 0
    BY DEF Linked, n
  <2>3. ASSUME NEW j \in 0 .. n + 1, j # p - 1, j # p
        PROVE  next2[at[l][j]] = next[at[l][j]]
    BY <1>3, <1>4, <1>5, <2>3
  <2>4. CASE i < p - 1
    <3>1. i \in 0 .. n + 1 /\ i # p - 1 /\ i # p /\ i + 1 \in 0 .. n /\ i # n
      BY <1>1, <2>4
    <3>2. at2[l][i] = at[l][i] /\ at2[l][i + 1] = at[l][i + 1]
      BY <1>1, <1>2, <2>4, <3>1
    <3> QED BY <2>1, <2>3, <3>1, <3>2
  <2>5. CASE i = p - 1
    <3>1. i < p /\ i + 1 = p /\ i + 1 \in 0 .. n /\ p \in 0 .. n /\ i # n /\ ~(p < p)
      BY <1>1, <2>5
    <3>2. at2[l][i] = at[l][p - 1] /\ at2[l][i + 1] = at[l][p + 1]
      BY <1>2, <2>5, <3>1
    <3> QED BY <2>1, <3>1, <3>2
  <2>6. CASE i >= p
    <3>1. i + 1 \in 0 .. n + 1 /\ i + 1 # p - 1 /\ i + 1 # p /\ ~(i < p)
      BY <1>1, <2>6
    <3>2. at2[l][i] = at[l][i + 1]
      BY <1>2, <3>1
    <3>3. CASE i = n
      BY <2>2, <2>3, <3>1, <3>2, <3>3
    <3>4. CASE i # n
      <4>1. i + 1 \in 0 .. n /\ ~(i + 1 < p)
        BY <1>1, <2>6, <3>4
      <4>2. at2[l][i + 1] = at[l][(i + 1) + 1] /\ next[at[l][i + 1]] = at[l][(i + 1) + 1]
        BY <1>2, <2>1, <4>1
      <4> QED BY <2>3, <3>1, <3>2, <3>4, <4>2
    <3> QED BY <3>3, <3>4
  <2>7. i < p - 1 \/ i = p - 1 \/ i >= p
    BY <1>1
  <2> QED BY <2>4, <2>5, <2>6, <2>7
<1>9. ASSUME NEW i \in 0 .. n, NEW j \in 0 .. n, at2[l][i] = at2[l][j]
      PROVE  i = j
  <2>1. Was(i) = Was(j)
    <3> HIDE DEF Was
    <3> QED BY <1>4, <1>6, <1>9
  <2> QED BY <1>1, <2>1
<1> HIDE DEF Was
<1>10. Places(len2, l) = 0 .. n
  BY <1>1 DEF Places
<1>11. \A x \in DOMAIN len : x # l => Places(len2, x) = Places(len, x)
  BY <1>1 DEF Places
<1>12. ASSUME NEW k \in DOMAIN len, NEW m \in DOMAIN len,
              NEW i \in Places(len2, k), NEW j \in Places(len2, m), at2[k][i] = at2[m][j]
       PROVE  k = m /\ i = j
  <2>1. CASE k = l /\ m = l
    BY <1>9, <1>10, <1>12, <2>1
  <2>2. CASE k # l /\ m # l
    BY <1>1, <1>11, <1>12, <2>2 DEF Linked
  <2>3. ASSUME NEW x \in 0 .. n, NEW y \in DOMAIN len, y # l, NEW z \in Places(len, y)
        PROVE  at2[l][x] # at[y][z]
    <3>1. at2[l][x] = at[l][Was(x)] /\ Was(x) \in Places(len, l)
      BY <1>6 DEF Places, n
    <3> QED BY <2>3, <3>1 DEF Linked
  <2> QED BY <1>1, <1>10, <1>11, <1>12, <2>1, <2>2, <2>3
<1>13. ASSUME NEW x \in used \ {gone}
       PROVE  \E k \in DOMAIN len : \E i \in Places(len2, k) : at2[k][i] = x
  <2>1. PICK k \in DOMAIN len : \E i \in Places(len, k) : at[k][i] = x
    BY DEF Linked
  <2>2. PICK i \in Places(len, k) : at[k][i] = x
    BY <2>1
  <2>3. CASE k # l
    BY <1>1, <1>11, <2>2, <2>3
  <2>4. CASE k = l
    <3>1. i \in 0 .. n + 1 /\ i # p
      BY <2>2, <2>4 DEF Places, n
    <3>2. CASE i < p
      <4>1. i \in 0 .. n
        BY <1>1, <3>1, <3>2
      <4> QED BY <1>2, <1>10, <2>2, <2>4, <3>2, <4>1
    <3>3. CASE i > p
      <4>1. i - 1 \in 0 .. n /\ (i - 1) + 1 = i /\ ~(i - 1 < p)
        BY <1>1, <3>1, <3>3
      <4>2. at2[l][i - 1] = at[l][i]
        BY <1>2, <4>1
      <4> QED BY <1>10, <2>2, <2>4, <4>1, <4>2
    <3> QED BY <1>1, <3>1, <3>2, <3>3
  <2> QED BY <2>3, <2>4
<1>14. ASSUME NEW k \in DOMAIN len
       PROVE  /\ len2[k] \in Nat
              /\ \A i \in Places(len2, k) : at2[k][i] \in used \ {gone}
              /\ \A i \in 0 .. len2[k] : next2[at2[k][i]] = at2[k][i + 1]
              /\ next2[at2[k][len2[k] + 1]] = 0
  <2>1. CASE k = l
    <3>1. /\ len2[k] + 1 = n /\ n \in 0 .. n
          /\ \A i \in 0 .. len2[k] : i \in 0 .. n /\ i # n
      BY <1>1, <2>1
    <3>2. \A i \in Places(len2, k) : at2[k][i] \in used \ {gone}
      BY <1>6, <1>10, <2>1
    <3> QED BY <1>1, <1>8, <2>1, <3>1, <3>2
  <2>2. CASE k # l
    BY <1>1, <1>7, <1>11, <2>2
  <2> QED BY <2>1, <2>2
<1> HIDE DEF gone
<1> QED BY <1>1, <1>12, <1>13, <1>14 DEF Linked, len2, at2, gone

(* A new chain of two sentinels.                                            *)
ChainTaken(next, next2, len, at, used, l, h, t, len2, at2) ==
  /\ Linked(next, len, at, used)
  /\ l \notin DOMAIN len /\ h \notin used /\ t \notin used /\ h # t
  /\ next2[h] = t /\ next2[t] = 0
  /\ \A n \in used : next2[n] = next[n]
  /\ DOMAIN len2 = DOMAIN len \cup {l} /\ len2[l] = 0
  /\ at2[l][0] = h /\ at2[l][1] = t
  /\ \A k \in DOMAIN len : len2[k] = len[k] /\ at2[k] = at[k]
LEMMA LinkedNew ==
  ASSUME NEW next, NEW next2, NEW len, NEW at, NEW used, NEW l, NEW h, NEW t,
         NEW len2, NEW at2, ChainTaken(next, next2, len, at, used, l, h, t, len2, at2)
  PROVE  Linked(next2, len2, at2, used \cup {h, t})
<1> USE DEF ChainTaken
<1>1. Places(len2, l) = {0, 1} /\ \A k \in DOMAIN len : Places(len2, k) = Places(len, k)
  BY DEF Places
<1>2. \A i \in Places(len2, l) : at2[l][i] \in {h, t}
  BY <1>1
<1>3. ASSUME NEW k \in DOMAIN len2
      PROVE  /\ len2[k] \in Nat
             /\ \A i \in Places(len2, k) : at2[k][i] \in used \cup {h, t}
             /\ \A i \in 0 .. len2[k] : next2[at2[k][i]] = at2[k][i + 1]
             /\ next2[at2[k][len2[k] + 1]] = 0
  <2>1. CASE k = l
    <3>1. \A i \in 0 .. len2[k] : i = 0
      BY <2>1
    <3> QED BY <1>2, <2>1, <3>1
  <2>2. CASE k \in DOMAIN len
    <3>1. /\ len[k] \in Nat
          /\ \A i \in Places(len, k) : at[k][i] \in used
          /\ \A i \in 0 .. len[k] : next[at[k][i]] = at[k][i + 1]
          /\ next[at[k][len[k] + 1]] = 0
      BY <2>2 DEF Linked
    <3>2. len[k] + 1 \in Places(len, k) /\ \A i \in 0 .. len[k] : i \in Places(len, k)
      BY <3>1 DEF Places
    <3> QED BY <1>1, <2>2, <3>1, <3>2
  <2> QED BY <2>1, <2>2
<1>4. ASSUME NEW k \in DOMAIN len2, NEW m \in DOMAIN len2,
             NEW i \in Places(len2, k), NEW j \in Places(len2, m), at2[k][i] = at2[m][j]
      PROVE  k = m /\ i = j
  <2>1. CASE k \in DOMAIN len /\ m \in DOMAIN len
    BY <1>1, <1>4, <2>1 DEF Linked
  <2>2. CASE k = l /\ m = l
    BY <1>1, <1>4, <2>2
  <2>3. \A x \in DOMAIN len : \A y \in Places(len2, x) : at2[x][y] \in used
    BY <1>1 DEF Linked
  <2>4. CASE k = l /\ m \in DOMAIN len
    BY <1>2, <1>4, <2>3, <2>4
  <2>5. CASE k \in DOMAIN len /\ m = l
    BY <1>2, <1>4, <2>3, <2>5
  <2> QED BY <2>1, <2>2, <2>4, <2>5
<1>5. ASSUME NEW x \in used \cup {h, t}
      PROVE  \E k \in DOMAIN len2 : \E i \in Places(len2, k) : at2[k][i] = x
  <2>1. CASE x \in used
    <3>1. PICK k \in DOMAIN len : \E i \in Places(len, k) : at[k][i] = x
      BY <2>1 DEF Linked
    <3> QED BY <1>1, <3>1
  <2>2. CASE x = h
    BY <1>1, <2>2
  <2>3. CASE x = t
    BY <1>1, <2>3
  <2> QED BY <2>1, <2>2, <2>3
<1> QED BY <1>3, <1>4, <1>5 DEF Linked

(* An empty chain, two sentinels, is given up.                              *)
ChainGiven(next, next2, len, at, used, l, len2, at2, used2) ==
  /\ Linked(next, len, at, used)
  /\ l \in DOMAIN len /\ len[l] = 0
  /\ used2 = used \ {at[l][0], at[l][1]}
  /\ \A n \in used2 : next2[n] = next[n]
  /\ DOMAIN len2 = DOMAIN len \ {l}
  /\ \A k \in DOMAIN len2 : len2[k] = len[k] /\ at2[k] = at[k]
LEMMA LinkedGone ==
  ASSUME NEW next, NEW next2, NEW len, NEW at, NEW used, NEW l, NEW len2, NEW at2, NEW used2,
         ChainGiven(next, next2, len, at, used, l, len2, at2, used2)
  PROVE  Linked(next2, len2, at2, used2)
<1> USE DEF ChainGiven
<1>1. Places(len, l) = {0, 1} /\ \A k \in DOMAIN len2 : Places(len2, k) = Places(len, k)
  BY DEF Places
<1>2. ASSUME NEW k \in DOMAIN len2
      PROVE  /\ len2[k] \in Nat
             /\ \A i \in Places(len2, k) : at2[k][i] \in used2
             /\ \A i \in 0 .. len2[k] : next2[at2[k][i]] = at2[k][i + 1]
             /\ next2[at2[k][len2[k] + 1]] = 0
  <2>1. k \in DOMAIN len /\ k # l
    OBVIOUS
  <2>2. /\ len[k] \in Nat
        /\ \A i \in Places(len, k) : at[k][i] \in used
        /\ \A i \in 0 .. len[k] : next[at[k][i]] = at[k][i + 1]
        /\ next[at[k][len[k] + 1]] = 0
    BY <2>1 DEF Linked
  <2>3. len[k] + 1 \in Places(len, k) /\ \A i \in 0 .. len[k] : i \in Places(len, k)
    BY <2>2 DEF Places
  <2>4. \A i \in Places(len, k) : at[k][i] \in used2
    <3>1. \A i \in Places(len, k), j \in Places(len, l) : at[k][i] # at[l][j]
      BY <2>1 DEF Linked
    <3> QED BY <1>1, <2>2, <3>1
  <2> QED BY <1>1, <2>2, <2>3, <2>4
<1>3. ASSUME NEW k \in DOMAIN len2, NEW m \in DOMAIN len2,
             NEW i \in Places(len2, k), NEW j \in Places(len2, m), at2[k][i] = at2[m][j]
      PROVE  k = m /\ i = j
  BY <1>1, <1>3 DEF Linked
<1>4. ASSUME NEW x \in used2
      PROVE  \E k \in DOMAIN len2 : \E i \in Places(len2, k) : at2[k][i] = x
  <2>1. PICK k \in DOMAIN len : \E i \in Places(len, k) : at[k][i] = x
    BY DEF Linked
  <2>2. k # l
    BY <1>1, <2>1
  <2> QED BY <1>1, <2>1, <2>2
<1> QED BY <1>2, <1>3, <1>4 DEF Linked

-----------------------------------------------------------------------------
(* The rows of the chains: the values of the nodes between the sentinels.   *)
Row(data, len, at, l) == [i \in 1 .. len[l] |-> data[at[l][i]]]
Rows(ids, data, len, at) ==
  [l \in ids |-> IF l \in DOMAIN len THEN Row(data, len, at, l) ELSE << >>]

(* What linking in and cutting out a node does to the rows.                 *)
Chains(A, ids, next, len, at, used, data) ==
  /\ Linked(next, len, at, used)
  /\ DOMAIN at = DOMAIN len /\ DOMAIN len \subseteq ids
  /\ \A n \in used : data[n] \in A

(* A node with value v is linked in behind place p, which is not the tail.  *)
ValueIn(A, ids, next, len, at, used, data, l, p, new, v, data2) ==
  /\ Chains(A, ids, next, len, at, used, data)
  /\ l \in DOMAIN len /\ p \in 0 .. len[l] /\ v \in A
  /\ data2[new] = v /\ \A n \in used : data2[n] = data[n]
LEMMA RowsPut ==
  ASSUME NEW A, NEW ids, NEW next, NEW len, NEW at, NEW used, NEW data,
         NEW l, NEW p, NEW new, NEW v, NEW data2,
         ValueIn(A, ids, next, len, at, used, data, l, p, new, v, data2)
  PROVE  Rows(ids, data2, Longer1(len, l, 1), Put1(len, at, l, p, new))
           = [Rows(ids, data, len, at) EXCEPT ![l] = InsertAt(@, p + 1, v)]
<1>0. /\ Linked(next, len, at, used) /\ DOMAIN at = DOMAIN len /\ DOMAIN len \subseteq ids
      /\ \A n \in used : data[n] \in A
      /\ l \in DOMAIN len /\ p \in 0 .. len[l] /\ v \in A
      /\ data2[new] = v /\ \A n \in used : data2[n] = data[n]
  BY DEF ValueIn, Chains
<1> USE <1>0
<1> DEFINE len2 == Longer1(len, l, 1)
           at2 == Put1(len, at, l, p, new)
           old == Row(data, len, at, l)
           row == Row(data2, len2, at2, l)
           n == len[l]
<1>1. /\ n \in Nat /\ p \in 0 .. n
      /\ DOMAIN len2 = DOMAIN len /\ len2[l] = n + 1
      /\ \A k \in DOMAIN len : k # l => len2[k] = len[k] /\ at2[k] = at[k]
  BY DEF Longer1, Put1, Linked
<1>2. \A i \in 0 .. n + 2 :
        at2[l][i] = IF i <= p THEN at[l][i] ELSE IF i = p + 1 THEN new ELSE at[l][i - 1]
  BY DEF Put1
<1>3. \A k \in DOMAIN len : \A i \in 1 .. len[k] : at[k][i] \in used
  <2>1. \A k \in DOMAIN len : len[k] \in Nat /\ \A i \in Places(len, k) : at[k][i] \in used
    BY DEF Linked
  <2> QED BY <2>1 DEF Places
<1>4. old \in Seq(A) /\ Len(old) = n /\ \A i \in 1 .. n : old[i] = data[at[l][i]]
  <2>1. old = [i \in 1 .. n |-> data[at[l][i]]]
    BY DEF Row
  <2>2. \A i \in 1 .. n : data[at[l][i]] \in A
    BY <1>3
  <2> HIDE DEF n, old
  <2>3. old \in [1 .. n -> A]
    BY ONLY <2>1, <2>2
  <2> QED BY <1>1, <2>1, <2>3
<1>5. row = [i \in 1 .. n + 1 |-> data2[at2[l][i]]]
  BY <1>1 DEF Row
<1> HIDE DEF len2, at2, n, old, row
<1>6. ASSUME NEW i \in 1 .. n + 1
      PROVE  row[i] = IF i < p + 1 THEN old[i] ELSE IF i = p + 1 THEN v ELSE old[i - 1]
  <2>0. i \in 0 .. n + 2 /\ row[i] = data2[at2[l][i]]
    BY <1>1, <1>5
  <2>1. CASE i <= p
    <3>1. i \in 1 .. n
      BY <1>1, <2>1
    <3>2. at2[l][i] = at[l][i]
      BY <1>2, <2>0, <2>1
    <3> QED BY <1>1, <1>3, <1>4, <2>0, <2>1, <3>1, <3>2 DEF n
  <2>2. CASE i = p + 1
    BY <1>1, <1>2, <2>0, <2>2
  <2>3. CASE i > p + 1
    <3>1. i - 1 \in 1 .. n
      BY <1>1, <2>3
    <3>2. at2[l][i] = at[l][i - 1]
      BY <1>1, <1>2, <2>0, <2>3
    <3> QED BY <1>1, <1>3, <1>4, <2>0, <2>3, <3>1, <3>2 DEF n
  <2>4. i <= p \/ i = p + 1 \/ i > p + 1
    BY <1>1
  <2> QED BY <2>1, <2>2, <2>3, <2>4
<1>7. row = InsertAt(old, p + 1, v)
  <2> DEFINE more == InsertAt(old, p + 1, v)
  <2>1. PICK s, q : s = old /\ q = p + 1
    OBVIOUS
  <2>2. /\ more \in Seq(A) /\ Len(more) = Len(old) + 1
        /\ \A i \in 1 .. Len(old) + 1 : more[i]
             = IF i < q THEN old[i] ELSE IF i = q THEN v ELSE old[i - 1]
    <3>1. s \in Seq(A) /\ q \in 1 .. Len(s) + 1 /\ v \in A
      BY <1>1, <1>4, <2>1
    <3>2. /\ InsertAt(s, q, v) \in Seq(A) /\ Len(InsertAt(s, q, v)) = Len(s) + 1
          /\ \A i \in 1 .. Len(s) + 1 : InsertAt(s, q, v)[i]
               = IF i < q THEN s[i] ELSE IF i = q THEN v ELSE s[i - 1]
      BY ONLY <3>1, InsertedNode, SMTT(30)
    <3> QED BY <2>1, <3>2
  <2> HIDE DEF more
  <2>3. \A i \in 1 .. n + 1 : row[i] = more[i]
    BY <1>4, <1>6, <2>1, <2>2
  <2>4. more = [i \in 1 .. n + 1 |-> more[i]]
    BY ONLY <1>1, <1>4, <2>2
  <2>5. row = more
    BY <1>5, <2>3, <2>4
  <2> QED BY <2>5 DEF more
<1>8. \A k \in DOMAIN len : k # l => Row(data2, len2, at2, k) = Row(data, len, at, k)
  BY <1>1, <1>3 DEF Row
<1> QED BY <1>1, <1>7, <1>8 DEF Rows, len2, at2, old, row

(* The node that was the tail gets a value; the new one is the tail.        *)
ValueLast(A, ids, next, len, at, used, data, l, p, new, v, data2) ==
  /\ Chains(A, ids, next, len, at, used, data)
  /\ l \in DOMAIN len /\ p = len[l] + 1 /\ new \notin used /\ v \in A
  /\ data2[at[l][p]] = v
  /\ \A n \in used : n # at[l][p] => data2[n] = data[n]
LEMMA RowsAppend ==
  ASSUME NEW A, NEW ids, NEW next, NEW len, NEW at, NEW used, NEW data,
         NEW l, NEW p, NEW new, NEW v, NEW data2,
         ValueLast(A, ids, next, len, at, used, data, l, p, new, v, data2)
  PROVE  Rows(ids, data2, Longer1(len, l, 1), Put1(len, at, l, p, new))
           = [Rows(ids, data, len, at) EXCEPT ![l] = Append(@, v)]
<1>0. /\ Linked(next, len, at, used) /\ DOMAIN at = DOMAIN len /\ DOMAIN len \subseteq ids
      /\ \A n \in used : data[n] \in A
      /\ l \in DOMAIN len /\ p = len[l] + 1 /\ v \in A
      /\ data2[at[l][len[l] + 1]] = v
      /\ \A n \in used : n # at[l][len[l] + 1] => data2[n] = data[n]
  BY DEF ValueLast, Chains
<1> USE <1>0
<1> DEFINE n == len[l]
           len2 == Longer1(len, l, 1)
           at2 == Put1(len, at, l, p, new)
           old == Row(data, len, at, l)
           row == Row(data2, len2, at2, l)
<1>1. /\ n \in Nat
      /\ DOMAIN len2 = DOMAIN len /\ len2[l] = n + 1
      /\ \A k \in DOMAIN len : k # l => len2[k] = len[k] /\ at2[k] = at[k]
  BY DEF Longer1, Put1, Linked
<1>p. p = n + 1
  OBVIOUS
<1>2. \A i \in 0 .. n + 1 : at2[l][i] = at[l][i]
  <2>1. \A i \in 0 .. n + 2 : at2[l][i]
          = IF i <= p THEN at[l][i] ELSE IF i = p + 1 THEN new ELSE at[l][i - 1]
    BY DEF Put1
  <2> HIDE DEF at2, n
  <2>2. \A i \in 0 .. n + 1 : i \in 0 .. n + 2 /\ i <= p
    BY <1>1, <1>p
  <2> QED BY <2>1, <2>2
<1>3. \A k \in DOMAIN len : \A i \in 1 .. len[k] :
        at[k][i] \in used /\ at[k][i] # at[l][n + 1]
  <2>1. \A k \in DOMAIN len : len[k] \in Nat /\ \A i \in Places(len, k) : at[k][i] \in used
    BY DEF Linked
  <2>2. \A k \in DOMAIN len : \A i \in 1 .. len[k] : i \in Places(len, k)
    BY <2>1 DEF Places
  <2>3. n + 1 \in Places(len, l)
    BY <1>1 DEF Places
  <2>4. ASSUME NEW k \in DOMAIN len, NEW i \in 1 .. len[k], at[k][i] = at[l][n + 1]
        PROVE  FALSE
    <3>1. k = l /\ i = n + 1
      <4> HIDE DEF n
      <4> QED BY <2>2, <2>3, <2>4 DEF Linked
    <3> QED BY <1>1, <3>1
  <2> QED BY <2>1, <2>2, <2>4
<1>4. old \in Seq(A) /\ Len(old) = n /\ \A i \in 1 .. n : old[i] = data[at[l][i]]
  <2>1. old = [i \in 1 .. n |-> data[at[l][i]]]
    BY DEF Row
  <2>2. \A i \in 1 .. n : data[at[l][i]] \in A
    BY <1>3
  <2> HIDE DEF n, old
  <2>3. old \in [1 .. n -> A]
    BY ONLY <2>1, <2>2
  <2> QED BY <1>1, <2>1, <2>3
<1>5. row = [i \in 1 .. n + 1 |-> data2[at2[l][i]]] /\ data2[at[l][n + 1]] = v
  BY <1>1 DEF Row
<1> HIDE DEF len2, at2, n, old, row
<1>6. ASSUME NEW i \in 1 .. n + 1
      PROVE  row[i] = Append(old, v)[i]
  <2>1. i \in 0 .. n + 1 /\ row[i] = data2[at[l][i]]
    BY <1>1, <1>2, <1>5
  <2>2. CASE i = n + 1
    BY <1>1, <1>4, <1>5, <2>1, <2>2
  <2>3. CASE i \in 1 .. n
    <3>1. row[i] = old[i]
      BY <1>3, <1>4, <2>1, <2>3 DEF n
    <3>2. Append(old, v)[i] = old[i]
      BY ONLY v \in A, <1>1, <1>4, <2>3
    <3> QED BY <3>1, <3>2
  <2>4. i = n + 1 \/ i \in 1 .. n
    BY <1>1
  <2> QED BY <2>2, <2>3, <2>4
<1>7. row = Append(old, v)
  <2>1. Append(old, v) \in Seq(A) /\ Len(Append(old, v)) = n + 1
    BY <1>4
  <2>2. Append(old, v) = [i \in 1 .. n + 1 |-> Append(old, v)[i]]
    <3> DEFINE more == Append(old, v)
    <3> HIDE DEF more
    <3>1. more = [i \in 1 .. n + 1 |-> more[i]]
      <4>1. more \in Seq(A) /\ Len(more) = n + 1
        BY <2>1 DEF more
      <4> QED BY ONLY <4>1
    <3> QED BY <3>1 DEF more
  <2> QED BY <1>5, <1>6, <2>2
<1>8. \A k \in DOMAIN len : k # l => Row(data2, len2, at2, k) = Row(data, len, at, k)
  <2>1. \A k \in DOMAIN len : \A i \in 1 .. len[k] : data2[at[k][i]] = data[at[k][i]]
    BY <1>3 DEF n
  <2> QED BY <1>1, <2>1 DEF Row
<1> QED BY <1>1, <1>7, <1>8 DEF Rows, len2, at2, old, row, n

(* Inserting behind the last value is appending.                            *)
LEMMA InsertedLast ==
  ASSUME NEW A, NEW s \in Seq(A), NEW v \in A
  PROVE  InsertAt(s, Len(s) + 1, v) = Append(s, v)
<1> DEFINE n == Len(s)
           q == n + 1
<1>1. n \in Nat /\ q \in 1 .. Len(s) + 1
  OBVIOUS
<1> HIDE DEF q
<1>2. /\ InsertAt(s, q, v) \in Seq(A) /\ Len(InsertAt(s, q, v)) = n + 1
      /\ \A i \in 1 .. n + 1 : InsertAt(s, q, v)[i]
           = IF i < q THEN s[i] ELSE IF i = q THEN v ELSE s[i - 1]
  BY <1>1, InsertedNode
<1>3. /\ Append(s, v) \in Seq(A) /\ Len(Append(s, v)) = n + 1
      /\ \A i \in 1 .. n + 1 : Append(s, v)[i] = IF i < q THEN s[i] ELSE v
  BY DEF q
<1>4. \A i \in 1 .. n + 1 : Append(s, v)[i] = InsertAt(s, q, v)[i]
  BY <1>1, <1>2, <1>3 DEF q
<1> HIDE DEF n
<1>5. InsertAt(s, q, v) = Append(s, v)
  BY <1>2, <1>3, <1>4, SameSequence
<1> QED BY <1>5 DEF q, n

(* The node at place p is cut out.                                          *)
ValueOut(A, ids, next, len, at, used, data, l, p, data2) ==
  /\ Chains(A, ids, next, len, at, used, data)
  /\ l \in DOMAIN len /\ p \in 1 .. len[l]
  /\ \A n \in used : n # at[l][p] => data2[n] = data[n]
LEMMA RowsCut ==
  ASSUME NEW A, NEW ids, NEW next, NEW len, NEW at, NEW used, NEW data,
         NEW l, NEW p, NEW data2,
         ValueOut(A, ids, next, len, at, used, data, l, p, data2)
  PROVE  Rows(ids, data2, Longer1(len, l, -1), Cut1(len, at, l, p))
           = [Rows(ids, data, len, at) EXCEPT ![l] = RemoveAt(@, p)]
<1>0. /\ Linked(next, len, at, used) /\ DOMAIN at = DOMAIN len /\ DOMAIN len \subseteq ids
      /\ \A n \in used : data[n] \in A
      /\ l \in DOMAIN len /\ p \in 1 .. len[l]
      /\ \A n \in used : n # at[l][p] => data2[n] = data[n]
  BY DEF ValueOut, Chains
<1> USE <1>0
<1> DEFINE len2 == Longer1(len, l, -1)
           at2 == Cut1(len, at, l, p)
           old == Row(data, len, at, l)
           row == Row(data2, len2, at2, l)
           n == len[l]
<1>1. /\ n \in Nat /\ p \in 1 .. n
      /\ DOMAIN len2 = DOMAIN len /\ len2[l] = n - 1
      /\ \A k \in DOMAIN len : k # l => len2[k] = len[k] /\ at2[k] = at[k]
  BY DEF Longer1, Cut1, Linked
<1>2. \A i \in 0 .. n : at2[l][i] = IF i < p THEN at[l][i] ELSE at[l][i + 1]
  BY DEF Cut1
<1>3. \A k \in DOMAIN len : \A i \in 1 .. len[k] :
        at[k][i] \in used /\ (at[k][i] = at[l][p] => k = l /\ i = p)
  <2>1. \A k \in DOMAIN len : len[k] \in Nat /\ \A i \in Places(len, k) : at[k][i] \in used
    BY DEF Linked
  <2>2. \A k \in DOMAIN len : \A i \in 1 .. len[k] : i \in Places(len, k)
    BY <2>1 DEF Places
  <2> QED BY <2>1, <2>2 DEF Linked
<1>4. old \in Seq(A) /\ Len(old) = n /\ \A i \in 1 .. n : old[i] = data[at[l][i]]
  <2>1. old = [i \in 1 .. n |-> data[at[l][i]]]
    BY DEF Row
  <2>2. \A i \in 1 .. n : data[at[l][i]] \in A
    BY <1>3
  <2> HIDE DEF n, old
  <2>3. old \in [1 .. n -> A]
    BY ONLY <2>1, <2>2
  <2> QED BY <1>1, <2>1, <2>3
<1>5. row = [i \in 1 .. n - 1 |-> data2[at2[l][i]]]
  BY <1>1 DEF Row
<1>9. \A i \in 1 .. n : i # p => data2[at[l][i]] = old[i]
  BY <1>1, <1>3, <1>4
<1> HIDE DEF len2, at2, n, old, row
<1>6. ASSUME NEW i \in 1 .. n - 1
      PROVE  row[i] = IF i < p THEN old[i] ELSE old[i + 1]
  <2>0. i \in 0 .. n /\ row[i] = data2[at2[l][i]] /\ i \in 1 .. n /\ i + 1 \in 1 .. n
    BY <1>1, <1>5
  <2>1. CASE i < p
    BY <1>1, <1>2, <1>9, <2>0, <2>1
  <2>2. CASE ~(i < p)
    <3>1. i + 1 # p
      BY <1>1, <2>2
    <3> QED BY <1>2, <1>9, <2>0, <2>2, <3>1
  <2> QED BY <2>1, <2>2
<1>7. row = RemoveAt(old, p)
  <2>2. /\ RemoveAt(old, p) \in Seq(A) /\ Len(RemoveAt(old, p)) = n - 1
        /\ \A i \in 1 .. n - 1 : RemoveAt(old, p)[i] = IF i < p THEN old[i] ELSE old[i + 1]
    BY <1>1, <1>4, RemovedNode
  <2>4. RemoveAt(old, p) = [i \in 1 .. n - 1 |-> RemoveAt(old, p)[i]]
    BY <1>1, <2>2
  <2> QED BY <1>5, <1>6, <2>2, <2>4
<1>8. \A k \in DOMAIN len : k # l => Row(data2, len2, at2, k) = Row(data, len, at, k)
  BY <1>1, <1>3 DEF Row
<1> QED BY <1>1, <1>7, <1>8 DEF Rows, len2, at2, old, row

-----------------------------------------------------------------------------
(* Walks along the chains, as the loops of the list calls make them.        *)

(* Chains that come or go without values change no row.                     *)
LEMMA RowsKept ==
  ASSUME NEW len, NEW at, NEW data, NEW len2, NEW at2, NEW data2, NEW ids,
         \A k \in DOMAIN len2 : k \in DOMAIN len =>
           /\ len2[k] = len[k] /\ at2[k] = at[k]
           /\ \A i \in 1 .. len[k] : data2[at[k][i]] = data[at[k][i]],
         \A k \in DOMAIN len2 : k \notin DOMAIN len => len2[k] = 0,
         \A k \in DOMAIN len : k \notin DOMAIN len2 => len[k] = 0
  PROVE  Rows(ids, data2, len2, at2) = Rows(ids, data, len, at)
<1> DEFINE One(k) == IF k \in DOMAIN len THEN Row(data, len, at, k) ELSE << >>
           Two(k) == IF k \in DOMAIN len2 THEN Row(data2, len2, at2, k) ELSE << >>
<1>1. ASSUME NEW k
      PROVE  Two(k) = One(k)
  <2>1. CASE k \in DOMAIN len /\ k \in DOMAIN len2
    BY <2>1 DEF Row
  <2>2. CASE k \in DOMAIN len /\ k \notin DOMAIN len2
    <3>1. Row(data, len, at, k) = [i \in 1 .. 0 |-> data[at[k][i]]]
      BY <2>2 DEF Row
    <3>2. Row(data, len, at, k) = << >>
      BY ONLY <3>1
    <3> QED BY <2>2, <3>2
  <2>3. CASE k \notin DOMAIN len /\ k \in DOMAIN len2
    <3>1. Row(data2, len2, at2, k) = [i \in 1 .. 0 |-> data2[at2[k][i]]]
      BY <2>3 DEF Row
    <3>2. Row(data2, len2, at2, k) = << >>
      BY ONLY <3>1
    <3> QED BY <2>3, <3>2
  <2>4. CASE k \notin DOMAIN len /\ k \notin DOMAIN len2
    BY <2>4
  <2> QED BY <2>1, <2>2, <2>3, <2>4
<1>2. Rows(ids, data, len, at) = [k \in ids |-> One(k)]
      /\ Rows(ids, data2, len2, at2) = [k \in ids |-> Two(k)]
  BY DEF Rows
<1> HIDE DEF One, Two
<1> QED BY <1>1, <1>2

(* A chain has no more nodes than there is memory for.                      *)
LEMMA ChainFits ==
  ASSUME NEW Memory, IsFiniteSet(Memory),
         NEW next, NEW len, NEW at, NEW used, Linked(next, len, at, used),
         used \subseteq Memory, NEW l, l \in DOMAIN len
  PROVE  Cardinality(Memory) \in Nat /\ len[l] + 2 <= Cardinality(Memory)
<1> DEFINE n == len[l]
           Spots == 0 .. n + 1
           f == [i \in Spots |-> at[l][i]]
<1>1. n \in Nat /\ \A i \in Spots : at[l][i] \in used
  BY DEF Linked, Places
<1>2. \A i, j \in Spots : at[l][i] = at[l][j] => i = j
  BY DEF Linked, Places
<1>3. Cardinality(Spots) = n + 2
  <2>1. 0 \in Int /\ n + 1 \in Int
    BY <1>1
  <2>2. Cardinality(Spots) = IF 0 > n + 1 THEN 0 ELSE (n + 1) - 0 + 1
    BY ONLY <2>1, FS_Interval
  <2> QED BY <1>1, <2>2
<1> HIDE DEF n, Spots
<1>4. f \in Injection(Spots, Memory)
  <2>1. f \in [Spots -> Memory]
    BY <1>1
  <2>2. \A i, j \in Spots : f[i] = f[j] => i = j
    BY <1>2
  <2> HIDE DEF f
  <2> QED BY <2>1, <2>2 DEF Injection, IsInjective
<1>5. Cardinality(Spots) <= Cardinality(Memory)
  <2> HIDE DEF f
  <2> QED BY ONLY <1>4, IsFiniteSet(Memory), FS_Injection
<1>6. Cardinality(Memory) \in Nat
  BY FS_CardinalityType
<1> QED BY <1>1, <1>3, <1>5, <1>6 DEF n

(* Walking along next from the first node of a chain meets its nodes, in    *)
(* order, and then only the null pointer.                                   *)
LEMMA WalkAlong ==
  ASSUME NEW Memory, IsFiniteSet(Memory), 0 \notin Memory,
         NEW next, NEW len, NEW at, NEW used, Linked(next, len, at, used),
         used \subseteq Memory, NEW l, l \in DOMAIN len,
         NEW w, \A k \in 0 .. Cardinality(Memory) :
           w[k] = IF k = 0 THEN at[l][0]
                  ELSE IF w[k - 1] \in Memory THEN next[w[k - 1]] ELSE 0
  PROVE  \A k \in 0 .. Cardinality(Memory) :
           w[k] = IF k <= len[l] + 1 THEN at[l][k] ELSE 0
<1> DEFINE n == len[l]
           c == Cardinality(Memory)
           There(k) == w[k] = IF k <= n + 1 THEN at[l][k] ELSE 0
           Spots == {k \in 0 .. c : There(k)}
<1>1. n \in Nat /\ c \in Nat
  BY FS_CardinalityType DEF Linked
<1>2. /\ \A i \in 0 .. n + 1 : at[l][i] \in Memory
      /\ \A i \in 0 .. n : next[at[l][i]] = at[l][i + 1]
      /\ next[at[l][n + 1]] = 0
  BY DEF Linked, Places
<1>3. \A k \in 0 .. c : w[k] = IF k = 0 THEN at[l][0]
                               ELSE IF w[k - 1] \in Memory THEN next[w[k - 1]] ELSE 0
  OBVIOUS
<1> HIDE DEF n, c
<1>4. 0 \in Spots
  BY <1>1, <1>3
<1>5. ASSUME NEW k \in 0 .. c - 1, k \in Spots
      PROVE  k + 1 \in Spots
  <2>1. k \in 0 .. c /\ k + 1 \in 0 .. c /\ (k + 1) - 1 = k /\ k + 1 # 0 /\ k \in Nat
    BY <1>1
  <2>2. w[k + 1] = IF w[k] \in Memory THEN next[w[k]] ELSE 0
    BY <1>3, <2>1
  <2>3. w[k] = IF k <= n + 1 THEN at[l][k] ELSE 0
    BY <1>5
  <2>4. CASE k <= n
    <3>1. k \in 0 .. n /\ k \in 0 .. n + 1 /\ k + 1 <= n + 1 /\ k <= n + 1
      BY <1>1, <2>1, <2>4
    <3>2. w[k + 1] = at[l][k + 1]
      BY <1>2, <2>2, <2>3, <3>1
    <3> QED BY <2>1, <3>1, <3>2
  <2>5. CASE k = n + 1
    <3>1. n + 1 \in 0 .. n + 1 /\ ~(k + 1 <= n + 1) /\ k <= n + 1
      BY <1>1, <2>5
    <3>2. w[k + 1] = 0
      BY <1>2, <2>2, <2>3, <2>5, <3>1
    <3> QED BY <2>1, <3>1, <3>2
  <2>6. CASE k > n + 1
    <3>1. ~(k + 1 <= n + 1) /\ ~(k <= n + 1)
      BY <1>1, <2>1, <2>6
    <3>2. w[k + 1] = 0
      BY <2>2, <2>3, <3>1
    <3> QED BY <2>1, <3>1, <3>2
  <2> QED BY <1>1, <2>1, <2>4, <2>5, <2>6
<1> HIDE DEF Spots
<1>6. \A k \in 0 .. c : k \in Spots
  BY <1>1, <1>4, <1>5, UpTo
<1> QED BY <1>6 DEF Spots, n, c

(* The recursive functions that walk are there.                             *)
LEMMA WalkExists ==
  ASSUME NEW Memory, IsFiniteSet(Memory), 0 \notin Memory,
         NEW next, NEW first, \A m \in Memory : next[m] \in Memory \cup {0},
         first \in Memory \cup {0}
  PROVE  \E w : w = [k \in 0 .. Cardinality(Memory) |->
                       IF k = 0 THEN first
                       ELSE IF w[k - 1] \in Memory THEN next[w[k - 1]] ELSE 0]
<1> DEFINE A == Memory \cup {0}
           c == Cardinality(Memory)
           go == [x \in A |-> IF x \in Memory THEN next[x] ELSE 0]
           step == [k \in 1 .. c |-> go]
<1>1. c \in Nat /\ first \in A /\ go \in [A -> A]
  BY FS_CardinalityType
<1>2. step \in [1 .. c -> [A -> A]]
  <2> HIDE DEF go
  <2> QED BY <1>1
<1>g. \A k \in 1 .. c : step[k] = go
  OBVIOUS
<1>3. \A x \in A : go[x] = IF x \in Memory THEN next[x] ELSE 0
  OBVIOUS
<1> HIDE DEF A, c, go, step
<1>i. c \in Nat /\ first \in A
  BY <1>1
<1>4. PICK f \in [0 .. c -> A] : f[0] = first /\ \A k \in 1 .. c : f[k] = step[k][f[k - 1]]
  BY ONLY <1>i, <1>2, Iterates
<1>5. ASSUME NEW k \in 0 .. c
      PROVE  f[k] = IF k = 0 THEN first
                    ELSE IF f[k - 1] \in Memory THEN next[f[k - 1]] ELSE 0
  <2>1. CASE k = 0
    BY <1>4, <2>1
  <2>2. CASE k # 0
    <3>1. k \in 1 .. c /\ k - 1 \in 0 .. c
      BY <1>1, <2>2
    <3>2. f[k - 1] \in A /\ f[k] = step[k][f[k - 1]] /\ step[k] = go
      BY <1>g, <1>4, <3>1
    <3> QED BY <1>3, <2>2, <3>2
  <2> QED BY <2>1, <2>2
<1>6. f = [k \in 0 .. c |-> IF k = 0 THEN first
                            ELSE IF f[k - 1] \in Memory THEN next[f[k - 1]] ELSE 0]
  <2>1. f = [k \in 0 .. c |-> f[k]]
    OBVIOUS
  <2> QED BY <1>5, <2>1
<1> QED BY <1>6 DEF c

-----------------------------------------------------------------------------
(* The singly linked lists. *)

(* The parts of the memory of List that the chains are about.               *)
NextOf(m) == [n \in Node |-> m[n].next]
DataOf(m) == [n \in Node |-> m[n].data]
Held == Val \cup {Nil, Dead}
NodeType == [next : Node \cup {Nil}, data : Held, freed : BOOLEAN]
ListOf(len, at, l) ==
  IF l \in DOMAIN len
  THEN [head |-> at[l][0], tail |-> at[l][len[l] + 1], length |-> len[l]] ELSE NoList
UsedIn(m) == {n \in Node : ~m[n].freed}

(* The live lists are the domain of len and at: each is a chain of nodes,   *)
(* from its head to its tail, and the nodes that are not free are on them.  *)
Shape(m, ls, len, at, used) ==
  /\ m \in [Node -> NodeType]
  /\ used \subseteq Node
  /\ DOMAIN at = DOMAIN len /\ DOMAIN len \subseteq ListId
  /\ Linked(NextOf(m), len, at, used)
  /\ ls = [l \in ListId |-> ListOf(len, at, l)]

(* The rows of a memory, and what a change of it has to establish.          *)
RowsOf(m, len, at) == Rows(ListId, DataOf(m), len, at)
Holds(m, ls, len, at, used, rows) ==
  Shape(m, ls, len, at, used) /\ RowsOf(m, len, at) = rows

(* The invariant: some chains shape the memory. It is the mapping that a    *)
(* walk over the pointers cannot give.                                      *)
ListInv == \E len, at : Shape(nodes, lists, len, at, UsedIn(nodes))

(* The walk and the values of List, of any memory m. *)
WalkOf(m, first) ==
  LET at[k \in 0 .. Cardinality(Node)] ==
        IF k = 0 THEN first
        ELSE IF at[k - 1] \in Node THEN m[at[k - 1]].next ELSE Nil
  IN at
ValuesOf(m, ls, l) ==
  IF ls[l] = NoList THEN << >>
  ELSE LET w == WalkOf(m, ls[l].head)
           last == Max({k \in DOMAIN w : w[k] # Nil})
       IN [k \in 1 .. last - 1 |-> m[w[k]].data]

(* What the shape says of one live list.                                    *)
LEMMA ShapeFacts ==
  ASSUME NEW m, NEW ls, NEW len, NEW at, NEW used, Shape(m, ls, len, at, used),
         NEW l, l \in DOMAIN len
  PROVE  /\ len[l] \in Nat /\ l \in ListId
         /\ \A i \in 0 .. len[l] + 1 : at[l][i] \in used /\ at[l][i] \in Node
         /\ \A i \in 0 .. len[l] : m[at[l][i]].next = at[l][i + 1]
         /\ m[at[l][len[l] + 1]].next = Nil
         /\ \A i, j \in 0 .. len[l] + 1 : at[l][i] = at[l][j] => i = j
         /\ ls[l].head = at[l][0] /\ ls[l].tail = at[l][len[l] + 1] /\ ls[l].length = len[l]
         /\ ls[l] # NoList
<1>1. /\ len[l] \in Nat
      /\ \A i \in Places(len, l) : at[l][i] \in used
      /\ \A i \in 0 .. len[l] : NextOf(m)[at[l][i]] = at[l][i + 1]
      /\ NextOf(m)[at[l][len[l] + 1]] = 0
      /\ \A i, j \in Places(len, l) : at[l][i] = at[l][j] => i = j
      /\ used \subseteq Node /\ l \in ListId
  BY DEF Shape, Linked
<1>2. \A i \in 0 .. len[l] + 1 : at[l][i] \in used /\ at[l][i] \in Node
  BY <1>1 DEF Places
<1>3. /\ \A i \in 0 .. len[l] : m[at[l][i]].next = at[l][i + 1]
      /\ m[at[l][len[l] + 1]].next = Nil
  BY <1>1, <1>2 DEF NextOf, Nil
<1>4. ls[l] = [head |-> at[l][0], tail |-> at[l][len[l] + 1], length |-> len[l]]
  BY <1>1 DEF Shape, ListOf
<1>5. at[l][0] # 0
  BY <1>1, <1>2, ListAssumption DEF Nil
<1>6. ls[l] # NoList
  BY <1>4, <1>5 DEF NoList, Nil
<1> QED BY <1>1, <1>2, <1>3, <1>4, <1>6 DEF Places

(* A list that exists is a chain.                                           *)
LEMMA LiveLists ==
  ASSUME NEW m, NEW ls, NEW len, NEW at, NEW used, Shape(m, ls, len, at, used),
         NEW l, l \in ListId, ls[l] # NoList
  PROVE  l \in DOMAIN len
BY DEF Shape, ListOf

(* The walk from the head visits the nodes of the chain, and then nothing.  *)
LEMMA WalkIs ==
  ASSUME NEW m, NEW ls, NEW len, NEW at, NEW used, Shape(m, ls, len, at, used),
         NEW l, l \in DOMAIN len, NEW w, w = WalkOf(m, ls[l].head)
  PROVE  /\ Cardinality(Node) \in Nat /\ len[l] + 2 <= Cardinality(Node)
         /\ DOMAIN w = 0 .. Cardinality(Node)
         /\ \A k \in 0 .. Cardinality(Node) :
              w[k] = IF k <= len[l] + 1 THEN at[l][k] ELSE Nil
<1> DEFINE c == Cardinality(Node)
           next == NextOf(m)
           first == at[l][0]
<1>1. /\ Linked(next, len, at, used) /\ used \subseteq Node
      /\ IsFiniteSet(Node) /\ 0 \notin Node
  BY ListAssumption DEF Shape, Nil
<1>2. c \in Nat /\ len[l] + 2 <= c
  <2> HIDE DEF next
  <2> QED BY <1>1, ChainFits
<1>3. \A n \in Node : next[n] = m[n].next /\ next[n] \in Node \cup {0}
  <2>1. m \in [Node -> NodeType]
    BY DEF Shape
  <2>2. \A n \in Node : m[n].next \in Node \cup {0}
    BY <2>1 DEF NodeType, Nil
  <2> QED BY <2>2 DEF NextOf
<1>4. ls[l].head = first /\ first \in Node
  BY ShapeFacts
<1>5. WalkOf(m, first) = CHOOSE f : f = [k \in 0 .. c |->
        IF k = 0 THEN first ELSE IF f[k - 1] \in Node THEN m[f[k - 1]].next ELSE Nil]
  BY DEF WalkOf
<1>6. \E f : f = [k \in 0 .. c |->
        IF k = 0 THEN first ELSE IF f[k - 1] \in Node THEN next[f[k - 1]] ELSE 0]
  <2>1. \A n \in Node : next[n] \in Node \cup {0}
    BY <1>3
  <2> HIDE DEF next, first
  <2> QED BY ONLY <1>1, <2>1, <1>4, WalkExists DEF c
<1>7. PICK f : f = [k \in 0 .. c |->
        IF k = 0 THEN first ELSE IF f[k - 1] \in Node THEN next[f[k - 1]] ELSE 0]
  BY <1>6
<1>8. f = [k \in 0 .. c |->
        IF k = 0 THEN first ELSE IF f[k - 1] \in Node THEN m[f[k - 1]].next ELSE Nil]
  <2> HIDE DEF next, first, c
  <2>1. \A k \in 0 .. c :
          (IF k = 0 THEN first ELSE IF f[k - 1] \in Node THEN next[f[k - 1]] ELSE 0)
          = (IF k = 0 THEN first ELSE IF f[k - 1] \in Node THEN m[f[k - 1]].next ELSE Nil)
    BY <1>3 DEF Nil
  <2> QED BY <1>7, <2>1
<1>9. w = [k \in 0 .. c |->
        IF k = 0 THEN first ELSE IF w[k - 1] \in Node THEN m[w[k - 1]].next ELSE Nil]
  <2> HIDE DEF next, first, c
  <2> QED BY <1>4, <1>5, <1>8
<1>10. \A k \in 0 .. c : w[k] = IF k = 0 THEN first
                                ELSE IF w[k - 1] \in Node THEN next[w[k - 1]] ELSE 0
  <2> HIDE DEF next, first, c
  <2> QED BY <1>3, <1>9 DEF Nil
<1>11. \A k \in 0 .. c : w[k] = IF k <= len[l] + 1 THEN at[l][k] ELSE 0
  <2> HIDE DEF next
  <2> QED BY <1>1, <1>10, WalkAlong
<1> QED BY <1>2, <1>9, <1>11 DEF Nil

(* What the walk reads is the row of the chain.                             *)
LEMMA ValuesAre ==
  ASSUME NEW m, NEW ls, NEW len, NEW at, NEW used, Shape(m, ls, len, at, used),
         NEW l, l \in ListId
  PROVE  ValuesOf(m, ls, l) = RowsOf(m, len, at)[l]
<1>1. CASE l \notin DOMAIN len
  <2>1. ls[l] = NoList
    BY <1>1 DEF Shape, ListOf
  <2> QED BY <1>1, <2>1 DEF ValuesOf, RowsOf, Rows
<1>2. CASE l \in DOMAIN len
  <2> DEFINE w == WalkOf(m, ls[l].head)
             n == len[l]
             c == Cardinality(Node)
             Spots == {k \in DOMAIN w : w[k] # Nil}
  <2>1. /\ c \in Nat /\ n + 2 <= c /\ n \in Nat
        /\ DOMAIN w = 0 .. c
        /\ \A k \in 0 .. c : w[k] = IF k <= n + 1 THEN at[l][k] ELSE Nil
    BY <1>2, WalkIs, ShapeFacts
  <2>2. /\ \A k \in 0 .. n + 1 : at[l][k] \in Node
        /\ Nil \notin Node
        /\ ls[l] # NoList
    BY <1>2, ShapeFacts, ListAssumption
  <2> HIDE DEF w, n, c
  <2>3. Spots = 0 .. n + 1
    <3>1. \A k \in 0 .. n + 1 : k \in 0 .. c /\ k <= n + 1 /\ w[k] = at[l][k]
      BY <2>1
    <3>2. \A k \in 0 .. c : k \in 0 .. n + 1 \/ ~(k <= n + 1)
      BY <2>1
    <3> QED BY <2>1, <2>2, <3>1, <3>2
  <2> HIDE DEF Spots
  <2>4. Max(Spots) = n + 1
    <3>1. n + 1 \in Spots /\ \A y \in Spots : n + 1 >= y
      BY <2>1, <2>3
    <3>2. \A x \in Spots : (\A y \in Spots : x >= y) => x = n + 1
      BY <2>1, <2>3
    <3> QED BY <3>1, <3>2 DEF Max
  <2> DEFINE Upto(top) == [k \in 1 .. top |-> m[w[k]].data]
  <2>5. ValuesOf(m, ls, l) = Upto(n)
    <3>1. ValuesOf(m, ls, l) = Upto(Max(Spots) - 1)
      BY <2>2, Zenon DEF ValuesOf, w, Spots
    <3>2. Max(Spots) - 1 = n
      BY <2>1, <2>4
    <3> HIDE DEF Upto
    <3> QED BY <3>1, <3>2
  <2>6. \A k \in 1 .. n : m[w[k]].data = DataOf(m)[at[l][k]]
    <3>1. \A k \in 1 .. n : k \in 0 .. c /\ k <= n + 1 /\ k \in 0 .. n + 1
      BY <2>1
    <3>2. \A k \in 1 .. n : w[k] = at[l][k] /\ at[l][k] \in Node
      BY <2>1, <2>2, <3>1
    <3> QED BY <3>2 DEF DataOf
  <2>8. ValuesOf(m, ls, l) = [k \in 1 .. n |-> DataOf(m)[at[l][k]]]
    BY <2>5, <2>6
  <2> QED BY <1>2, <2>8 DEF RowsOf, Rows, Row, n
<1> QED BY <1>1, <1>2

(* What a node is and where it is decides what the lists hold.              *)
MiddleIn(m, ls, len, at, used, l, p, new, v, m2, ls2) ==
  /\ Shape(m, ls, len, at, used)
  /\ l \in DOMAIN len /\ p \in 0 .. len[l] /\ new \in Node \ used /\ v \in Held
  /\ m2 \in [Node -> NodeType]
  /\ m2[new].next = m[at[l][p]].next /\ m2[new].data = v
  /\ m2[at[l][p]].next = new /\ m2[at[l][p]].data = m[at[l][p]].data
  /\ \A n \in used : n # at[l][p] => m2[n].next = m[n].next /\ m2[n].data = m[n].data
  /\ ls2 = [ls EXCEPT ![l].length = @ + 1]
LEMMA InMiddle ==
  ASSUME NEW m, NEW ls, NEW len, NEW at, NEW used, NEW l, NEW p, NEW new, NEW v,
         NEW m2, NEW ls2, MiddleIn(m, ls, len, at, used, l, p, new, v, m2, ls2)
  PROVE  Holds(m2, ls2, Longer1(len, l, 1), Put1(len, at, l, p, new), used \cup {new},
               [RowsOf(m, len, at) EXCEPT ![l] = InsertAt(@, p + 1, v)])
<1>0. /\ Shape(m, ls, len, at, used)
      /\ l \in DOMAIN len /\ p \in 0 .. len[l] /\ new \in Node \ used /\ v \in Held
      /\ m2 \in [Node -> NodeType]
      /\ m2[new].next = m[at[l][p]].next /\ m2[new].data = v
      /\ m2[at[l][p]].next = new /\ m2[at[l][p]].data = m[at[l][p]].data
      /\ \A n \in used : n # at[l][p] => m2[n].next = m[n].next /\ m2[n].data = m[n].data
      /\ ls2 = [ls EXCEPT ![l].length = @ + 1]
  BY DEF MiddleIn
<1>a. PICK len2, at2 : len2 = Longer1(len, l, 1) /\ at2 = Put1(len, at, l, p, new)
  OBVIOUS
<1> USE <1>0, <1>a
<1> DEFINE next == NextOf(m)  next2 == NextOf(m2)
           data == DataOf(m)  data2 == DataOf(m2)
<1>1. /\ Linked(next, len, at, used) /\ DOMAIN at = DOMAIN len /\ DOMAIN len \subseteq ListId
      /\ used \subseteq Node /\ m \in [Node -> NodeType]
      /\ ls = [k \in ListId |-> ListOf(len, at, k)]
  BY DEF Shape
<1>2. /\ \A n \in Node : next[n] = m[n].next /\ next2[n] = m2[n].next
      /\ \A n \in Node : data[n] = m[n].data /\ data2[n] = m2[n].data /\ data[n] \in Held
  <2>1. \A n \in Node : m[n].data \in Held
    BY <1>1 DEF NodeType
  <2> QED BY <2>1 DEF NextOf, DataOf
<1>3. /\ len[l] \in Nat /\ l \in ListId /\ p \in Places(len, l)
      /\ \A i \in 0 .. len[l] + 1 : at[l][i] \in used /\ at[l][i] \in Node
      /\ at[l][p] \in used /\ at[l][p] \in Node
      /\ ls[l] = [head |-> at[l][0], tail |-> at[l][len[l] + 1], length |-> len[l]]
  <2>1. len[l] \in Nat /\ l \in ListId /\ \A i \in 0 .. len[l] + 1 : at[l][i] \in used /\ at[l][i] \in Node
    BY ShapeFacts
  <2>2. p \in 0 .. len[l] + 1
    BY <2>1
  <2> QED BY <1>1, <2>1, <2>2 DEF Places, ListOf
<1> HIDE DEF next, next2, data, data2
<1>4. Linked(next2, len2, at2, used \cup {new})
  <2>1. /\ new \notin used /\ next2[at[l][p]] = new /\ next2[new] = next[at[l][p]]
        /\ \A n \in used : n # at[l][p] => next2[n] = next[n]
    BY <1>1, <1>2, <1>3
  <2>2. DOMAIN at = DOMAIN len /\ Linked(next, len, at, used) /\ p \in Places(len, l)
    BY <1>1, <1>3
  <2>3. Linked(next2, Longer1(len, l, 1), Put1(len, at, l, p, new), used \cup {new})
    BY ONLY l \in DOMAIN len, <2>1, <2>2, LinkedIn
  <2> QED BY <2>3
<1>5. Rows(ListId, data2, len2, at2)
        = [Rows(ListId, data, len, at) EXCEPT ![l] = InsertAt(@, p + 1, v)]
  <2>1. ValueIn(Held, ListId, next, len, at, used, data, l, p, new, v, data2)
    BY <1>1, <1>2 DEF ValueIn, Chains
  <2> QED BY <2>1, RowsPut
<1>6. /\ DOMAIN at2 = DOMAIN len2 /\ DOMAIN len2 = DOMAIN len
      /\ len2[l] = len[l] + 1 /\ at2[l][0] = at[l][0]
      /\ at2[l][len[l] + 2] = at[l][len[l] + 1]
      /\ \A k \in DOMAIN len : k # l => len2[k] = len[k] /\ at2[k] = at[k]
  <2>1. \A i \in 0 .. len[l] + 2 : at2[l][i]
          = IF i <= p THEN at[l][i] ELSE IF i = p + 1 THEN new ELSE at[l][i - 1]
    BY <1>1 DEF Put1
  <2>2. /\ 0 \in 0 .. len[l] + 2 /\ 0 <= p /\ len[l] + 2 \in 0 .. len[l] + 2
        /\ ~(len[l] + 2 <= p) /\ len[l] + 2 # p + 1 /\ (len[l] + 2) - 1 = len[l] + 1
    BY <1>3
  <2> QED BY <1>1, <2>1, <2>2 DEF Longer1, Put1
<1>7. ls2 = [k \in ListId |-> ListOf(len2, at2, k)]
  <2>1. ls2[l] = [head |-> at[l][0], tail |-> at[l][len[l] + 1], length |-> len[l] + 1]
    BY <1>1, <1>3
  <2>2. (len[l] + 1) + 1 = len[l] + 2
    BY <1>3
  <2>3. ListOf(len2, at2, l) = ls2[l]
    BY <1>3, <1>6, <2>1, <2>2 DEF ListOf
  <2>4. \A k \in ListId : k # l => ListOf(len2, at2, k) = ListOf(len, at, k)
    BY <1>6 DEF ListOf
  <2>5. \A k \in ListId : k # l => ls2[k] = ListOf(len, at, k)
    BY <1>1
  <2>6. ls2 = [k \in ListId |-> ls2[k]]
    BY <1>1
  <2> QED BY <2>3, <2>4, <2>5, <2>6
<1> QED BY <1>1, <1>4, <1>5, <1>6, <1>7 DEF Holds, Shape, RowsOf, next2, data, data2

(* The shape in the form in which the lemmas about rows take it.            *)
LEMMA ShapeParts ==
  ASSUME NEW m, NEW ls, NEW len, NEW at, NEW used, Shape(m, ls, len, at, used)
  PROVE  /\ Chains(Held, ListId, NextOf(m), len, at, used, DataOf(m))
         /\ used \subseteq Node /\ m \in [Node -> NodeType]
         /\ ls = [k \in ListId |-> ListOf(len, at, k)]
<1>1. \A n \in Node : m[n].data \in Held
  BY DEF Shape, NodeType
<1>2. \A n \in used : DataOf(m)[n] \in Held
  BY <1>1 DEF DataOf, Shape
<1> QED BY <1>2 DEF Shape, Chains

(* The tail of a list takes the value, a node off the lists is the tail.    *)
TailIn(m, ls, len, at, used, l, t, new, v, m2, ls2) ==
  /\ Shape(m, ls, len, at, used)
  /\ l \in DOMAIN len /\ t = at[l][len[l] + 1] /\ new \in Node \ used /\ v \in Held
  /\ m2 \in [Node -> NodeType]
  /\ m2[new].next = Nil /\ m2[t].next = new /\ m2[t].data = v
  /\ \A n \in used : n # t => m2[n].next = m[n].next /\ m2[n].data = m[n].data
  /\ ls2 = [ls EXCEPT ![l].tail = new, ![l].length = @ + 1]
LEMMA AtTail ==
  ASSUME NEW m, NEW ls, NEW len, NEW at, NEW used, NEW l, NEW t, NEW new, NEW v,
         NEW m2, NEW ls2, TailIn(m, ls, len, at, used, l, t, new, v, m2, ls2)
  PROVE  Holds(m2, ls2, Longer1(len, l, 1), Put1(len, at, l, len[l] + 1, new),
               used \cup {new}, [RowsOf(m, len, at) EXCEPT ![l] = Append(@, v)])
<1>0. /\ Shape(m, ls, len, at, used)
      /\ l \in DOMAIN len /\ t = at[l][len[l] + 1] /\ new \in Node \ used /\ v \in Held
      /\ m2 \in [Node -> NodeType]
      /\ m2[new].next = Nil /\ m2[t].next = new /\ m2[t].data = v
      /\ \A n \in used : n # t => m2[n].next = m[n].next /\ m2[n].data = m[n].data
      /\ ls2 = [ls EXCEPT ![l].tail = new, ![l].length = @ + 1]
  BY DEF TailIn
<1>a. PICK len2, at2 : len2 = Longer1(len, l, 1) /\ at2 = Put1(len, at, l, len[l] + 1, new)
  OBVIOUS
<1> USE <1>0, <1>a
<1> DEFINE next == NextOf(m)  next2 == NextOf(m2)
           data == DataOf(m)  data2 == DataOf(m2)
           p == len[l] + 1
<1>1. /\ Chains(Held, ListId, next, len, at, used, data)
      /\ used \subseteq Node /\ m \in [Node -> NodeType]
      /\ ls = [k \in ListId |-> ListOf(len, at, k)]
  BY ShapeParts
<1>d. DOMAIN at = DOMAIN len /\ DOMAIN len \subseteq ListId /\ Linked(next, len, at, used)
  BY <1>1 DEF Chains
<1>2. /\ \A n \in Node : next[n] = m[n].next /\ next2[n] = m2[n].next
      /\ \A n \in Node : data[n] = m[n].data /\ data2[n] = m2[n].data
  BY DEF NextOf, DataOf
<1>3. /\ len[l] \in Nat /\ l \in ListId /\ p \in Places(len, l)
      /\ t \in used /\ t \in Node /\ t = at[l][p] /\ m[t].next = Nil
      /\ ls[l] = [head |-> at[l][0], tail |-> t, length |-> len[l]]
  <2>1. /\ len[l] \in Nat /\ l \in ListId
        /\ \A i \in 0 .. len[l] + 1 : at[l][i] \in used /\ at[l][i] \in Node
        /\ m[at[l][len[l] + 1]].next = Nil
    BY ShapeFacts
  <2>2. p \in 0 .. len[l] + 1
    BY <2>1
  <2> QED BY <1>1, <2>1, <2>2 DEF Places, ListOf
<1> HIDE DEF next, next2, data, data2
<1>4. Linked(next2, len2, at2, used \cup {new})
  <2>1. /\ new \notin used /\ next2[at[l][p]] = new /\ next2[new] = next[at[l][p]]
        /\ \A n \in used : n # at[l][p] => next2[n] = next[n]
    BY <1>1, <1>2, <1>3
  <2>2. DOMAIN at = DOMAIN len /\ Linked(next, len, at, used) /\ p \in Places(len, l)
    BY <1>d, <1>3
  <2> HIDE DEF p
  <2>3. Linked(next2, Longer1(len, l, 1), Put1(len, at, l, p, new), used \cup {new})
    BY ONLY l \in DOMAIN len, <2>1, <2>2, LinkedIn
  <2> QED BY <2>3 DEF p
<1>5. Rows(ListId, data2, len2, at2) = [Rows(ListId, data, len, at) EXCEPT ![l] = Append(@, v)]
  <2>1. ValueLast(Held, ListId, next, len, at, used, data, l, p, new, v, data2)
    BY <1>1, <1>2, <1>3 DEF ValueLast
  <2>2. at2 = Put1(len, at, l, p, new)
    OBVIOUS
  <2> HIDE DEF p
  <2> QED BY <2>1, <2>2, RowsAppend
<1>6. /\ DOMAIN at2 = DOMAIN len2 /\ DOMAIN len2 = DOMAIN len
      /\ len2[l] = len[l] + 1 /\ at2[l][0] = at[l][0]
      /\ at2[l][len[l] + 2] = new
      /\ \A k \in DOMAIN len : k # l => len2[k] = len[k] /\ at2[k] = at[k]
  <2>1. \A i \in 0 .. len[l] + 2 : at2[l][i]
          = IF i <= p THEN at[l][i] ELSE IF i = p + 1 THEN new ELSE at[l][i - 1]
    BY <1>d DEF Put1
  <2>2. /\ 0 \in 0 .. len[l] + 2 /\ 0 <= p /\ len[l] + 2 \in 0 .. len[l] + 2
        /\ ~(len[l] + 2 <= p) /\ len[l] + 2 = p + 1
    BY <1>3
  <2> HIDE DEF p
  <2>3. at2[l][0] = at[l][0] /\ at2[l][len[l] + 2] = new
    BY <2>1, <2>2
  <2> QED BY <1>d, <2>3 DEF Longer1, Put1
<1>7. ls2 = [k \in ListId |-> ListOf(len2, at2, k)]
  <2>1. ls2[l] = [head |-> at[l][0], tail |-> new, length |-> len[l] + 1]
    BY <1>1, <1>3
  <2>2. (len[l] + 1) + 1 = len[l] + 2
    BY <1>3
  <2>3. ListOf(len2, at2, l) = ls2[l]
    BY <1>3, <1>6, <2>1, <2>2 DEF ListOf
  <2>4. \A k \in ListId : k # l => ListOf(len2, at2, k) = ListOf(len, at, k)
    BY <1>6 DEF ListOf
  <2>5. \A k \in ListId : k # l => ls2[k] = ListOf(len, at, k)
    BY <1>1
  <2>6. ls2 = [k \in ListId |-> ls2[k]]
    BY <1>1
  <2> QED BY <2>3, <2>4, <2>5, <2>6
<1>8. Shape(m2, ls2, len2, at2, used \cup {new})
  <2>1. used \cup {new} \subseteq Node /\ DOMAIN len2 \subseteq ListId
    BY <1>1, <1>d, <1>6
  <2> QED BY <1>4, <1>6, <1>7, <2>1 DEF Shape, next2
<1>9. RowsOf(m2, len2, at2) = [RowsOf(m, len, at) EXCEPT ![l] = Append(@, v)]
  BY <1>5 DEF RowsOf, data, data2
<1> QED BY <1>8, <1>9 DEF Holds

(* The node before another one gets its successor.                          *)
NodeOut(m, ls, len, at, used, l, p, node, before, m2, ls2) ==
  /\ Shape(m, ls, len, at, used)
  /\ l \in DOMAIN len /\ p \in 1 .. len[l] /\ node = at[l][p] /\ before = at[l][p - 1]
  /\ m2 \in [Node -> NodeType]
  /\ m2[before].next = m[node].next /\ m2[before].data = m[before].data
  /\ \A n \in used : n # before /\ n # node =>
       m2[n].next = m[n].next /\ m2[n].data = m[n].data
  /\ ls2 = [ls EXCEPT ![l].length = @ - 1]
LEMMA CutOut ==
  ASSUME NEW m, NEW ls, NEW len, NEW at, NEW used, NEW l, NEW p, NEW node, NEW before,
         NEW m2, NEW ls2, NodeOut(m, ls, len, at, used, l, p, node, before, m2, ls2)
  PROVE  Holds(m2, ls2, Longer1(len, l, -1), Cut1(len, at, l, p), used \ {node},
               [RowsOf(m, len, at) EXCEPT ![l] = RemoveAt(@, p)])
<1>0. /\ Shape(m, ls, len, at, used)
      /\ l \in DOMAIN len /\ p \in 1 .. len[l] /\ node = at[l][p] /\ before = at[l][p - 1]
      /\ m2 \in [Node -> NodeType]
      /\ m2[before].next = m[node].next /\ m2[before].data = m[before].data
      /\ \A n \in used : n # before /\ n # node =>
           m2[n].next = m[n].next /\ m2[n].data = m[n].data
      /\ ls2 = [ls EXCEPT ![l].length = @ - 1]
  BY DEF NodeOut
<1>a. PICK len2, at2 : len2 = Longer1(len, l, -1) /\ at2 = Cut1(len, at, l, p)
  OBVIOUS
<1> USE <1>0, <1>a
<1> DEFINE next == NextOf(m)  next2 == NextOf(m2)
           data == DataOf(m)  data2 == DataOf(m2)
<1>1. /\ Chains(Held, ListId, next, len, at, used, data)
      /\ used \subseteq Node /\ m \in [Node -> NodeType]
      /\ ls = [k \in ListId |-> ListOf(len, at, k)]
  BY ShapeParts
<1>d. DOMAIN at = DOMAIN len /\ DOMAIN len \subseteq ListId /\ Linked(next, len, at, used)
  BY <1>1 DEF Chains
<1>2. /\ \A n \in Node : next[n] = m[n].next /\ next2[n] = m2[n].next
      /\ \A n \in Node : data[n] = m[n].data /\ data2[n] = m2[n].data
  BY DEF NextOf, DataOf
<1>3. /\ len[l] \in Nat /\ l \in ListId
      /\ node \in used /\ node \in Node /\ before \in used /\ before \in Node
      /\ ls[l] = [head |-> at[l][0], tail |-> at[l][len[l] + 1], length |-> len[l]]
  <2>1. /\ len[l] \in Nat /\ l \in ListId
        /\ \A i \in 0 .. len[l] + 1 : at[l][i] \in used /\ at[l][i] \in Node
    BY ShapeFacts
  <2>2. p \in 0 .. len[l] + 1 /\ p - 1 \in 0 .. len[l] + 1
    BY <2>1
  <2> QED BY <1>1, <2>1, <2>2 DEF ListOf
<1> HIDE DEF next, next2, data, data2
<1>4. Linked(next2, len2, at2, used \ {node})
  <2>1. /\ next2[at[l][p - 1]] = next[at[l][p]]
        /\ \A n \in used : n # at[l][p - 1] /\ n # at[l][p] => next2[n] = next[n]
    BY <1>1, <1>2, <1>3
  <2>3. Linked(next2, Longer1(len, l, -1), Cut1(len, at, l, p), used \ {at[l][p]})
    BY ONLY l \in DOMAIN len, p \in 1 .. len[l], <2>1, <1>d, LinkedOut
  <2> QED BY <2>3
<1>5. Rows(ListId, data2, len2, at2) = [Rows(ListId, data, len, at) EXCEPT ![l] = RemoveAt(@, p)]
  <2>1. ValueOut(Held, ListId, next, len, at, used, data, l, p, data2)
    BY <1>1, <1>2, <1>3 DEF ValueOut
  <2> QED BY <2>1, RowsCut
<1>6. /\ DOMAIN at2 = DOMAIN len2 /\ DOMAIN len2 = DOMAIN len
      /\ len2[l] = len[l] - 1 /\ at2[l][0] = at[l][0]
      /\ at2[l][len[l]] = at[l][len[l] + 1]
      /\ \A k \in DOMAIN len : k # l => len2[k] = len[k] /\ at2[k] = at[k]
  <2>1. \A i \in 0 .. len[l] : at2[l][i] = IF i < p THEN at[l][i] ELSE at[l][i + 1]
    BY <1>d DEF Cut1
  <2>2. 0 \in 0 .. len[l] /\ 0 < p /\ len[l] \in 0 .. len[l] /\ ~(len[l] < p)
    BY <1>3
  <2>3. at2[l][0] = at[l][0] /\ at2[l][len[l]] = at[l][len[l] + 1]
    BY <2>1, <2>2
  <2>4. len[l] + (-1) = len[l] - 1
    BY <1>3
  <2> QED BY <1>d, <2>3, <2>4 DEF Longer1, Cut1
<1>7. ls2 = [k \in ListId |-> ListOf(len2, at2, k)]
  <2>1. ls2[l] = [head |-> at[l][0], tail |-> at[l][len[l] + 1], length |-> len[l] - 1]
    BY <1>1, <1>3
  <2>2. (len[l] - 1) + 1 = len[l]
    BY <1>3
  <2>3. ListOf(len2, at2, l) = ls2[l]
    BY <1>3, <1>6, <2>1, <2>2 DEF ListOf
  <2>4. \A k \in ListId : k # l => ListOf(len2, at2, k) = ListOf(len, at, k)
    BY <1>6 DEF ListOf
  <2>5. \A k \in ListId : k # l => ls2[k] = ListOf(len, at, k)
    BY <1>1
  <2>6. ls2 = [k \in ListId |-> ls2[k]]
    BY <1>1
  <2> QED BY <2>3, <2>4, <2>5, <2>6
<1> QED BY <1>1, <1>d, <1>4, <1>5, <1>6, <1>7 DEF Holds, Shape, RowsOf, next2, data, data2

(* The chains of a state and of the state that a step leads to.             *)
IsNow(len, at) == Shape(nodes, lists, len, at, UsedIn(nodes))
IsNext(len, at) == Shape(nodes', lists', len, at, UsedIn(nodes'))

(* The sequences of the refinement are the rows, before a step ...          *)
LEMMA SeqsNow ==
  ASSUME NEW len, NEW at, IsNow(len, at)
  PROVE  [l \in ListId |-> Values(l)] = RowsOf(nodes, len, at)
<1>1. \A l \in ListId : Values(l) = ValuesOf(nodes, lists, l)
  BY DEF Values, ValuesOf, Walk, WalkOf, Live
<1>2. \A l \in ListId : Values(l) = RowsOf(nodes, len, at)[l]
  BY <1>1, ValuesAre DEF IsNow
<1>3. RowsOf(nodes, len, at) = [l \in ListId |-> RowsOf(nodes, len, at)[l]]
  BY DEF RowsOf, Rows
<1> QED BY <1>2, <1>3

(* ... and after it.                                                        *)
LEMMA SeqsNext ==
  ASSUME NEW len, NEW at, IsNext(len, at)
  PROVE  [l \in ListId |-> Values(l)]' = RowsOf(nodes', len, at)
<1>1. \A l \in ListId : Values(l)' = ValuesOf(nodes', lists', l)
  BY DEF Values, ValuesOf, Walk, WalkOf, Live
<1>2. \A l \in ListId : Values(l)' = RowsOf(nodes', len, at)[l]
  BY <1>1, ValuesAre DEF IsNext
<1>3. RowsOf(nodes', len, at) = [l \in ListId |-> RowsOf(nodes', len, at)[l]]
  BY DEF RowsOf, Rows
<1> QED BY <1>2, <1>3

(* What the rows do, the sequences of SeqLists do.                          *)
RowsGo(old, new) ==
  \E len, at, len2, at2 : /\ IsNow(len, at) /\ old = RowsOf(nodes, len, at)
                          /\ IsNext(len2, at2) /\ new = RowsOf(nodes', len2, at2)
LEMMA RowsStep ==
  ASSUME NEW old, NEW new, RowsGo(old, new)
  PROVE  /\ new = old /\ lres' = Nil => S!Next /\ S!Nothing
         /\ \A l \in ListId, v \in Val : \A i \in 1 .. Len(old[l]) + 1 :
              lres' = v /\ new = [old EXCEPT ![l] = InsertAt(@, i, v)]
                => S!Next /\ S!Insert(l, i, v)
         /\ \A l \in ListId : \A i \in 1 .. Len(old[l]) :
              lres' = old[l][i] /\ new = [old EXCEPT ![l] = RemoveAt(@, i)]
                => S!Next /\ S!Delete(l, i)
<1> DEFINE seqs == [l \in ListId |-> Values(l)]
<1>1. seqs = old /\ seqs' = new
  BY SeqsNow, SeqsNext DEF RowsGo
<1> HIDE DEF seqs
<1>a. /\ \A s, i, v : S!InsertAt(s, i, v) = InsertAt(s, i, v)
      /\ \A s, i : S!RemoveAt(s, i) = RemoveAt(s, i)
  BY DEF S!InsertAt, InsertAt, S!RemoveAt, RemoveAt
<1>2. new = old /\ lres' = Nil => S!Next /\ S!Nothing
  BY <1>1 DEF S!Next, S!Nothing, seqs
<1>3. ASSUME NEW l \in ListId, NEW v \in Val, NEW i \in 1 .. Len(old[l]) + 1,
             lres' = v, new = [old EXCEPT ![l] = InsertAt(@, i, v)]
      PROVE  S!Next /\ S!Insert(l, i, v)
  <2>1. i \in 1 .. Len(seqs[l]) + 1 /\ seqs' = [seqs EXCEPT ![l] = S!InsertAt(@, i, v)]
    BY <1>1, <1>3, <1>a
  <2>2. S!Insert(l, i, v)
    BY <1>3, <2>1, Zenon DEF S!Insert, seqs
  <2> QED BY <2>1, <2>2 DEF S!Next, seqs
<1>4. ASSUME NEW l \in ListId, NEW i \in 1 .. Len(old[l]),
             lres' = old[l][i], new = [old EXCEPT ![l] = RemoveAt(@, i)]
      PROVE  S!Next /\ S!Delete(l, i)
  <2>1. /\ i \in 1 .. Len(seqs[l]) /\ lres' = seqs[l][i]
        /\ seqs' = [seqs EXCEPT ![l] = S!RemoveAt(@, i)]
    BY <1>1, <1>4, <1>a
  <2>2. S!Delete(l, i)
    BY <2>1, Zenon DEF S!Delete, seqs
  <2> QED BY <2>1, <2>2 DEF S!Next, seqs
<1>6. /\ \A l \in ListId, v \in Val : \A i \in 1 .. Len(old[l]) + 1 :
           lres' = v /\ new = [old EXCEPT ![l] = InsertAt(@, i, v)]
                => S!Next /\ S!Insert(l, i, v)
      /\ \A l \in ListId : \A i \in 1 .. Len(old[l]) :
           lres' = old[l][i] /\ new = [old EXCEPT ![l] = RemoveAt(@, i)]
                => S!Next /\ S!Delete(l, i)
  BY <1>3, <1>4
<1> QED BY <1>2, <1>6

(* A value leaves list l and goes to the end of list d.                     *)
Moves(old, new, l, d, i) ==
  /\ l \in ListId /\ d \in ListId /\ i \in 1 .. Len(old[l])
  /\ lres' = old[l][i]
  /\ new = [[old EXCEPT ![l] = RemoveAt(@, i)] EXCEPT ![d] = Append(@, old[l][i])]
LEMMA RowsMove ==
  ASSUME NEW old, NEW new, RowsGo(old, new), NEW l, NEW d, NEW i, Moves(old, new, l, d, i)
  PROVE  S!Next /\ S!Move(l, d, i)
<1> DEFINE seqs == [k \in ListId |-> Values(k)]
<1>1. seqs = old /\ seqs' = new
  BY SeqsNow, SeqsNext DEF RowsGo
<1> HIDE DEF seqs
<1>2. \A s, j : S!RemoveAt(s, j) = RemoveAt(s, j)
  BY DEF S!RemoveAt, RemoveAt
<1>3. /\ l \in ListId /\ d \in ListId /\ i \in 1 .. Len(old[l])
      /\ lres' = old[l][i]
      /\ new = [[old EXCEPT ![l] = RemoveAt(@, i)] EXCEPT ![d] = Append(@, old[l][i])]
  BY DEF Moves
<1>4. /\ i \in 1 .. Len(seqs[l]) /\ lres' = seqs[l][i]
      /\ seqs' = [[seqs EXCEPT ![l] = S!RemoveAt(@, i)] EXCEPT ![d] = Append(@, seqs[l][i])]
  BY <1>1, <1>2, <1>3
<1>5. S!Move(l, d, i)
  BY <1>4, Zenon DEF S!Move, S!Moved, seqs
<1> QED BY <1>3, <1>4, <1>5 DEF S!Next, seqs

(* Any chains after the step are enough for the invariant.                  *)
LEMMA NextIsInv == ASSUME NEW len, NEW at, IsNext(len, at) PROVE ListInv'
BY DEF IsNext, ListInv

(* malloc gives a node that is on no list.                                  *)
LEMMA NewIs ==
  ASSUME Unused # {}
  PROVE  New \in Node \ UsedIn(nodes) /\ nodes[New].freed
<1>1. Unused \subseteq Nat
  BY ListAssumption DEF Unused
<1>2. New \in Unused
  <2> HIDE DEF Unused
  <2> QED BY <1>1, SmallestOf DEF New
<1> QED BY <1>2 DEF Unused, UsedIn

(* The node before another one on its list is the only one that points to   *)
(* it.                                                                      *)
LEMMA PredIs ==
  ASSUME NEW len, NEW at, IsNow(len, at), NEW l, l \in DOMAIN len, NEW p, p \in 1 .. len[l] + 1
  PROVE  Pred(at[l][p]) = at[l][p - 1]
<1>1. /\ len[l] \in Nat
      /\ \A i \in 0 .. len[l] + 1 : at[l][i] \in UsedIn(nodes) /\ at[l][i] \in Node
      /\ \A i \in 0 .. len[l] : nodes[at[l][i]].next = at[l][i + 1]
  BY ShapeFacts DEF IsNow
<1>2. /\ p - 1 \in 0 .. len[l] /\ p - 1 \in 0 .. len[l] + 1 /\ p \in 0 .. len[l] + 1
      /\ (p - 1) + 1 = p
  BY <1>1
<1>3. ASSUME NEW m \in UsedIn(nodes), nodes[m].next = at[l][p]
      PROVE  m = at[l][p - 1]
  <2>1. PICK k \in DOMAIN len : \E j \in Places(len, k) : at[k][j] = m
    BY DEF IsNow, Shape, Linked
  <2>2. PICK j \in Places(len, k) : at[k][j] = m
    BY <2>1
  <2>3. /\ len[k] \in Nat
        /\ \A i \in 0 .. len[k] : nodes[at[k][i]].next = at[k][i + 1]
        /\ nodes[at[k][len[k] + 1]].next = Nil
    BY ShapeFacts DEF IsNow
  <2>4. at[l][p] # Nil
    BY <1>1, <1>2, ListAssumption
  <2>5. j \in 0 .. len[k] /\ j + 1 \in Places(len, k)
    <3>1. j # len[k] + 1
      BY <1>3, <2>2, <2>3, <2>4
    <3> QED BY <2>3, <3>1 DEF Places
  <2>6. at[k][j + 1] = at[l][p]
    BY <1>3, <2>2, <2>3, <2>5
  <2>7. k = l /\ j + 1 = p
    <3>1. p \in Places(len, l)
      BY <1>2 DEF Places
    <3>2. Linked(NextOf(nodes), len, at, UsedIn(nodes))
      BY DEF IsNow, Shape
    <3> QED BY <2>5, <2>6, <3>1, <3>2 DEF Linked
  <2>8. p - 1 = j
    BY <2>5, <2>7
  <2> QED BY <2>2, <2>7, <2>8
<1>4. at[l][p - 1] \in UsedIn(nodes) /\ nodes[at[l][p - 1]].next = at[l][p]
  BY <1>1, <1>2
<1>5. Node \ Unused = UsedIn(nodes)
  BY DEF Unused, UsedIn
<1> QED BY <1>3, <1>4, <1>5 DEF Pred

(* What a call finds at the head of a list, and the nodes it can be given.  *)
LEMMA PlaceIs ==
  ASSUME NEW len, NEW at, IsNow(len, at), NEW l, l \in DOMAIN len
  PROVE  /\ \A n \in OnList(l) \cup {lists[l].tail} : \E p \in 1 .. len[l] + 1 : n = at[l][p]
         /\ First(l) = at[l][1]
         /\ NotEmpty(l) <=> len[l] > 0
         /\ Live(l) /\ len[l] \in Nat
<1>1. /\ len[l] \in Nat
      /\ \A i \in 0 .. len[l] : nodes[at[l][i]].next = at[l][i + 1]
      /\ nodes[at[l][len[l] + 1]].next = Nil
      /\ \A i \in 0 .. len[l] + 1 : at[l][i] \in UsedIn(nodes) /\ at[l][i] \in Node
      /\ lists[l].head = at[l][0] /\ lists[l].tail = at[l][len[l] + 1] /\ lists[l].length = len[l]
      /\ lists[l] # NoList
  BY ShapeFacts DEF IsNow
<1>2. First(l) = at[l][1]
  <2>1. 0 \in 0 .. len[l] /\ 0 + 1 = 1
    BY <1>1
  <2> QED BY <1>1, <2>1 DEF First
<1>3. NotEmpty(l) <=> len[l] > 0
  <2>1. CASE len[l] > 0
    <3>1. 1 \in 0 .. len[l] /\ 1 + 1 \in 0 .. len[l] + 1
      BY <1>1, <2>1
    <3>2. nodes[at[l][1]].next # Nil
      BY <1>1, <3>1, ListAssumption
    <3> QED BY <1>1, <1>2, <2>1, <3>2 DEF NotEmpty, Live
  <2>2. CASE len[l] = 0
    <3>1. nodes[at[l][1]].next = Nil
      BY <1>1, <2>2
    <3> QED BY <1>2, <2>2, <3>1 DEF NotEmpty
  <2> QED BY <1>1, <2>1, <2>2
<1>4. ASSUME NEW n \in OnList(l)
      PROVE  \E p \in 1 .. len[l] + 1 : n = at[l][p]
  <2> DEFINE w == WalkOf(nodes, lists[l].head)
  <2>1. /\ Cardinality(Node) \in Nat /\ len[l] + 2 <= Cardinality(Node)
        /\ \A k \in 0 .. Cardinality(Node) :
             w[k] = IF k <= len[l] + 1 THEN at[l][k] ELSE Nil
    BY WalkIs DEF IsNow
  <2>2. Walk(l) = w
    BY DEF Walk, WalkOf
  <2> HIDE DEF w
  <2>3. PICK k \in 1 .. len[l] : n = w[k]
    BY <1>1, <2>2 DEF OnList
  <2>4. k \in 0 .. Cardinality(Node) /\ k <= len[l] + 1 /\ k \in 1 .. len[l] + 1
    BY <1>1, <2>1
  <2> QED BY <2>1, <2>3, <2>4
<1>5. len[l] + 1 \in 1 .. len[l] + 1
  BY <1>1
<1> QED BY <1>1, <1>2, <1>3, <1>4, <1>5 DEF Live

(* A call that fails changes no list.                                       *)
LEMMA FailedStep ==
  ASSUME NEW len, NEW at, IsNow(len, at), Failed
  PROVE  ListInv' /\ S!Next /\ S!Nothing
<1>1. IsNext(len, at) /\ RowsOf(nodes', len, at) = RowsOf(nodes, len, at) /\ lres' = Nil
  BY DEF Failed, IsNow, IsNext
<1>2. S!Next /\ S!Nothing
  <2>1. PICK old : old = RowsOf(nodes, len, at)
    OBVIOUS
  <2>2. RowsGo(old, old)
    BY <1>1, <2>1 DEF RowsGo
  <2> QED BY <1>1, <2>2, RowsStep
<1> QED BY <1>1, <1>2, NextIsInv

(* The row of a list is as long as its length field says.                   *)
LEMMA RowLen ==
  ASSUME NEW len, NEW at, IsNow(len, at), NEW l, l \in DOMAIN len,
         NEW row, row = RowsOf(nodes, len, at)[l]
  PROVE  /\ l \in ListId /\ row \in Seq(Held) /\ Len(row) = len[l]
         /\ \A i \in 1 .. len[l] : row[i] = nodes[at[l][i]].data
<1>1. /\ len[l] \in Nat /\ l \in ListId
      /\ \A i \in 0 .. len[l] + 1 : at[l][i] \in Node
      /\ nodes \in [Node -> NodeType]
  BY ShapeFacts DEF IsNow, Shape
<1>2. row = [i \in 1 .. len[l] |-> DataOf(nodes)[at[l][i]]]
  BY <1>1 DEF RowsOf, Rows, Row
<1>3. \A i \in 1 .. len[l] : /\ DataOf(nodes)[at[l][i]] = nodes[at[l][i]].data
                             /\ nodes[at[l][i]].data \in Held
  <2>1. \A i \in 1 .. len[l] : at[l][i] \in Node
    BY <1>1
  <2>2. \A n \in Node : nodes[n].data \in Held
    BY <1>1 DEF NodeType
  <2> QED BY <2>1, <2>2 DEF DataOf
<1> DEFINE n == len[l]
<1> HIDE DEF n
<1>4. row = [i \in 1 .. n |-> DataOf(nodes)[at[l][i]]]
      /\ \A i \in 1 .. n : DataOf(nodes)[at[l][i]] \in Held
  BY <1>2, <1>3 DEF n
<1>5. row \in [1 .. n -> Held]
  BY ONLY <1>4
<1>6. n \in Nat
  BY <1>1 DEF n
<1> QED BY <1>1, <1>2, <1>3, <1>5, <1>6 DEF n

(* The sequence of a list that is there.                                    *)
LEMMA SeqLen ==
  ASSUME NEW len, NEW at, IsNow(len, at), NEW l, l \in DOMAIN len
  PROVE  /\ len[l] \in Nat /\ Len([k \in ListId |-> Values(k)][l]) = len[l]
         /\ [k \in ListId |-> Values(k)][l] = << >> <=> len[l] = 0
<1>1. PICK row : row = RowsOf(nodes, len, at)[l]
  OBVIOUS
<1>2. row \in Seq(Held) /\ Len(row) = len[l]
  BY <1>1, RowLen
<1>3. [k \in ListId |-> Values(k)][l] = row
  BY <1>1, SeqsNow
<1>4. row = << >> <=> Len(row) = 0
  BY <1>2
<1> QED BY <1>2, <1>3, <1>4

(* list_insert after place p, which may be the tail: then it fails.         *)
LEMMA InsertStep ==
  ASSUME NEW len, NEW at, IsNow(len, at), NEW l, l \in DOMAIN len,
         NEW p, p \in 0 .. len[l] + 1, NEW val \in Val, list_insert(l, at[l][p], val)
  PROVE  /\ ListInv' /\ S!Next
         /\ IF Unused = {} \/ nodes[at[l][p]].next = Nil THEN S!Nothing ELSE S!Insert(l, p + 1, val)
<1> DEFINE prev == at[l][p]
           used == UsedIn(nodes)
<1>1. CASE Unused = {} \/ nodes[at[l][p]].next = Nil
  <2>1. Failed
    BY <1>1 DEF list_insert
  <2> QED BY <1>1, <2>1, FailedStep
<1>2. CASE ~(Unused = {} \/ nodes[at[l][p]].next = Nil)
  <2>1. /\ len[l] \in Nat /\ l \in ListId
        /\ \A i \in 0 .. len[l] + 1 : at[l][i] \in used /\ at[l][i] \in Node
        /\ nodes[at[l][len[l] + 1]].next = Nil
        /\ nodes \in [Node -> NodeType]
    BY ShapeFacts DEF IsNow, Shape
  <2>2. /\ Unused # {} /\ nodes[prev].next # Nil
        /\ nodes' = [nodes EXCEPT ![New] = Cell(nodes[prev].next, val), ![prev].next = New]
        /\ lists' = [lists EXCEPT ![l].length = @ + 1]
        /\ lres' = val
    BY <1>2 DEF list_insert, Longer
  <2>3. p \in 0 .. len[l]
    <3>1. p # len[l] + 1
      BY <2>1, <2>2
    <3> QED BY <2>1, <3>1
  <2>4. prev \in used /\ prev \in Node
    BY <2>1
  <2>5. New \in Node \ used /\ New # prev
    BY <2>2, <2>4, NewIs
  <2> HIDE DEF prev
  <2>6. PICK new : new = New
    OBVIOUS
  <2>7. /\ nodes' \in [Node -> NodeType]
        /\ nodes'[new] = Cell(nodes[prev].next, val)
        /\ nodes'[prev] = [nodes[prev] EXCEPT !.next = new]
        /\ \A n \in Node : n # new /\ n # prev => nodes'[n] = nodes[n]
    <3>1. Cell(nodes[prev].next, val) \in NodeType
      BY <2>1, <2>4 DEF Cell, NodeType, Held
    <3>2. [nodes[prev] EXCEPT !.next = new] \in NodeType
      BY <2>1, <2>4, <2>5, <2>6 DEF NodeType
    <3> DEFINE a == Cell(nodes[prev].next, val)
               b == [nodes[prev] EXCEPT !.next = new]
    <3>3. nodes' = [[nodes EXCEPT ![new] = a] EXCEPT ![prev] = b]
      BY <2>1, <2>2, <2>4, <2>5, <2>6
    <3> HIDE DEF a, b
    <3> QED BY <2>1, <2>4, <2>5, <2>6, <3>1, <3>2, <3>3 DEF a, b
  <2>8. /\ nodes'[new].next = nodes[prev].next /\ nodes'[new].data = val /\ ~nodes'[new].freed
        /\ nodes'[prev].next = new /\ nodes'[prev].data = nodes[prev].data
        /\ nodes'[prev].freed = nodes[prev].freed
    BY <2>1, <2>4, <2>7 DEF Cell, NodeType
  <2>9. UsedIn(nodes') = used \cup {new}
    BY <2>4, <2>5, <2>6, <2>7, <2>8 DEF UsedIn
  <2>10. MiddleIn(nodes, lists, len, at, used, l, p, new, val, nodes', lists')
    <3>1. Shape(nodes, lists, len, at, used) /\ new \in Node \ used /\ val \in Held
      BY <2>5, <2>6 DEF IsNow, Held
    <3>2. \A n \in used : n # prev => nodes'[n].next = nodes[n].next /\ nodes'[n].data = nodes[n].data
      BY <2>5, <2>6, <2>7 DEF UsedIn
    <3> QED BY <2>2, <2>3, <2>7, <2>8, <3>1, <3>2 DEF MiddleIn, prev
  <2>a. PICK len2, at2 : len2 = Longer1(len, l, 1) /\ at2 = Put1(len, at, l, p, new)
    OBVIOUS
  <2>11. /\ Shape(nodes', lists', len2, at2, used \cup {new})
         /\ RowsOf(nodes', len2, at2)
              = [RowsOf(nodes, len, at) EXCEPT ![l] = InsertAt(@, p + 1, val)]
    <3>1. Holds(nodes', lists', Longer1(len, l, 1), Put1(len, at, l, p, new), used \cup {new},
                [RowsOf(nodes, len, at) EXCEPT ![l] = InsertAt(@, p + 1, val)])
      BY <2>10, InMiddle
    <3> QED BY <3>1, <2>a DEF Holds
  <2>12. IsNext(len2, at2)
    BY <2>9, <2>11 DEF IsNext
  <2>13. p + 1 \in 1 .. Len(RowsOf(nodes, len, at)[l]) + 1
    BY <2>1, <2>3, RowLen
  <2>14. S!Next /\ S!Insert(l, p + 1, val)
    <3>1. PICK old, row : old = RowsOf(nodes, len, at) /\ row = RowsOf(nodes', len2, at2)
      OBVIOUS
    <3>2. RowsGo(old, row)
      BY <2>12, <3>1 DEF RowsGo
    <3>3. \A k \in ListId, v \in Val : \A i \in 1 .. Len(old[k]) + 1 :
            lres' = v /\ row = [old EXCEPT ![k] = InsertAt(@, i, v)]
              => S!Next /\ S!Insert(k, i, v)
      BY <3>2, RowsStep
    <3> QED BY <2>1, <2>2, <2>11, <2>13, <3>1, <3>3
  <2> QED BY <1>2, <2>12, <2>14, NextIsInv
<1> QED BY <1>1, <1>2

(* list_pop, list_popback and list_remove drop a node, which is freed.      *)
LEMMA DropStep ==
  ASSUME NEW len, NEW at, IsNow(len, at), NEW l, l \in DOMAIN len,
         NEW p, p \in 1 .. len[l], Drop(l, at[l][p])
  PROVE  ListInv' /\ S!Next /\ S!Delete(l, p)
<1> DEFINE used == UsedIn(nodes)
<1>1. /\ len[l] \in Nat /\ l \in ListId
      /\ \A i \in 0 .. len[l] + 1 : at[l][i] \in used /\ at[l][i] \in Node
      /\ \A i, j \in 0 .. len[l] + 1 : at[l][i] = at[l][j] => i = j
      /\ \A i \in 0 .. len[l] : nodes[at[l][i]].next = at[l][i + 1]
      /\ nodes \in [Node -> NodeType]
      /\ lists[l].length = len[l]
      /\ lists = [k \in ListId |-> ListOf(len, at, k)]
  BY ShapeFacts DEF IsNow, Shape
<1>2. PICK node, before : node = at[l][p] /\ before = at[l][p - 1]
  OBVIOUS
<1>3. /\ p \in 0 .. len[l] + 1 /\ p - 1 \in 0 .. len[l] + 1 /\ p # p - 1
      /\ p \in 0 .. len[l] /\ p + 1 \in 0 .. len[l] + 1 /\ p \in 1 .. len[l] + 1
  BY <1>1
<1>4. /\ node \in used /\ node \in Node /\ before \in used /\ before \in Node /\ node # before
      /\ nodes[node].next \in Node
  BY <1>1, <1>2, <1>3
<1>5. Pred(node) = before
  BY <1>2, <1>3, PredIs
<1>6. /\ nodes' = [nodes EXCEPT ![before].next = nodes[node].next, ![node] = Freed]
      /\ lists' = [lists EXCEPT ![l].length = @ + (-1)]
      /\ lres' = nodes[node].data
  BY <1>2, <1>5 DEF Drop, Longer
<1>7. /\ nodes' \in [Node -> NodeType]
      /\ nodes'[node] = Freed
      /\ nodes'[before] = [nodes[before] EXCEPT !.next = nodes[node].next]
      /\ \A n \in Node : n # node /\ n # before => nodes'[n] = nodes[n]
  <2>1. Freed \in NodeType
    BY DEF Freed, NodeType, Held
  <2>2. [nodes[before] EXCEPT !.next = nodes[node].next] \in NodeType
    BY <1>1, <1>4 DEF NodeType
  <2> DEFINE b == [nodes[before] EXCEPT !.next = nodes[node].next]
  <2>3. nodes' = [[nodes EXCEPT ![before] = b] EXCEPT ![node] = Freed]
    BY <1>1, <1>4, <1>6
  <2> HIDE DEF b
  <2> QED BY <1>1, <1>4, <2>1, <2>2, <2>3 DEF b
<1>8. /\ nodes'[before].next = nodes[node].next /\ nodes'[before].data = nodes[before].data
      /\ nodes'[before].freed = nodes[before].freed /\ nodes'[node].freed
  BY <1>1, <1>4, <1>7 DEF Freed, NodeType
<1>9. UsedIn(nodes') = used \ {node}
  BY <1>4, <1>7, <1>8 DEF UsedIn
<1>10. lists' = [lists EXCEPT ![l].length = @ - 1]
  <2>1. lists[l].length + (-1) = lists[l].length - 1
    BY <1>1
  <2> QED BY <1>6, <2>1
<1>11. NodeOut(nodes, lists, len, at, used, l, p, node, before, nodes', lists')
  <2>1. Shape(nodes, lists, len, at, used)
    BY DEF IsNow
  <2>2. \A n \in used : n # before /\ n # node =>
          nodes'[n].next = nodes[n].next /\ nodes'[n].data = nodes[n].data
    BY <1>7 DEF UsedIn
  <2> QED BY <1>2, <1>7, <1>8, <1>10, <2>1, <2>2 DEF NodeOut
<1>12. PICK len2, at2 : len2 = Longer1(len, l, -1) /\ at2 = Cut1(len, at, l, p)
  OBVIOUS
<1>13. /\ Shape(nodes', lists', len2, at2, used \ {node})
       /\ RowsOf(nodes', len2, at2) = [RowsOf(nodes, len, at) EXCEPT ![l] = RemoveAt(@, p)]
  <2>1. Holds(nodes', lists', Longer1(len, l, -1), Cut1(len, at, l, p), used \ {node},
              [RowsOf(nodes, len, at) EXCEPT ![l] = RemoveAt(@, p)])
    BY <1>11, CutOut
  <2> QED BY <2>1, <1>12 DEF Holds
<1>14. IsNext(len2, at2)
  BY <1>9, <1>13 DEF IsNext
<1>15. S!Next /\ S!Delete(l, p)
  <2>1. PICK old, row : old = RowsOf(nodes, len, at) /\ row = RowsOf(nodes', len2, at2)
    OBVIOUS
  <2>2. RowsGo(old, row)
    BY <1>14, <2>1 DEF RowsGo
  <2>3. p \in 1 .. Len(old[l]) /\ old[l][p] = nodes[node].data
    BY <1>1, <1>2, <2>1, RowLen
  <2>4. \A k \in ListId : \A i \in 1 .. Len(old[k]) :
          lres' = old[k][i] /\ row = [old EXCEPT ![k] = RemoveAt(@, i)]
            => S!Next /\ S!Delete(k, i)
    BY <2>2, RowsStep
  <2> QED BY <1>1, <1>6, <1>13, <2>1, <2>3, <2>4
<1> QED BY <1>14, <1>15, NextIsInv

(* list_pushback: the tail takes the value, a new node is the tail.         *)
LEMMA PushbackStep ==
  ASSUME NEW len, NEW at, IsNow(len, at), NEW l, l \in DOMAIN len,
         NEW val \in Val, list_pushback(l, val)
  PROVE  /\ ListInv' /\ S!Next
         /\ IF Unused = {} THEN S!Nothing ELSE S!Pushback(l, val)
<1> DEFINE used == UsedIn(nodes)
<1>1. CASE Unused = {}
  <2>1. Failed
    BY <1>1 DEF list_pushback
  <2> QED BY <1>1, <2>1, FailedStep
<1>2. CASE Unused # {}
  <2>1. /\ len[l] \in Nat /\ l \in ListId
        /\ \A i \in 0 .. len[l] + 1 : at[l][i] \in used /\ at[l][i] \in Node
        /\ nodes \in [Node -> NodeType]
        /\ lists[l].tail = at[l][len[l] + 1]
    BY ShapeFacts DEF IsNow, Shape
  <2>2. PICK t, new : t = lists[l].tail /\ new = New
    OBVIOUS
  <2>3. /\ Unused # {}
        /\ nodes' = [nodes EXCEPT ![new] = Cell(Nil, Nil), ![t] = Cell(new, val)]
        /\ lists' = [lists EXCEPT ![l].tail = new, ![l].length = @ + 1]
        /\ lres' = val
    BY <1>2, <2>2 DEF list_pushback
  <2>4. t \in used /\ t \in Node
    BY <2>1, <2>2
  <2>5. new \in Node \ used /\ new # t
    BY <2>2, <2>3, <2>4, NewIs
  <2>6. /\ nodes' \in [Node -> NodeType]
        /\ nodes'[new] = Cell(Nil, Nil) /\ nodes'[t] = Cell(new, val)
        /\ \A n \in Node : n # new /\ n # t => nodes'[n] = nodes[n]
    <3>1. Cell(Nil, Nil) \in NodeType /\ Cell(new, val) \in NodeType
      BY <2>5 DEF Cell, NodeType, Held
    <3> QED BY <2>1, <2>3, <2>4, <2>5, <3>1
  <2>7. /\ nodes'[new].next = Nil /\ ~nodes'[new].freed
        /\ nodes'[t].next = new /\ nodes'[t].data = val /\ ~nodes'[t].freed
    BY <2>6 DEF Cell
  <2>8. UsedIn(nodes') = used \cup {new}
    BY <2>4, <2>5, <2>6, <2>7 DEF UsedIn
  <2>9. TailIn(nodes, lists, len, at, used, l, t, new, val, nodes', lists')
    <3>1. Shape(nodes, lists, len, at, used) /\ val \in Held
      BY DEF IsNow, Held
    <3>2. \A n \in used : n # t => nodes'[n].next = nodes[n].next /\ nodes'[n].data = nodes[n].data
      BY <2>5, <2>6 DEF UsedIn
    <3> QED BY <2>1, <2>2, <2>3, <2>5, <2>6, <2>7, <3>1, <3>2 DEF TailIn
  <2>10. PICK len2, at2 : len2 = Longer1(len, l, 1) /\ at2 = Put1(len, at, l, len[l] + 1, new)
    OBVIOUS
  <2>11. /\ Shape(nodes', lists', len2, at2, used \cup {new})
         /\ RowsOf(nodes', len2, at2) = [RowsOf(nodes, len, at) EXCEPT ![l] = Append(@, val)]
    <3>1. Holds(nodes', lists', Longer1(len, l, 1), Put1(len, at, l, len[l] + 1, new),
                used \cup {new}, [RowsOf(nodes, len, at) EXCEPT ![l] = Append(@, val)])
      BY <2>9, AtTail
    <3> QED BY <3>1, <2>10 DEF Holds
  <2>12. IsNext(len2, at2)
    BY <2>8, <2>11 DEF IsNext
  <2>13. S!Next /\ S!Insert(l, len[l] + 1, val)
    <3>1. PICK old, row : old = RowsOf(nodes, len, at) /\ row = RowsOf(nodes', len2, at2)
      OBVIOUS
    <3>2. RowsGo(old, row)
      BY <2>12, <3>1 DEF RowsGo
    <3>3. old[l] \in Seq(Held) /\ Len(old[l]) = len[l]
      BY <3>1, RowLen
    <3>4. PICK i : i = Len(old[l]) + 1
      OBVIOUS
    <3>5. InsertAt(old[l], i, val) = Append(old[l], val) /\ i \in 1 .. Len(old[l]) + 1
      <4>1. val \in Held
        BY DEF Held
      <4>2. InsertAt(old[l], Len(old[l]) + 1, val) = Append(old[l], val)
        BY ONLY <3>3, <4>1, InsertedLast
      <4> QED BY <2>1, <3>3, <3>4, <4>2
    <3>6. \A k \in ListId, v \in Val : \A x \in 1 .. Len(old[k]) + 1 :
            lres' = v /\ row = [old EXCEPT ![k] = InsertAt(@, x, v)]
              => S!Next /\ S!Insert(k, x, v)
      BY <3>2, RowsStep
    <3>7. row = [old EXCEPT ![l] = InsertAt(@, i, val)]
      BY <2>11, <3>1, <3>5
    <3> QED BY <2>1, <2>3, <3>3, <3>4, <3>5, <3>6, <3>7
  <2>14. S!Pushback(l, val)
    BY <2>13, SeqLen DEF S!Pushback
  <2> QED BY <1>2, <2>12, <2>13, <2>14, NextIsInv
<1> QED BY <1>1, <1>2

(* Value p of list src goes to the end of dst: list_move and list_rotate.   *)
LEMMA MoveStep ==
  ASSUME NEW len, NEW at, IsNow(len, at), NEW src, src \in DOMAIN len,
         NEW dst, dst \in DOMAIN len, NEW p, p \in 1 .. len[src],
         NEW node, node = at[src][p], NEW before, before = at[src][p - 1],
         NEW val, val = nodes[node].data,
         NEW cut, cut = [nodes EXCEPT ![before].next = nodes[node].next],
         NEW shorter, shorter = [lists EXCEPT ![src].length = @ - 1],
         nodes' = AppendNode(cut, dst, node, val),
         lists' = [shorter EXCEPT ![dst].tail = node, ![dst].length = @ + 1],
         lres' = val
  PROVE  ListInv' /\ S!Next /\ S!Move(src, dst, p)
<1> DEFINE used == UsedIn(nodes)
<1>1. /\ len[src] \in Nat /\ src \in ListId
      /\ \A i \in 0 .. len[src] + 1 : at[src][i] \in used /\ at[src][i] \in Node
      /\ \A i, j \in 0 .. len[src] + 1 : at[src][i] = at[src][j] => i = j
      /\ \A i \in 0 .. len[src] : nodes[at[src][i]].next = at[src][i + 1]
      /\ nodes \in [Node -> NodeType]
      /\ lists = [k \in ListId |-> ListOf(len, at, k)]
      /\ Shape(nodes, lists, len, at, used)
  <2>1. Shape(nodes, lists, len, at, used)
    BY DEF IsNow
  <2> HIDE DEF used
  <2>2. /\ len[src] \in Nat /\ src \in ListId
        /\ \A i \in 0 .. len[src] + 1 : at[src][i] \in used /\ at[src][i] \in Node
        /\ \A i, j \in 0 .. len[src] + 1 : at[src][i] = at[src][j] => i = j
        /\ \A i \in 0 .. len[src] : nodes[at[src][i]].next = at[src][i + 1]
    BY ONLY <2>1, src \in DOMAIN len, ShapeFacts
  <2>3. nodes \in [Node -> NodeType] /\ lists = [k \in ListId |-> ListOf(len, at, k)]
    BY ONLY <2>1 DEF Shape
  <2> QED BY ONLY <2>1, <2>2, <2>3
<1>2. /\ p \in 0 .. len[src] + 1 /\ p - 1 \in 0 .. len[src] + 1 /\ p # p - 1
      /\ p \in 0 .. len[src] /\ p + 1 \in 0 .. len[src] + 1
  BY <1>1
<1>3. /\ node \in used /\ node \in Node /\ before \in used /\ before \in Node /\ node # before
      /\ nodes[node].next \in Node
  BY <1>1, <1>2
<1>4. val \in Held
  BY <1>1, <1>3 DEF NodeType
<1>5. /\ cut \in [Node -> NodeType]
      /\ cut[before] = [nodes[before] EXCEPT !.next = nodes[node].next]
      /\ \A n \in Node : n # before => cut[n] = nodes[n]
  <2> DEFINE b == [nodes[before] EXCEPT !.next = nodes[node].next]
  <2>0. nodes[before] \in NodeType /\ nodes[node].next \in Node
    BY ONLY <1>1, <1>3
  <2>1. b \in NodeType
    BY ONLY <2>0 DEF NodeType
  <2>2. cut = [nodes EXCEPT ![before] = b]
    BY <1>1, <1>3
  <2> HIDE DEF b
  <2> QED BY <1>1, <1>3, <2>1, <2>2 DEF b
<1>6. /\ cut[before].next = nodes[node].next /\ cut[before].data = nodes[before].data
      /\ cut[before].freed = nodes[before].freed
  <2>1. nodes[before] \in NodeType
    BY ONLY <1>1, <1>3
  <2> QED BY ONLY <1>5, <2>1 DEF NodeType
<1>7. NodeOut(nodes, lists, len, at, used, src, p, node, before, cut, shorter)
  <2>1. \A n \in used : n # before /\ n # node =>
          cut[n].next = nodes[n].next /\ cut[n].data = nodes[n].data
    BY <1>5 DEF UsedIn
  <2> QED BY <1>1, <1>5, <1>6, <2>1 DEF NodeOut
<1>8. PICK len1, at1 : len1 = Longer1(len, src, -1) /\ at1 = Cut1(len, at, src, p)
  OBVIOUS
<1>9. /\ Shape(cut, shorter, len1, at1, used \ {node})
      /\ RowsOf(cut, len1, at1) = [RowsOf(nodes, len, at) EXCEPT ![src] = RemoveAt(@, p)]
  <2>1. Holds(cut, shorter, Longer1(len, src, -1), Cut1(len, at, src, p), used \ {node},
              [RowsOf(nodes, len, at) EXCEPT ![src] = RemoveAt(@, p)])
    BY <1>7, CutOut
  <2> QED BY <2>1, <1>8 DEF Holds
<1>10. dst \in DOMAIN len1 /\ dst \in ListId
  BY <1>8 DEF Longer1, IsNow, Shape
<1>11. PICK t : t = lists[dst].tail
  OBVIOUS
<1>12. /\ t = at1[dst][len1[dst] + 1] /\ t \in used /\ t # node /\ t \in Node
  <2>1. /\ len1[dst] \in Nat
        /\ \A i \in 0 .. len1[dst] + 1 : at1[dst][i] \in used \ {node} /\ at1[dst][i] \in Node
        /\ shorter[dst].tail = at1[dst][len1[dst] + 1]
    <3>1. Shape(cut, shorter, len1, at1, used \ {node}) /\ dst \in DOMAIN len1
      BY <1>9, <1>10
    <3> QED BY ONLY <3>1, ShapeFacts
  <2>2. shorter[dst].tail = lists[dst].tail
    <3>1. lists[src].tail = shorter[src].tail
      <4>1. lists[src] = [head |-> at[src][0], tail |-> at[src][len[src] + 1],
                          length |-> len[src]]
        BY <1>1 DEF ListOf
      <4>2. shorter[src] = [lists[src] EXCEPT !.length = @ - 1]
        BY <1>1
      <4> QED BY <4>1, <4>2
    <3> QED BY <1>1, <1>10, <3>1
  <2>3. len1[dst] + 1 \in 0 .. len1[dst] + 1
    BY ONLY <2>1
  <2>4. t = at1[dst][len1[dst] + 1]
    BY ONLY <1>11, <2>1, <2>2
  <2> QED BY ONLY <2>1, <2>3, <2>4
<1>13. nodes' = [cut EXCEPT ![t] = Cell(node, val), ![node] = Cell(Nil, Nil)]
  BY <1>11 DEF AppendNode
<1>14. /\ nodes' \in [Node -> NodeType]
       /\ nodes'[t] = Cell(node, val) /\ nodes'[node] = Cell(Nil, Nil)
       /\ \A n \in Node : n # t /\ n # node => nodes'[n] = cut[n]
  <2>1. Cell(node, val) \in NodeType /\ Cell(Nil, Nil) \in NodeType
    BY <1>3, <1>4 DEF Cell, NodeType, Held
  <2>2. cut \in [Node -> NodeType] /\ node \in Node /\ t \in Node /\ t # node
    BY <1>3, <1>5, <1>12
  <2> QED BY ONLY <1>13, <2>1, <2>2
<1>15. /\ nodes'[t].next = node /\ nodes'[t].data = val /\ ~nodes'[t].freed
       /\ nodes'[node].next = Nil /\ ~nodes'[node].freed
  BY ONLY <1>14 DEF Cell
<1>16. UsedIn(nodes') = (used \ {node}) \cup {node}
  <2>1. \A n \in Node : nodes'[n].freed = nodes[n].freed
    <3>1. ~nodes[t].freed /\ ~nodes[node].freed
      BY <1>3, <1>12 DEF UsedIn
    <3>2. \A n \in Node : cut[n].freed = nodes[n].freed
      BY <1>5, <1>6
    <3>3. nodes[t].freed = FALSE /\ nodes[node].freed = FALSE
      <4>1. \A n \in Node : nodes[n].freed \in BOOLEAN
        BY <1>1 DEF NodeType
      <4> QED BY <1>3, <1>12, <3>1, <4>1
    <3>4. nodes'[t].freed = FALSE /\ nodes'[node].freed = FALSE
      BY ONLY <1>14 DEF Cell
    <3> QED BY <1>14, <3>2, <3>3, <3>4
  <2>2. UsedIn(nodes') = used
    BY <2>1 DEF UsedIn
  <2> QED BY <1>3, <2>2
<1>17. TailIn(cut, shorter, len1, at1, used \ {node}, dst, t, node, val, nodes', lists')
  <2>1. \A n \in used \ {node} : n # t =>
          nodes'[n].next = cut[n].next /\ nodes'[n].data = cut[n].data
    BY <1>14 DEF UsedIn
  <2>2. node \in Node \ (used \ {node})
    BY <1>3
  <2> QED BY <1>4, <1>9, <1>10, <1>12, <1>14, <1>15, <2>1, <2>2 DEF TailIn
<1>18. PICK len2, at2 : len2 = Longer1(len1, dst, 1)
                        /\ at2 = Put1(len1, at1, dst, len1[dst] + 1, node)
  OBVIOUS
<1>19. /\ Shape(nodes', lists', len2, at2, (used \ {node}) \cup {node})
       /\ RowsOf(nodes', len2, at2) = [RowsOf(cut, len1, at1) EXCEPT ![dst] = Append(@, val)]
  <2>1. PICK rest : rest = used \ {node}
    OBVIOUS
  <2>2. TailIn(cut, shorter, len1, at1, rest, dst, t, node, val, nodes', lists')
    BY <1>17, <2>1
  <2>3. Holds(nodes', lists', Longer1(len1, dst, 1), Put1(len1, at1, dst, len1[dst] + 1, node),
              rest \cup {node}, [RowsOf(cut, len1, at1) EXCEPT ![dst] = Append(@, val)])
    BY ONLY <2>2, AtTail
  <2> QED BY <2>1, <2>3, <1>18 DEF Holds
<1>20. IsNext(len2, at2)
  BY <1>16, <1>19 DEF IsNext
<1>21. S!Next /\ S!Move(src, dst, p)
  <2>1. PICK old, row : old = RowsOf(nodes, len, at) /\ row = RowsOf(nodes', len2, at2)
    OBVIOUS
  <2>2. RowsGo(old, row)
    BY <1>20, <2>1 DEF RowsGo
  <2>3. p \in 1 .. Len(old[src]) /\ old[src][p] = val
    <3>1. PICK s : s = old[src]
      OBVIOUS
    <3>2. s = RowsOf(nodes, len, at)[src]
      BY ONLY <2>1, <3>1
    <3>3. Len(s) = len[src] /\ \A i \in 1 .. len[src] : s[i] = nodes[at[src][i]].data
      BY ONLY IsNow(len, at), src \in DOMAIN len, <3>2, RowLen
    <3> QED BY <3>1, <3>3
  <2>4. row = [[old EXCEPT ![src] = RemoveAt(@, p)] EXCEPT ![dst] = Append(@, old[src][p])]
    BY <1>9, <1>19, <2>1, <2>3
  <2>5. Moves(old, row, src, dst, p)
    BY <1>1, <1>10, <2>3, <2>4 DEF Moves
  <2> QED BY <2>2, <2>5, RowsMove
<1> QED BY <1>20, <1>21, NextIsInv

(* list_create takes two nodes, or one that it gives back.                  *)
LEMMA CreateStep ==
  ASSUME NEW len, NEW at, IsNow(len, at), NEW l \in ListId, list_create(l)
  PROVE  ListInv' /\ S!Next
<1> DEFINE used == UsedIn(nodes)
<1>1. CASE Failed
  BY <1>1, FailedStep
<1>2. CASE ~Failed
  <2>1. /\ used \subseteq Node /\ nodes \in [Node -> NodeType]
        /\ DOMAIN at = DOMAIN len /\ DOMAIN len \subseteq ListId
        /\ Linked(NextOf(nodes), len, at, used)
        /\ lists = [k \in ListId |-> ListOf(len, at, k)]
    BY DEF IsNow, Shape
  <2>2. l \notin DOMAIN len
    <3>1. lists[l] = NoList
      BY <1>2 DEF list_create, Live
    <3>2. l \in DOMAIN len => lists[l] # NoList
      <4>1. l \in DOMAIN len => lists[l] # NoList
        BY ShapeFacts DEF IsNow
      <4> QED BY <4>1
    <3> QED BY <3>1, <3>2
  <2>3. PICK h, t : h = New /\ t = Min(Unused \ {h})
    OBVIOUS
  <2>4. /\ ~(Cardinality(Unused) < 2)
        /\ nodes' = [nodes EXCEPT ![h] = Cell(t, Dead), ![t] = Cell(Nil, Nil)]
        /\ lists' = [lists EXCEPT ![l] = [head |-> h, tail |-> t, length |-> 0]]
        /\ lres' = Nil
    BY <1>2, <2>3 DEF list_create
  <2>5. h \in Unused /\ t \in Unused /\ h # t
    <3>1. Unused \subseteq Node /\ Unused \subseteq Nat
      BY ListAssumption DEF Unused
    <3>2. IsFiniteSet(Unused)
      <4> HIDE DEF Unused
      <4> QED BY ListAssumption, <3>1, FS_Subset
    <3> DEFINE U == Unused
    <3> HIDE DEF U
    <3>3. U # {}
      <4>1. Cardinality({}) = 0
        BY FS_EmptySet
      <4> QED BY <2>4, <4>1 DEF U
    <3>4. U \subseteq Nat /\ IsFiniteSet(U) /\ ~(Cardinality(U) < 2) /\ h = Min(U)
      BY <2>3, <2>4, <3>1, <3>2 DEF U, New
    <3>5. h \in U
      BY ONLY <3>3, <3>4, SmallestOf
    <3>6. U \ {h} # {}
      <4>1. ASSUME U = {h}
            PROVE  FALSE
        <5>1. Cardinality({h}) = 1
          BY FS_Singleton
        <5> QED BY <3>4, <4>1, <5>1
      <4> QED BY <3>5, <4>1
    <3>7. t \in U \ {h}
      <4> DEFINE V == U \ {h}
      <4>1. V # {} /\ V \subseteq Nat /\ t = Min(V)
        BY <2>3, <3>4, <3>6 DEF U
      <4> HIDE DEF V
      <4>2. t \in V
        BY ONLY <4>1, SmallestOf
      <4> QED BY <4>2 DEF V
    <3> QED BY <3>5, <3>7 DEF U
  <2>6. h \in Node \ used /\ t \in Node \ used
    BY <2>5 DEF Unused, UsedIn
  <2>7. /\ nodes' \in [Node -> NodeType]
        /\ nodes'[h] = Cell(t, Dead) /\ nodes'[t] = Cell(Nil, Nil)
        /\ \A n \in Node : n # h /\ n # t => nodes'[n] = nodes[n]
    <3>1. Cell(t, Dead) \in NodeType /\ Cell(Nil, Nil) \in NodeType
      BY <2>6 DEF Cell, NodeType, Held
    <3>2. nodes \in [Node -> NodeType] /\ h \in Node /\ t \in Node /\ t # h
          /\ nodes' = [nodes EXCEPT ![h] = Cell(t, Dead), ![t] = Cell(Nil, Nil)]
      BY <2>1, <2>4, <2>5, <2>6
    <3> QED BY ONLY <3>1, <3>2
  <2>8. /\ nodes'[h].next = t /\ ~nodes'[h].freed /\ nodes'[t].next = Nil /\ ~nodes'[t].freed
    BY ONLY <2>7 DEF Cell
  <2>9. UsedIn(nodes') = used \cup {h, t}
    BY <2>5, <2>6, <2>7, <2>8 DEF UsedIn
  <2> DEFINE len2 == [k \in DOMAIN len \cup {l} |-> IF k = l THEN 0 ELSE len[k]]
             at2 == [k \in DOMAIN len \cup {l} |->
                       IF k = l THEN [i \in {0, 1} |-> IF i = 0 THEN h ELSE t] ELSE at[k]]
             next == NextOf(nodes)
             next2 == NextOf(nodes')
  <2>10. /\ DOMAIN len2 = DOMAIN len \cup {l} /\ DOMAIN at2 = DOMAIN len2
         /\ len2[l] = 0 /\ at2[l][0] = h /\ at2[l][1] = t
         /\ \A k \in DOMAIN len : len2[k] = len[k] /\ at2[k] = at[k]
    BY <2>2
  <2>11. /\ \A n \in Node : next[n] = nodes[n].next /\ next2[n] = nodes'[n].next
    BY DEF NextOf
  <2> HIDE DEF len2, at2, next, next2
  <2>12. Linked(next2, len2, at2, used \cup {h, t})
    <3>1. /\ next2[h] = t /\ next2[t] = 0 /\ \A n \in used : next2[n] = next[n]
      BY <2>1, <2>6, <2>7, <2>8, <2>11 DEF Nil
    <3>2. Linked(next, len, at, used) /\ h \notin used /\ t \notin used /\ h # t
      BY <2>1, <2>5, <2>6 DEF next
    <3> HIDE DEF used
    <3>3. ChainTaken(next, next2, len, at, used, l, h, t, len2, at2)
      BY <2>2, <2>10, <3>1, <3>2 DEF ChainTaken
    <3> QED BY ONLY <3>3, LinkedNew
  <2>13. lists' = [k \in ListId |-> ListOf(len2, at2, k)]
    <3>1. ListOf(len2, at2, l) = [head |-> h, tail |-> t, length |-> 0]
      <4>1. 0 + 1 = 1
        OBVIOUS
      <4> QED BY <2>10, <4>1 DEF ListOf
    <3>2. \A k \in ListId : k # l => ListOf(len2, at2, k) = ListOf(len, at, k)
      BY <2>10 DEF ListOf
    <3> QED BY <2>1, <2>4, <3>1, <3>2
  <2>14. IsNext(len2, at2)
    BY <2>1, <2>6, <2>7, <2>9, <2>10, <2>12, <2>13 DEF IsNext, Shape, next2
  <2>15. RowsOf(nodes', len2, at2) = RowsOf(nodes, len, at)
    <3> DEFINE data == DataOf(nodes)  data2 == DataOf(nodes')
    <3>1. \A k \in DOMAIN len : \A i \in 1 .. len[k] : data2[at[k][i]] = data[at[k][i]]
      <4>1. \A k \in DOMAIN len : len[k] \in Nat /\ \A i \in 0 .. len[k] + 1 : at[k][i] \in used
        BY <2>1 DEF Linked, Places
      <4>2. \A n \in used : data2[n] = data[n]
        BY <2>1, <2>6, <2>7 DEF DataOf
      <4>3. \A k \in DOMAIN len : \A i \in 1 .. len[k] : at[k][i] \in used
        BY <4>1
      <4> QED BY <4>2, <4>3
    <3>2. /\ \A k \in DOMAIN len2 : k \in DOMAIN len =>
              /\ len2[k] = len[k] /\ at2[k] = at[k]
              /\ \A i \in 1 .. len[k] : data2[at[k][i]] = data[at[k][i]]
          /\ \A k \in DOMAIN len2 : k \notin DOMAIN len => len2[k] = 0
          /\ \A k \in DOMAIN len : k \notin DOMAIN len2 => len[k] = 0
      BY <2>10, <3>1
    <3> HIDE DEF data, data2
    <3>3. Rows(ListId, data2, len2, at2) = Rows(ListId, data, len, at)
      BY ONLY <3>2, RowsKept, SMTT(30)
    <3> QED BY <3>3 DEF RowsOf, data, data2
  <2>16. S!Next
    <3>1. PICK old, row : old = RowsOf(nodes, len, at) /\ row = RowsOf(nodes', len2, at2)
      OBVIOUS
    <3>2. RowsGo(old, row)
      BY <2>14, <3>1 DEF RowsGo
    <3> QED BY <2>4, <2>15, <3>1, <3>2, RowsStep
  <2> QED BY <2>14, <2>16, NextIsInv
<1> QED BY <1>1, <1>2

(* list_destroy frees the sentinels of an empty list.                       *)
LEMMA DestroyStep ==
  ASSUME NEW len, NEW at, IsNow(len, at), NEW l \in ListId, list_destroy(l)
  PROVE  ListInv' /\ S!Next
<1> DEFINE used == UsedIn(nodes)
<1>1. CASE Failed
  BY <1>1, FailedStep
<1>2. CASE ~Failed
  <2>1. /\ used \subseteq Node /\ nodes \in [Node -> NodeType]
        /\ DOMAIN at = DOMAIN len /\ DOMAIN len \subseteq ListId
        /\ Linked(NextOf(nodes), len, at, used)
        /\ lists = [k \in ListId |-> ListOf(len, at, k)]
    BY DEF IsNow, Shape
  <2>2. l \in DOMAIN len
    BY LiveLists DEF list_destroy, Live, IsNow
  <2>3. /\ len[l] \in Nat
        /\ \A i \in 0 .. len[l] + 1 : at[l][i] \in used /\ at[l][i] \in Node
        /\ \A i, j \in 0 .. len[l] + 1 : at[l][i] = at[l][j] => i = j
        /\ lists[l].head = at[l][0] /\ lists[l].tail = at[l][len[l] + 1]
    BY <2>2, ShapeFacts DEF IsNow
  <2>4. First(l) = at[l][1]
    BY <2>2, PlaceIs
  <2>5. /\ First(l) = lists[l].tail
        /\ nodes' = [nodes EXCEPT ![lists[l].head] = Freed, ![lists[l].tail] = Freed]
        /\ lists' = [lists EXCEPT ![l] = NoList]
        /\ lres' = Nil
    BY <1>2 DEF list_destroy
  <2>6. len[l] = 0
    <3>1. 1 \in 0 .. len[l] + 1 /\ len[l] + 1 \in 0 .. len[l] + 1
      BY <2>3
    <3>2. 1 = len[l] + 1
      BY <2>3, <2>4, <2>5, <3>1
    <3> QED BY <2>3, <3>2
  <2>7. PICK h, t : h = at[l][0] /\ t = at[l][1]
    OBVIOUS
  <2>8. /\ lists[l].head = h /\ lists[l].tail = t /\ h \in Node /\ t \in Node
        /\ h \in used /\ t \in used
    <3>1. 0 + 1 = 1 /\ 0 \in 0 .. 0 + 1 /\ 1 \in 0 .. 0 + 1
      OBVIOUS
    <3> QED BY <2>3, <2>6, <2>7, <3>1
  <2>9. /\ nodes' \in [Node -> NodeType]
        /\ nodes'[h] = Freed /\ nodes'[t] = Freed
        /\ \A n \in Node : n # h /\ n # t => nodes'[n] = nodes[n]
    <3>1. Freed \in NodeType
      BY DEF Freed, NodeType, Held
    <3>2. nodes' = [nodes EXCEPT ![h] = Freed, ![t] = Freed]
      BY <2>5, <2>8
    <3>3. nodes \in [Node -> NodeType] /\ h \in Node /\ t \in Node
      BY <2>1, <2>8
    <3> QED BY ONLY <3>1, <3>2, <3>3
  <2>10. PICK used2 : used2 = used \ {h, t}
    OBVIOUS
  <2>11. UsedIn(nodes') = used2
    BY <2>8, <2>9, <2>10 DEF UsedIn, Freed
  <2> DEFINE len2 == [k \in DOMAIN len \ {l} |-> len[k]]
             at2 == [k \in DOMAIN len \ {l} |-> at[k]]
             next == NextOf(nodes)
             next2 == NextOf(nodes')
  <2>12. /\ DOMAIN len2 = DOMAIN len \ {l} /\ DOMAIN at2 = DOMAIN len2
         /\ \A k \in DOMAIN len2 : len2[k] = len[k] /\ at2[k] = at[k]
    OBVIOUS
  <2>13. /\ \A n \in Node : next[n] = nodes[n].next /\ next2[n] = nodes'[n].next
    BY DEF NextOf
  <2> HIDE DEF len2, at2, next, next2
  <2>14. Linked(next2, len2, at2, used2)
    <3>1. \A n \in used2 : next2[n] = next[n]
      BY <2>1, <2>9, <2>10, <2>13
    <3>2. Linked(next, len, at, used) /\ used2 = used \ {at[l][0], at[l][1]}
      BY <2>1, <2>7, <2>10 DEF next
    <3>3. ChainGiven(next, next2, len, at, used, l, len2, at2, used2)
      BY <2>2, <2>6, <2>12, <3>1, <3>2 DEF ChainGiven
    <3> HIDE DEF used
    <3> QED BY ONLY <3>3, LinkedGone
  <2>15. lists' = [k \in ListId |-> ListOf(len2, at2, k)]
    <3>1. ListOf(len2, at2, l) = NoList
      BY <2>12 DEF ListOf
    <3>2. \A k \in ListId : k # l => ListOf(len2, at2, k) = ListOf(len, at, k)
      BY <2>12 DEF ListOf
    <3> QED BY <2>1, <2>5, <3>1, <3>2
  <2>16. IsNext(len2, at2)
    BY <2>1, <2>9, <2>10, <2>11, <2>12, <2>14, <2>15 DEF IsNext, Shape, next2
  <2>17. RowsOf(nodes', len2, at2) = RowsOf(nodes, len, at)
    <3> DEFINE data == DataOf(nodes)  data2 == DataOf(nodes')
    <3>1. \A k \in DOMAIN len2 : \A i \in 1 .. len2[k] : data2[at2[k][i]] = data[at2[k][i]]
      <4>1. \A k \in DOMAIN len2 : len2[k] \in Nat /\ \A i \in 0 .. len2[k] + 1 : at2[k][i] \in used2
        BY <2>14 DEF Linked, Places
      <4>2. \A n \in used2 : data2[n] = data[n]
        BY <2>1, <2>9, <2>10 DEF DataOf
      <4>3. \A k \in DOMAIN len2 : \A i \in 1 .. len2[k] : at2[k][i] \in used2
        BY <4>1
      <4> QED BY <4>2, <4>3
    <3> HIDE DEF data, data2
    <3>2. /\ \A k \in DOMAIN len2 : k \in DOMAIN len =>
              /\ len2[k] = len[k] /\ at2[k] = at[k]
              /\ \A i \in 1 .. len[k] : data2[at[k][i]] = data[at[k][i]]
          /\ \A k \in DOMAIN len2 : k \notin DOMAIN len => len2[k] = 0
          /\ \A k \in DOMAIN len : k \notin DOMAIN len2 => len[k] = 0
      BY <2>6, <2>12, <3>1
    <3>3. Rows(ListId, data2, len2, at2) = Rows(ListId, data, len, at)
      BY ONLY <3>2, RowsKept, SMTT(30)
    <3> QED BY <3>3 DEF RowsOf, data, data2
  <2>18. S!Next
    <3>1. PICK old, row : old = RowsOf(nodes, len, at) /\ row = RowsOf(nodes', len2, at2)
      OBVIOUS
    <3>2. RowsGo(old, row)
      BY <2>16, <3>1 DEF RowsGo
    <3> QED BY <2>5, <2>17, <3>1, <3>2, RowsStep
  <2> QED BY <2>16, <2>18, NextIsInv
<1> QED BY <1>1, <1>2

(* The calls of the program, which name nodes and not places.               *)
LEMMA PopStep ==
  ASSUME NEW len, NEW at, IsNow(len, at), NEW l \in ListId, list_pop(l)
  PROVE  ListInv' /\ S!Next /\ S!Pop(l)
<1>1. l \in DOMAIN len
  BY LiveLists DEF list_pop, Live, IsNow
<1>s. /\ len[l] \in Nat /\ Len([k \in ListId |-> Values(k)][l]) = len[l]
      /\ [k \in ListId |-> Values(k)][l] = << >> <=> len[l] = 0
  BY <1>1, SeqLen, Zenon
<1>2. CASE NotEmpty(l)
  <2>1. 1 \in 1 .. len[l] /\ First(l) = at[l][1]
    BY <1>1, <1>2, PlaceIs
  <2>2. Drop(l, at[l][1])
    BY <1>2, <2>1 DEF list_pop
  <2>3. S!Delete(l, 1) /\ S!Next /\ ListInv'
    BY <1>1, <2>1, <2>2, DropStep
  <2>9. /\ Len([k \in ListId |-> Values(k)][l]) = len[l] /\ [k \in ListId |-> Values(k)][l] # << >>
    BY <1>s, <2>1
  <2>10. S!Pop(l)
    BY <2>3, <2>9, Zenon DEF S!Pop
  <2> QED BY <2>3, <2>10
<1>3. CASE ~NotEmpty(l)
  <2>1. [k \in ListId |-> Values(k)][l] = << >>
    BY <1>1, <1>3, <1>s, PlaceIs
  <2>2. ListInv' /\ S!Next /\ S!Nothing
    BY <1>3, FailedStep DEF list_pop
  <2>3. S!Pop(l)
    BY <2>1, <2>2, Zenon DEF S!Pop
  <2> QED BY <2>2, <2>3
<1> QED BY <1>2, <1>3

LEMMA PopbackStep ==
  ASSUME NEW len, NEW at, IsNow(len, at), NEW l \in ListId, list_popback(l)
  PROVE  ListInv' /\ S!Next /\ S!Popback(l)
<1>1. l \in DOMAIN len
  BY LiveLists DEF list_popback, Live, IsNow
<1>s. /\ len[l] \in Nat /\ Len([k \in ListId |-> Values(k)][l]) = len[l]
      /\ [k \in ListId |-> Values(k)][l] = << >> <=> len[l] = 0
  BY <1>1, SeqLen, Zenon
<1>2. CASE NotEmpty(l)
  <2>1. len[l] \in 1 .. len[l] /\ len[l] + 1 \in 1 .. len[l] + 1 /\ (len[l] + 1) - 1 = len[l]
    BY <1>1, <1>2, PlaceIs
  <2>2. lists[l].tail = at[l][len[l] + 1]
    BY <1>1, ShapeFacts DEF IsNow
  <2>3. Pred(at[l][len[l] + 1]) = at[l][(len[l] + 1) - 1]
    BY <1>1, <2>1, PredIs
  <2>4. Drop(l, at[l][len[l]])
    BY <1>2, <2>1, <2>2, <2>3 DEF list_popback
  <2>5. S!Delete(l, len[l]) /\ S!Next /\ ListInv'
    BY <1>1, <2>1, <2>4, DropStep
  <2>9. /\ Len([k \in ListId |-> Values(k)][l]) = len[l] /\ [k \in ListId |-> Values(k)][l] # << >>
    BY <1>s, <2>1
  <2>10. S!Popback(l)
    BY <2>5, <2>9, Zenon DEF S!Popback
  <2> QED BY <2>5, <2>10
<1>3. CASE ~NotEmpty(l)
  <2>1. [k \in ListId |-> Values(k)][l] = << >>
    BY <1>1, <1>3, <1>s, PlaceIs
  <2>2. ListInv' /\ S!Next /\ S!Nothing
    BY <1>3, FailedStep DEF list_popback
  <2>3. S!Popback(l)
    BY <2>1, <2>2, Zenon DEF S!Popback
  <2> QED BY <2>2, <2>3
<1> QED BY <1>2, <1>3

LEMMA RemoveStep ==
  ASSUME NEW len, NEW at, IsNow(len, at), NEW l \in ListId,
         NEW n, n \in OnList(l) \cup {lists[l].tail}, list_remove(l, n)
  PROVE  ListInv' /\ S!Next
<1>1. l \in DOMAIN len
  BY LiveLists DEF list_remove, Live, IsNow
<1>2. CASE n \in {lists[l].head, lists[l].tail}
  BY <1>2, FailedStep DEF list_remove
<1>3. CASE n \notin {lists[l].head, lists[l].tail}
  <2>1. PICK p \in 1 .. len[l] + 1 : n = at[l][p]
    BY <1>1, PlaceIs
  <2>2. lists[l].tail = at[l][len[l] + 1] /\ len[l] \in Nat
    BY <1>1, ShapeFacts DEF IsNow
  <2>3. p \in 1 .. len[l]
    <3>1. p # len[l] + 1
      BY <1>3, <2>1, <2>2
    <3> QED BY <2>2, <3>1
  <2>4. Drop(l, at[l][p])
    BY <1>3, <2>1 DEF list_remove
  <2> QED BY <1>1, <2>3, <2>4, DropStep
<1> QED BY <1>2, <1>3

LEMMA PushStep ==
  ASSUME NEW len, NEW at, IsNow(len, at), NEW l \in ListId, NEW val \in Val, list_push(l, val)
  PROVE  /\ ListInv' /\ S!Next
         /\ IF Unused = {} THEN S!Nothing ELSE S!Push(l, val)
<1>1. l \in DOMAIN len
  BY LiveLists DEF list_push, Live, IsNow
<1>2. lists[l].head = at[l][0] /\ 0 \in 0 .. len[l] + 1
  BY <1>1, ShapeFacts DEF IsNow
<1>3. list_insert(l, at[l][0], val)
  BY <1>2 DEF list_push
<1>4. nodes[at[l][0]].next # Nil
  <2>1. /\ nodes[at[l][0]].next = at[l][0 + 1] /\ 0 \in 0 .. len[l]
        /\ 0 + 1 \in 0 .. len[l] + 1 /\ at[l][0 + 1] \in Node
    BY <1>1, ShapeFacts DEF IsNow
  <2> QED BY <2>1, ListAssumption
<1>5. /\ ListInv' /\ S!Next
      /\ IF Unused = {} \/ nodes[at[l][0]].next = Nil THEN S!Nothing ELSE S!Insert(l, 0 + 1, val)
  BY <1>1, <1>2, <1>3, InsertStep
<1> QED BY <1>4, <1>5 DEF S!Push

LEMMA InsertAnyStep ==
  ASSUME NEW len, NEW at, IsNow(len, at), NEW l \in ListId, NEW val \in Val,
         NEW n, n \in OnList(l) \cup {lists[l].tail}, list_insert(l, n, val)
  PROVE  ListInv' /\ S!Next
<1>1. l \in DOMAIN len
  BY LiveLists DEF list_insert, Live, IsNow
<1>2. PICK p \in 1 .. len[l] + 1 : n = at[l][p]
  BY <1>1, PlaceIs
<1>3. p \in 0 .. len[l] + 1 /\ list_insert(l, at[l][p], val)
  BY <1>1, <1>2, ShapeFacts DEF IsNow
<1> QED BY <1>1, <1>3, InsertStep

LEMMA MoveAnyStep ==
  ASSUME NEW len, NEW at, IsNow(len, at), NEW l \in ListId, NEW dst \in ListId,
         NEW n, n \in OnList(l) \cup {lists[l].tail}, list_move(dst, l, n)
  PROVE  ListInv' /\ S!Next
<1>1. l \in DOMAIN len /\ dst \in DOMAIN len
  BY LiveLists DEF list_move, Live, IsNow
<1>2. CASE nodes[n].next = Nil
  BY <1>2, FailedStep DEF list_move
<1>3. CASE nodes[n].next # Nil
  <2>1. PICK p \in 1 .. len[l] + 1 : n = at[l][p]
    BY <1>1, PlaceIs
  <2>2. nodes[at[l][len[l] + 1]].next = Nil /\ len[l] \in Nat
    BY <1>1, ShapeFacts DEF IsNow
  <2>3. p \in 1 .. len[l]
    <3>1. p # len[l] + 1
      BY <1>3, <2>1, <2>2
    <3> QED BY <2>2, <3>1
  <2>4. Pred(n) = at[l][p - 1]
    BY <1>1, <2>1, PredIs
  <2>5. PICK before, val, cut, shorter :
          /\ before = at[l][p - 1] /\ val = nodes[n].data
          /\ cut = [nodes EXCEPT ![before].next = nodes[n].next]
          /\ shorter = [lists EXCEPT ![l].length = @ - 1]
    OBVIOUS
  <2>6. /\ nodes' = AppendNode(cut, dst, n, val)
        /\ lists' = [shorter EXCEPT ![dst].tail = n, ![dst].length = @ + 1]
        /\ lres' = val
    BY <1>3, <2>4, <2>5 DEF list_move
  <2>7. n = at[l][p]
    BY <2>1
  <2> QED BY ONLY IsNow(len, at), <1>1, <2>3, <2>5, <2>6, <2>7, MoveStep
<1> QED BY <1>2, <1>3

LEMMA RotateStep ==
  ASSUME NEW len, NEW at, IsNow(len, at), NEW l \in ListId, list_rotate(l)
  PROVE  ListInv' /\ S!Next /\ S!Rotate(l)
<1>1. l \in DOMAIN len
  BY LiveLists DEF list_rotate, Live, IsNow
<1>s. /\ len[l] \in Nat /\ Len([k \in ListId |-> Values(k)][l]) = len[l]
      /\ [k \in ListId |-> Values(k)][l] = << >> <=> len[l] = 0
  BY <1>1, SeqLen, Zenon
<1>2. CASE ~NotEmpty(l)
  <2>1. [k \in ListId |-> Values(k)][l] = << >>
    BY <1>1, <1>2, <1>s, PlaceIs
  <2>2. ListInv' /\ S!Next /\ S!Nothing
    BY <1>2, FailedStep DEF list_rotate
  <2>3. S!Rotate(l)
    BY <2>1, <2>2, Zenon DEF S!Rotate
  <2> QED BY <2>2, <2>3
<1>3. CASE NotEmpty(l)
  <2>1. /\ 1 \in 1 .. len[l] /\ First(l) = at[l][1] /\ len[l] \in Nat /\ 1 - 1 = 0
    BY <1>1, <1>3, PlaceIs
  <2>2. /\ lists[l].head = at[l][0] /\ lists[l].length = len[l]
        /\ lists = [k \in ListId |-> ListOf(len, at, k)]
    BY <1>1, ShapeFacts DEF IsNow, Shape
  <2>5. PICK node, before, val, cut, shorter :
          /\ node = at[l][1] /\ before = at[l][1 - 1] /\ val = nodes[node].data
          /\ cut = [nodes EXCEPT ![before].next = nodes[node].next]
          /\ shorter = [lists EXCEPT ![l].length = @ - 1]
    OBVIOUS
  <2>6. /\ nodes' = AppendNode(cut, l, node, val)
        /\ lists' = [lists EXCEPT ![l].tail = node]
        /\ lres' = val
    BY <1>3, <2>1, <2>2, <2>5 DEF list_rotate
  <2>7. lists' = [shorter EXCEPT ![l].tail = node, ![l].length = @ + 1]
    <3>1. lists[l] = [head |-> at[l][0], tail |-> at[l][len[l] + 1], length |-> len[l]]
      BY <1>1, <2>2 DEF ListOf
    <3>2. lists'[l] = [head |-> at[l][0], tail |-> node, length |-> len[l]]
      BY <2>2, <2>6, <3>1
    <3>3. (len[l] - 1) + 1 = len[l]
      BY <2>1
    <3>4. shorter[l] = [head |-> at[l][0], tail |-> at[l][len[l] + 1], length |-> len[l] - 1]
      BY <2>2, <2>5, <3>1
    <3>5. [shorter EXCEPT ![l].tail = node, ![l].length = @ + 1][l] = lists'[l]
      <4>1. DOMAIN shorter = ListId /\ l \in ListId
        BY <2>2, <2>5
      <4>2. PICK new : new = [shorter EXCEPT ![l].tail = node, ![l].length = @ + 1]
        OBVIOUS
      <4>3. new[l] = [head |-> at[l][0], tail |-> node, length |-> (len[l] - 1) + 1]
        BY ONLY <2>1, <3>4, <4>1, <4>2
      <4> QED BY ONLY <3>2, <3>3, <4>2, <4>3
    <3> DEFINE new == [shorter EXCEPT ![l].tail = node, ![l].length = @ + 1]
    <3>6. \A k \in ListId : k # l => new[k] = lists'[k]
      BY <2>2, <2>5, <2>6
    <3>7. new[l] = lists'[l]
      BY <3>5
    <3>8. DOMAIN new = ListId /\ DOMAIN lists' = ListId
      BY <2>2, <2>5, <2>6
    <3>9. new = [k \in ListId |-> new[k]] /\ lists' = [k \in ListId |-> lists'[k]]
      <4>1. shorter = [k \in ListId |-> shorter[k]]
        BY <2>2, <2>5
      <4>2. PICK a : a = [shorter EXCEPT ![l].tail = node]
        OBVIOUS
      <4>3. a = [k \in ListId |-> a[k]]
        BY <4>1, <4>2
      <4>4. new = [a EXCEPT ![l].length = @ + 1]
        BY <4>2
      <4>5. new = [k \in ListId |-> new[k]]
        BY ONLY <4>3, <4>4
      <4> QED BY <2>2, <2>6, <4>5
    <3> HIDE DEF new
    <3>10. new = lists'
      BY <3>6, <3>7, <3>9
    <3> QED BY <3>10 DEF new
  <2>8. PICK p : p = 1
    OBVIOUS
  <2>9. p \in 1 .. len[l] /\ node = at[l][p] /\ before = at[l][p - 1]
    BY <2>1, <2>5, <2>8
  <2>10. /\ l \in DOMAIN len /\ p \in 1 .. len[l] /\ IsNow(len, at)
         /\ node = at[l][p] /\ before = at[l][p - 1] /\ val = nodes[node].data
         /\ cut = [nodes EXCEPT ![before].next = nodes[node].next]
         /\ shorter = [lists EXCEPT ![l].length = @ - 1]
         /\ nodes' = AppendNode(cut, l, node, val)
         /\ lists' = [shorter EXCEPT ![l].tail = node, ![l].length = @ + 1]
         /\ lres' = val
    BY <1>1, <2>5, <2>6, <2>7, <2>9
  <2>11. ListInv' /\ S!Next /\ S!Move(l, l, p)
    BY ONLY <2>10, MoveStep
  <2>12. [k \in ListId |-> Values(k)][l] # << >>
    BY <1>s, <2>1
  <2>13. S!Move(l, l, 1)
    BY <2>8, <2>11
  <2>14. S!Rotate(l)
    BY <2>12, <2>13, Zenon DEF S!Rotate
  <2> QED BY <2>11, <2>14
<1> QED BY <1>2, <1>3

(* Every call keeps the shape of the lists and does what a call of SeqLists *)
(* does to the sequences of their values.                                   *)
LEMMA ListStep ==
  ASSUME ListInv, ListNext
  PROVE  ListInv' /\ S!Next
<1>1. PICK len, at : IsNow(len, at)
  BY DEF ListInv, IsNow
<1>2. PICK l \in ListId :
        \/ list_create(l) \/ list_destroy(l)
        \/ list_pop(l) \/ list_popback(l) \/ list_rotate(l)
        \/ \E val \in Val : list_push(l, val) \/ list_pushback(l, val)
        \/ \E n \in OnList(l) \cup {lists[l].tail} :
             \/ \E val \in Val : list_insert(l, n, val)
             \/ list_remove(l, n)
             \/ \E dst \in ListId : list_move(dst, l, n)
  BY DEF ListNext
<1>3. CASE list_create(l)
  BY <1>1, <1>3, CreateStep
<1>4. CASE list_destroy(l)
  BY <1>1, <1>4, DestroyStep
<1>5. CASE list_pop(l)
  BY <1>1, <1>5, PopStep
<1>6. CASE list_popback(l)
  BY <1>1, <1>6, PopbackStep
<1>7. CASE list_rotate(l)
  BY <1>1, <1>7, RotateStep
<1>8. ASSUME NEW val \in Val, list_push(l, val)
      PROVE  ListInv' /\ S!Next
  BY <1>1, <1>8, PushStep
<1>9. ASSUME NEW val \in Val, list_pushback(l, val)
      PROVE  ListInv' /\ S!Next
  <2>1. l \in DOMAIN len
    BY <1>1, <1>9, LiveLists DEF list_pushback, Live, IsNow
  <2> QED BY <1>1, <1>9, <2>1, PushbackStep
<1>10. ASSUME NEW n \in OnList(l) \cup {lists[l].tail},
              \/ \E val \in Val : list_insert(l, n, val)
              \/ list_remove(l, n)
              \/ \E dst \in ListId : list_move(dst, l, n)
       PROVE  ListInv' /\ S!Next
  <2>1. ASSUME NEW val \in Val, list_insert(l, n, val)
        PROVE  ListInv' /\ S!Next
    BY <1>1, <2>1, InsertAnyStep
  <2>2. CASE list_remove(l, n)
    BY <1>1, <2>2, RemoveStep
  <2>3. ASSUME NEW dst \in ListId, list_move(dst, l, n)
        PROVE  ListInv' /\ S!Next
    BY <1>1, <2>3, MoveAnyStep
  <2> QED BY <1>10, <2>1, <2>2, <2>3
<1> QED BY <1>2, <1>3, <1>4, <1>5, <1>6, <1>7, <1>8, <1>9, <1>10

(* At first there are no lists.                                             *)
LEMMA ListInitInv == ListInit => ListInv /\ S!Init
<1> SUFFICES ASSUME ListInit PROVE ListInv /\ S!Init
  OBVIOUS
<1>1. /\ nodes = [n \in Node |-> Freed] /\ lists = [l \in ListId |-> NoList] /\ lres = Nil
  BY DEF ListInit
<1> DEFINE none == [k \in {} |-> 0]
<1>2. Shape(nodes, lists, none, none, UsedIn(nodes))
  <2>1. Freed \in NodeType /\ Freed.freed
    BY DEF Freed, NodeType, Held
  <2>2. UsedIn(nodes) = {}
    BY <1>1, <2>1 DEF UsedIn
  <2>3. nodes \in [Node -> NodeType]
    BY <1>1, <2>1
  <2>4. DOMAIN none = {}
    OBVIOUS
  <2>5. Linked(NextOf(nodes), none, none, {})
    BY <2>4 DEF Linked
  <2>6. lists = [l \in ListId |-> ListOf(none, none, l)]
    BY <1>1, <2>4 DEF ListOf
  <2> QED BY <2>2, <2>3, <2>4, <2>5, <2>6 DEF Shape
<1>3. ListInv
  BY <1>2 DEF ListInv
<1>4. \A l \in ListId : Values(l) = << >>
  BY <1>1 DEF Values, Live
<1> QED BY <1>1, <1>3, <1>4 DEF S!Init

(* Values, list_index and list_cnext agree with the row the nodes make up.  *)
LEMMA RowNavigable == ListInv => \A l \in ListId : Navigable(l)
<1> SUFFICES ASSUME ListInv, NEW l \in ListId PROVE Navigable(l)
  OBVIOUS
<1>1. PICK len, at : IsNow(len, at)
  BY DEF ListInv, IsNow
<1>2. PICK s : s = Values(l)
  OBVIOUS
<1>3. s = RowsOf(nodes, len, at)[l]
  <2>1. PICK rows : rows = RowsOf(nodes, len, at)
    OBVIOUS
  <2>2. [k \in ListId |-> Values(k)] = rows
    BY <1>1, <2>1, SeqsNow
  <2>3. rows[l] = Values(l)
    BY <2>2
  <2> QED BY <1>2, <2>1, <2>3
<1>4. CASE l \notin DOMAIN len
  <2>1. s = << >>
    BY <1>3, <1>4 DEF RowsOf, Rows
  <2>2. lists[l].length = 0
    BY <1>1, <1>4 DEF IsNow, Shape, ListOf, NoList
  <2> QED BY <1>2, <2>1, <2>2 DEF Navigable
<1>5. CASE l \in DOMAIN len
  <2> DEFINE n == len[l]
             w == WalkOf(nodes, lists[l].head)
  <2>1. Len(s) = n /\ \A i \in 1 .. n : s[i] = nodes[at[l][i]].data
    BY <1>1, <1>3, <1>5, RowLen
  <2>2. /\ n \in Nat
        /\ \A i \in 0 .. n + 1 : at[l][i] \in Node
        /\ \A i \in 0 .. n : nodes[at[l][i]].next = at[l][i + 1]
        /\ nodes[at[l][n + 1]].next = Nil
        /\ lists[l].length = n
    BY <1>1, <1>5, ShapeFacts DEF IsNow
  <2>3. /\ Cardinality(Node) \in Nat /\ n + 2 <= Cardinality(Node)
        /\ \A k \in 0 .. Cardinality(Node) :
             w[k] = IF k <= n + 1 THEN at[l][k] ELSE Nil
    BY <1>1, <1>5, WalkIs DEF IsNow
  <2>4. Walk(l) = w
    BY DEF Walk, WalkOf
  <2>5. First(l) = at[l][1]
    BY <1>1, <1>5, PlaceIs
  <2> HIDE DEF w, n
  <2>6. ASSUME NEW i \in 1 .. n
        PROVE  /\ nodes[list_index(l, i - 1)].data = s[i]
               /\ nodes[list_cnext(l, list_index(l, i - 1))].data = S!After(s, i)
    <3>1. (i - 1) + 1 = i /\ i \in 0 .. Cardinality(Node) /\ i <= n + 1
          /\ i \in 0 .. n /\ i \in 0 .. n + 1 /\ i + 1 \in 0 .. n + 1
      BY <2>2, <2>3
    <3>2. list_index(l, i - 1) = at[l][i]
      BY <2>3, <2>4, <3>1 DEF list_index
    <3>3. nodes[at[l][i]].next = at[l][i + 1]
      BY <2>2, <3>1
    <3>4. CASE i = n
      <4>1. nodes[at[l][i + 1]].next = Nil
        BY <2>2, <3>4
      <4>2. list_cnext(l, at[l][i]) = at[l][1]
        BY <2>5, <3>3, <4>1 DEF list_cnext
      <4>3. 1 \in 1 .. n
        BY <2>2
      <4>4. S!After(s, i) = s[1]
        BY <2>1, <3>4 DEF S!After
      <4> QED BY <2>1, <3>2, <4>2, <4>3, <4>4
    <3>5. CASE i # n
      <4>1. i + 1 \in 0 .. n /\ i + 1 \in 1 .. n /\ (i + 1) + 1 \in 0 .. n + 1
        BY <2>2, <3>5
      <4>2. nodes[at[l][i + 1]].next = at[l][(i + 1) + 1] /\ at[l][(i + 1) + 1] \in Node
        BY <2>2, <4>1
      <4>3. nodes[at[l][i + 1]].next # Nil
        BY <4>2, ListAssumption
      <4>4. list_cnext(l, at[l][i]) = at[l][i + 1]
        BY <3>3, <4>3 DEF list_cnext
      <4>5. S!After(s, i) = s[i + 1]
        BY <2>1, <3>5 DEF S!After
      <4> QED BY <2>1, <3>2, <4>1, <4>4, <4>5
    <3> QED BY <3>4, <3>5
  <2> QED BY <1>2, <2>1, <2>2, <2>6 DEF Navigable
<1> QED BY <1>4, <1>5

(* A call that names no place works at the end it is named for.             *)
LEMMA EndsAreRight == ListInv => \A l \in ListId : AtItsEnd(l)
<1> SUFFICES ASSUME ListInv, NEW l \in ListId PROVE AtItsEnd(l)
  OBVIOUS
<1>1. PICK len, at : IsNow(len, at)
  BY DEF ListInv, IsNow
<1>2. ASSUME NEW val \in Val, list_push(l, val)
      PROVE  IF Unused = {} THEN S!Nothing ELSE S!Push(l, val)
  BY <1>1, <1>2, PushStep
<1>3. ASSUME NEW val \in Val, list_pushback(l, val)
      PROVE  IF Unused = {} THEN S!Nothing ELSE S!Pushback(l, val)
  <2>1. l \in DOMAIN len
    BY <1>1, <1>3, LiveLists DEF list_pushback, Live, IsNow
  <2> QED BY <1>1, <1>3, <2>1, PushbackStep
<1>4. list_pop(l) => S!Pop(l)
  BY <1>1, PopStep
<1>5. list_popback(l) => S!Popback(l)
  BY <1>1, PopbackStep
<1>6. list_rotate(l) => S!Rotate(l)
  BY <1>1, RotateStep
<1> QED BY <1>2, <1>3, <1>4, <1>5, <1>6 DEF AtItsEnd

(* The lists of lib/list.c are sequences, whatever the calls, however many  *)
(* lists there are and wherever their nodes lie: the sentinels that change  *)
(* places, the length counter and the walks of the callers included.        *)
THEOREM ListsRefineSequences == ListSpec => ListsAreSequences
<1>1. ListInv /\ [ListNext]_listVars
        => ListInv' /\ [S!Next]_<<[l \in ListId |-> Values(l)], lres>>
  <2> SUFFICES ASSUME ListInv, [ListNext]_listVars
               PROVE  ListInv' /\ [S!Next]_<<[l \in ListId |-> Values(l)], lres>>
    OBVIOUS
  <2>1. CASE ListNext
    BY <2>1, ListStep
  <2>2. CASE UNCHANGED listVars
    <3>1. PICK len, at : IsNow(len, at)
      BY DEF ListInv, IsNow
    <3>2. PICK rows : rows = RowsOf(nodes, len, at)
      OBVIOUS
    <3>3. IsNext(len, at) /\ RowsOf(nodes', len, at) = rows /\ lres' = lres
      BY <2>2, <3>1, <3>2 DEF IsNow, IsNext, listVars
    <3>4. [l \in ListId |-> Values(l)] = rows /\ [l \in ListId |-> Values(l)]' = rows
      BY <3>1, <3>2, <3>3, SeqsNow, SeqsNext
    <3> QED BY <3>3, <3>4, NextIsInv
  <2> QED BY <2>1, <2>2
<1>2. ListInv => \A l \in ListId : Navigable(l)
  BY RowNavigable
<1>3. ListInv => [\A l \in ListId : AtItsEnd(l)]_listVars
  BY EndsAreRight
<1> QED BY <1>1, <1>2, <1>3, ListInitInv, PTL DEF ListSpec, ListsAreSequences, S!Spec

-----------------------------------------------------------------------------
(* The chains read backwards, from the tail sentinel to the head sentinel.  *)
Back(len, at) == [k \in DOMAIN len |-> [i \in Places(len, k) |-> at[k][len[k] + 1 - i]]]

(* The chains depend on the links of the nodes in use only.                 *)
LEMMA LinkedSame ==
  ASSUME NEW next, NEW next2, NEW len, NEW at, NEW used, Linked(next, len, at, used),
         \A n \in used : next2[n] = next[n]
  PROVE  Linked(next2, len, at, used)
<1>1. \A l \in DOMAIN len :
        /\ len[l] \in Nat
        /\ \A i \in Places(len, l) : at[l][i] \in used
        /\ \A i \in 0 .. len[l] : next2[at[l][i]] = at[l][i + 1]
        /\ next2[at[l][len[l] + 1]] = 0
  <2> SUFFICES ASSUME NEW l \in DOMAIN len
               PROVE  /\ len[l] \in Nat
                      /\ \A i \in Places(len, l) : at[l][i] \in used
                      /\ \A i \in 0 .. len[l] : next2[at[l][i]] = at[l][i + 1]
                      /\ next2[at[l][len[l] + 1]] = 0
    OBVIOUS
  <2>1. /\ len[l] \in Nat
        /\ \A i \in Places(len, l) : at[l][i] \in used
        /\ \A i \in 0 .. len[l] : next[at[l][i]] = at[l][i + 1]
        /\ next[at[l][len[l] + 1]] = 0
    BY DEF Linked
  <2>2. len[l] + 1 \in Places(len, l) /\ \A i \in 0 .. len[l] : i \in Places(len, l)
    BY <2>1 DEF Places
  <2> QED BY <2>1, <2>2
<1> QED BY <1>1 DEF Linked

(* A place to put a node in behind, or to take one out of.                  *)
PutPlace(len, at, l, p) ==
  /\ DOMAIN at = DOMAIN len /\ \A k \in DOMAIN len : len[k] \in Nat
  /\ l \in DOMAIN len /\ p \in 0 .. len[l]

(* Seen from the tail a node is put in behind another place ...             *)
LEMMA BackPut ==
  ASSUME NEW len, NEW at, NEW l, NEW p, NEW new, PutPlace(len, at, l, p)
  PROVE  Back(Longer1(len, l, 1), Put1(len, at, l, p, new))
           = Put1(len, Back(len, at), l, len[l] - p, new)
<1> USE DEF PutPlace
<1> DEFINE n == len[l]
           len2 == Longer1(len, l, 1)
           at2 == Put1(len, at, l, p, new)
           one == Back(len2, at2)
           two == Put1(len, Back(len, at), l, len[l] - p, new)
<1>1. /\ n \in Nat /\ DOMAIN len2 = DOMAIN len /\ DOMAIN at2 = DOMAIN len /\ len2[l] = n + 1
      /\ \A k \in DOMAIN len : k # l => len2[k] = len[k] /\ at2[k] = at[k]
  BY DEF Longer1, Put1
<1>2. \A i \in 0 .. n + 2 :
        at2[l][i] = IF i <= p THEN at[l][i] ELSE IF i = p + 1 THEN new ELSE at[l][i - 1]
  BY DEF Put1
<1>3. DOMAIN one = DOMAIN len /\ DOMAIN two = DOMAIN len
      /\ one = [k \in DOMAIN len |-> one[k]] /\ two = [k \in DOMAIN len |-> two[k]]
  BY <1>1 DEF Back, Put1
<1>4. Places(len2, l) = 0 .. n + 2
  BY <1>1 DEF Places
<1>5. one[l] = [i \in 0 .. n + 2 |-> at2[l][n + 2 - i]]
  <2>1. one[l] = [i \in 0 .. n + 2 |-> at2[l][len2[l] + 1 - i]]
    BY <1>1, <1>4 DEF Back
  <2>2. \A i \in 0 .. n + 2 : len2[l] + 1 - i = n + 2 - i
    BY <1>1
  <2>3. \A i \in 0 .. n + 2 : at2[l][len2[l] + 1 - i] = at2[l][n + 2 - i]
    BY <2>2
  <2> HIDE DEF at2, one, len2, n
  <2> QED BY ONLY <2>1, <2>3
<1>6. two[l] = [i \in 0 .. n + 2 |->
                  IF i <= n - p THEN Back(len, at)[l][i]
                  ELSE IF i = (n - p) + 1 THEN new ELSE Back(len, at)[l][i - 1]]
  BY DEF Put1, Back
<1>7. \A i \in 0 .. n + 1 : Back(len, at)[l][i] = at[l][n + 1 - i]
  BY DEF Back, Places
<1> HIDE DEF at2, one, two, len2
<1>8. ASSUME NEW i \in 0 .. n + 2
      PROVE  at2[l][n + 2 - i]
               = IF i <= n - p THEN Back(len, at)[l][i]
                 ELSE IF i = (n - p) + 1 THEN new ELSE Back(len, at)[l][i - 1]
  <2>1. n + 2 - i \in 0 .. n + 2
    BY <1>1
  <2>2. CASE i <= n - p
    <3>1. ~(n + 2 - i <= p) /\ n + 2 - i # p + 1 /\ (n + 2 - i) - 1 = n + 1 - i
          /\ i \in 0 .. n + 1
      BY <1>1, <2>2
    <3>2. at2[l][n + 2 - i] = at[l][n + 1 - i]
      BY <1>2, <2>1, <3>1
    <3> QED BY <1>7, <2>2, <3>1, <3>2
  <2>3. CASE i = (n - p) + 1
    <3>1. n + 2 - i = p + 1 /\ ~(n + 2 - i <= p) /\ ~(i <= n - p)
      BY <1>1, <2>3
    <3>2. at2[l][n + 2 - i] = new
      BY <1>2, <2>1, <3>1
    <3> QED BY <2>3, <3>1, <3>2
  <2>4. CASE ~(i <= n - p) /\ i # (n - p) + 1
    <3>1. n + 2 - i <= p /\ i - 1 \in 0 .. n + 1 /\ n + 1 - (i - 1) = n + 2 - i
      BY <1>1, <2>4
    <3>2. at2[l][n + 2 - i] = at[l][n + 2 - i]
      BY <1>2, <2>1, <3>1
    <3>3. Back(len, at)[l][i - 1] = at[l][n + 2 - i]
      BY <1>7, <3>1
    <3> QED BY <2>4, <3>2, <3>3
  <2> QED BY <2>2, <2>3, <2>4
<1>9. one[l] = two[l]
  BY <1>5, <1>6, <1>8
<1>10. \A k \in DOMAIN len : k # l => one[k] = two[k]
  <2> SUFFICES ASSUME NEW k \in DOMAIN len, k # l PROVE one[k] = two[k]
    OBVIOUS
  <2>1. Places(len2, k) = Places(len, k) /\ len2[k] = len[k] /\ at2[k] = at[k]
    BY <1>1 DEF Places
  <2>2. one[k] = [i \in Places(len2, k) |-> at2[k][len2[k] + 1 - i]]
    BY <1>1 DEF one, Back
  <2>3. two[k] = [i \in Places(len, k) |-> at[k][len[k] + 1 - i]]
    BY DEF two, Back, Put1
  <2> QED BY <2>1, <2>2, <2>3
<1>11. one = two
  BY <1>3, <1>9, <1>10
<1> QED BY <1>11 DEF one, two, len2, at2

(* ... and taken out of another place.                                      *)
LEMMA BackCut ==
  ASSUME NEW len, NEW at, NEW l, NEW p, PutPlace(len, at, l, p), p # 0
  PROVE  Back(Longer1(len, l, -1), Cut1(len, at, l, p))
           = Cut1(len, Back(len, at), l, len[l] + 1 - p)
<1> USE DEF PutPlace
<1> DEFINE n == len[l]
           len2 == Longer1(len, l, -1)
           at2 == Cut1(len, at, l, p)
           one == Back(len2, at2)
           two == Cut1(len, Back(len, at), l, len[l] + 1 - p)
<1>1. /\ n \in Nat /\ DOMAIN len2 = DOMAIN len /\ DOMAIN at2 = DOMAIN len /\ len2[l] = n - 1
      /\ \A k \in DOMAIN len : k # l => len2[k] = len[k] /\ at2[k] = at[k]
  BY DEF Longer1, Cut1
<1>2. \A i \in 0 .. n : at2[l][i] = IF i < p THEN at[l][i] ELSE at[l][i + 1]
  BY DEF Cut1
<1>3. DOMAIN one = DOMAIN len /\ DOMAIN two = DOMAIN len
      /\ one = [k \in DOMAIN len |-> one[k]] /\ two = [k \in DOMAIN len |-> two[k]]
  BY <1>1 DEF Back, Cut1
<1>4. Places(len2, l) = 0 .. n /\ len2[l] + 1 = n
  BY <1>1 DEF Places
<1>5. one[l] = [i \in 0 .. n |-> at2[l][n - i]]
  <2>1. one[l] = [i \in 0 .. n |-> at2[l][len2[l] + 1 - i]]
    BY <1>1, <1>4 DEF Back
  <2>2. \A i \in 0 .. n : len2[l] + 1 - i = n - i
    <3> HIDE DEF len2, n
    <3> QED BY <1>1, <1>4
  <2>3. \A i \in 0 .. n : at2[l][len2[l] + 1 - i] = at2[l][n - i]
    BY <2>2
  <2> HIDE DEF at2, one, len2, n
  <2> QED BY ONLY <2>1, <2>3
<1>6. two[l] = [i \in 0 .. n |-> IF i < n + 1 - p THEN Back(len, at)[l][i]
                                 ELSE Back(len, at)[l][i + 1]]
  BY DEF Cut1, Back
<1>7. \A i \in 0 .. n + 1 : Back(len, at)[l][i] = at[l][n + 1 - i]
  BY DEF Back, Places
<1> HIDE DEF at2, one, two, len2
<1>8. ASSUME NEW i \in 0 .. n
      PROVE  at2[l][n - i] = IF i < n + 1 - p THEN Back(len, at)[l][i]
                             ELSE Back(len, at)[l][i + 1]
  <2>1. n - i \in 0 .. n
    BY <1>1
  <2>2. CASE i < n + 1 - p
    <3>1. ~(n - i < p) /\ (n - i) + 1 = n + 1 - i /\ i \in 0 .. n + 1
      BY <1>1, <2>2
    <3>2. at2[l][n - i] = at[l][n + 1 - i]
      BY <1>2, <2>1, <3>1
    <3> QED BY <1>7, <2>2, <3>1, <3>2
  <2>3. CASE ~(i < n + 1 - p)
    <3>1. n - i < p /\ i + 1 \in 0 .. n + 1 /\ n + 1 - (i + 1) = n - i
      BY <1>1, <2>3
    <3>2. at2[l][n - i] = at[l][n - i]
      BY <1>2, <2>1, <3>1
    <3>3. Back(len, at)[l][i + 1] = at[l][n - i]
      BY <1>7, <3>1
    <3> QED BY <2>3, <3>2, <3>3
  <2> QED BY <2>2, <2>3
<1>9. one[l] = two[l]
  BY <1>5, <1>6, <1>8
<1>10. \A k \in DOMAIN len : k # l => one[k] = two[k]
  <2> SUFFICES ASSUME NEW k \in DOMAIN len, k # l PROVE one[k] = two[k]
    OBVIOUS
  <2>1. Places(len2, k) = Places(len, k) /\ len2[k] = len[k] /\ at2[k] = at[k]
    BY <1>1 DEF Places
  <2>2. one[k] = [i \in Places(len2, k) |-> at2[k][len2[k] + 1 - i]]
    BY <1>1 DEF one, Back
  <2>3. two[k] = [i \in Places(len, k) |-> at[k][len[k] + 1 - i]]
    BY DEF two, Back, Cut1
  <2> QED BY <2>1, <2>2, <2>3
<1>11. one = two
  BY <1>3, <1>9, <1>10
<1> QED BY <1>11 DEF one, two, len2, at2

-----------------------------------------------------------------------------
(* The doubly linked lists. *)

(* The parts of the memory of DList that the chains are about.              *)
DNextOf(m) == [n \in DNode |-> m[n].next]
DDataOf(m) == [n \in DNode |-> m[n].data]
DHeld == DVal \cup {DNil, DDead}
DNodeType == [prev : DNode \cup {DNil}, next : DNode \cup {DNil},
              data : DHeld, freed : BOOLEAN]
DListOf(len, at, l) ==
  IF l \in DOMAIN len
  THEN [head |-> at[l][0], tail |-> at[l][len[l] + 1], length |-> len[l]] ELSE NoDList
DUsedIn(m) == {n \in DNode : ~m[n].freed}

(* The live lists are the domain of len and at: each is a chain of nodes,   *)
(* from its head to its tail, and the nodes that are not free are on them.  *)
DForward(m, ls, len, at, used) ==
  /\ m \in [DNode -> DNodeType]
  /\ used \subseteq DNode
  /\ DOMAIN at = DOMAIN len /\ DOMAIN len \subseteq DListId
  /\ Linked(DNextOf(m), len, at, used)
  /\ ls = [l \in DListId |-> DListOf(len, at, l)]

(* The rows of a memory, and what a change of it has to establish.          *)
DRowsOf(m, len, at) == Rows(DListId, DDataOf(m), len, at)
DHolds(m, ls, len, at, used, rows) ==
  DForward(m, ls, len, at, used) /\ DRowsOf(m, len, at) = rows

(* The walk and the values of DList, of any memory m. *)
DWalkOf(m, first) ==
  LET at[k \in 0 .. Cardinality(DNode)] ==
        IF k = 0 THEN first
        ELSE IF at[k - 1] \in DNode THEN m[at[k - 1]].next ELSE DNil
  IN at
DValuesOf(m, ls, l) ==
  IF ls[l] = NoDList THEN << >>
  ELSE LET w == DWalkOf(m, ls[l].head)
           last == Max({k \in DOMAIN w : w[k] # DNil})
       IN [k \in 1 .. last - 1 |-> m[w[k]].data]

(* What the shape says of one live list.                                    *)
LEMMA DForwardFacts ==
  ASSUME NEW m, NEW ls, NEW len, NEW at, NEW used, DForward(m, ls, len, at, used),
         NEW l, l \in DOMAIN len
  PROVE  /\ len[l] \in Nat /\ l \in DListId
         /\ \A i \in 0 .. len[l] + 1 : at[l][i] \in used /\ at[l][i] \in DNode
         /\ \A i \in 0 .. len[l] : m[at[l][i]].next = at[l][i + 1]
         /\ m[at[l][len[l] + 1]].next = DNil
         /\ \A i, j \in 0 .. len[l] + 1 : at[l][i] = at[l][j] => i = j
         /\ ls[l].head = at[l][0] /\ ls[l].tail = at[l][len[l] + 1] /\ ls[l].length = len[l]
         /\ ls[l] # NoDList
<1>1. /\ len[l] \in Nat
      /\ \A i \in Places(len, l) : at[l][i] \in used
      /\ \A i \in 0 .. len[l] : DNextOf(m)[at[l][i]] = at[l][i + 1]
      /\ DNextOf(m)[at[l][len[l] + 1]] = 0
      /\ \A i, j \in Places(len, l) : at[l][i] = at[l][j] => i = j
      /\ used \subseteq DNode /\ l \in DListId
  BY DEF DForward, Linked
<1>2. \A i \in 0 .. len[l] + 1 : at[l][i] \in used /\ at[l][i] \in DNode
  BY <1>1 DEF Places
<1>3. /\ \A i \in 0 .. len[l] : m[at[l][i]].next = at[l][i + 1]
      /\ m[at[l][len[l] + 1]].next = DNil
  BY <1>1, <1>2 DEF DNextOf, DNil
<1>4. ls[l] = [head |-> at[l][0], tail |-> at[l][len[l] + 1], length |-> len[l]]
  BY <1>1 DEF DForward, DListOf
<1>5. at[l][0] # 0
  BY <1>1, <1>2, DListAssumption DEF DNil
<1>6. ls[l] # NoDList
  BY <1>4, <1>5 DEF NoDList, DNil
<1> QED BY <1>1, <1>2, <1>3, <1>4, <1>6 DEF Places

(* A list that exists is a chain.                                           *)
LEMMA DLiveLists ==
  ASSUME NEW m, NEW ls, NEW len, NEW at, NEW used, DForward(m, ls, len, at, used),
         NEW l, l \in DListId, ls[l] # NoDList
  PROVE  l \in DOMAIN len
BY DEF DForward, DListOf

(* The walk from the head visits the nodes of the chain, and then nothing.  *)
LEMMA DWalkIs ==
  ASSUME NEW m, NEW ls, NEW len, NEW at, NEW used, DForward(m, ls, len, at, used),
         NEW l, l \in DOMAIN len, NEW w, w = DWalkOf(m, ls[l].head)
  PROVE  /\ Cardinality(DNode) \in Nat /\ len[l] + 2 <= Cardinality(DNode)
         /\ DOMAIN w = 0 .. Cardinality(DNode)
         /\ \A k \in 0 .. Cardinality(DNode) :
              w[k] = IF k <= len[l] + 1 THEN at[l][k] ELSE DNil
<1> DEFINE c == Cardinality(DNode)
           next == DNextOf(m)
           first == at[l][0]
<1>1. /\ Linked(next, len, at, used) /\ used \subseteq DNode
      /\ IsFiniteSet(DNode) /\ 0 \notin DNode
  BY DListAssumption DEF DForward, DNil
<1>2. c \in Nat /\ len[l] + 2 <= c
  <2> HIDE DEF next
  <2> QED BY <1>1, ChainFits
<1>3. \A n \in DNode : next[n] = m[n].next /\ next[n] \in DNode \cup {0}
  <2>1. m \in [DNode -> DNodeType]
    BY DEF DForward
  <2>2. \A n \in DNode : m[n].next \in DNode \cup {0}
    BY <2>1 DEF DNodeType, DNil
  <2> QED BY <2>2 DEF DNextOf
<1>4. ls[l].head = first /\ first \in DNode
  BY DForwardFacts
<1>5. DWalkOf(m, first) = CHOOSE f : f = [k \in 0 .. c |->
        IF k = 0 THEN first ELSE IF f[k - 1] \in DNode THEN m[f[k - 1]].next ELSE DNil]
  BY DEF DWalkOf
<1>6. \E f : f = [k \in 0 .. c |->
        IF k = 0 THEN first ELSE IF f[k - 1] \in DNode THEN next[f[k - 1]] ELSE 0]
  <2>1. \A n \in DNode : next[n] \in DNode \cup {0}
    BY <1>3
  <2> HIDE DEF next, first
  <2> QED BY ONLY <1>1, <2>1, <1>4, WalkExists DEF c
<1>7. PICK f : f = [k \in 0 .. c |->
        IF k = 0 THEN first ELSE IF f[k - 1] \in DNode THEN next[f[k - 1]] ELSE 0]
  BY <1>6
<1>8. f = [k \in 0 .. c |->
        IF k = 0 THEN first ELSE IF f[k - 1] \in DNode THEN m[f[k - 1]].next ELSE DNil]
  <2> HIDE DEF next, first, c
  <2>1. \A k \in 0 .. c :
          (IF k = 0 THEN first ELSE IF f[k - 1] \in DNode THEN next[f[k - 1]] ELSE 0)
          = (IF k = 0 THEN first ELSE IF f[k - 1] \in DNode THEN m[f[k - 1]].next ELSE DNil)
    BY <1>3 DEF DNil
  <2> QED BY <1>7, <2>1
<1>9. w = [k \in 0 .. c |->
        IF k = 0 THEN first ELSE IF w[k - 1] \in DNode THEN m[w[k - 1]].next ELSE DNil]
  <2> HIDE DEF next, first, c
  <2> QED BY <1>4, <1>5, <1>8
<1>10. \A k \in 0 .. c : w[k] = IF k = 0 THEN first
                                ELSE IF w[k - 1] \in DNode THEN next[w[k - 1]] ELSE 0
  <2> HIDE DEF next, first, c
  <2> QED BY <1>3, <1>9 DEF DNil
<1>11. \A k \in 0 .. c : w[k] = IF k <= len[l] + 1 THEN at[l][k] ELSE 0
  <2> HIDE DEF next
  <2> QED BY <1>1, <1>10, WalkAlong
<1> QED BY <1>2, <1>9, <1>11 DEF DNil

(* What the walk reads is the row of the chain.                             *)
LEMMA DValuesAre ==
  ASSUME NEW m, NEW ls, NEW len, NEW at, NEW used, DForward(m, ls, len, at, used),
         NEW l, l \in DListId
  PROVE  DValuesOf(m, ls, l) = DRowsOf(m, len, at)[l]
<1>1. CASE l \notin DOMAIN len
  <2>1. ls[l] = NoDList
    BY <1>1 DEF DForward, DListOf
  <2> QED BY <1>1, <2>1 DEF DValuesOf, DRowsOf, Rows
<1>2. CASE l \in DOMAIN len
  <2> DEFINE w == DWalkOf(m, ls[l].head)
             n == len[l]
             c == Cardinality(DNode)
             Spots == {k \in DOMAIN w : w[k] # DNil}
  <2>1. /\ c \in Nat /\ n + 2 <= c /\ n \in Nat
        /\ DOMAIN w = 0 .. c
        /\ \A k \in 0 .. c : w[k] = IF k <= n + 1 THEN at[l][k] ELSE DNil
    BY <1>2, DWalkIs, DForwardFacts
  <2>2. /\ \A k \in 0 .. n + 1 : at[l][k] \in DNode
        /\ DNil \notin DNode
        /\ ls[l] # NoDList
    BY <1>2, DForwardFacts, DListAssumption
  <2> HIDE DEF w, n, c
  <2>3. Spots = 0 .. n + 1
    <3>1. \A k \in 0 .. n + 1 : k \in 0 .. c /\ k <= n + 1 /\ w[k] = at[l][k]
      BY <2>1
    <3>2. \A k \in 0 .. c : k \in 0 .. n + 1 \/ ~(k <= n + 1)
      BY <2>1
    <3> QED BY <2>1, <2>2, <3>1, <3>2
  <2> HIDE DEF Spots
  <2>4. Max(Spots) = n + 1
    <3>1. n + 1 \in Spots /\ \A y \in Spots : n + 1 >= y
      BY <2>1, <2>3
    <3>2. \A x \in Spots : (\A y \in Spots : x >= y) => x = n + 1
      BY <2>1, <2>3
    <3> QED BY <3>1, <3>2 DEF Max
  <2> DEFINE Upto(top) == [k \in 1 .. top |-> m[w[k]].data]
  <2>5. DValuesOf(m, ls, l) = Upto(n)
    <3>1. DValuesOf(m, ls, l) = Upto(Max(Spots) - 1)
      BY <2>2, Zenon DEF DValuesOf, w, Spots
    <3>2. Max(Spots) - 1 = n
      BY <2>1, <2>4
    <3> HIDE DEF Upto
    <3> QED BY <3>1, <3>2
  <2>6. \A k \in 1 .. n : m[w[k]].data = DDataOf(m)[at[l][k]]
    <3>1. \A k \in 1 .. n : k \in 0 .. c /\ k <= n + 1 /\ k \in 0 .. n + 1
      BY <2>1
    <3>2. \A k \in 1 .. n : w[k] = at[l][k] /\ at[l][k] \in DNode
      BY <2>1, <2>2, <3>1
    <3> QED BY <3>2 DEF DDataOf
  <2>8. DValuesOf(m, ls, l) = [k \in 1 .. n |-> DDataOf(m)[at[l][k]]]
    BY <2>5, <2>6
  <2> QED BY <1>2, <2>8 DEF DRowsOf, Rows, Row, n
<1> QED BY <1>1, <1>2

(* What a node is and where it is decides what the lists hold.              *)
DMiddleIn(m, ls, len, at, used, l, p, new, v, m2, ls2) ==
  /\ DForward(m, ls, len, at, used)
  /\ l \in DOMAIN len /\ p \in 0 .. len[l] /\ new \in DNode \ used /\ v \in DHeld
  /\ m2 \in [DNode -> DNodeType]
  /\ m2[new].next = m[at[l][p]].next /\ m2[new].data = v
  /\ m2[at[l][p]].next = new /\ m2[at[l][p]].data = m[at[l][p]].data
  /\ \A n \in used : n # at[l][p] => m2[n].next = m[n].next /\ m2[n].data = m[n].data
  /\ ls2 = [ls EXCEPT ![l].length = @ + 1]
LEMMA DInMiddle ==
  ASSUME NEW m, NEW ls, NEW len, NEW at, NEW used, NEW l, NEW p, NEW new, NEW v,
         NEW m2, NEW ls2, DMiddleIn(m, ls, len, at, used, l, p, new, v, m2, ls2)
  PROVE  DHolds(m2, ls2, Longer1(len, l, 1), Put1(len, at, l, p, new), used \cup {new},
               [DRowsOf(m, len, at) EXCEPT ![l] = InsertAt(@, p + 1, v)])
<1>0. /\ DForward(m, ls, len, at, used)
      /\ l \in DOMAIN len /\ p \in 0 .. len[l] /\ new \in DNode \ used /\ v \in DHeld
      /\ m2 \in [DNode -> DNodeType]
      /\ m2[new].next = m[at[l][p]].next /\ m2[new].data = v
      /\ m2[at[l][p]].next = new /\ m2[at[l][p]].data = m[at[l][p]].data
      /\ \A n \in used : n # at[l][p] => m2[n].next = m[n].next /\ m2[n].data = m[n].data
      /\ ls2 = [ls EXCEPT ![l].length = @ + 1]
  BY DEF DMiddleIn
<1>a. PICK len2, at2 : len2 = Longer1(len, l, 1) /\ at2 = Put1(len, at, l, p, new)
  OBVIOUS
<1> USE <1>0, <1>a
<1> DEFINE next == DNextOf(m)  next2 == DNextOf(m2)
           data == DDataOf(m)  data2 == DDataOf(m2)
<1>1. /\ Linked(next, len, at, used) /\ DOMAIN at = DOMAIN len /\ DOMAIN len \subseteq DListId
      /\ used \subseteq DNode /\ m \in [DNode -> DNodeType]
      /\ ls = [k \in DListId |-> DListOf(len, at, k)]
  BY DEF DForward
<1>2. /\ \A n \in DNode : next[n] = m[n].next /\ next2[n] = m2[n].next
      /\ \A n \in DNode : data[n] = m[n].data /\ data2[n] = m2[n].data /\ data[n] \in DHeld
  <2>1. \A n \in DNode : m[n].data \in DHeld
    BY <1>1 DEF DNodeType
  <2> QED BY <2>1 DEF DNextOf, DDataOf
<1>3. /\ len[l] \in Nat /\ l \in DListId /\ p \in Places(len, l)
      /\ \A i \in 0 .. len[l] + 1 : at[l][i] \in used /\ at[l][i] \in DNode
      /\ at[l][p] \in used /\ at[l][p] \in DNode
      /\ ls[l] = [head |-> at[l][0], tail |-> at[l][len[l] + 1], length |-> len[l]]
  <2>1. len[l] \in Nat /\ l \in DListId /\ \A i \in 0 .. len[l] + 1 : at[l][i] \in used /\ at[l][i] \in DNode
    BY DForwardFacts
  <2>2. p \in 0 .. len[l] + 1
    BY <2>1
  <2> QED BY <1>1, <2>1, <2>2 DEF Places, DListOf
<1> HIDE DEF next, next2, data, data2
<1>4. Linked(next2, len2, at2, used \cup {new})
  <2>1. /\ new \notin used /\ next2[at[l][p]] = new /\ next2[new] = next[at[l][p]]
        /\ \A n \in used : n # at[l][p] => next2[n] = next[n]
    BY <1>1, <1>2, <1>3
  <2>2. DOMAIN at = DOMAIN len /\ Linked(next, len, at, used) /\ p \in Places(len, l)
    BY <1>1, <1>3
  <2>3. Linked(next2, Longer1(len, l, 1), Put1(len, at, l, p, new), used \cup {new})
    BY ONLY l \in DOMAIN len, <2>1, <2>2, LinkedIn
  <2> QED BY <2>3
<1>5. Rows(DListId, data2, len2, at2)
        = [Rows(DListId, data, len, at) EXCEPT ![l] = InsertAt(@, p + 1, v)]
  <2>1. ValueIn(DHeld, DListId, next, len, at, used, data, l, p, new, v, data2)
    BY <1>1, <1>2 DEF ValueIn, Chains
  <2> QED BY <2>1, RowsPut
<1>6. /\ DOMAIN at2 = DOMAIN len2 /\ DOMAIN len2 = DOMAIN len
      /\ len2[l] = len[l] + 1 /\ at2[l][0] = at[l][0]
      /\ at2[l][len[l] + 2] = at[l][len[l] + 1]
      /\ \A k \in DOMAIN len : k # l => len2[k] = len[k] /\ at2[k] = at[k]
  <2>1. \A i \in 0 .. len[l] + 2 : at2[l][i]
          = IF i <= p THEN at[l][i] ELSE IF i = p + 1 THEN new ELSE at[l][i - 1]
    BY <1>1 DEF Put1
  <2>2. /\ 0 \in 0 .. len[l] + 2 /\ 0 <= p /\ len[l] + 2 \in 0 .. len[l] + 2
        /\ ~(len[l] + 2 <= p) /\ len[l] + 2 # p + 1 /\ (len[l] + 2) - 1 = len[l] + 1
    BY <1>3
  <2> QED BY <1>1, <2>1, <2>2 DEF Longer1, Put1
<1>7. ls2 = [k \in DListId |-> DListOf(len2, at2, k)]
  <2>1. ls2[l] = [head |-> at[l][0], tail |-> at[l][len[l] + 1], length |-> len[l] + 1]
    BY <1>1, <1>3
  <2>2. (len[l] + 1) + 1 = len[l] + 2
    BY <1>3
  <2>3. DListOf(len2, at2, l) = ls2[l]
    BY <1>3, <1>6, <2>1, <2>2 DEF DListOf
  <2>4. \A k \in DListId : k # l => DListOf(len2, at2, k) = DListOf(len, at, k)
    BY <1>6 DEF DListOf
  <2>5. \A k \in DListId : k # l => ls2[k] = DListOf(len, at, k)
    BY <1>1
  <2>6. ls2 = [k \in DListId |-> ls2[k]]
    BY <1>1
  <2> QED BY <2>3, <2>4, <2>5, <2>6
<1> QED BY <1>1, <1>4, <1>5, <1>6, <1>7 DEF DHolds, DForward, DRowsOf, next2, data, data2

(* The shape in the form in which the lemmas about rows take it.            *)
LEMMA DForwardParts ==
  ASSUME NEW m, NEW ls, NEW len, NEW at, NEW used, DForward(m, ls, len, at, used)
  PROVE  /\ Chains(DHeld, DListId, DNextOf(m), len, at, used, DDataOf(m))
         /\ used \subseteq DNode /\ m \in [DNode -> DNodeType]
         /\ ls = [k \in DListId |-> DListOf(len, at, k)]
<1>1. \A n \in DNode : m[n].data \in DHeld
  BY DEF DForward, DNodeType
<1>2. \A n \in used : DDataOf(m)[n] \in DHeld
  BY <1>1 DEF DDataOf, DForward
<1> QED BY <1>2 DEF DForward, Chains

(* The node before another one gets its successor.                          *)
DNodeOut(m, ls, len, at, used, l, p, node, before, m2, ls2) ==
  /\ DForward(m, ls, len, at, used)
  /\ l \in DOMAIN len /\ p \in 1 .. len[l] /\ node = at[l][p] /\ before = at[l][p - 1]
  /\ m2 \in [DNode -> DNodeType]
  /\ m2[before].next = m[node].next /\ m2[before].data = m[before].data
  /\ \A n \in used : n # before /\ n # node =>
       m2[n].next = m[n].next /\ m2[n].data = m[n].data
  /\ ls2 = [ls EXCEPT ![l].length = @ - 1]
LEMMA DCutOut ==
  ASSUME NEW m, NEW ls, NEW len, NEW at, NEW used, NEW l, NEW p, NEW node, NEW before,
         NEW m2, NEW ls2, DNodeOut(m, ls, len, at, used, l, p, node, before, m2, ls2)
  PROVE  DHolds(m2, ls2, Longer1(len, l, -1), Cut1(len, at, l, p), used \ {node},
               [DRowsOf(m, len, at) EXCEPT ![l] = RemoveAt(@, p)])
<1>0. /\ DForward(m, ls, len, at, used)
      /\ l \in DOMAIN len /\ p \in 1 .. len[l] /\ node = at[l][p] /\ before = at[l][p - 1]
      /\ m2 \in [DNode -> DNodeType]
      /\ m2[before].next = m[node].next /\ m2[before].data = m[before].data
      /\ \A n \in used : n # before /\ n # node =>
           m2[n].next = m[n].next /\ m2[n].data = m[n].data
      /\ ls2 = [ls EXCEPT ![l].length = @ - 1]
  BY DEF DNodeOut
<1>a. PICK len2, at2 : len2 = Longer1(len, l, -1) /\ at2 = Cut1(len, at, l, p)
  OBVIOUS
<1> USE <1>0, <1>a
<1> DEFINE next == DNextOf(m)  next2 == DNextOf(m2)
           data == DDataOf(m)  data2 == DDataOf(m2)
<1>1. /\ Chains(DHeld, DListId, next, len, at, used, data)
      /\ used \subseteq DNode /\ m \in [DNode -> DNodeType]
      /\ ls = [k \in DListId |-> DListOf(len, at, k)]
  BY DForwardParts
<1>d. DOMAIN at = DOMAIN len /\ DOMAIN len \subseteq DListId /\ Linked(next, len, at, used)
  BY <1>1 DEF Chains
<1>2. /\ \A n \in DNode : next[n] = m[n].next /\ next2[n] = m2[n].next
      /\ \A n \in DNode : data[n] = m[n].data /\ data2[n] = m2[n].data
  BY DEF DNextOf, DDataOf
<1>3. /\ len[l] \in Nat /\ l \in DListId
      /\ node \in used /\ node \in DNode /\ before \in used /\ before \in DNode
      /\ ls[l] = [head |-> at[l][0], tail |-> at[l][len[l] + 1], length |-> len[l]]
  <2>1. /\ len[l] \in Nat /\ l \in DListId
        /\ \A i \in 0 .. len[l] + 1 : at[l][i] \in used /\ at[l][i] \in DNode
    BY DForwardFacts
  <2>2. p \in 0 .. len[l] + 1 /\ p - 1 \in 0 .. len[l] + 1
    BY <2>1
  <2> QED BY <1>1, <2>1, <2>2 DEF DListOf
<1> HIDE DEF next, next2, data, data2
<1>4. Linked(next2, len2, at2, used \ {node})
  <2>1. /\ next2[at[l][p - 1]] = next[at[l][p]]
        /\ \A n \in used : n # at[l][p - 1] /\ n # at[l][p] => next2[n] = next[n]
    BY <1>1, <1>2, <1>3
  <2>3. Linked(next2, Longer1(len, l, -1), Cut1(len, at, l, p), used \ {at[l][p]})
    BY ONLY l \in DOMAIN len, p \in 1 .. len[l], <2>1, <1>d, LinkedOut
  <2> QED BY <2>3
<1>5. Rows(DListId, data2, len2, at2) = [Rows(DListId, data, len, at) EXCEPT ![l] = RemoveAt(@, p)]
  <2>1. ValueOut(DHeld, DListId, next, len, at, used, data, l, p, data2)
    BY <1>1, <1>2, <1>3 DEF ValueOut
  <2> QED BY <2>1, RowsCut
<1>6. /\ DOMAIN at2 = DOMAIN len2 /\ DOMAIN len2 = DOMAIN len
      /\ len2[l] = len[l] - 1 /\ at2[l][0] = at[l][0]
      /\ at2[l][len[l]] = at[l][len[l] + 1]
      /\ \A k \in DOMAIN len : k # l => len2[k] = len[k] /\ at2[k] = at[k]
  <2>1. \A i \in 0 .. len[l] : at2[l][i] = IF i < p THEN at[l][i] ELSE at[l][i + 1]
    BY <1>d DEF Cut1
  <2>2. 0 \in 0 .. len[l] /\ 0 < p /\ len[l] \in 0 .. len[l] /\ ~(len[l] < p)
    BY <1>3
  <2>3. at2[l][0] = at[l][0] /\ at2[l][len[l]] = at[l][len[l] + 1]
    BY <2>1, <2>2
  <2>4. len[l] + (-1) = len[l] - 1
    BY <1>3
  <2> QED BY <1>d, <2>3, <2>4 DEF Longer1, Cut1
<1>7. ls2 = [k \in DListId |-> DListOf(len2, at2, k)]
  <2>1. ls2[l] = [head |-> at[l][0], tail |-> at[l][len[l] + 1], length |-> len[l] - 1]
    BY <1>1, <1>3
  <2>2. (len[l] - 1) + 1 = len[l]
    BY <1>3
  <2>3. DListOf(len2, at2, l) = ls2[l]
    BY <1>3, <1>6, <2>1, <2>2 DEF DListOf
  <2>4. \A k \in DListId : k # l => DListOf(len2, at2, k) = DListOf(len, at, k)
    BY <1>6 DEF DListOf
  <2>5. \A k \in DListId : k # l => ls2[k] = DListOf(len, at, k)
    BY <1>1
  <2>6. ls2 = [k \in DListId |-> ls2[k]]
    BY <1>1
  <2> QED BY <2>3, <2>4, <2>5, <2>6
<1> QED BY <1>1, <1>d, <1>4, <1>5, <1>6, <1>7 DEF DHolds, DForward, DRowsOf, next2, data, data2

DPrevOf(m) == [n \in DNode |-> m[n].prev]
(* The predecessors chain the nodes the other way round.                    *)
DShape(m, ls, len, at, used) ==
  /\ DForward(m, ls, len, at, used)
  /\ Linked(DPrevOf(m), len, Back(len, at), used)

(* What a change of the memory has to establish of both directions.         *)
DAll(m, ls, len, at, used, rows) ==
  DShape(m, ls, len, at, used) /\ DRowsOf(m, len, at) = rows

(* The invariant: some chains shape the memory in both directions.          *)
DListInv == \E len, at : DShape(dnodes, dlists, len, at, DUsedIn(dnodes))

(* What the shape says of one live list, both ways.                         *)
LEMMA DShapeFacts ==
  ASSUME NEW m, NEW ls, NEW len, NEW at, NEW used, DShape(m, ls, len, at, used),
         NEW l, l \in DOMAIN len
  PROVE  /\ len[l] \in Nat /\ l \in DListId
         /\ \A i \in 0 .. len[l] + 1 : at[l][i] \in used /\ at[l][i] \in DNode
         /\ \A i \in 0 .. len[l] : m[at[l][i]].next = at[l][i + 1]
         /\ m[at[l][len[l] + 1]].next = DNil
         /\ \A i \in 0 .. len[l] : m[at[l][i + 1]].prev = at[l][i]
         /\ m[at[l][0]].prev = DNil
         /\ \A i, j \in 0 .. len[l] + 1 : at[l][i] = at[l][j] => i = j
         /\ ls[l].head = at[l][0] /\ ls[l].tail = at[l][len[l] + 1] /\ ls[l].length = len[l]
         /\ ls[l] # NoDList
<1> DEFINE n == len[l]
           prev == DPrevOf(m)
           back == Back(len, at)
<1>1. DForward(m, ls, len, at, used)
  BY DEF DShape
<1>2. /\ n \in Nat
      /\ \A i \in 0 .. n + 1 : at[l][i] \in DNode
  BY <1>1, DForwardFacts
<1>3. /\ \A i \in 0 .. n : prev[back[l][i]] = back[l][i + 1]
      /\ prev[back[l][n + 1]] = 0
  BY DEF DShape, Linked
<1>4. \A i \in 0 .. n + 1 : back[l][i] = at[l][n + 1 - i]
  BY DEF Back, Places
<1> HIDE DEF prev, back, n
<1>5. \A i \in DNode : prev[i] = m[i].prev
  BY DEF prev, DPrevOf
<1>6. ASSUME NEW i \in 0 .. n
      PROVE  m[at[l][i + 1]].prev = at[l][i]
  <2>1. /\ n - i \in 0 .. n /\ n - i \in 0 .. n + 1 /\ (n - i) + 1 \in 0 .. n + 1
        /\ n + 1 - (n - i) = i + 1 /\ n + 1 - ((n - i) + 1) = i /\ i + 1 \in 0 .. n + 1
    BY <1>2
  <2>2. back[l][n - i] = at[l][i + 1] /\ back[l][(n - i) + 1] = at[l][i]
    BY <1>4, <2>1
  <2> QED BY <1>2, <1>3, <1>5, <2>1, <2>2
<1>7. m[at[l][0]].prev = DNil
  <2>1. n + 1 \in 0 .. n + 1 /\ n + 1 - (n + 1) = 0 /\ 0 \in 0 .. n + 1
    BY <1>2
  <2>2. back[l][n + 1] = at[l][0]
    BY <1>4, <2>1
  <2> QED BY <1>2, <1>3, <1>5, <2>1, <2>2 DEF DNil
<1> QED BY <1>1, <1>6, <1>7, DForwardFacts DEF n

(* What LinkAfter and Unlinked do to the cells.                             *)
LEMMA LinkedAfter ==
  ASSUME NEW m \in [DNode -> DNodeType], NEW new \in DNode, NEW prev \in DNode,
         NEW after \in DNode, after = m[prev].next,
         new # prev, new # after, prev # after, NEW v \in DHeld,
         NEW m2, m2 = LinkAfter(m, new, prev, v)
  PROVE  /\ m2 \in [DNode -> DNodeType]
         /\ m2[new] = DCell(prev, after, v)
         /\ m2[prev] = [m[prev] EXCEPT !.next = new]
         /\ m2[after] = [m[after] EXCEPT !.prev = new]
         /\ \A n \in DNode : n # new /\ n # prev /\ n # after => m2[n] = m[n]
<1> DEFINE a == DCell(prev, after, v)
           b == [m[after] EXCEPT !.prev = new]
           c == [m[prev] EXCEPT !.next = new]
<1>1. a \in DNodeType
  BY DEF DCell, DNodeType
<1>2. b \in DNodeType /\ c \in DNodeType
  BY DEF DNodeType
<1>3. m2 = [m EXCEPT ![new] = a, ![after].prev = new, ![prev].next = new]
  BY DEF LinkAfter
<1>4. m2 = [[[m EXCEPT ![new] = a] EXCEPT ![after] = b] EXCEPT ![prev] = c]
  BY <1>3
<1> HIDE DEF a, b, c
<1> QED BY <1>1, <1>2, <1>4 DEF a, b, c

(* A node is unlinked: its neighbours point to each other.                  *)
UnlinkIn(m, before, after) == [m EXCEPT ![before].next = after, ![after].prev = before]
LEMMA UnlinkedCells ==
  ASSUME NEW m \in [DNode -> DNodeType], NEW before \in DNode, NEW after \in DNode,
         before # after, NEW m2, m2 = UnlinkIn(m, before, after)
  PROVE  /\ m2 \in [DNode -> DNodeType]
         /\ m2[before] = [m[before] EXCEPT !.next = after]
         /\ m2[after] = [m[after] EXCEPT !.prev = before]
         /\ \A n \in DNode : n # before /\ n # after => m2[n] = m[n]
<1> DEFINE b == [m[before] EXCEPT !.next = after]
           c == [m[after] EXCEPT !.prev = before]
<1>1. b \in DNodeType /\ c \in DNodeType
  BY DEF DNodeType
<1>2. m2 = [[m EXCEPT ![before] = b] EXCEPT ![after] = c]
  BY DEF UnlinkIn
<1> HIDE DEF b, c
<1> QED BY <1>1, <1>2 DEF b, c

(* A node that is on no list is linked in after place p of list l.          *)
NodeAfter(m, ls, len, at, used, l, p, new, v, m2, ls2) ==
  /\ DShape(m, ls, len, at, used)
  /\ l \in DOMAIN len /\ p \in 0 .. len[l] /\ new \in DNode \ used /\ v \in DHeld
  /\ m2 = LinkAfter(m, new, at[l][p], v)
  /\ ls2 = [ls EXCEPT ![l].length = @ + 1]
(* Of the free nodes this one is taken, and no other node is freed.         *)
TakenOnly(m, new, m2) ==
  ~m2[new].freed /\ \A n \in DNode : n # new => m2[n].freed = m[n].freed
LEMMA PutAfter ==
  ASSUME NEW m, NEW ls, NEW len, NEW at, NEW used, NEW l, NEW p, NEW new, NEW v,
         NEW m2, NEW ls2, NodeAfter(m, ls, len, at, used, l, p, new, v, m2, ls2)
  PROVE  /\ DAll(m2, ls2, Longer1(len, l, 1), Put1(len, at, l, p, new), used \cup {new},
                 [DRowsOf(m, len, at) EXCEPT ![l] = InsertAt(@, p + 1, v)])
         /\ TakenOnly(m, new, m2)
<1>0. /\ DShape(m, ls, len, at, used)
      /\ l \in DOMAIN len /\ p \in 0 .. len[l] /\ new \in DNode \ used /\ v \in DHeld
      /\ m2 = LinkAfter(m, new, at[l][p], v)
      /\ ls2 = [ls EXCEPT ![l].length = @ + 1]
  BY DEF NodeAfter
<1>1. /\ len[l] \in Nat
      /\ \A i \in 0 .. len[l] + 1 : at[l][i] \in used /\ at[l][i] \in DNode
      /\ \A i \in 0 .. len[l] : m[at[l][i]].next = at[l][i + 1]
      /\ \A i \in 0 .. len[l] : m[at[l][i + 1]].prev = at[l][i]
      /\ \A i, j \in 0 .. len[l] + 1 : at[l][i] = at[l][j] => i = j
  BY <1>0, DShapeFacts
<1>2. DForward(m, ls, len, at, used) /\ Linked(DPrevOf(m), len, Back(len, at), used)
  BY <1>0 DEF DShape
<1>3. m \in [DNode -> DNodeType] /\ used \subseteq DNode /\ DOMAIN at = DOMAIN len
  BY <1>2 DEF DForward
<1>4. PICK prev, after : prev = at[l][p] /\ after = at[l][p + 1]
  OBVIOUS
<1>5. p \in 0 .. len[l] + 1 /\ p + 1 \in 0 .. len[l] + 1 /\ p # p + 1
  BY <1>0, <1>1
<1>6. /\ prev \in used /\ after \in used /\ prev \in DNode /\ after \in DNode /\ prev # after
      /\ after = m[prev].next /\ m[after].prev = prev
      /\ new \in DNode /\ new # prev /\ new # after
  BY <1>0, <1>1, <1>4, <1>5
<1>7. /\ m2 \in [DNode -> DNodeType]
      /\ m2[new] = DCell(prev, after, v)
      /\ m2[prev] = [m[prev] EXCEPT !.next = new]
      /\ m2[after] = [m[after] EXCEPT !.prev = new]
      /\ \A n \in DNode : n # new /\ n # prev /\ n # after => m2[n] = m[n]
  <2>1. m2 = LinkAfter(m, new, prev, v) /\ v \in DHeld
    BY <1>0, <1>4
  <2> QED BY ONLY <1>3, <1>6, <2>1, LinkedAfter
<1>8. /\ m2[new].next = after /\ m2[new].prev = prev /\ m2[new].data = v /\ ~m2[new].freed
      /\ m2[prev].next = new /\ m2[prev].prev = m[prev].prev
      /\ m2[prev].data = m[prev].data /\ m2[prev].freed = m[prev].freed
      /\ m2[after].next = m[after].next /\ m2[after].prev = new
      /\ m2[after].data = m[after].data /\ m2[after].freed = m[after].freed
  BY <1>3, <1>6, <1>7 DEF DCell, DNodeType
<1>9. PICK len2, at2 : len2 = Longer1(len, l, 1) /\ at2 = Put1(len, at, l, p, new)
  OBVIOUS
<1>10. /\ DForward(m2, ls2, len2, at2, used \cup {new})
       /\ DRowsOf(m2, len2, at2) = [DRowsOf(m, len, at) EXCEPT ![l] = InsertAt(@, p + 1, v)]
  <2>1. \A n \in used : n # prev => m2[n].next = m[n].next /\ m2[n].data = m[n].data
    <3> TAKE n \in used
    <3>1. n \in DNode /\ n # new
      BY <1>0, <1>3
    <3>2. n = after \/ (n # prev => m2[n] = m[n])
      BY ONLY <1>7, <3>1
    <3> QED BY ONLY <1>8, <3>2
  <2>2. DMiddleIn(m, ls, len, at, used, l, p, new, v, m2, ls2)
    BY <1>0, <1>2, <1>4, <1>6, <1>7, <1>8, <2>1 DEF DMiddleIn
  <2>3. DHolds(m2, ls2, Longer1(len, l, 1), Put1(len, at, l, p, new), used \cup {new},
               [DRowsOf(m, len, at) EXCEPT ![l] = InsertAt(@, p + 1, v)])
    BY ONLY <2>2, DInMiddle
  <2> QED BY <1>9, <2>3 DEF DHolds
<1>11. Linked(DPrevOf(m2), len2, Back(len2, at2), used \cup {new})
  <2> DEFINE back == Back(len, at)
             q == len[l] - p
             next == DPrevOf(m)
             next2 == DPrevOf(m2)
  <2>1. DOMAIN back = DOMAIN len /\ \A k \in DOMAIN len : len[k] \in Nat
    BY <1>2 DEF Back, Linked
  <2>2. q \in Places(len, l) /\ len[l] + 1 - q = p + 1
    BY <1>0, <1>1 DEF Places
  <2>3. back[l][q] = after
    BY <1>0, <1>4, <2>2 DEF Back
  <2>4. /\ next2[after] = new /\ next2[new] = next[after]
        /\ \A n \in used : n # after => next2[n] = next[n]
    BY <1>0, <1>3, <1>6, <1>7, <1>8 DEF DPrevOf
  <2>5. Back(len2, at2) = Put1(len, back, l, q, new)
    <3>1. PutPlace(len, at, l, p)
      BY <1>0, <1>3, <2>1 DEF PutPlace
    <3> QED BY <1>9, <3>1, BackPut
  <2>6. Linked(next, len, back, used)
    BY <1>2
  <2> HIDE DEF back, q, next, next2
  <2>7. Linked(next2, Longer1(len, l, 1), Put1(len, back, l, q, new), used \cup {new})
    <3>1. /\ l \in DOMAIN len /\ new \notin used /\ DOMAIN back = DOMAIN len
          /\ q \in Places(len, l)
          /\ next2[back[l][q]] = new /\ next2[new] = next[back[l][q]]
          /\ \A n \in used : n # back[l][q] => next2[n] = next[n]
      BY <1>0, <2>1, <2>2, <2>3, <2>4
    <3> QED BY ONLY <2>6, <3>1, LinkedIn
  <2> QED BY <1>9, <2>5, <2>7 DEF next2
<1>12. \A n \in DNode : n # new => m2[n].freed = m[n].freed
  BY <1>7, <1>8
<1>13. TakenOnly(m, new, m2)
  BY <1>8, <1>12 DEF TakenOnly
<1> QED BY <1>9, <1>10, <1>11, <1>13 DEF DAll, DShape

(* The node at place p of list l, no sentinel, is unlinked.                 *)
NodeCut(m, ls, len, at, used, l, p, m2, ls2) ==
  /\ DShape(m, ls, len, at, used)
  /\ l \in DOMAIN len /\ p \in 1 .. len[l]
  /\ m2 = UnlinkIn(m, at[l][p - 1], at[l][p + 1])
  /\ ls2 = [ls EXCEPT ![l].length = @ - 1]

(* Nothing is allocated or freed.                                           *)
SameFree(m, m2) == \A n \in DNode : m2[n].freed = m[n].freed
LEMMA CutAt ==
  ASSUME NEW m, NEW ls, NEW len, NEW at, NEW used, NEW l, NEW p,
         NEW m2, NEW ls2, NodeCut(m, ls, len, at, used, l, p, m2, ls2)
  PROVE  /\ DAll(m2, ls2, Longer1(len, l, -1), Cut1(len, at, l, p), used \ {at[l][p]},
                 [DRowsOf(m, len, at) EXCEPT ![l] = RemoveAt(@, p)])
         /\ SameFree(m, m2)
<1>0. /\ DShape(m, ls, len, at, used)
      /\ l \in DOMAIN len /\ p \in 1 .. len[l]
      /\ m2 = UnlinkIn(m, at[l][p - 1], at[l][p + 1])
      /\ ls2 = [ls EXCEPT ![l].length = @ - 1]
  BY DEF NodeCut
<1>1. /\ len[l] \in Nat
      /\ \A i \in 0 .. len[l] + 1 : at[l][i] \in used /\ at[l][i] \in DNode
      /\ \A i \in 0 .. len[l] : m[at[l][i]].next = at[l][i + 1]
      /\ \A i \in 0 .. len[l] : m[at[l][i + 1]].prev = at[l][i]
      /\ \A i, j \in 0 .. len[l] + 1 : at[l][i] = at[l][j] => i = j
  BY <1>0, DShapeFacts
<1>2. DForward(m, ls, len, at, used) /\ Linked(DPrevOf(m), len, Back(len, at), used)
  BY <1>0 DEF DShape
<1>3. m \in [DNode -> DNodeType] /\ used \subseteq DNode /\ DOMAIN at = DOMAIN len
  BY <1>2 DEF DForward
<1>4. PICK before, node, after :
        before = at[l][p - 1] /\ node = at[l][p] /\ after = at[l][p + 1]
  OBVIOUS
<1>5. /\ p - 1 \in 0 .. len[l] + 1 /\ p \in 0 .. len[l] + 1 /\ p + 1 \in 0 .. len[l] + 1
      /\ p - 1 # p /\ p # p + 1 /\ p - 1 # p + 1
      /\ p - 1 \in 0 .. len[l] /\ (p - 1) + 1 = p /\ p \in 0 .. len[l]
  BY <1>0, <1>1
<1>6. /\ before \in used /\ after \in used /\ before \in DNode /\ after \in DNode
      /\ node \in used /\ node \in DNode
      /\ before # after /\ before # node /\ node # after
      /\ m[before].next = node /\ m[node].next = after
      /\ m[after].prev = node /\ m[node].prev = before
  BY <1>0, <1>1, <1>4, <1>5
<1>7. /\ m2 \in [DNode -> DNodeType]
      /\ m2[before] = [m[before] EXCEPT !.next = after]
      /\ m2[after] = [m[after] EXCEPT !.prev = before]
      /\ \A n \in DNode : n # before /\ n # after => m2[n] = m[n]
  <2>1. m2 = UnlinkIn(m, before, after)
    BY <1>0, <1>4
  <2>2. /\ m \in [DNode -> DNodeType] /\ before \in DNode /\ after \in DNode
        /\ before # after
    BY <1>3, <1>6
  <2> QED BY ONLY <2>1, <2>2, UnlinkedCells
<1>8. /\ m2[before].next = after /\ m2[before].prev = m[before].prev
      /\ m2[before].data = m[before].data /\ m2[before].freed = m[before].freed
      /\ m2[after].next = m[after].next /\ m2[after].prev = before
      /\ m2[after].data = m[after].data /\ m2[after].freed = m[after].freed
  BY <1>3, <1>6, <1>7 DEF DNodeType
<1>9. PICK len2, at2 : len2 = Longer1(len, l, -1) /\ at2 = Cut1(len, at, l, p)
  OBVIOUS
<1>10. /\ DForward(m2, ls2, len2, at2, used \ {node})
       /\ DRowsOf(m2, len2, at2) = [DRowsOf(m, len, at) EXCEPT ![l] = RemoveAt(@, p)]
  <2>1. \A n \in used : n # before /\ n # node =>
          m2[n].next = m[n].next /\ m2[n].data = m[n].data
    BY <1>0, <1>3, <1>7, <1>8
  <2>2. DNodeOut(m, ls, len, at, used, l, p, node, before, m2, ls2)
    BY <1>0, <1>2, <1>4, <1>6, <1>7, <1>8, <2>1 DEF DNodeOut
  <2>3. DHolds(m2, ls2, Longer1(len, l, -1), Cut1(len, at, l, p), used \ {node},
               [DRowsOf(m, len, at) EXCEPT ![l] = RemoveAt(@, p)])
    BY ONLY <2>2, DCutOut
  <2> QED BY <1>9, <2>3 DEF DHolds
<1>11. Linked(DPrevOf(m2), len2, Back(len2, at2), used \ {node})
  <2> DEFINE back == Back(len, at)
             q == len[l] + 1 - p
             next == DPrevOf(m)
             next2 == DPrevOf(m2)
  <2>1. DOMAIN back = DOMAIN len /\ \A k \in DOMAIN len : len[k] \in Nat
    BY <1>2 DEF Back, Linked
  <2>2. /\ q \in 1 .. len[l] /\ len[l] + 1 - q = p /\ len[l] + 1 - (q - 1) = p + 1
        /\ q \in Places(len, l) /\ q - 1 \in Places(len, l)
    BY <1>0, <1>1 DEF Places
  <2>3. back[l][q] = node /\ back[l][q - 1] = after
    BY <1>0, <1>4, <2>2 DEF Back
  <2>4. /\ next2[after] = next[node]
        /\ \A n \in used : n # after /\ n # node => next2[n] = next[n]
    BY <1>0, <1>3, <1>6, <1>7, <1>8 DEF DPrevOf
  <2>5. Back(len2, at2) = Cut1(len, back, l, q)
    <3>1. PutPlace(len, at, l, p) /\ p # 0
      BY <1>0, <1>1, <1>3, <2>1 DEF PutPlace
    <3> QED BY <1>9, <3>1, BackCut
  <2>6. Linked(next, len, back, used)
    BY <1>2
  <2> HIDE DEF back, q, next, next2
  <2>7. Linked(next2, Longer1(len, l, -1), Cut1(len, back, l, q), used \ {back[l][q]})
    <3>1. /\ l \in DOMAIN len /\ DOMAIN back = DOMAIN len
          /\ q \in 1 .. len[l]
          /\ next2[back[l][q - 1]] = next[back[l][q]]
          /\ \A n \in used : n # back[l][q - 1] /\ n # back[l][q] => next2[n] = next[n]
      BY <1>0, <2>1, <2>2, <2>3, <2>4
    <3> QED BY ONLY <2>6, <3>1, LinkedOut
  <2> QED BY <1>9, <2>3, <2>5, <2>7 DEF next2
<1>12. SameFree(m, m2)
  BY <1>7, <1>8 DEF SameFree
<1> QED BY <1>4, <1>9, <1>10, <1>11, <1>12 DEF DAll, DShape

(* The chains of a state and of the state that a step leads to.             *)
DIsNow(len, at) == DShape(dnodes, dlists, len, at, DUsedIn(dnodes))
DIsNext(len, at) == DShape(dnodes', dlists', len, at, DUsedIn(dnodes'))

(* The sequences of the refinement are the rows, before a step ...          *)
LEMMA DSeqsNow ==
  ASSUME NEW len, NEW at, DIsNow(len, at)
  PROVE  [l \in DListId |-> DValues(l)] = DRowsOf(dnodes, len, at)
<1>1. \A l \in DListId : DValues(l) = DValuesOf(dnodes, dlists, l)
  BY DEF DValues, DValuesOf, DWalk, DWalkOf, DLive, DHead
<1>2. \A l \in DListId : DValues(l) = DRowsOf(dnodes, len, at)[l]
  BY <1>1, DValuesAre DEF DIsNow, DShape
<1>3. DRowsOf(dnodes, len, at) = [l \in DListId |-> DRowsOf(dnodes, len, at)[l]]
  BY DEF DRowsOf, Rows
<1> QED BY <1>2, <1>3

(* ... and after it.                                                        *)
LEMMA DSeqsNext ==
  ASSUME NEW len, NEW at, DIsNext(len, at)
  PROVE  [l \in DListId |-> DValues(l)]' = DRowsOf(dnodes', len, at)
<1>1. \A l \in DListId : DValues(l)' = DValuesOf(dnodes', dlists', l)
  BY DEF DValues, DValuesOf, DWalk, DWalkOf, DLive, DHead
<1>2. \A l \in DListId : DValues(l)' = DRowsOf(dnodes', len, at)[l]
  BY <1>1, DValuesAre DEF DIsNext, DShape
<1>3. DRowsOf(dnodes', len, at) = [l \in DListId |-> DRowsOf(dnodes', len, at)[l]]
  BY DEF DRowsOf, Rows
<1> QED BY <1>2, <1>3

(* What the rows do, the sequences of SeqLists do.                          *)
DRowsGo(old, new) ==
  \E len, at, len2, at2 : /\ DIsNow(len, at) /\ old = DRowsOf(dnodes, len, at)
                          /\ DIsNext(len2, at2) /\ new = DRowsOf(dnodes', len2, at2)
LEMMA DRowsStep ==
  ASSUME NEW old, NEW new, DRowsGo(old, new)
  PROVE  /\ new = old /\ dres' = DNil => DS!Next /\ DS!Nothing
         /\ \A l \in DListId, v \in DVal : \A i \in 1 .. Len(old[l]) + 1 :
              dres' = v /\ new = [old EXCEPT ![l] = InsertAt(@, i, v)]
                => DS!Next /\ DS!Insert(l, i, v)
         /\ \A l \in DListId : \A i \in 1 .. Len(old[l]) :
              dres' = old[l][i] /\ new = [old EXCEPT ![l] = RemoveAt(@, i)]
                => DS!Next /\ DS!Delete(l, i)
<1> DEFINE seqs == [l \in DListId |-> DValues(l)]
<1>1. seqs = old /\ seqs' = new
  BY DSeqsNow, DSeqsNext DEF DRowsGo
<1> HIDE DEF seqs
<1>a. /\ \A s, i, v : DS!InsertAt(s, i, v) = InsertAt(s, i, v)
      /\ \A s, i : DS!RemoveAt(s, i) = RemoveAt(s, i)
  BY DEF DS!InsertAt, InsertAt, DS!RemoveAt, RemoveAt
<1>2. new = old /\ dres' = DNil => DS!Next /\ DS!Nothing
  BY <1>1 DEF DS!Next, DS!Nothing, seqs
<1>3. ASSUME NEW l \in DListId, NEW v \in DVal, NEW i \in 1 .. Len(old[l]) + 1,
             dres' = v, new = [old EXCEPT ![l] = InsertAt(@, i, v)]
      PROVE  DS!Next /\ DS!Insert(l, i, v)
  <2>1. i \in 1 .. Len(seqs[l]) + 1 /\ seqs' = [seqs EXCEPT ![l] = DS!InsertAt(@, i, v)]
    BY <1>1, <1>3, <1>a
  <2>2. DS!Insert(l, i, v)
    BY <1>3, <2>1, Zenon DEF DS!Insert, seqs
  <2> QED BY <2>1, <2>2 DEF DS!Next, seqs
<1>4. ASSUME NEW l \in DListId, NEW i \in 1 .. Len(old[l]),
             dres' = old[l][i], new = [old EXCEPT ![l] = RemoveAt(@, i)]
      PROVE  DS!Next /\ DS!Delete(l, i)
  <2>1. /\ i \in 1 .. Len(seqs[l]) /\ dres' = seqs[l][i]
        /\ seqs' = [seqs EXCEPT ![l] = DS!RemoveAt(@, i)]
    BY <1>1, <1>4, <1>a
  <2>2. DS!Delete(l, i)
    BY <2>1, Zenon DEF DS!Delete, seqs
  <2> QED BY <2>1, <2>2 DEF DS!Next, seqs
<1>6. /\ \A l \in DListId, v \in DVal : \A i \in 1 .. Len(old[l]) + 1 :
           dres' = v /\ new = [old EXCEPT ![l] = InsertAt(@, i, v)]
                => DS!Next /\ DS!Insert(l, i, v)
      /\ \A l \in DListId : \A i \in 1 .. Len(old[l]) :
           dres' = old[l][i] /\ new = [old EXCEPT ![l] = RemoveAt(@, i)]
                => DS!Next /\ DS!Delete(l, i)
  BY <1>3, <1>4
<1> QED BY <1>2, <1>6

(* A value leaves list l and goes to the end of list d.                     *)
DMoves(old, new, l, d, i) ==
  /\ l \in DListId /\ d \in DListId /\ i \in 1 .. Len(old[l])
  /\ new = [[old EXCEPT ![l] = RemoveAt(@, i)] EXCEPT ![d] = Append(@, old[l][i])]
LEMMA DRowsMove ==
  ASSUME NEW old, NEW new, DRowsGo(old, new), NEW l, NEW d, NEW i, DMoves(old, new, l, d, i)
  PROVE  /\ dres' = old[l][i] => DS!Next /\ DS!Move(l, d, i)
         /\ l = d /\ i = 1 /\ (Len(old[l]) > 1 => dres' = old[l][Len(old[l])])
              => DS!Next /\ DS!Turn(l)
<1> DEFINE seqs == [k \in DListId |-> DValues(k)]
<1>1. seqs = old /\ seqs' = new
  BY DSeqsNow, DSeqsNext DEF DRowsGo
<1> HIDE DEF seqs
<1>2. \A s, j : DS!RemoveAt(s, j) = RemoveAt(s, j)
  BY DEF DS!RemoveAt, RemoveAt
<1>3. /\ l \in DListId /\ d \in DListId /\ i \in 1 .. Len(old[l])
      /\ new = [[old EXCEPT ![l] = RemoveAt(@, i)] EXCEPT ![d] = Append(@, old[l][i])]
  BY DEF DMoves
<1>4. /\ i \in 1 .. Len(seqs[l])
      /\ seqs' = [[seqs EXCEPT ![l] = DS!RemoveAt(@, i)] EXCEPT ![d] = Append(@, seqs[l][i])]
  BY <1>1, <1>2, <1>3
<1>5. DS!Moved(l, d, i)
  BY <1>4, Zenon DEF DS!Moved, seqs
<1>6. ASSUME dres' = old[l][i] PROVE DS!Next /\ DS!Move(l, d, i)
  <2>1. dres' = seqs[l][i]
    BY <1>1, <1>6
  <2>2. DS!Move(l, d, i)
    BY <1>5, <2>1, Zenon DEF DS!Move, seqs
  <2> QED BY <1>3, <1>4, <2>2 DEF DS!Next, seqs
<1>7. ASSUME l = d, i = 1, Len(old[l]) > 1 => dres' = old[l][Len(old[l])]
      PROVE  DS!Next /\ DS!Turn(l)
  <2>1. Len(seqs[l]) > 1 => dres' = seqs[l][Len(seqs[l])]
    BY <1>1, <1>7
  <2>2. seqs[l] # << >>
    BY <1>4
  <2>3. DS!Moved(l, l, 1)
    BY <1>5, <1>7
  <2>4. DS!Turn(l)
    BY <2>1, <2>2, <2>3, Zenon DEF DS!Turn, seqs
  <2> QED BY <1>3, <2>4, Zenon DEF DS!Next
<1> QED BY <1>6, <1>7

(* Any chains after the step are enough for the invariant.                  *)
LEMMA DNextIsInv == ASSUME NEW len, NEW at, DIsNext(len, at) PROVE DListInv'
BY DEF DIsNext, DListInv

(* malloc gives a node that is on no list.                                  *)
LEMMA DNewIs ==
  ASSUME DUnused # {}
  PROVE  DNew \in DNode \ DUsedIn(dnodes) /\ dnodes[DNew].freed
<1>1. DUnused \subseteq Nat
  BY DListAssumption DEF DUnused
<1>2. DNew \in DUnused
  <2> HIDE DEF DUnused
  <2> QED BY <1>1, SmallestOf DEF DNew
<1> QED BY <1>2 DEF DUnused, DUsedIn

(* What a call finds at the head of a list, and the nodes it can be given.  *)
LEMMA DPlaceIs ==
  ASSUME NEW len, NEW at, DIsNow(len, at), NEW l, l \in DOMAIN len
  PROVE  /\ \A n \in OnDList(l) \cup {DTail(l)} : \E p \in 1 .. len[l] + 1 : n = at[l][p]
         /\ dnodes[DHead(l)].next = at[l][1]
         /\ DHead(l) = at[l][0] /\ DTail(l) = at[l][len[l] + 1]
         /\ DEmpty(l) <=> len[l] = 0
         /\ DLive(l) /\ len[l] \in Nat
<1>1. /\ len[l] \in Nat
      /\ \A i \in 0 .. len[l] : dnodes[at[l][i]].next = at[l][i + 1]
      /\ dnodes[at[l][len[l] + 1]].next = DNil
      /\ \A i \in 0 .. len[l] + 1 : at[l][i] \in DUsedIn(dnodes) /\ at[l][i] \in DNode
      /\ dlists[l].head = at[l][0] /\ dlists[l].tail = at[l][len[l] + 1] /\ dlists[l].length = len[l]
      /\ dlists[l] # NoDList
  BY DShapeFacts DEF DIsNow
<1>2. /\ dnodes[DHead(l)].next = at[l][1]
      /\ DHead(l) = at[l][0] /\ DTail(l) = at[l][len[l] + 1]
  <2>1. 0 \in 0 .. len[l] /\ 0 + 1 = 1
    BY <1>1
  <2> QED BY <1>1, <2>1 DEF DHead, DTail
<1>3. DEmpty(l) <=> len[l] = 0
  <2>1. CASE len[l] > 0
    <3>1. 1 \in 0 .. len[l] /\ 1 + 1 \in 0 .. len[l] + 1
      BY <1>1, <2>1
    <3>2. dnodes[at[l][1]].next # DNil
      BY <1>1, <3>1, DListAssumption
    <3> QED BY <1>1, <1>2, <2>1, <3>2 DEF DEmpty, DLive
  <2>2. CASE len[l] = 0
    <3>1. dnodes[at[l][1]].next = DNil
      BY <1>1, <2>2
    <3> QED BY <1>2, <2>2, <3>1 DEF DEmpty
  <2> QED BY <1>1, <2>1, <2>2
<1>4. ASSUME NEW n \in OnDList(l)
      PROVE  \E p \in 1 .. len[l] + 1 : n = at[l][p]
  <2> DEFINE w == DWalkOf(dnodes, dlists[l].head)
  <2>1. /\ Cardinality(DNode) \in Nat /\ len[l] + 2 <= Cardinality(DNode)
        /\ \A k \in 0 .. Cardinality(DNode) :
             w[k] = IF k <= len[l] + 1 THEN at[l][k] ELSE DNil
    BY DWalkIs DEF DIsNow, DShape
  <2>2. DWalk(l) = w
    BY DEF DWalk, DWalkOf, DHead
  <2> HIDE DEF w
  <2>3. PICK k \in 1 .. len[l] : n = w[k]
    BY <1>1, <2>2 DEF OnDList
  <2>4. k \in 0 .. Cardinality(DNode) /\ k <= len[l] + 1 /\ k \in 1 .. len[l] + 1
    BY <1>1, <2>1
  <2> QED BY <2>1, <2>3, <2>4
<1>5. len[l] + 1 \in 1 .. len[l] + 1
  BY <1>1
<1> QED BY <1>1, <1>2, <1>3, <1>4, <1>5 DEF DLive, DTail

(* A call that fails changes no list.                                       *)
LEMMA DFailedStep ==
  ASSUME NEW len, NEW at, DIsNow(len, at), DFailed
  PROVE  DListInv' /\ DS!Next /\ DS!Nothing
<1>1. DIsNext(len, at) /\ DRowsOf(dnodes', len, at) = DRowsOf(dnodes, len, at) /\ dres' = DNil
  BY DEF DFailed, DIsNow, DIsNext
<1>2. DS!Next /\ DS!Nothing
  <2>1. PICK old : old = DRowsOf(dnodes, len, at)
    OBVIOUS
  <2>2. DRowsGo(old, old)
    BY <1>1, <2>1 DEF DRowsGo
  <2> QED BY <1>1, <2>2, DRowsStep
<1> QED BY <1>1, <1>2, DNextIsInv

(* The row of a list is as long as its length field says, in any memory ... *)
LEMMA DRowIs ==
  ASSUME NEW m, NEW ls, NEW len, NEW at, NEW used, DShape(m, ls, len, at, used), NEW l, l \in DOMAIN len,
         NEW row, row = DRowsOf(m, len, at)[l]
  PROVE  /\ l \in DListId /\ row \in Seq(DHeld) /\ Len(row) = len[l]
         /\ \A i \in 1 .. len[l] : row[i] = m[at[l][i]].data
<1>1. /\ len[l] \in Nat /\ l \in DListId
      /\ \A i \in 0 .. len[l] + 1 : at[l][i] \in DNode
      /\ m \in [DNode -> DNodeType]
  BY DShapeFacts DEF DShape, DForward
<1>2. row = [i \in 1 .. len[l] |-> DDataOf(m)[at[l][i]]]
  BY <1>1 DEF DRowsOf, Rows, Row
<1>3. \A i \in 1 .. len[l] : /\ DDataOf(m)[at[l][i]] = m[at[l][i]].data
                             /\ m[at[l][i]].data \in DHeld
  <2>1. \A i \in 1 .. len[l] : at[l][i] \in DNode
    BY <1>1
  <2>2. \A n \in DNode : m[n].data \in DHeld
    BY <1>1 DEF DNodeType
  <2> QED BY <2>1, <2>2 DEF DDataOf
<1> DEFINE n == len[l]
<1> HIDE DEF n
<1>4. row = [i \in 1 .. n |-> DDataOf(m)[at[l][i]]]
      /\ \A i \in 1 .. n : DDataOf(m)[at[l][i]] \in DHeld
  BY <1>2, <1>3 DEF n
<1>5. row \in [1 .. n -> DHeld]
  BY ONLY <1>4
<1>6. n \in Nat
  BY <1>1 DEF n
<1> QED BY <1>1, <1>2, <1>3, <1>5, <1>6 DEF n

(* ... and in the memory of the state.                                      *)
LEMMA DRowLen ==
  ASSUME NEW len, NEW at, DIsNow(len, at), NEW l, l \in DOMAIN len,
         NEW row, row = DRowsOf(dnodes, len, at)[l]
  PROVE  /\ l \in DListId /\ row \in Seq(DHeld) /\ Len(row) = len[l]
         /\ \A i \in 1 .. len[l] : row[i] = dnodes[at[l][i]].data
BY DRowIs DEF DIsNow

(* The sequence of a list that is there.                                    *)
LEMMA DSeqLen ==
  ASSUME NEW len, NEW at, DIsNow(len, at), NEW l, l \in DOMAIN len
  PROVE  /\ len[l] \in Nat /\ Len([k \in DListId |-> DValues(k)][l]) = len[l]
         /\ [k \in DListId |-> DValues(k)][l] = << >> <=> len[l] = 0
<1>1. PICK row : row = DRowsOf(dnodes, len, at)[l]
  OBVIOUS
<1>2. row \in Seq(DHeld) /\ Len(row) = len[l] /\ len[l] \in Nat
  BY <1>1, DRowLen, DShapeFacts DEF DIsNow
<1>3. [k \in DListId |-> DValues(k)][l] = row
  BY <1>1, DSeqsNow
<1>4. row = << >> <=> Len(row) = 0
  BY <1>2
<1> QED BY <1>2, <1>3, <1>4

(* dlist_insert after place p, which may be the tail: then it fails.        *)
LEMMA DInsertStep ==
  ASSUME NEW len, NEW at, DIsNow(len, at), NEW l, l \in DOMAIN len,
         NEW p, p \in 0 .. len[l] + 1, NEW val \in DVal, dlist_insert(l, at[l][p], val)
  PROVE  /\ DListInv' /\ DS!Next
         /\ IF DUnused = {} \/ dnodes[at[l][p]].next = DNil THEN DS!Nothing
            ELSE DS!Insert(l, p + 1, val)
<1> DEFINE used == DUsedIn(dnodes)
<1>1. CASE DUnused = {} \/ dnodes[at[l][p]].next = DNil
  BY <1>1, DFailedStep DEF dlist_insert
<1>2. CASE ~(DUnused = {} \/ dnodes[at[l][p]].next = DNil)
  <2>1. /\ len[l] \in Nat /\ l \in DListId
        /\ dnodes[at[l][len[l] + 1]].next = DNil
    BY DShapeFacts DEF DIsNow
  <2>2. /\ DUnused # {} /\ dnodes[at[l][p]].next # DNil
        /\ dnodes' = LinkAfter(dnodes, DNew, at[l][p], val)
        /\ dlists' = [dlists EXCEPT ![l].length = @ + 1]
        /\ dres' = val
    BY <1>2 DEF dlist_insert, DLonger
  <2>3. p \in 0 .. len[l]
    <3>1. p # len[l] + 1
      BY <2>1, <2>2
    <3> QED BY <2>1, <3>1
  <2>4. PICK new : new = DNew
    OBVIOUS
  <2>5. new \in DNode \ used
    BY <2>2, <2>4, DNewIs
  <2>6. NodeAfter(dnodes, dlists, len, at, used, l, p, new, val, dnodes', dlists')
    BY <2>2, <2>3, <2>4, <2>5 DEF NodeAfter, DIsNow, DHeld
  <2>7. PICK len2, at2, rows :
          /\ len2 = Longer1(len, l, 1) /\ at2 = Put1(len, at, l, p, new)
          /\ rows = [DRowsOf(dnodes, len, at) EXCEPT ![l] = InsertAt(@, p + 1, val)]
    OBVIOUS
  <2>8. /\ DAll(dnodes', dlists', len2, at2, used \cup {new}, rows)
        /\ ~dnodes'[new].freed
        /\ \A n \in DNode : n # new => dnodes'[n].freed = dnodes[n].freed
    <3>1. /\ DAll(dnodes', dlists', Longer1(len, l, 1), Put1(len, at, l, p, new), used \cup {new},
                  [DRowsOf(dnodes, len, at) EXCEPT ![l] = InsertAt(@, p + 1, val)])
          /\ ~dnodes'[new].freed
          /\ \A n \in DNode : n # new => dnodes'[n].freed = dnodes[n].freed
      <4>1. PICK m, ls, m2, ls2 :
              m = dnodes /\ ls = dlists /\ m2 = dnodes' /\ ls2 = dlists'
        OBVIOUS
      <4>2. NodeAfter(m, ls, len, at, used, l, p, new, val, m2, ls2)
        BY <2>6, <4>1
      <4> HIDE DEF used
      <4>3. DAll(m2, ls2, Longer1(len, l, 1), Put1(len, at, l, p, new), used \cup {new},
                 [DRowsOf(m, len, at) EXCEPT ![l] = InsertAt(@, p + 1, val)])
        BY ONLY <4>2, PutAfter
      <4>4. TakenOnly(m, new, m2)
        BY ONLY <4>2, PutAfter
      <4> QED BY <4>1, <4>3, <4>4 DEF TakenOnly
    <3> QED BY <2>7, <3>1
  <2>9. DUsedIn(dnodes') = used \cup {new}
    BY <2>5, <2>8 DEF DUsedIn
  <2>10. DIsNext(len2, at2) /\ DRowsOf(dnodes', len2, at2) = rows
    BY <2>8, <2>9 DEF DIsNext, DAll
  <2>11. p + 1 \in 1 .. Len(DRowsOf(dnodes, len, at)[l]) + 1
    BY <2>1, <2>3, DRowLen
  <2>12. DS!Next /\ DS!Insert(l, p + 1, val)
    <3>1. PICK old : old = DRowsOf(dnodes, len, at)
      OBVIOUS
    <3>2. DRowsGo(old, rows)
      BY <2>10, <3>1 DEF DRowsGo
    <3>3. \A k \in DListId, v \in DVal : \A i \in 1 .. Len(old[k]) + 1 :
            dres' = v /\ rows = [old EXCEPT ![k] = InsertAt(@, i, v)]
              => DS!Next /\ DS!Insert(k, i, v)
      BY <3>2, DRowsStep
    <3> QED BY <2>1, <2>2, <2>7, <2>11, <3>1, <3>3
  <2> QED BY <1>2, <2>10, <2>12, DNextIsInv
<1> QED BY <1>1, <1>2

(* Unlinking the node at a place links its two neighbours.                  *)
LEMMA UnlinkedIs ==
  ASSUME NEW len, NEW at, DIsNow(len, at), NEW l, l \in DOMAIN len,
         NEW p, p \in 1 .. len[l]
  PROVE  Unlinked(at[l][p]) = UnlinkIn(dnodes, at[l][p - 1], at[l][p + 1])
<1>1. /\ len[l] \in Nat
      /\ \A i \in 0 .. len[l] : dnodes[at[l][i]].next = at[l][i + 1]
      /\ \A i \in 0 .. len[l] : dnodes[at[l][i + 1]].prev = at[l][i]
  BY DShapeFacts DEF DIsNow
<1>2. p \in 0 .. len[l] /\ p - 1 \in 0 .. len[l] /\ (p - 1) + 1 = p
  BY <1>1
<1>3. dnodes[at[l][p]].next = at[l][p + 1] /\ dnodes[at[l][p]].prev = at[l][p - 1]
  BY <1>1, <1>2
<1> QED BY <1>3 DEF Unlinked, UnlinkIn

(* dlist_pop, dlist_popback and dlist_remove drop a node, which is freed.   *)
LEMMA DDropStep ==
  ASSUME NEW len, NEW at, DIsNow(len, at), NEW l, l \in DOMAIN len,
         NEW p, p \in 1 .. len[l], DDrop(l, at[l][p])
  PROVE  DListInv' /\ DS!Next /\ DS!Delete(l, p)
<1> DEFINE used == DUsedIn(dnodes)
<1>1. /\ len[l] \in Nat /\ l \in DListId
      /\ \A i \in 0 .. len[l] + 1 : at[l][i] \in used /\ at[l][i] \in DNode
      /\ dlists[l].length = len[l]
  BY DShapeFacts DEF DIsNow
<1>2. PICK node, cut : node = at[l][p] /\ cut = Unlinked(node)
  OBVIOUS
<1>3. node \in used /\ node \in DNode
  <2>1. p \in 0 .. len[l] + 1
    BY <1>1
  <2> QED BY <1>1, <1>2, <2>1
<1>4. /\ dnodes' = [cut EXCEPT ![node] = DFreed]
      /\ dlists' = [dlists EXCEPT ![l].length = @ - 1]
      /\ dres' = dnodes[node].data
  <2>1. dlists' = [dlists EXCEPT ![l].length = @ + (-1)]
    BY DEF DDrop, DLonger
  <2>2. dlists[l].length + (-1) = dlists[l].length - 1
    BY <1>1
  <2> QED BY <1>2, <2>1, <2>2 DEF DDrop
<1>5. NodeCut(dnodes, dlists, len, at, used, l, p, cut, dlists')
  BY <1>2, <1>4, UnlinkedIs DEF NodeCut, DIsNow
<1>6. PICK len2, at2, rows :
        /\ len2 = Longer1(len, l, -1) /\ at2 = Cut1(len, at, l, p)
        /\ rows = [DRowsOf(dnodes, len, at) EXCEPT ![l] = RemoveAt(@, p)]
  OBVIOUS
<1>7. /\ DAll(cut, dlists', len2, at2, used \ {node}, rows)
      /\ \A n \in DNode : cut[n].freed = dnodes[n].freed
  <2>1. /\ DAll(cut, dlists', Longer1(len, l, -1), Cut1(len, at, l, p), used \ {at[l][p]},
                [DRowsOf(dnodes, len, at) EXCEPT ![l] = RemoveAt(@, p)])
        /\ SameFree(dnodes, cut)
    <3> HIDE DEF used
    <3> QED BY ONLY <1>5, CutAt
  <2> QED BY <1>2, <1>6, <2>1 DEF SameFree
<1>8. /\ cut \in [DNode -> DNodeType] /\ used \ {node} \subseteq DNode
      /\ DForward(cut, dlists', len2, at2, used \ {node})
      /\ Linked(DPrevOf(cut), len2, Back(len2, at2), used \ {node})
      /\ DRowsOf(cut, len2, at2) = rows
      /\ DOMAIN at2 = DOMAIN len2 /\ DOMAIN len2 \subseteq DListId
      /\ Linked(DNextOf(cut), len2, at2, used \ {node})
  BY <1>7 DEF DAll, DShape, DForward
<1>9. /\ dnodes' \in [DNode -> DNodeType] /\ dnodes'[node].freed
      /\ \A n \in DNode : n # node => dnodes'[n] = cut[n]
  <2>1. DFreed \in DNodeType /\ DFreed.freed
    BY DEF DFreed, DCell, DNodeType, DHeld
  <2> QED BY <1>3, <1>4, <1>8, <2>1
<1>10. DUsedIn(dnodes') = used \ {node}
  BY <1>3, <1>7, <1>9 DEF DUsedIn
<1>11. /\ Linked(DNextOf(dnodes'), len2, at2, used \ {node})
       /\ Linked(DPrevOf(dnodes'), len2, Back(len2, at2), used \ {node})
  <2> DEFINE rest == used \ {node}
             next == DNextOf(cut)  next2 == DNextOf(dnodes')
             prev == DPrevOf(cut)  prev2 == DPrevOf(dnodes')
  <2>1. \A n \in rest : next2[n] = next[n] /\ prev2[n] = prev[n]
    BY <1>8, <1>9 DEF DNextOf, DPrevOf
  <2>2. Linked(next, len2, at2, rest) /\ Linked(prev, len2, Back(len2, at2), rest)
    BY <1>8
  <2> HIDE DEF rest, next, next2, prev, prev2
  <2>3. Linked(next2, len2, at2, rest)
    BY <2>1, <2>2, LinkedSame
  <2>4. Linked(prev2, len2, Back(len2, at2), rest)
    BY <2>1, <2>2, LinkedSame
  <2> QED BY <2>3, <2>4 DEF rest, next2, prev2
<1>12. DRowsOf(dnodes', len2, at2) = rows
  <2> DEFINE data == DDataOf(cut)  data2 == DDataOf(dnodes')
  <2>1. \A k \in DOMAIN len2 : \A i \in 1 .. len2[k] : data2[at2[k][i]] = data[at2[k][i]]
    <3>1. \A k \in DOMAIN len2 : len2[k] \in Nat
              /\ \A i \in 0 .. len2[k] + 1 : at2[k][i] \in used \ {node}
      BY <1>8 DEF Linked, Places
    <3>2. \A n \in used \ {node} : data2[n] = data[n]
      BY <1>8, <1>9 DEF DDataOf
    <3>3. \A k \in DOMAIN len2 : \A i \in 1 .. len2[k] : at2[k][i] \in used \ {node}
      BY <3>1
    <3> QED BY <3>2, <3>3
  <2> HIDE DEF data, data2
  <2>2. /\ \A k \in DOMAIN len2 : k \in DOMAIN len2 =>
            /\ len2[k] = len2[k] /\ at2[k] = at2[k]
            /\ \A i \in 1 .. len2[k] : data2[at2[k][i]] = data[at2[k][i]]
        /\ \A k \in DOMAIN len2 : k \notin DOMAIN len2 => len2[k] = 0
    BY <2>1
  <2>3. Rows(DListId, data2, len2, at2) = Rows(DListId, data, len2, at2)
    BY ONLY <2>2, RowsKept, SMTT(30)
  <2>4. Rows(DListId, data, len2, at2) = rows
    BY <1>8 DEF DRowsOf, data
  <2> QED BY <2>3, <2>4 DEF DRowsOf, data2
<1>13. DIsNext(len2, at2)
  BY <1>8, <1>9, <1>10, <1>11 DEF DIsNext, DShape, DForward
<1>14. DS!Next /\ DS!Delete(l, p)
  <2>1. PICK old : old = DRowsOf(dnodes, len, at)
    OBVIOUS
  <2>2. DRowsGo(old, rows)
    BY <1>12, <1>13, <2>1 DEF DRowsGo
  <2>3. Len(old[l]) = len[l] /\ old[l][p] = dnodes[node].data
    BY <1>2, <2>1, DRowLen
  <2>4. \A k \in DListId : \A i \in 1 .. Len(old[k]) :
            dres' = old[k][i] /\ rows = [old EXCEPT ![k] = RemoveAt(@, i)]
              => DS!Next /\ DS!Delete(k, i)
    BY <2>2, DRowsStep
  <2> QED BY <1>1, <1>4, <1>6, <2>1, <2>3, <2>4
<1> QED BY <1>13, <1>14, DNextIsInv

(* Value p of list src goes to the end of dst: dlist_move and dlist_rotate. *)
LEMMA DMoveStep ==
  ASSUME NEW len, NEW at, DIsNow(len, at), NEW src, src \in DOMAIN len,
         NEW dst, dst \in DOMAIN len, NEW p, p \in 1 .. len[src],
         NEW node, node = at[src][p], NEW cut, cut = Unlinked(node),
         NEW val, val = dnodes[node].data,
         NEW shorter, shorter = [dlists EXCEPT ![src].length = @ - 1],
         dnodes' = LinkAfter(cut, node, cut[DTail(dst)].prev, val),
         dlists' = [shorter EXCEPT ![dst].length = @ + 1]
  PROVE  /\ DListInv'
         /\ dres' = val => DS!Next /\ DS!Move(src, dst, p)
         /\ src = dst /\ p = 1 /\ (len[src] > 1 => dres' = dnodes[at[src][len[src]]].data)
              => DS!Next /\ DS!Turn(src)
<1>1. PICK used, rest : used = DUsedIn(dnodes) /\ rest = used \ {node}
  OBVIOUS
<1>2. /\ len[src] \in Nat /\ src \in DListId
      /\ \A i \in 0 .. len[src] + 1 : at[src][i] \in used /\ at[src][i] \in DNode
      /\ DShape(dnodes, dlists, len, at, used)
  BY <1>1, DShapeFacts DEF DIsNow
<1>3. node \in used /\ node \in DNode
  <2>1. p \in 0 .. len[src] + 1
    BY <1>2
  <2> QED BY <1>2, <2>1
<1>4. /\ dnodes \in [DNode -> DNodeType] /\ dlists = [k \in DListId |-> DListOf(len, at, k)]
      /\ DOMAIN len \subseteq DListId
  BY <1>2 DEF DShape, DForward
<1>5. val \in DHeld
  BY <1>3, <1>4 DEF DNodeType
<1>6. NodeCut(dnodes, dlists, len, at, used, src, p, cut, shorter)
  BY <1>2, UnlinkedIs DEF NodeCut
<1>7. PICK len1, at1, rows1 :
        /\ len1 = Longer1(len, src, -1) /\ at1 = Cut1(len, at, src, p)
        /\ rows1 = [DRowsOf(dnodes, len, at) EXCEPT ![src] = RemoveAt(@, p)]
  OBVIOUS
<1>8. /\ DShape(cut, shorter, len1, at1, rest)
      /\ DRowsOf(cut, len1, at1) = rows1
      /\ \A n \in DNode : cut[n].freed = dnodes[n].freed
  <2>1. /\ DAll(cut, shorter, Longer1(len, src, -1), Cut1(len, at, src, p), used \ {at[src][p]},
                [DRowsOf(dnodes, len, at) EXCEPT ![src] = RemoveAt(@, p)])
        /\ SameFree(dnodes, cut)
    BY ONLY <1>6, CutAt
  <2> QED BY <1>1, <1>7, <2>1 DEF DAll, SameFree
<1>9. dst \in DOMAIN len1 /\ dst \in DListId
  BY <1>4, <1>7 DEF Longer1
<1>10. PICK q : q = len1[dst]
  OBVIOUS
<1>11. /\ q \in Nat /\ q \in 0 .. len1[dst]
       /\ shorter[dst].tail = at1[dst][q + 1]
       /\ cut[at1[dst][q + 1]].prev = at1[dst][q]
  <2>1. /\ len1[dst] \in Nat
        /\ \A i \in 0 .. len1[dst] : cut[at1[dst][i + 1]].prev = at1[dst][i]
        /\ shorter[dst].tail = at1[dst][len1[dst] + 1]
    BY ONLY <1>8, <1>9, DShapeFacts
  <2>2. len1[dst] \in 0 .. len1[dst]
    BY ONLY <2>1
  <2> QED BY ONLY <2>1, <2>2, <1>10
<1>12. shorter[dst].tail = DTail(dst)
  <2>1. dlists[src].tail = shorter[src].tail
    <3>1. dlists[src] = [head |-> at[src][0], tail |-> at[src][len[src] + 1],
                         length |-> len[src]]
      BY <1>2, <1>4 DEF DListOf
    <3>2. shorter[src] = [dlists[src] EXCEPT !.length = @ - 1]
      BY <1>2, <1>4
    <3> QED BY <3>1, <3>2
  <2>2. dst # src => shorter[dst] = dlists[dst]
    BY <1>4, <1>9
  <2> QED BY <2>1, <2>2 DEF DTail
<1>13. dnodes' = LinkAfter(cut, node, at1[dst][q], val)
  BY <1>11, <1>12
<1>14. PICK m2, ls2 : m2 = dnodes' /\ ls2 = dlists'
  OBVIOUS
<1>15. NodeAfter(cut, shorter, len1, at1, rest, dst, q, node, val, m2, ls2)
  <2>1. node \in DNode \ rest
    BY <1>1, <1>3
  <2> QED BY <1>5, <1>8, <1>9, <1>11, <1>13, <1>14, <2>1 DEF NodeAfter
<1>16. PICK len2, at2, rows2 :
         /\ len2 = Longer1(len1, dst, 1) /\ at2 = Put1(len1, at1, dst, q, node)
         /\ rows2 = [DRowsOf(cut, len1, at1) EXCEPT ![dst] = InsertAt(@, q + 1, val)]
  OBVIOUS
<1>17. DShape(m2, ls2, len2, at2, used) /\ DRowsOf(m2, len2, at2) = rows2
  <2>1. DAll(m2, ls2, Longer1(len1, dst, 1), Put1(len1, at1, dst, q, node), rest \cup {node},
             [DRowsOf(cut, len1, at1) EXCEPT ![dst] = InsertAt(@, q + 1, val)])
    BY ONLY <1>15, PutAfter
  <2>2. rest \cup {node} = used
    BY <1>1, <1>3
  <2> QED BY <1>16, <2>1, <2>2 DEF DAll
<1>18. DUsedIn(m2) = used
  <2>1. TakenOnly(cut, node, m2)
    BY ONLY <1>15, PutAfter
  <2>2. \A n \in DNode : n # node => m2[n].freed = dnodes[n].freed
    BY <1>8, <2>1 DEF TakenOnly
  <2>3. ~m2[node].freed /\ ~dnodes[node].freed
    BY <1>1, <1>3, <2>1 DEF TakenOnly, DUsedIn
  <2> QED BY <1>1, <1>3, <2>2, <2>3 DEF DUsedIn
<1>19. DIsNext(len2, at2) /\ DRowsOf(dnodes', len2, at2) = rows2
  BY <1>14, <1>17, <1>18 DEF DIsNext
<1>20. rows2 = [rows1 EXCEPT ![dst] = Append(@, val)]
  <2>1. PICK row : row = DRowsOf(cut, len1, at1)[dst]
    OBVIOUS
  <2>2. row \in Seq(DHeld) /\ Len(row) = q
    BY <1>8, <1>9, <1>10, <2>1, DRowIs
  <2>3. InsertAt(row, q + 1, val) = Append(row, val)
    BY <1>5, <2>2, InsertedLast
  <2> QED BY <1>8, <1>16, <2>1, <2>3
<1>21. PICK old : old = DRowsOf(dnodes, len, at)
  OBVIOUS
<1>22. DRowsGo(old, rows2)
  BY <1>19, <1>21 DEF DRowsGo
<1>23. /\ p \in 1 .. Len(old[src]) /\ old[src][p] = val /\ Len(old[src]) = len[src]
       /\ len[src] > 1 => old[src][len[src]] = dnodes[at[src][len[src]]].data
  <2>1. PICK row : row = old[src]
    OBVIOUS
  <2>2. /\ Len(row) = len[src]
        /\ \A i \in 1 .. len[src] : row[i] = dnodes[at[src][i]].data
    BY <1>21, <2>1, DRowLen
  <2>3. row[p] = val
    BY <2>2
  <2>4. len[src] > 1 => row[len[src]] = dnodes[at[src][len[src]]].data
    BY <1>2, <2>2
  <2> QED BY <2>1, <2>2, <2>3, <2>4
<1>24. DMoves(old, rows2, src, dst, p)
  <2>1. rows2 = [[old EXCEPT ![src] = RemoveAt(@, p)] EXCEPT ![dst] = Append(@, old[src][p])]
    BY <1>7, <1>20, <1>21, <1>23
  <2> QED BY <1>2, <1>9, <1>23, <2>1 DEF DMoves
<1>25. /\ dres' = old[src][p] => DS!Next /\ DS!Move(src, dst, p)
       /\ src = dst /\ p = 1 /\ (Len(old[src]) > 1 => dres' = old[src][Len(old[src])])
            => DS!Next /\ DS!Turn(src)
  BY <1>22, <1>24, DRowsMove, Zenon
<1>26. DListInv'
  BY <1>19, DNextIsInv
<1> QED BY <1>23, <1>25, <1>26

(* dlist_create takes two nodes, or one that it gives back.                 *)
LEMMA DCreateStep ==
  ASSUME NEW len, NEW at, DIsNow(len, at), NEW l \in DListId, dlist_create(l)
  PROVE  DListInv' /\ DS!Next
<1> DEFINE used == DUsedIn(dnodes)
<1>1. CASE DFailed
  BY <1>1, DFailedStep
<1>2. CASE ~DFailed
  <2>1. /\ used \subseteq DNode /\ dnodes \in [DNode -> DNodeType]
        /\ DOMAIN at = DOMAIN len /\ DOMAIN len \subseteq DListId
        /\ Linked(DNextOf(dnodes), len, at, used)
        /\ Linked(DPrevOf(dnodes), len, Back(len, at), used)
        /\ dlists = [k \in DListId |-> DListOf(len, at, k)]
    BY DEF DIsNow, DShape, DForward
  <2>2. l \notin DOMAIN len
    <3>1. dlists[l] = NoDList
      BY <1>2 DEF dlist_create, DLive
    <3>2. l \in DOMAIN len => dlists[l] # NoDList
      <4>1. l \in DOMAIN len => dlists[l] # NoDList
        BY DShapeFacts DEF DIsNow
      <4> QED BY <4>1
    <3> QED BY <3>1, <3>2
  <2>3. PICK h, t : h = DNew /\ t = Min(DUnused \ {h})
    OBVIOUS
  <2>4. /\ ~(Cardinality(DUnused) < 2)
        /\ dnodes' = [dnodes EXCEPT ![h] = DCell(DNil, t, DDead), ![t] = DCell(h, DNil, DNil)]
        /\ dlists' = [dlists EXCEPT ![l] = [head |-> h, tail |-> t, length |-> 0]]
        /\ dres' = DNil
    BY <1>2, <2>3 DEF dlist_create
  <2>5. h \in DUnused /\ t \in DUnused /\ h # t
    <3>1. DUnused \subseteq DNode /\ DUnused \subseteq Nat
      BY DListAssumption DEF DUnused
    <3>2. IsFiniteSet(DUnused)
      <4> HIDE DEF DUnused
      <4> QED BY DListAssumption, <3>1, FS_Subset
    <3> DEFINE U == DUnused
    <3> HIDE DEF U
    <3>3. U # {}
      <4>1. Cardinality({}) = 0
        BY FS_EmptySet
      <4> QED BY <2>4, <4>1 DEF U
    <3>4. U \subseteq Nat /\ IsFiniteSet(U) /\ ~(Cardinality(U) < 2) /\ h = Min(U)
      BY <2>3, <2>4, <3>1, <3>2 DEF U, DNew
    <3>5. h \in U
      BY ONLY <3>3, <3>4, SmallestOf
    <3>6. U \ {h} # {}
      <4>1. ASSUME U = {h}
            PROVE  FALSE
        <5>1. Cardinality({h}) = 1
          BY FS_Singleton
        <5> QED BY <3>4, <4>1, <5>1
      <4> QED BY <3>5, <4>1
    <3>7. t \in U \ {h}
      <4> DEFINE V == U \ {h}
      <4>1. V # {} /\ V \subseteq Nat /\ t = Min(V)
        BY <2>3, <3>4, <3>6 DEF U
      <4> HIDE DEF V
      <4>2. t \in V
        BY ONLY <4>1, SmallestOf
      <4> QED BY <4>2 DEF V
    <3> QED BY <3>5, <3>7 DEF U
  <2>6. h \in DNode \ used /\ t \in DNode \ used
    BY <2>5 DEF DUnused, DUsedIn
  <2>7. /\ dnodes' \in [DNode -> DNodeType]
        /\ dnodes'[h] = DCell(DNil, t, DDead) /\ dnodes'[t] = DCell(h, DNil, DNil)
        /\ \A n \in DNode : n # h /\ n # t => dnodes'[n] = dnodes[n]
    <3>1. DCell(DNil, t, DDead) \in DNodeType /\ DCell(h, DNil, DNil) \in DNodeType
      BY <2>6 DEF DCell, DNodeType, DHeld
    <3>2. dnodes \in [DNode -> DNodeType] /\ h \in DNode /\ t \in DNode /\ t # h
          /\ dnodes' = [dnodes EXCEPT ![h] = DCell(DNil, t, DDead), ![t] = DCell(h, DNil, DNil)]
      BY <2>1, <2>4, <2>5, <2>6
    <3> QED BY ONLY <3>1, <3>2
  <2>8. /\ dnodes'[h].next = t /\ ~dnodes'[h].freed /\ dnodes'[t].next = DNil /\ ~dnodes'[t].freed
        /\ dnodes'[h].prev = DNil /\ dnodes'[t].prev = h
    BY ONLY <2>7 DEF DCell
  <2>9. DUsedIn(dnodes') = used \cup {h, t}
    BY <2>5, <2>6, <2>7, <2>8 DEF DUsedIn
  <2> DEFINE len2 == [k \in DOMAIN len \cup {l} |-> IF k = l THEN 0 ELSE len[k]]
             at2 == [k \in DOMAIN len \cup {l} |->
                       IF k = l THEN [i \in {0, 1} |-> IF i = 0 THEN h ELSE t] ELSE at[k]]
             next == DNextOf(dnodes)
             next2 == DNextOf(dnodes')
  <2>10. /\ DOMAIN len2 = DOMAIN len \cup {l} /\ DOMAIN at2 = DOMAIN len2
         /\ len2[l] = 0 /\ at2[l][0] = h /\ at2[l][1] = t
         /\ \A k \in DOMAIN len : len2[k] = len[k] /\ at2[k] = at[k]
    BY <2>2
  <2>11. /\ \A n \in DNode : next[n] = dnodes[n].next /\ next2[n] = dnodes'[n].next
    BY DEF DNextOf
  <2> HIDE DEF len2, at2, next, next2
  <2>12. Linked(next2, len2, at2, used \cup {h, t})
    <3>1. /\ next2[h] = t /\ next2[t] = 0 /\ \A n \in used : next2[n] = next[n]
      BY <2>1, <2>6, <2>7, <2>8, <2>11 DEF DNil
    <3>2. Linked(next, len, at, used) /\ h \notin used /\ t \notin used /\ h # t
      BY <2>1, <2>5, <2>6 DEF next
    <3> HIDE DEF used
    <3>3. ChainTaken(next, next2, len, at, used, l, h, t, len2, at2)
      BY <2>2, <2>10, <3>1, <3>2 DEF ChainTaken
    <3> QED BY ONLY <3>3, LinkedNew
  <2>12b. Linked(DPrevOf(dnodes'), len2, Back(len2, at2), used \cup {h, t})
    <3> DEFINE back == Back(len, at)  back2 == Back(len2, at2)
               prev == DPrevOf(dnodes)  prev2 == DPrevOf(dnodes')
    <3>1. /\ prev2[t] = h /\ prev2[h] = 0 /\ \A n \in used : prev2[n] = prev[n]
      BY <2>1, <2>6, <2>7, <2>8 DEF DPrevOf, DNil
    <3>2. back2[l][0] = t /\ back2[l][1] = h
      BY <2>10 DEF Back, Places
    <3>3. \A k \in DOMAIN len : len2[k] = len[k] /\ back2[k] = back[k]
      BY <2>10 DEF Back, Places
    <3>4. Linked(prev, len, back, used) /\ h \notin used /\ t \notin used /\ h # t
      BY <2>1, <2>5, <2>6
    <3>5. DOMAIN len2 = DOMAIN len \cup {l} /\ len2[l] = 0
      BY <2>10
    <3> HIDE DEF used, back, back2, prev, prev2
    <3>6. ChainTaken(prev, prev2, len, back, used, l, t, h, len2, back2)
      BY <2>2, <3>1, <3>2, <3>3, <3>4, <3>5 DEF ChainTaken
    <3>7. Linked(prev2, len2, back2, used \cup {t, h})
      BY ONLY <3>6, LinkedNew
    <3>8. used \cup {t, h} = used \cup {h, t}
      OBVIOUS
    <3> QED BY <3>7, <3>8 DEF back2, prev2
  <2>13. dlists' = [k \in DListId |-> DListOf(len2, at2, k)]
    <3>1. DListOf(len2, at2, l) = [head |-> h, tail |-> t, length |-> 0]
      <4>1. 0 + 1 = 1
        OBVIOUS
      <4> QED BY <2>10, <4>1 DEF DListOf
    <3>2. \A k \in DListId : k # l => DListOf(len2, at2, k) = DListOf(len, at, k)
      BY <2>10 DEF DListOf
    <3> QED BY <2>1, <2>4, <3>1, <3>2
  <2>14. DIsNext(len2, at2)
    BY <2>1, <2>6, <2>7, <2>9, <2>10, <2>12, <2>12b, <2>13 DEF DIsNext, DShape, DForward, next2
  <2>15. DRowsOf(dnodes', len2, at2) = DRowsOf(dnodes, len, at)
    <3> DEFINE data == DDataOf(dnodes)  data2 == DDataOf(dnodes')
    <3>1. \A k \in DOMAIN len : \A i \in 1 .. len[k] : data2[at[k][i]] = data[at[k][i]]
      <4>1. \A k \in DOMAIN len : len[k] \in Nat /\ \A i \in 0 .. len[k] + 1 : at[k][i] \in used
        BY <2>1 DEF Linked, Places
      <4>2. \A n \in used : data2[n] = data[n]
        BY <2>1, <2>6, <2>7 DEF DDataOf
      <4>3. \A k \in DOMAIN len : \A i \in 1 .. len[k] : at[k][i] \in used
        BY <4>1
      <4> QED BY <4>2, <4>3
    <3>2. /\ \A k \in DOMAIN len2 : k \in DOMAIN len =>
              /\ len2[k] = len[k] /\ at2[k] = at[k]
              /\ \A i \in 1 .. len[k] : data2[at[k][i]] = data[at[k][i]]
          /\ \A k \in DOMAIN len2 : k \notin DOMAIN len => len2[k] = 0
          /\ \A k \in DOMAIN len : k \notin DOMAIN len2 => len[k] = 0
      BY <2>10, <3>1
    <3> HIDE DEF data, data2
    <3>3. Rows(DListId, data2, len2, at2) = Rows(DListId, data, len, at)
      BY ONLY <3>2, RowsKept, SMTT(30)
    <3> QED BY <3>3 DEF DRowsOf, data, data2
  <2>16. DS!Next
    <3>1. PICK old, row : old = DRowsOf(dnodes, len, at) /\ row = DRowsOf(dnodes', len2, at2)
      OBVIOUS
    <3>2. DRowsGo(old, row)
      BY <2>14, <3>1 DEF DRowsGo
    <3> QED BY <2>4, <2>15, <3>1, <3>2, DRowsStep
  <2> QED BY <2>14, <2>16, DNextIsInv
<1> QED BY <1>1, <1>2

(* dlist_destroy frees the sentinels of an empty list.                      *)
LEMMA DDestroyStep ==
  ASSUME NEW len, NEW at, DIsNow(len, at), NEW l \in DListId, dlist_destroy(l)
  PROVE  DListInv' /\ DS!Next
<1> DEFINE used == DUsedIn(dnodes)
<1>1. CASE DFailed
  BY <1>1, DFailedStep
<1>2. CASE ~DFailed
  <2>1. /\ used \subseteq DNode /\ dnodes \in [DNode -> DNodeType]
        /\ DOMAIN at = DOMAIN len /\ DOMAIN len \subseteq DListId
        /\ Linked(DNextOf(dnodes), len, at, used)
        /\ Linked(DPrevOf(dnodes), len, Back(len, at), used)
        /\ dlists = [k \in DListId |-> DListOf(len, at, k)]
    BY DEF DIsNow, DShape, DForward
  <2>2. l \in DOMAIN len
    BY DLiveLists DEF dlist_destroy, DLive, DIsNow, DShape
  <2>3. /\ len[l] \in Nat
        /\ \A i \in 0 .. len[l] + 1 : at[l][i] \in used /\ at[l][i] \in DNode
        /\ \A i, j \in 0 .. len[l] + 1 : at[l][i] = at[l][j] => i = j
        /\ dlists[l].head = at[l][0] /\ dlists[l].tail = at[l][len[l] + 1]
    BY <2>2, DShapeFacts DEF DIsNow
  <2>4. dnodes[DHead(l)].next = at[l][1]
    BY <2>2, DPlaceIs
  <2>5. /\ dnodes[DHead(l)].next = dlists[l].tail
        /\ dnodes' = [dnodes EXCEPT ![dlists[l].head] = DFreed, ![dlists[l].tail] = DFreed]
        /\ dlists' = [dlists EXCEPT ![l] = NoDList]
        /\ dres' = DNil
    BY <1>2 DEF dlist_destroy, DHead, DTail
  <2>6. len[l] = 0
    <3>1. 1 \in 0 .. len[l] + 1 /\ len[l] + 1 \in 0 .. len[l] + 1
      BY <2>3
    <3>2. 1 = len[l] + 1
      BY <2>3, <2>4, <2>5, <3>1
    <3> QED BY <2>3, <3>2
  <2>7. PICK h, t : h = at[l][0] /\ t = at[l][1]
    OBVIOUS
  <2>8. /\ dlists[l].head = h /\ dlists[l].tail = t /\ h \in DNode /\ t \in DNode
        /\ h \in used /\ t \in used
    <3>1. 0 + 1 = 1 /\ 0 \in 0 .. 0 + 1 /\ 1 \in 0 .. 0 + 1
      OBVIOUS
    <3> QED BY <2>3, <2>6, <2>7, <3>1
  <2>9. /\ dnodes' \in [DNode -> DNodeType]
        /\ dnodes'[h] = DFreed /\ dnodes'[t] = DFreed
        /\ \A n \in DNode : n # h /\ n # t => dnodes'[n] = dnodes[n]
    <3>1. DFreed \in DNodeType
      BY DEF DFreed, DCell, DNodeType, DHeld
    <3>2. dnodes' = [dnodes EXCEPT ![h] = DFreed, ![t] = DFreed]
      BY <2>5, <2>8
    <3>3. dnodes \in [DNode -> DNodeType] /\ h \in DNode /\ t \in DNode
      BY <2>1, <2>8
    <3> QED BY ONLY <3>1, <3>2, <3>3
  <2>10. PICK used2 : used2 = used \ {h, t}
    OBVIOUS
  <2>11. DUsedIn(dnodes') = used2
    BY <2>8, <2>9, <2>10 DEF DUsedIn, DFreed, DCell
  <2> DEFINE len2 == [k \in DOMAIN len \ {l} |-> len[k]]
             at2 == [k \in DOMAIN len \ {l} |-> at[k]]
             next == DNextOf(dnodes)
             next2 == DNextOf(dnodes')
  <2>12. /\ DOMAIN len2 = DOMAIN len \ {l} /\ DOMAIN at2 = DOMAIN len2
         /\ \A k \in DOMAIN len2 : len2[k] = len[k] /\ at2[k] = at[k]
    OBVIOUS
  <2>13. /\ \A n \in DNode : next[n] = dnodes[n].next /\ next2[n] = dnodes'[n].next
    BY DEF DNextOf
  <2> HIDE DEF len2, at2, next, next2
  <2>14. Linked(next2, len2, at2, used2)
    <3>1. \A n \in used2 : next2[n] = next[n]
      BY <2>1, <2>9, <2>10, <2>13
    <3>2. Linked(next, len, at, used) /\ used2 = used \ {at[l][0], at[l][1]}
      BY <2>1, <2>7, <2>10 DEF next
    <3>3. ChainGiven(next, next2, len, at, used, l, len2, at2, used2)
      BY <2>2, <2>6, <2>12, <3>1, <3>2 DEF ChainGiven
    <3> HIDE DEF used
    <3> QED BY ONLY <3>3, LinkedGone
  <2>14b. Linked(DPrevOf(dnodes'), len2, Back(len2, at2), used2)
    <3> DEFINE back == Back(len, at)  back2 == Back(len2, at2)
               prev == DPrevOf(dnodes)  prev2 == DPrevOf(dnodes')
    <3>1. \A n \in used2 : prev2[n] = prev[n]
      BY <2>1, <2>9, <2>10 DEF DPrevOf
    <3>2. back[l][0] = t /\ back[l][1] = h
      BY <2>2, <2>6, <2>7 DEF Back, Places
    <3>3. \A k \in DOMAIN len2 : len2[k] = len[k] /\ back2[k] = back[k]
      BY <2>12 DEF Back, Places
    <3>4. Linked(prev, len, back, used) /\ used2 = used \ {back[l][0], back[l][1]}
      BY <2>1, <2>10, <3>2
    <3> HIDE DEF used, back, back2, prev, prev2
    <3>5. ChainGiven(prev, prev2, len, back, used, l, len2, back2, used2)
      BY <2>2, <2>6, <2>12, <3>1, <3>3, <3>4 DEF ChainGiven
    <3>6. Linked(prev2, len2, back2, used2)
      BY ONLY <3>5, LinkedGone
    <3> QED BY <3>6 DEF back2, prev2
  <2>15. dlists' = [k \in DListId |-> DListOf(len2, at2, k)]
    <3>1. DListOf(len2, at2, l) = NoDList
      BY <2>12 DEF DListOf
    <3>2. \A k \in DListId : k # l => DListOf(len2, at2, k) = DListOf(len, at, k)
      BY <2>12 DEF DListOf
    <3> QED BY <2>1, <2>5, <3>1, <3>2
  <2>16. DIsNext(len2, at2)
    BY <2>1, <2>9, <2>10, <2>11, <2>12, <2>14, <2>14b, <2>15 DEF DIsNext, DShape, DForward, next2
  <2>17. DRowsOf(dnodes', len2, at2) = DRowsOf(dnodes, len, at)
    <3> DEFINE data == DDataOf(dnodes)  data2 == DDataOf(dnodes')
    <3>1. \A k \in DOMAIN len2 : \A i \in 1 .. len2[k] : data2[at2[k][i]] = data[at2[k][i]]
      <4>1. \A k \in DOMAIN len2 : len2[k] \in Nat /\ \A i \in 0 .. len2[k] + 1 : at2[k][i] \in used2
        BY <2>14 DEF Linked, Places
      <4>2. \A n \in used2 : data2[n] = data[n]
        BY <2>1, <2>9, <2>10 DEF DDataOf
      <4>3. \A k \in DOMAIN len2 : \A i \in 1 .. len2[k] : at2[k][i] \in used2
        BY <4>1
      <4> QED BY <4>2, <4>3
    <3> HIDE DEF data, data2
    <3>2. /\ \A k \in DOMAIN len2 : k \in DOMAIN len =>
              /\ len2[k] = len[k] /\ at2[k] = at[k]
              /\ \A i \in 1 .. len[k] : data2[at[k][i]] = data[at[k][i]]
          /\ \A k \in DOMAIN len2 : k \notin DOMAIN len => len2[k] = 0
          /\ \A k \in DOMAIN len : k \notin DOMAIN len2 => len[k] = 0
      BY <2>6, <2>12, <3>1
    <3>3. Rows(DListId, data2, len2, at2) = Rows(DListId, data, len, at)
      BY ONLY <3>2, RowsKept, SMTT(30)
    <3> QED BY <3>3 DEF DRowsOf, data, data2
  <2>18. DS!Next
    <3>1. PICK old, row : old = DRowsOf(dnodes, len, at) /\ row = DRowsOf(dnodes', len2, at2)
      OBVIOUS
    <3>2. DRowsGo(old, row)
      BY <2>16, <3>1 DEF DRowsGo
    <3> QED BY <2>5, <2>17, <3>1, <3>2, DRowsStep
  <2> QED BY <2>16, <2>18, DNextIsInv
<1> QED BY <1>1, <1>2

(* A call is made for a list that is a chain.                               *)
LEMMA DLiveIs ==
  ASSUME NEW len, NEW at, DIsNow(len, at), NEW l \in DListId, DLive(l)
  PROVE  l \in DOMAIN len
BY DLiveLists DEF DLive, DIsNow, DShape

(* The last node of a list, which may be the head sentinel.                 *)
LEMMA LastIs ==
  ASSUME NEW len, NEW at, DIsNow(len, at), NEW l, l \in DOMAIN len
  PROVE  /\ len[l] \in Nat
         /\ dnodes[DTail(l)].prev = at[l][len[l]]
         /\ dnodes[at[l][len[l] + 1]].next = DNil
         /\ dnodes[at[l][0]].prev = DNil
         /\ \A p \in 1 .. len[l] : dnodes[at[l][p]].prev # DNil /\ dnodes[at[l][p]].next # DNil
<1>1. /\ len[l] \in Nat
      /\ \A i \in 0 .. len[l] + 1 : at[l][i] \in DNode
      /\ \A i \in 0 .. len[l] : dnodes[at[l][i]].next = at[l][i + 1]
      /\ dnodes[at[l][len[l] + 1]].next = DNil
      /\ \A i \in 0 .. len[l] : dnodes[at[l][i + 1]].prev = at[l][i]
      /\ dnodes[at[l][0]].prev = DNil
      /\ dlists[l].tail = at[l][len[l] + 1]
  BY DShapeFacts DEF DIsNow
<1>2. dnodes[DTail(l)].prev = at[l][len[l]]
  <2>1. len[l] \in 0 .. len[l]
    BY <1>1
  <2> QED BY <1>1, <2>1 DEF DTail
<1>3. ASSUME NEW p \in 1 .. len[l]
      PROVE  dnodes[at[l][p]].prev # DNil /\ dnodes[at[l][p]].next # DNil
  <2>1. /\ p \in 0 .. len[l] /\ p + 1 \in 0 .. len[l] + 1
        /\ p - 1 \in 0 .. len[l] /\ (p - 1) + 1 = p /\ p - 1 \in 0 .. len[l] + 1
    BY <1>1
  <2>2. dnodes[at[l][p]].next = at[l][p + 1] /\ dnodes[at[l][p]].prev = at[l][p - 1]
    BY <1>1, <2>1
  <2> QED BY <1>1, <2>1, <2>2, DListAssumption
<1> QED BY <1>1, <1>2, <1>3

(* Only the tail sentinel is followed by nothing.                           *)
LEMMA NotTheTail ==
  ASSUME NEW len, NEW at, DIsNow(len, at), NEW l, l \in DOMAIN len, NEW p, p \in 0 .. len[l]
  PROVE  dnodes[at[l][p]].next # DNil
<1>1. /\ len[l] \in Nat
      /\ \A i \in 0 .. len[l] + 1 : at[l][i] \in DNode
      /\ \A i \in 0 .. len[l] : dnodes[at[l][i]].next = at[l][i + 1]
  BY DShapeFacts DEF DIsNow
<1>2. p + 1 \in 0 .. len[l] + 1
  BY <1>1
<1> QED BY <1>1, <1>2, DListAssumption

(* The calls of the program, which name nodes and not places.               *)
LEMMA DPopStep ==
  ASSUME NEW len, NEW at, DIsNow(len, at), NEW l \in DListId, dlist_pop(l)
  PROVE  DListInv' /\ DS!Next /\ DS!Pop(l)
<1>1. l \in DOMAIN len
  BY DLiveIs DEF dlist_pop
<1>s. /\ len[l] \in Nat /\ Len([k \in DListId |-> DValues(k)][l]) = len[l]
      /\ [k \in DListId |-> DValues(k)][l] = << >> <=> len[l] = 0
  BY <1>1, DSeqLen, Zenon
<1>2. CASE ~DEmpty(l)
  <2>1. 1 \in 1 .. len[l] /\ dnodes[DHead(l)].next = at[l][1]
    BY <1>1, <1>2, DPlaceIs
  <2>2. DDrop(l, at[l][1])
    BY <1>2, <2>1 DEF dlist_pop
  <2>3. DS!Delete(l, 1) /\ DS!Next /\ DListInv'
    BY <1>1, <2>1, <2>2, DDropStep
  <2>4. /\ Len([k \in DListId |-> DValues(k)][l]) = len[l] /\ [k \in DListId |-> DValues(k)][l] # << >>
    BY <1>s, <2>1
  <2>5. DS!Pop(l)
    BY <2>3, <2>4, Zenon DEF DS!Pop
  <2> QED BY <2>3, <2>5
<1>3. CASE DEmpty(l)
  <2>1. [k \in DListId |-> DValues(k)][l] = << >>
    BY <1>1, <1>3, <1>s, DPlaceIs
  <2>2. DListInv' /\ DS!Next /\ DS!Nothing
    BY <1>3, DFailedStep DEF dlist_pop
  <2>3. DS!Pop(l)
    BY <2>1, <2>2, Zenon DEF DS!Pop
  <2> QED BY <2>2, <2>3
<1> QED BY <1>2, <1>3

LEMMA DPopbackStep ==
  ASSUME NEW len, NEW at, DIsNow(len, at), NEW l \in DListId, dlist_popback(l)
  PROVE  DListInv' /\ DS!Next /\ DS!Popback(l)
<1>1. l \in DOMAIN len
  BY DLiveIs DEF dlist_popback
<1>s. /\ len[l] \in Nat /\ Len([k \in DListId |-> DValues(k)][l]) = len[l]
      /\ [k \in DListId |-> DValues(k)][l] = << >> <=> len[l] = 0
  BY <1>1, DSeqLen, Zenon
<1>2. CASE ~DEmpty(l)
  <2>1. len[l] \in 1 .. len[l]
    BY <1>1, <1>2, DPlaceIs
  <2>2. DDrop(l, at[l][len[l]])
    BY <1>1, <1>2, LastIs DEF dlist_popback
  <2>3. DS!Delete(l, len[l]) /\ DS!Next /\ DListInv'
    BY <1>1, <2>1, <2>2, DDropStep
  <2>4. /\ Len([k \in DListId |-> DValues(k)][l]) = len[l] /\ [k \in DListId |-> DValues(k)][l] # << >>
    BY <1>s, <2>1
  <2>5. DS!Popback(l)
    BY <2>3, <2>4, Zenon DEF DS!Popback
  <2> QED BY <2>3, <2>5
<1>3. CASE DEmpty(l)
  <2>1. [k \in DListId |-> DValues(k)][l] = << >>
    BY <1>1, <1>3, <1>s, DPlaceIs
  <2>2. DListInv' /\ DS!Next /\ DS!Nothing
    BY <1>3, DFailedStep DEF dlist_popback
  <2>3. DS!Popback(l)
    BY <2>1, <2>2, Zenon DEF DS!Popback
  <2> QED BY <2>2, <2>3
<1> QED BY <1>2, <1>3

LEMMA DRemoveStep ==
  ASSUME NEW len, NEW at, DIsNow(len, at), NEW l \in DListId,
         NEW n, n \in OnDList(l) \cup {DTail(l)}, dlist_remove(l, n)
  PROVE  DListInv' /\ DS!Next
<1>1. l \in DOMAIN len
  BY DLiveIs DEF dlist_remove
<1>2. CASE n \in {DHead(l), DTail(l)}
  BY <1>2, DFailedStep DEF dlist_remove
<1>3. CASE n \notin {DHead(l), DTail(l)}
  <2>1. PICK p \in 1 .. len[l] + 1 : n = at[l][p]
    BY <1>1, DPlaceIs
  <2>2. DTail(l) = at[l][len[l] + 1] /\ len[l] \in Nat
    BY <1>1, DPlaceIs
  <2>3. p \in 1 .. len[l]
    <3>1. p # len[l] + 1
      BY <1>3, <2>1, <2>2
    <3> QED BY <2>2, <3>1
  <2>4. DDrop(l, at[l][p])
    BY <1>3, <2>1 DEF dlist_remove
  <2> QED BY <1>1, <2>3, <2>4, DDropStep
<1> QED BY <1>2, <1>3

LEMMA DPushStep ==
  ASSUME NEW len, NEW at, DIsNow(len, at), NEW l \in DListId, NEW val \in DVal, dlist_push(l, val)
  PROVE  /\ DListInv' /\ DS!Next
         /\ IF DUnused = {} THEN DS!Nothing ELSE DS!Push(l, val)
<1>1. l \in DOMAIN len
  BY DLiveIs DEF dlist_push
<1>2. DHead(l) = at[l][0] /\ 0 \in 0 .. len[l] + 1
  BY <1>1, DPlaceIs
<1>3. dlist_insert(l, at[l][0], val)
  BY <1>2 DEF dlist_push
<1>4. dnodes[at[l][0]].next # DNil
  BY <1>1, NotTheTail, DPlaceIs
<1>5. /\ DListInv' /\ DS!Next
      /\ IF DUnused = {} \/ dnodes[at[l][0]].next = DNil THEN DS!Nothing
         ELSE DS!Insert(l, 0 + 1, val)
  BY <1>1, <1>2, <1>3, DInsertStep
<1> QED BY <1>4, <1>5 DEF DS!Push

LEMMA DPushbackStep ==
  ASSUME NEW len, NEW at, DIsNow(len, at), NEW l \in DListId, NEW val \in DVal,
         dlist_pushback(l, val)
  PROVE  /\ DListInv' /\ DS!Next
         /\ IF DUnused = {} THEN DS!Nothing ELSE DS!Pushback(l, val)
<1>1. l \in DOMAIN len
  BY DLiveIs DEF dlist_pushback
<1>2. dnodes[DTail(l)].prev = at[l][len[l]] /\ len[l] \in 0 .. len[l] + 1 /\ len[l] \in 0 .. len[l]
  BY <1>1, LastIs
<1>3. dlist_insert(l, at[l][len[l]], val)
  BY <1>2 DEF dlist_pushback
<1>4. dnodes[at[l][len[l]]].next # DNil
  BY <1>1, <1>2, NotTheTail
<1>5. /\ DListInv' /\ DS!Next
      /\ IF DUnused = {} \/ dnodes[at[l][len[l]]].next = DNil THEN DS!Nothing
         ELSE DS!Insert(l, len[l] + 1, val)
  BY <1>1, <1>2, <1>3, DInsertStep
<1>6. Len([k \in DListId |-> DValues(k)][l]) = len[l]
  BY <1>1, DSeqLen, Zenon
<1>7. DUnused # {} => DS!Pushback(l, val)
  BY <1>4, <1>5, <1>6, Zenon DEF DS!Pushback
<1> QED BY <1>4, <1>5, <1>7

LEMMA DInsertAnyStep ==
  ASSUME NEW len, NEW at, DIsNow(len, at), NEW l \in DListId, NEW val \in DVal,
         NEW n, n \in OnDList(l) \cup {DTail(l)}, dlist_insert(l, n, val)
  PROVE  DListInv' /\ DS!Next
<1>1. l \in DOMAIN len
  BY DLiveIs DEF dlist_insert
<1>2. PICK p \in 1 .. len[l] + 1 : n = at[l][p]
  BY <1>1, DPlaceIs
<1>3. p \in 0 .. len[l] + 1 /\ dlist_insert(l, at[l][p], val)
  BY <1>1, <1>2, DPlaceIs
<1> QED BY <1>1, <1>3, DInsertStep

LEMMA DMoveAnyStep ==
  ASSUME NEW len, NEW at, DIsNow(len, at), NEW l \in DListId, NEW dst \in DListId,
         NEW n, n \in OnDList(l) \cup {DTail(l)}, dlist_move(dst, l, n)
  PROVE  DListInv' /\ DS!Next
<1>1. l \in DOMAIN len /\ dst \in DOMAIN len
  BY DLiveIs DEF dlist_move
<1>2. CASE dnodes[n].prev = DNil \/ dnodes[n].next = DNil
  BY <1>2, DFailedStep DEF dlist_move
<1>3. CASE ~(dnodes[n].prev = DNil \/ dnodes[n].next = DNil)
  <2>1. PICK p \in 1 .. len[l] + 1 : n = at[l][p]
    BY <1>1, DPlaceIs
  <2>2. dnodes[at[l][len[l] + 1]].next = DNil /\ len[l] \in Nat
    BY <1>1, LastIs
  <2>3. p \in 1 .. len[l]
    <3>1. p # len[l] + 1
      BY <1>3, <2>1, <2>2
    <3> QED BY <2>2, <3>1
  <2>4. PICK val, cut, shorter :
          /\ val = dnodes[n].data /\ cut = Unlinked(n)
          /\ shorter = [dlists EXCEPT ![l].length = @ - 1]
    OBVIOUS
  <2>5. /\ dnodes' = LinkAfter(cut, n, cut[DTail(dst)].prev, val)
        /\ dlists' = [shorter EXCEPT ![dst].length = @ + 1]
        /\ dres' = val
    BY <1>3, <2>4 DEF dlist_move
  <2>6. /\ DIsNow(len, at) /\ l \in DOMAIN len /\ dst \in DOMAIN len /\ p \in 1 .. len[l]
        /\ n = at[l][p] /\ cut = Unlinked(n) /\ val = dnodes[n].data
        /\ shorter = [dlists EXCEPT ![l].length = @ - 1]
        /\ dnodes' = LinkAfter(cut, n, cut[DTail(dst)].prev, val)
        /\ dlists' = [shorter EXCEPT ![dst].length = @ + 1]
        /\ dres' = val
    BY <1>1, <2>1, <2>3, <2>4, <2>5
  <2>7. DListInv' /\ (dres' = val => DS!Next /\ DS!Move(l, dst, p))
    BY ONLY <2>6, DMoveStep, Zenon
  <2> QED BY <2>6, <2>7
<1> QED BY <1>2, <1>3

(* Without its first node a list of two or more still ends where it did.    *)
LEMMA StillLast ==
  ASSUME NEW len, NEW at, DIsNow(len, at), NEW l, l \in DOMAIN len, len[l] > 1
  PROVE  Unlinked(at[l][1])[DTail(l)].prev = at[l][len[l]]
<1>1. /\ len[l] \in Nat
      /\ \A i \in 0 .. len[l] + 1 : at[l][i] \in DUsedIn(dnodes) /\ at[l][i] \in DNode
      /\ dnodes \in [DNode -> DNodeType]
      /\ Linked(DNextOf(dnodes), len, at, DUsedIn(dnodes))
  BY DShapeFacts DEF DIsNow, DShape, DForward
<1>2. /\ Unlinked(at[l][1]) = UnlinkIn(dnodes, at[l][1 - 1], at[l][1 + 1])
      /\ DTail(l) = at[l][len[l] + 1] /\ dnodes[DTail(l)].prev = at[l][len[l]]
  BY <1>1, UnlinkedIs, LastIs, DPlaceIs
<1>3. at[l][len[l] + 1] # at[l][1 + 1] /\ at[l][len[l] + 1] # at[l][1 - 1]
  <2>1. 1 + 1 \in Places(len, l) /\ 1 - 1 \in Places(len, l) /\ len[l] + 1 \in Places(len, l)
    BY <1>1 DEF Places
  <2>2. \A i, j \in Places(len, l) : at[l][i] = at[l][j] => i = j
    BY <1>1 DEF Linked
  <2> QED BY <1>1, <2>1, <2>2
<1>4. at[l][len[l] + 1] \in DNode
  BY <1>1
<1> QED BY <1>1, <1>2, <1>3, <1>4 DEF UnlinkIn

LEMMA DRotateStep ==
  ASSUME NEW len, NEW at, DIsNow(len, at), NEW l \in DListId, dlist_rotate(l)
  PROVE  /\ DListInv' /\ DS!Next
         /\ IF DEmpty(l) THEN DS!Nothing ELSE DS!Turn(l)
<1>1. l \in DOMAIN len
  BY DLiveIs DEF dlist_rotate
<1>2. CASE DEmpty(l)
  BY <1>2, DFailedStep DEF dlist_rotate
<1>3. CASE ~DEmpty(l)
  <2>1. 1 \in 1 .. len[l] /\ dnodes[DHead(l)].next = at[l][1] /\ len[l] \in Nat
    BY <1>1, <1>3, DPlaceIs
  <2>2. dlists = [k \in DListId |-> DListOf(len, at, k)]
    BY DEF DIsNow, DShape, DForward
  <2>3. PICK p, n, val, cut, shorter :
          /\ p = 1 /\ n = at[l][1] /\ val = dnodes[n].data /\ cut = Unlinked(n)
          /\ shorter = [dlists EXCEPT ![l].length = @ - 1]
    OBVIOUS
  <2>4. /\ dnodes' = LinkAfter(cut, n, cut[DTail(l)].prev, val)
        /\ dlists' = dlists
        /\ dres' = dnodes[cut[DTail(l)].prev].data
    BY <1>3, <2>1, <2>3 DEF dlist_rotate
  <2>5. dlists' = [shorter EXCEPT ![l].length = @ + 1]
    <3>1. dlists[l] = [head |-> at[l][0], tail |-> at[l][len[l] + 1], length |-> len[l]]
      BY <1>1, <2>2 DEF DListOf
    <3>2. shorter[l] = [head |-> at[l][0], tail |-> at[l][len[l] + 1], length |-> len[l] - 1]
      BY <2>2, <2>3, <3>1
    <3>3. (len[l] - 1) + 1 = len[l]
      BY <2>1
    <3>4. [shorter EXCEPT ![l].length = @ + 1][l] = dlists[l]
      BY <2>2, <2>3, <3>1, <3>2, <3>3
    <3>5. dlists = [k \in DListId |-> dlists[k]] /\ shorter = [k \in DListId |-> shorter[k]]
          /\ \A k \in DListId : k # l => shorter[k] = dlists[k]
      BY <2>2, <2>3
    <3>6. PICK new : new = [shorter EXCEPT ![l].length = @ + 1]
      OBVIOUS
    <3>7. /\ new = [k \in DListId |-> new[k]] /\ new[l] = dlists[l]
          /\ \A k \in DListId : k # l => new[k] = dlists[k]
      BY <3>4, <3>5, <3>6
    <3>8. new = dlists
      BY ONLY <3>5, <3>7
    <3> QED BY <2>4, <3>6, <3>8
  <2>6. /\ DIsNow(len, at) /\ l \in DOMAIN len /\ p \in 1 .. len[l]
        /\ n = at[l][p] /\ cut = Unlinked(n) /\ val = dnodes[n].data
        /\ shorter = [dlists EXCEPT ![l].length = @ - 1]
        /\ dnodes' = LinkAfter(cut, n, cut[DTail(l)].prev, val)
        /\ dlists' = [shorter EXCEPT ![l].length = @ + 1]
    BY <1>1, <2>1, <2>3, <2>4, <2>5
  <2>7. ASSUME len[l] > 1
        PROVE  dres' = dnodes[at[l][len[l]]].data
    <3>1. cut[DTail(l)].prev = at[l][len[l]]
      BY <1>1, <2>1, <2>3, <2>7, StillLast
    <3> QED BY <2>4, <3>1
  <2>8. /\ DListInv'
        /\ l = l /\ p = 1 /\ (len[l] > 1 => dres' = dnodes[at[l][len[l]]].data)
             => DS!Next /\ DS!Turn(l)
    BY ONLY <2>6, DMoveStep, Zenon
  <2>9. DListInv' /\ DS!Next /\ DS!Turn(l)
    BY <2>3, <2>7, <2>8
  <2> QED BY <1>3, <2>9
<1> QED BY <1>2, <1>3

(* Every call keeps the shape of the lists and does what a call of SeqLists *)
(* does to the sequences of their values.                                   *)
LEMMA DListStep ==
  ASSUME DListInv, DListNext
  PROVE  DListInv' /\ DS!Next
<1>1. PICK len, at : DIsNow(len, at)
  BY DEF DListInv, DIsNow
<1>2. PICK l \in DListId :
        \/ dlist_create(l) \/ dlist_destroy(l)
        \/ dlist_pop(l) \/ dlist_popback(l) \/ dlist_rotate(l)
        \/ \E val \in DVal : dlist_push(l, val) \/ dlist_pushback(l, val)
        \/ \E n \in OnDList(l) \cup {DTail(l)} :
             \/ \E val \in DVal : dlist_insert(l, n, val)
             \/ dlist_remove(l, n)
             \/ \E dst \in DListId : dlist_move(dst, l, n)
  BY DEF DListNext
<1>3. CASE dlist_create(l)
  BY <1>1, <1>3, DCreateStep
<1>4. CASE dlist_destroy(l)
  BY <1>1, <1>4, DDestroyStep
<1>5. CASE dlist_pop(l)
  BY <1>1, <1>5, DPopStep
<1>6. CASE dlist_popback(l)
  BY <1>1, <1>6, DPopbackStep
<1>7. CASE dlist_rotate(l)
  BY <1>1, <1>7, DRotateStep
<1>8. ASSUME NEW val \in DVal, dlist_push(l, val)
      PROVE  DListInv' /\ DS!Next
  BY <1>1, <1>8, DPushStep
<1>9. ASSUME NEW val \in DVal, dlist_pushback(l, val)
      PROVE  DListInv' /\ DS!Next
  BY <1>1, <1>9, DPushbackStep
<1>10. ASSUME NEW n \in OnDList(l) \cup {DTail(l)},
              \/ \E val \in DVal : dlist_insert(l, n, val)
              \/ dlist_remove(l, n)
              \/ \E dst \in DListId : dlist_move(dst, l, n)
       PROVE  DListInv' /\ DS!Next
  <2>1. ASSUME NEW val \in DVal, dlist_insert(l, n, val)
        PROVE  DListInv' /\ DS!Next
    BY <1>1, <2>1, DInsertAnyStep
  <2>2. CASE dlist_remove(l, n)
    BY <1>1, <2>2, DRemoveStep
  <2>3. ASSUME NEW dst \in DListId, dlist_move(dst, l, n)
        PROVE  DListInv' /\ DS!Next
    BY <1>1, <2>3, DMoveAnyStep
  <2> QED BY <1>10, <2>1, <2>2, <2>3
<1> QED BY <1>2, <1>3, <1>4, <1>5, <1>6, <1>7, <1>8, <1>9, <1>10

(* The walk of dlist_index from the tail on.                                *)
DBackOf(m, last) ==
  LET back[k \in 0 .. Cardinality(DNode)] ==
        IF k = 0 THEN last
        ELSE IF back[k - 1] \in DNode THEN m[back[k - 1]].prev ELSE DNil
  IN back

(* The walk from the tail visits the same nodes backwards.                  *)
LEMMA DBackIs ==
  ASSUME NEW m, NEW ls, NEW len, NEW at, NEW used, DShape(m, ls, len, at, used),
         NEW l, l \in DOMAIN len, NEW w, w = DBackOf(m, ls[l].tail)
  PROVE  /\ Cardinality(DNode) \in Nat /\ len[l] + 2 <= Cardinality(DNode)
         /\ DOMAIN w = 0 .. Cardinality(DNode)
         /\ \A k \in 0 .. Cardinality(DNode) :
              w[k] = IF k <= len[l] + 1 THEN Back(len, at)[l][k] ELSE DNil
<1> DEFINE c == Cardinality(DNode)
           prev == DPrevOf(m)
           last == Back(len, at)[l][0]
<1>1. /\ Linked(prev, len, Back(len, at), used) /\ used \subseteq DNode
      /\ IsFiniteSet(DNode) /\ 0 \notin DNode /\ m \in [DNode -> DNodeType]
  BY DListAssumption DEF DShape, DForward, DNil
<1>2. c \in Nat /\ len[l] + 2 <= c
  <2> HIDE DEF prev
  <2> QED BY <1>1, ChainFits
<1>3. \A n \in DNode : prev[n] = m[n].prev /\ prev[n] \in DNode \cup {0}
  <2>1. m \in [DNode -> DNodeType]
    BY <1>1
  <2>2. \A n \in DNode : m[n].prev \in DNode \cup {0}
    BY <2>1 DEF DNodeType, DNil
  <2> QED BY <2>2 DEF DPrevOf
<1>4. ls[l].tail = last /\ last \in DNode
  <2>1. /\ len[l] \in Nat /\ ls[l].tail = at[l][len[l] + 1]
        /\ \A i \in 0 .. len[l] + 1 : at[l][i] \in DNode
    BY DShapeFacts
  <2>2. last = at[l][len[l] + 1 - 0]
    BY <2>1 DEF Back, Places
  <2>3. len[l] + 1 - 0 = len[l] + 1 /\ len[l] + 1 \in 0 .. len[l] + 1
    BY <2>1
  <2> HIDE DEF last
  <2> QED BY <2>1, <2>2, <2>3
<1>5. DBackOf(m, last) = CHOOSE f : f = [k \in 0 .. c |->
        IF k = 0 THEN last ELSE IF f[k - 1] \in DNode THEN m[f[k - 1]].prev ELSE DNil]
  BY DEF DBackOf
<1>6. \E f : f = [k \in 0 .. c |->
        IF k = 0 THEN last ELSE IF f[k - 1] \in DNode THEN prev[f[k - 1]] ELSE 0]
  <2>1. \A n \in DNode : prev[n] \in DNode \cup {0}
    BY <1>3
  <2>2. IsFiniteSet(DNode) /\ 0 \notin DNode /\ last \in DNode
    BY <1>1, <1>4
  <2> HIDE DEF prev, last
  <2> QED BY ONLY <2>1, <2>2, WalkExists DEF c
<1>7. PICK f : f = [k \in 0 .. c |->
        IF k = 0 THEN last ELSE IF f[k - 1] \in DNode THEN prev[f[k - 1]] ELSE 0]
  BY <1>6
<1>8. f = [k \in 0 .. c |->
        IF k = 0 THEN last ELSE IF f[k - 1] \in DNode THEN m[f[k - 1]].prev ELSE DNil]
  <2> HIDE DEF prev, last, c
  <2>1. \A k \in 0 .. c :
          (IF k = 0 THEN last ELSE IF f[k - 1] \in DNode THEN prev[f[k - 1]] ELSE 0)
          = (IF k = 0 THEN last ELSE IF f[k - 1] \in DNode THEN m[f[k - 1]].prev ELSE DNil)
    BY <1>3 DEF DNil
  <2> QED BY <1>7, <2>1
<1>9. w = [k \in 0 .. c |->
        IF k = 0 THEN last ELSE IF w[k - 1] \in DNode THEN m[w[k - 1]].prev ELSE DNil]
  <2> HIDE DEF prev, last, c
  <2> QED BY <1>4, <1>5, <1>8
<1>10. \A k \in 0 .. c : w[k] = IF k = 0 THEN last
                                ELSE IF w[k - 1] \in DNode THEN prev[w[k - 1]] ELSE 0
  <2> HIDE DEF prev, last, c
  <2> QED BY <1>3, <1>9 DEF DNil
<1>11. \A k \in 0 .. c : w[k] = IF k <= len[l] + 1 THEN Back(len, at)[l][k] ELSE 0
  <2> HIDE DEF prev
  <2> QED BY <1>1, <1>10, WalkAlong
<1> QED BY <1>2, <1>9, <1>11 DEF DNil

(* At first there are no lists.                                             *)
LEMMA DListInitInv == DListInit => DListInv /\ DS!Init
<1> SUFFICES ASSUME DListInit PROVE DListInv /\ DS!Init
  OBVIOUS
<1>1. /\ dnodes = [n \in DNode |-> DFreed] /\ dlists = [l \in DListId |-> NoDList] /\ dres = DNil
  BY DEF DListInit
<1> DEFINE none == [k \in {} |-> 0]
<1>2. DShape(dnodes, dlists, none, none, DUsedIn(dnodes))
  <2>1. DFreed \in DNodeType /\ DFreed.freed
    BY DEF DFreed, DCell, DNodeType, DHeld
  <2>2. DUsedIn(dnodes) = {}
    BY <1>1, <2>1 DEF DUsedIn
  <2>3. dnodes \in [DNode -> DNodeType]
    BY <1>1, <2>1
  <2>4. DOMAIN none = {}
    OBVIOUS
  <2>5. Linked(DNextOf(dnodes), none, none, {})
    BY <2>4 DEF Linked
  <2>5b. Linked(DPrevOf(dnodes), none, Back(none, none), {})
    BY <2>4 DEF Linked
  <2>6. dlists = [l \in DListId |-> DListOf(none, none, l)]
    BY <1>1, <2>4 DEF DListOf
  <2> QED BY <2>2, <2>3, <2>4, <2>5, <2>5b, <2>6 DEF DShape, DForward
<1>3. DListInv
  BY <1>2 DEF DListInv
<1>4. \A l \in DListId : DValues(l) = << >>
  BY <1>1 DEF DValues, DLive
<1> QED BY <1>1, <1>3, <1>4 DEF DS!Init

(* Values, list_index and list_cnext agree with the row the nodes make up.  *)
LEMMA DRowNavigable == DListInv => \A l \in DListId : DNavigable(l)
<1> SUFFICES ASSUME DListInv, NEW l \in DListId PROVE DNavigable(l)
  OBVIOUS
<1>1. PICK len, at : DIsNow(len, at)
  BY DEF DListInv, DIsNow
<1>2. PICK s : s = DValues(l)
  OBVIOUS
<1>3. s = DRowsOf(dnodes, len, at)[l]
  <2>1. PICK rows : rows = DRowsOf(dnodes, len, at)
    OBVIOUS
  <2>2. [k \in DListId |-> DValues(k)] = rows
    BY <1>1, <2>1, DSeqsNow
  <2>3. rows[l] = DValues(l)
    BY <2>2
  <2> QED BY <1>2, <2>1, <2>3
<1>4. CASE l \notin DOMAIN len
  <2>1. s = << >>
    BY <1>3, <1>4 DEF DRowsOf, Rows
  <2>2. dlists[l].length = 0
    BY <1>1, <1>4 DEF DIsNow, DShape, DForward, DListOf, NoDList
  <2> QED BY <1>2, <2>1, <2>2 DEF DNavigable
<1>5. CASE l \in DOMAIN len
  <2> DEFINE n == len[l]
             w == DWalkOf(dnodes, dlists[l].head)
  <2>1. Len(s) = n /\ \A i \in 1 .. n : s[i] = dnodes[at[l][i]].data
    BY <1>1, <1>3, <1>5, DRowLen
  <2>2. /\ n \in Nat
        /\ \A i \in 0 .. n + 1 : at[l][i] \in DNode
        /\ \A i \in 0 .. n : dnodes[at[l][i]].next = at[l][i + 1]
        /\ dnodes[at[l][n + 1]].next = DNil
        /\ dlists[l].length = n
    BY <1>1, <1>5, DShapeFacts DEF DIsNow
  <2>3. /\ Cardinality(DNode) \in Nat /\ n + 2 <= Cardinality(DNode)
        /\ \A k \in 0 .. Cardinality(DNode) :
             w[k] = IF k <= n + 1 THEN at[l][k] ELSE DNil
    BY <1>1, <1>5, DWalkIs DEF DIsNow, DShape
  <2> DEFINE back == DBackOf(dnodes, dlists[l].tail)
  <2>2b. /\ \A k \in 0 .. n : dnodes[at[l][k + 1]].prev = at[l][k]
         /\ dnodes[at[l][0]].prev = DNil
         /\ dnodes[DTail(l)].prev = at[l][n]
    BY <1>1, <1>5, DShapeFacts, LastIs DEF DIsNow
  <2>3b. \A k \in 0 .. Cardinality(DNode) : k \in 0 .. n + 1 => back[k] = at[l][n + 1 - k]
    <3>1. \A k \in 0 .. Cardinality(DNode) :
            back[k] = IF k <= len[l] + 1 THEN Back(len, at)[l][k] ELSE DNil
      BY <1>1, <1>5, DBackIs DEF DIsNow
    <3>2. \A k \in 0 .. n + 1 : k <= n + 1 /\ Back(len, at)[l][k] = at[l][n + 1 - k]
      BY <1>5 DEF Back, Places
    <3> HIDE DEF back
    <3> QED BY <3>1, <3>2
  <2>4b. \A j : dlist_index(l, j) = IF j >= 0 THEN DWalk(l)[j + 1] ELSE back[-j]
    BY DEF dlist_index, DBackOf, DTail
  <2>4. DWalk(l) = w
    BY DEF DWalk, DWalkOf, DHead
  <2>5. dnodes[DHead(l)].next = at[l][1]
    BY <1>1, <1>5, DPlaceIs
  <2> HIDE DEF w, n, back
  <2>6. ASSUME NEW i \in 1 .. n
        PROVE  /\ dnodes[dlist_index(l, i - 1)].data = s[i]
               /\ dlist_index(l, i - 1 - n) = dlist_index(l, i - 1)
               /\ dnodes[dlist_cprev(l, dlist_index(l, i - 1))].data = DS!Before(s, i)
               /\ dnodes[dlist_cnext(l, dlist_index(l, i - 1))].data = DS!After(s, i)
    <3>1. (i - 1) + 1 = i /\ i \in 0 .. Cardinality(DNode) /\ i <= n + 1
          /\ i \in 0 .. n /\ i \in 0 .. n + 1 /\ i + 1 \in 0 .. n + 1
      BY <2>2, <2>3
    <3>2. dlist_index(l, i - 1) = at[l][i]
      <4>1. i - 1 >= 0
        BY <2>2
      <4> QED BY <2>3, <2>4, <3>1, <4>1 DEF dlist_index
    <3>2b. dlist_index(l, i - 1 - n) = at[l][i]
      <4>1. /\ ~(i - 1 - n >= 0) /\ -(i - 1 - n) = n + 1 - i
            /\ n + 1 - i \in 0 .. Cardinality(DNode) /\ n + 1 - i <= n + 1
            /\ n + 1 - i \in 0 .. n + 1 /\ n + 1 - (n + 1 - i) = i
        BY <2>2, <2>3
      <4>2. dlist_index(l, i - 1 - n) = back[n + 1 - i]
        BY <2>4b, <4>1 DEF dlist_index
      <4>3. back[n + 1 - i] = at[l][i]
        BY <2>3b, <4>1
      <4> QED BY <4>2, <4>3
    <3>2c. dnodes[dlist_cprev(l, at[l][i])].data = DS!Before(s, i)
      <4>1. /\ i - 1 \in 0 .. n /\ (i - 1) + 1 = i
        BY <2>2
      <4>2. dnodes[at[l][i]].prev = at[l][i - 1]
        BY <2>2b, <4>1
      <4>3. CASE i = 1
        <5>1. dnodes[at[l][i - 1]].prev = DNil
          BY <2>2b, <4>3
        <5>2. dlist_cprev(l, at[l][i]) = at[l][n]
          BY <2>2b, <4>2, <5>1 DEF dlist_cprev
        <5>3. n \in 1 .. n
          BY <2>2
        <5>4. DS!Before(s, i) = s[n]
          BY <2>1, <4>3 DEF DS!Before
        <5> QED BY <2>1, <5>2, <5>3, <5>4
      <4>4. CASE i # 1
        <5>1. i - 1 \in 1 .. n /\ (i - 1) - 1 \in 0 .. n /\ ((i - 1) - 1) + 1 = i - 1
              /\ (i - 1) - 1 \in 0 .. n + 1
          BY <2>2, <4>4
        <5>2. dnodes[at[l][i - 1]].prev = at[l][(i - 1) - 1] /\ at[l][(i - 1) - 1] \in DNode
          BY <2>2, <2>2b, <5>1
        <5>3. dnodes[at[l][i - 1]].prev # DNil
          BY <5>2, DListAssumption
        <5>4. dlist_cprev(l, at[l][i]) = at[l][i - 1]
          BY <4>2, <5>3 DEF dlist_cprev
        <5>5. DS!Before(s, i) = s[i - 1]
          BY <4>4 DEF DS!Before
        <5> QED BY <2>1, <5>1, <5>4, <5>5
      <4> QED BY <4>3, <4>4
    <3>3. dnodes[at[l][i]].next = at[l][i + 1]
      BY <2>2, <3>1
    <3>4. dnodes[dlist_cnext(l, at[l][i])].data = DS!After(s, i)
      <4>1. CASE i = n
        <5>1. dnodes[at[l][i + 1]].next = DNil
          BY <2>2, <4>1
        <5>2. dlist_cnext(l, at[l][i]) = at[l][1]
          BY <2>5, <3>3, <5>1 DEF dlist_cnext
        <5>3. 1 \in 1 .. n
          BY <2>2
        <5>4. DS!After(s, i) = s[1]
          BY <2>1, <4>1 DEF DS!After
        <5> QED BY <2>1, <5>2, <5>3, <5>4
      <4>2. CASE i # n
        <5>1. i + 1 \in 0 .. n /\ i + 1 \in 1 .. n /\ (i + 1) + 1 \in 0 .. n + 1
          BY <2>2, <4>2
        <5>2. dnodes[at[l][i + 1]].next = at[l][(i + 1) + 1] /\ at[l][(i + 1) + 1] \in DNode
          BY <2>2, <5>1
        <5>3. dnodes[at[l][i + 1]].next # DNil
          BY <5>2, DListAssumption
        <5>4. dlist_cnext(l, at[l][i]) = at[l][i + 1]
          BY <3>3, <5>3 DEF dlist_cnext
        <5>5. DS!After(s, i) = s[i + 1]
          BY <2>1, <4>2 DEF DS!After
        <5> QED BY <2>1, <5>1, <5>4, <5>5
      <4> QED BY <4>1, <4>2
    <3> QED BY <2>1, <3>2, <3>2b, <3>2c, <3>4
  <2> QED BY <1>2, <2>1, <2>2, <2>6 DEF DNavigable
<1> QED BY <1>4, <1>5

(* Each call works at the end it is named for.                              *)
LEMMA DEndsAreRight == DListInv => \A l \in DListId : DAtItsEnd(l)
<1> SUFFICES ASSUME DListInv, NEW l \in DListId PROVE DAtItsEnd(l)
  OBVIOUS
<1>1. PICK len, at : DIsNow(len, at)
  BY DEF DListInv, DIsNow
<1>2. ASSUME NEW val \in DVal, dlist_push(l, val)
      PROVE  IF DUnused = {} THEN DS!Nothing ELSE DS!Push(l, val)
  BY <1>1, <1>2, DPushStep
<1>3. ASSUME NEW val \in DVal, dlist_pushback(l, val)
      PROVE  IF DUnused = {} THEN DS!Nothing ELSE DS!Pushback(l, val)
  BY <1>1, <1>3, DPushbackStep
<1>4. dlist_pop(l) => DS!Pop(l)
  BY <1>1, DPopStep
<1>5. dlist_popback(l) => DS!Popback(l)
  BY <1>1, DPopbackStep
<1>6. dlist_rotate(l) => IF DEmpty(l) THEN DS!Nothing ELSE DS!Turn(l)
  BY <1>1, DRotateStep
<1> QED BY <1>2, <1>3, <1>4, <1>5, <1>6 DEF DAtItsEnd

(* The doubly linked lists are sequences too, forwards and backwards: after *)
(* any calls the predecessors are the successors reversed, and both ways    *)
(* round a list dlist_index, dlist_cnext and dlist_cprev miss no value.     *)
THEOREM DListsRefineSequences == DListSpec => DListsAreSequences
<1>1. DListInv /\ [DListNext]_dlistVars
        => DListInv' /\ [DS!Next]_<<[l \in DListId |-> DValues(l)], dres>>
  <2> SUFFICES ASSUME DListInv, [DListNext]_dlistVars
               PROVE  DListInv' /\ [DS!Next]_<<[l \in DListId |-> DValues(l)], dres>>
    OBVIOUS
  <2>1. CASE DListNext
    BY <2>1, DListStep
  <2>2. CASE UNCHANGED dlistVars
    <3>1. PICK len, at : DIsNow(len, at)
      BY DEF DListInv, DIsNow
    <3>2. PICK rows : rows = DRowsOf(dnodes, len, at)
      OBVIOUS
    <3>3. DIsNext(len, at) /\ DRowsOf(dnodes', len, at) = rows /\ dres' = dres
      BY <2>2, <3>1, <3>2 DEF DIsNow, DIsNext, dlistVars
    <3>4. [l \in DListId |-> DValues(l)] = rows /\ [l \in DListId |-> DValues(l)]' = rows
      BY <3>1, <3>2, <3>3, DSeqsNow, DSeqsNext
    <3> QED BY <3>3, <3>4, DNextIsInv
  <2> QED BY <2>1, <2>2
<1>2. DListInv => \A l \in DListId : DNavigable(l)
  BY DRowNavigable
<1>3. DListInv => [\A l \in DListId : DAtItsEnd(l)]_dlistVars
  BY DEndsAreRight
<1> QED BY <1>1, <1>2, <1>3, DListInitInv, PTL DEF DListSpec, DListsAreSequences, DS!Spec
=============================================================================
